--------------------------- MODULE ResponsesProofs ---------------------------
(***************************************************************************)
(* Proofs about responses: the header map of an exchange (CurlTransfer),   *)
(* the frame of a gRPC message (GrpcFrame) for any base, what a call       *)
(* returns (Responses), and of the reader of JSON documents (Json) that it *)
(* accepts documents of the grammar only, with the values they stand for,  *)
(* and refuses none of them (JsonGrammar), for every alphabet and any      *)
(* length.                                                                 *)
(***************************************************************************)
EXTENDS Responses, WellFoundedInduction, SequenceTheorems, TLAPS

-----------------------------------------------------------------------------
(* Numbers and texts.                                                      *)

\* Every set of natural numbers that is not empty has a least element.
LEMMA LeastNatural ==
  ASSUME NEW T, T \subseteq Nat, T # {}
  PROVE  \E x \in T : \A y \in T : x <= y
<1> DEFINE less == OpToRel(<, Nat)
<1>1. \A x, y \in Nat : y < x => <<y, x>> \in less
  BY DEF OpToRel
<1>2. IsWellFoundedOn(less, Nat)
  BY NatLessThanWellFounded
<1> HIDE DEF less
<1>3. PICK x \in T : \A y \in T : ~ (<<y, x>> \in less)
  BY <1>2, WFMin
<1>4. ASSUME NEW y \in T PROVE x <= y
  <2>1. x \in Nat /\ y \in Nat /\ ~ (y < x)
    BY <1>1, <1>3
  <2> QED
    BY <2>1
<1> QED
  BY <1>4

\* A set of positions that is not empty has a last one.
LEMMA GreatestNumber ==
  ASSUME NEW n \in Nat, NEW T, T \subseteq 1..n, T # {}
  PROVE  Max(T) \in T /\ \A y \in T : y <= Max(T)
<1> DEFINE distances == {n - x : x \in T}
<1>1. distances \subseteq Nat /\ distances # {}
  <2>1. \A x \in T : n - x \in Nat
    OBVIOUS
  <2> QED
    BY <2>1
<1>2. PICK d \in distances : \A e \in distances : d <= e
  BY <1>1, LeastNatural
<1>3. PICK x \in T : d = n - x
  OBVIOUS
<1>4. ASSUME NEW y \in T PROVE x >= y
  <2>1. n - x <= n - y
    BY <1>2, <1>3
  <2>2. x \in Int /\ y \in Int
    OBVIOUS
  <2> HIDE DEF distances
  <2> QED
    BY <2>1, <2>2
<1>5. Max(T) \in T /\ \A y \in T : Max(T) >= y
  BY <1>4 DEF Max
<1> QED
  BY <1>5

\* SelectLastInSeq finds the last line of a name, and 0 only if there is none.
LEMMA LastLine ==
  ASSUME NEW S, NEW s \in Seq(S), NEW name
  PROVE  LET i == SelectLastInSeq(s, LAMBDA l : l.name = name)
         IN  /\ i = 0 => \A k \in DOMAIN s : s[k].name # name
             /\ i # 0 => /\ i \in DOMAIN s
                         /\ s[i].name = name
                         /\ \A k \in DOMAIN s : k > i => s[k].name # name
<1> DEFINE places == {k \in 1..Len(s) : s[k].name = name}
           i == IF places # {} THEN Max(places) ELSE 0
<1>1. SelectLastInSeq(s, LAMBDA l : l.name = name) = i
  BY DEF SelectLastInSeq
<1>2. Len(s) \in Nat /\ DOMAIN s = 1..Len(s)
  OBVIOUS
<1>3. /\ i = 0 => \A k \in DOMAIN s : s[k].name # name
      /\ i # 0 => /\ i \in DOMAIN s
                  /\ s[i].name = name
                  /\ \A k \in DOMAIN s : k > i => s[k].name # name
  <2>1. CASE places = {}
    BY <1>2, <2>1
  <2>2. CASE places # {}
    <3>1. Max(places) \in places /\ \A y \in places : y <= Max(places)
      BY <1>2, <2>2, GreatestNumber
    <3>2. i = Max(places)
      BY <2>2
    <3>3. i \in DOMAIN s /\ s[i].name = name
      BY <1>2, <3>1, <3>2
    <3>4. ASSUME NEW k \in DOMAIN s, k > i PROVE s[k].name # name
      <4>1. k \in 1..Len(s) /\ ~(k <= i) /\ i \in 1..Len(s)
        BY <1>2, <3>3, <3>4
      <4>2. k \notin places
        BY <3>1, <3>2, <4>1
      <4> QED
        BY <4>1, <4>2
    <3>5. i # 0
      BY <1>2, <3>3
    <3> HIDE DEF i
    <3> QED
      BY <3>3, <3>4, <3>5
  <2> QED
    BY <2>1, <2>2
<1> HIDE DEF i
<1> QED
  BY <1>1, <1>3
\* Quotient and remainder.
LEMMA Division ==
  ASSUME NEW n \in Nat, NEW d \in Nat \ {0}
  PROVE  /\ n \div d \in Nat
         /\ n % d \in 0..(d - 1)
         /\ n = d * (n \div d) + (n % d)
OBVIOUS

\* A larger factor makes a product larger by a multiple of the other.
LEMMA ProductAbove ==
  ASSUME NEW d \in Nat \ {0}, NEW x \in Nat, NEW y \in Nat, x < y
  PROVE  d * x + d <= d * y
<1>1. PICK z \in Nat : y = x + 1 + z
  <2>1. y - x - 1 \in Nat /\ y = x + 1 + (y - x - 1)
    OBVIOUS
  <2> QED
    BY <2>1
<1>2. d * y = d * x + d + d * z
  BY <1>1
<1>3. d * z \in Nat /\ d * x \in Nat
  OBVIOUS
<1> QED
  BY <1>2, <1>3

\* Quotient and remainder are determined by the number.
LEMMA QuotientUnique ==
  ASSUME NEW d \in Nat \ {0}, NEW x \in Nat, NEW y \in Nat, NEW r \in 0..(d - 1), NEW t \in 0..(d - 1),
         d * x + r = d * y + t
  PROVE  x = y /\ r = t
<1>1. d * x \in Nat /\ d * y \in Nat
  OBVIOUS
<1>2. ~(x < y)
  <2> SUFFICES ASSUME x < y PROVE FALSE
    OBVIOUS
  <2>1. d * x + d <= d * y
    BY ProductAbove
  <2> QED
    BY <2>1, <1>1
<1>3. ~(y < x)
  <2> SUFFICES ASSUME y < x PROVE FALSE
    OBVIOUS
  <2>1. d * y + d <= d * x
    BY ProductAbove
  <2> QED
    BY <2>1, <1>1
<1>4. x = y
  BY <1>2, <1>3
<1> QED
  BY <1>4, <1>1

\* Dividing by a product is dividing by one factor after the other.
LEMMA DivisionTwice ==
  ASSUME NEW n \in Nat, NEW a \in Nat \ {0}, NEW b \in Nat \ {0}
  PROVE  n \div (a * b) = (n \div a) \div b
<1> DEFINE q == n \div a
           r == n % a
           u == q \div b
           v == q % b
           w == a * v + r
           ab == a * b
<1>1. q \in Nat /\ r \in 0..(a - 1) /\ n = a * q + r
  BY Division
<1>2. u \in Nat /\ v \in 0..(b - 1) /\ q = b * u + v
  BY <1>1, Division
<1>3. ab \in Nat \ {0}
  OBVIOUS
<1>4. n \div ab \in Nat /\ n % ab \in 0..(ab - 1) /\ n = ab * (n \div ab) + (n % ab)
  BY <1>3, Division
<1> HIDE DEF q, r, u, v
<1>5. n = ab * u + w
  BY <1>1, <1>2
<1>6. w \in 0..(ab - 1)
  <2>1. a * v + a <= a * b
    BY <1>2, ProductAbove
  <2>2. a * v \in Nat
    BY <1>2
  <2> QED
    BY <2>1, <2>2, <1>1
<1> HIDE DEF ab, w
<1>7. n \div ab = u
  BY <1>2, <1>3, <1>4, <1>5, <1>6, QuotientUnique
<1> QED
  BY <1>7 DEF ab, u, q

\* Concatenation is associative.
Associates == \A x, y, z \in Seq(Nat) : (x \o y) \o z = x \o (y \o z)

\* That holds for all texts.
LEMMA Associative == Associates
BY SMTT(60) DEF Associates

\* The same for three texts that are given.
LEMMA Regrouped ==
  ASSUME NEW x \in Seq(Nat), NEW y \in Seq(Nat), NEW z \in Seq(Nat)
  PROVE  (x \o y) \o z = x \o (y \o z)
BY Associative, Zenon DEF Associates

-----------------------------------------------------------------------------
(* Frames.                                                                 *)

\* The four bytes of a length are its digits: read back they yield the length.
LEMMA LengthDigits ==
  ASSUME NEW n \in Nat, n < Wrap
  PROVE  \E a, b, c, d \in 0..(Base - 1) :
           /\ LengthBytes(n) = <<a, b, c, d>>
           /\ a * Base * Base * Base + b * Base * Base + c * Base + d = n
<1> DEFINE square == Base * Base
           cube == Base * Base * Base
           q1 == n \div Base
           q2 == n \div square
           q3 == n \div cube
           d == n % Base
           c == q1 % Base
           b == q2 % Base
<1>1. Base \in Nat \ {0} /\ square \in Nat \ {0} /\ cube \in Nat \ {0}
  BY BaseAssumption
<1>2. q1 \in Nat /\ d \in 0..(Base - 1) /\ n = Base * q1 + d
  BY <1>1, Division
<1>3. q2 = q1 \div Base
  BY <1>1, DivisionTwice
<1>4. q3 = q2 \div Base
  <2>1. cube = square * Base
    OBVIOUS
  <2> QED
    BY <1>1, <2>1, DivisionTwice
<1> HIDE DEF q1
<1>5. q2 \in Nat /\ c \in 0..(Base - 1) /\ q1 = Base * q2 + c
  BY <1>1, <1>2, <1>3, Division
<1> HIDE DEF q2
<1>6. q3 \in Nat /\ b \in 0..(Base - 1) /\ q2 = Base * q3 + b
  BY <1>1, <1>4, <1>5, Division
<1> HIDE DEF cube, d, c, b
<1> DEFINE rest == n % cube
<1>7. rest \in Nat /\ n = cube * q3 + rest
  BY <1>1, Division
<1> HIDE DEF q3, rest
<1>8. q3 < Base
  <2> SUFFICES ASSUME ~(q3 < Base) PROVE FALSE
    OBVIOUS
  <2>1. cube * Base <= cube * q3
    <3>1. CASE q3 = Base
      BY <3>1, <1>1
    <3>2. CASE Base < q3
      <4>1. cube * Base + cube <= cube * q3
        BY <1>1, <1>6, <3>2, ProductAbove
      <4>2. cube * Base \in Nat /\ cube * q3 \in Nat
        BY <1>1, <1>6
      <4> QED
        BY <4>1, <4>2, <1>1
    <3> QED
      BY <3>1, <3>2, <1>1, <1>6
  <2>2. cube * Base = Wrap /\ Wrap \in Nat
    BY <1>1 DEF Wrap, cube
  <2>3. cube * q3 \in Nat
    BY <1>1, <1>6
  <2> QED
    BY <2>1, <2>2, <2>3, <1>7
<1>9. q3 % Base = q3
  BY <1>1, <1>6, <1>8
<1>10. LengthBytes(n) = <<q3, b, c, d>>
  BY <1>9 DEF LengthBytes, q3, q2, q1, b, c, d, cube
<1>11. n = Base * (Base * (Base * q3 + b) + c) + d
  BY <1>2, <1>5, <1>6
<1>12. q3 * Base * Base * Base + b * Base * Base + c * Base + d = n
  BY <1>11, <1>1, <1>2, <1>5, <1>6
<1>13. q3 \in 0..(Base - 1)
  BY <1>1, <1>6, <1>8
<1> QED
  BY <1>2, <1>5, <1>6, <1>10, <1>12, <1>13

\* Reducing a number that fits changes nothing.
LEMMA SmallModulo ==
  ASSUME NEW d \in Nat \ {0}, NEW n \in Nat, n < d
  PROVE  n % d = n
OBVIOUS

\* A frame: the mark, the four digits of the length, the message.
LEMMA FrameShape ==
  ASSUME NEW Byte, NEW m \in Seq(Byte), Len(m) < Wrap
  PROVE  LET f == Frame(m)
         IN  /\ Len(f) = 5 + Len(m)
             /\ f[1] = 0
             /\ DeclaredLength(f) = Len(m)
             /\ \A k \in 1..Len(m) : f[5 + k] = m[k]
<1> DEFINE n == Len(m)
<1>1. n \in Nat /\ n < Wrap
  OBVIOUS
<1>2. Wrap \in Nat \ {0}
  BY BaseAssumption DEF Wrap
<1>3. n % Wrap = n
  <2> HIDE DEF n
  <2> QED
    BY <1>1, <1>2, SmallModulo
<1>4. PICK a, b, c, d \in 0..(Base - 1) :
        /\ LengthBytes(n) = <<a, b, c, d>>
        /\ a * Base * Base * Base + b * Base * Base + c * Base + d = n
  <2> HIDE DEF n
  <2> QED
    BY <1>1, LengthDigits
<1> DEFINE digits == <<a, b, c, d>>
           head == <<0>> \o digits
<1>5. Frame(m) = head \o m
  BY <1>3, <1>4 DEF Frame
<1>6. digits \in Seq(Nat) /\ Len(digits) = 4
  BY BaseAssumption
<1>7. /\ head \in Seq(Nat) /\ Len(head) = 5
      /\ head[1] = 0 /\ head[2] = a /\ head[3] = b /\ head[4] = c /\ head[5] = d
  BY <1>6
<1> HIDE DEF head
<1>8. /\ Len(head \o m) = 5 + n
      /\ \A k \in 1..5 : (head \o m)[k] = head[k]
      /\ \A k \in 1..n : (head \o m)[5 + k] = m[k]
  <2> DEFINE both == Nat \cup Byte
  <2>1. head \in Seq(both) /\ m \in Seq(both)
    <3>1. Seq(Nat) \subseteq Seq(both) /\ Seq(Byte) \subseteq Seq(both)
      BY SeqMonotonic
    <3> QED
      BY <1>7, <3>1
  <2> HIDE DEF both
  <2>2. /\ Len(head \o m) = Len(head) + Len(m)
        /\ \A k \in 1..Len(head) + Len(m) :
             (head \o m)[k] = IF k <= Len(head) THEN head[k] ELSE m[k - Len(head)]
    BY <2>1, ConcatProperties
  <2>3. ASSUME NEW k \in 1..n PROVE (head \o m)[5 + k] = m[k]
    <3>1. 5 + k \in 1..(5 + n) /\ ~(5 + k <= 5) /\ (5 + k) - 5 = k
      BY <1>1
    <3> QED
      BY <1>7, <2>2, <3>1
  <2>4. ASSUME NEW k \in 1..5 PROVE (head \o m)[k] = head[k]
    <3>1. k \in 1..(5 + n) /\ k <= 5
      BY <1>1
    <3> QED
      BY <1>7, <2>2, <3>1
  <2> QED
    BY <1>7, <2>2, <2>3, <2>4
<1>9. DeclaredLength(head \o m) = n
  <2>1. (head \o m)[2] = a /\ (head \o m)[3] = b /\ (head \o m)[4] = c /\ (head \o m)[5] = d
    BY <1>7, <1>8
  <2> HIDE DEF n
  <2> QED
    BY <1>4, <2>1 DEF DeclaredLength
<1>10. (head \o m)[1] = 0
  BY <1>7, <1>8
<1> QED
  BY <1>5, <1>8, <1>9, <1>10

\* A byte of a body.
Byte == 0..(Base - 1)

\* part has arrived of the frame of m, and left has not.
Arrived(part, left, m) ==
  /\ m \in Seq(Byte) /\ part \in Seq(Byte) /\ left \in Seq(Byte)
  /\ 5 + Len(m) < Wrap
  /\ part \o left = Frame(m)

\* A frame that arrived in full yields the message, and a part of one an error.
LEMMA UnframePart ==
  ASSUME NEW m, NEW part, NEW left, Arrived(part, left, m)
  PROVE  /\ left = <<>> => Unframe(part) = Payload(m)
         /\ left # <<>> => Unframe(part) = Failure(860) \/ Unframe(part) = Failure(862)
<1> DEFINE n == Len(m)
           size == Len(part)
           remaining == Len(left)
<1>0. m \in Seq(Byte) /\ part \in Seq(Byte) /\ left \in Seq(Byte) /\ 5 + Len(m) < Wrap
      /\ part \o left = Frame(m)
  BY DEF Arrived
<1>1. n \in Nat /\ size \in Nat /\ remaining \in Nat /\ 5 + n < Wrap /\ Wrap \in Nat \ {0}
  BY <1>0, BaseAssumption DEF Wrap
<1>2. n < Wrap
  <2> HIDE DEF n, size, remaining
  <2> QED
    BY <1>1
<1>3. /\ Len(Frame(m)) = 5 + n
      /\ Frame(m)[1] = 0
      /\ DeclaredLength(Frame(m)) = n
      /\ \A k \in 1..n : Frame(m)[5 + k] = m[k]
  BY <1>0, <1>2, FrameShape
<1>4. /\ Len(part \o left) = size + remaining
      /\ \A k \in 1..size : (part \o left)[k] = part[k]
  BY <1>0
<1>5. /\ 5 + n = size + remaining
      /\ \A k \in 1..size : part[k] = Frame(m)[k]
  BY <1>0, <1>3, <1>4
<1>6. left = <<>> <=> remaining = 0
  BY <1>0, EmptySeq
<1>7. (5 + n) % Wrap = 5 + n
  <2> HIDE DEF n, size, remaining
  <2> QED
    BY <1>1, SmallModulo
<1>8. CASE size < 5
  <2>1. remaining # 0
    <3> HIDE DEF n, size, remaining
    <3> QED
      BY <1>1, <1>5, <1>8
  <2> QED
    BY <1>6, <1>8, <2>1 DEF Unframe
<1>9. CASE ~(size < 5)
  <2>1. \A k \in 1..5 : part[k] = Frame(m)[k]
    <3>1. \A k \in 1..5 : k \in 1..size
      <4> HIDE DEF n, size, remaining
      <4> QED
        BY <1>1, <1>9
    <3> QED
      BY <1>5, <3>1
  <2>2. part[1] = 0 /\ DeclaredLength(part) = n
    BY <1>3, <2>1 DEF DeclaredLength
  <2>3. Unframe(part) = IF size < (5 + n) % Wrap THEN Failure(862)
                        ELSE IF size < 5 + n THEN Undefined
                        ELSE Payload(SubSeq(part, 6, 5 + n))
    BY <1>9, <2>2 DEF Unframe
  <2>4. CASE remaining # 0
    <3>1. size < 5 + n
      <4> HIDE DEF n, size, remaining
      <4> QED
        BY <1>1, <1>5, <2>4
    <3> QED
      BY <1>6, <1>7, <2>3, <2>4, <3>1
  <2>5. CASE remaining = 0
    <3>1. size = 5 + n
      <4> HIDE DEF n, size, remaining
      <4> QED
        BY <1>1, <1>5, <2>5
    <3>2. Unframe(part) = Payload(SubSeq(part, 6, 5 + n))
      BY <1>1, <1>7, <2>3, <3>1
    <3>3. SubSeq(part, 6, 5 + n) = m
      <4>1. \A k \in 1..n : part[5 + k] = m[k]
        <5> SUFFICES ASSUME NEW k \in 1..n PROVE part[5 + k] = m[k]
          OBVIOUS
        <5>1. 5 + k \in 1..size
          BY <3>1, <1>1
        <5> QED
          BY <5>1, <1>3, <1>5
      <4>2. SubSeq(part, 6, 5 + n) = [k \in 1..n |-> part[5 + k]]
        BY <1>0, <1>1, <3>1
      <4>3. m = [k \in 1..n |-> m[k]]
        BY <1>0
      <4> QED
        BY <4>1, <4>2, <4>3
    <3> QED
      BY <1>6, <2>5, <3>2, <3>3
  <2> QED
    BY <2>4, <2>5
<1> QED
  BY <1>8, <1>9

-----------------------------------------------------------------------------
\* The last line of each name in the current hop is what the map holds.
LinesFiled ==
  \A k \in DOMAIN lines :
    (\A j \in DOMAIN lines : j > k => lines[j].name # lines[k].name) =>
      /\ lines[k].name \in DOMAIN fields
      /\ fields[lines[k].name] = lines[k].value

\* Before the second hop the map holds nothing but lines of this hop.
FieldsOfOneHop ==
  hops = 1 => \A name \in DOMAIN fields : \E k \in DOMAIN lines : lines[k].name = name

\* The exchange: what arrived and what is to come make up what was sent, and
\* the result is what was received.
TransferInv ==
  /\ stage \in {"head", "done", "broken"}
  /\ hops \in Nat \ {0}
  /\ lines \in Seq([name : Names, value : Values])
  /\ body \in Seq(Byte) /\ sending \in Seq(Byte) /\ body \o sending = sent
  /\ LinesFiled
  /\ FieldsOfOneHop
  /\ stage = "done" => \E status \in Statuses : result = Response(status)
  /\ stage = "broken" => \E rc \in CurlCodes : result = TransportError(rc)

\* Where a reply comes from.
ReplyInv ==
  \/ reply = None
  \/ stage = "broken" /\ reply = result
  \/ stage = "done" /\ caller = "native" /\ reply = NativeReply(result)
  \/ stage = "done" /\ caller = "json" /\ DOMAIN reply \in {{"code"}, {"json"}}

IInv == TransferInv /\ ReplyInv

\* The exchange begins with nothing filed and the whole body to come.
LEMMA InitInv == Init => IInv
<1> SUFFICES ASSUME Init PROVE IInv
  OBVIOUS
<1>1. stage = "head" /\ hops = 1 /\ lines = <<>> /\ sent \in Bodies /\ sending = sent
      /\ fields = <<>> /\ body = <<>>
  BY DEF Init, TransferInit
<1>2. sent \in Seq(Byte)
  BY <1>1, ResponsesAssumption DEF Byte
<1>3. body \in Seq(Byte) /\ body \o sending = sent
  BY <1>1, <1>2
<1>4. LinesFiled /\ FieldsOfOneHop
  BY <1>1 DEF LinesFiled, FieldsOfOneHop
<1>5. lines \in Seq([name : Names, value : Values])
  BY <1>1
<1>6. TransferInv
  BY <1>1, <1>2, <1>3, <1>4, <1>5 DEF TransferInv
<1> QED
  BY <1>6 DEF IInv, ReplyInv, Init

\* A line is filed over an earlier one of its name, and leaves the others alone.
LEMMA HeaderLineInv ==
  ASSUME TransferInv, NEW name \in Names, NEW value \in Values, HeaderLine(name, value)
  PROVE  TransferInv'
<1> DEFINE Line == [name : Names, value : Values]
           line == [name |-> name, value |-> value]
           n == Len(lines)
<1>1. lines \in Seq(Line) /\ line \in Line /\ n \in Nat /\ DOMAIN lines = 1..n
  BY DEF TransferInv
<1>2. /\ lines' \in Seq(Line)
      /\ DOMAIN lines' = 1..(n + 1)
      /\ \A k \in 1..n : lines'[k] = lines[k]
      /\ lines'[n + 1] = line
  <2>1. lines' = Append(lines, line)
    BY DEF HeaderLine
  <2> HIDE DEF line
  <2> QED
    BY <1>1, <2>1, AppendProperties
<1>3. fields' = Filed(name, value)
  BY DEF HeaderLine
<1>4. /\ DOMAIN fields' = DOMAIN fields \cup {name}
      /\ fields'[name] = value
      /\ \A other \in DOMAIN fields : other # name => fields'[other] = fields[other]
  BY <1>3 DEF Filed
<1>5. LinesFiled'
  <2> SUFFICES ASSUME NEW k \in DOMAIN lines',
                      \A j \in DOMAIN lines' : j > k => lines'[j].name # lines'[k].name
               PROVE  /\ lines'[k].name \in DOMAIN fields'
                      /\ fields'[lines'[k].name] = lines'[k].value
    BY DEF LinesFiled
  <2>1. CASE k = n + 1
    BY <1>2, <1>4, <2>1
  <2>2. CASE k # n + 1
    <3>1. k \in 1..n /\ n + 1 > k /\ n + 1 \in DOMAIN lines'
      <4> HIDE DEF n
      <4> QED
        BY <1>1, <1>2, <2>2
    <3>2. lines'[k] = lines[k] /\ lines[k].name # name
      BY <1>2, <3>1
    <3>3. \A j \in DOMAIN lines : j > k => lines[j].name # lines[k].name
      <4> SUFFICES ASSUME NEW j \in DOMAIN lines, j > k PROVE lines[j].name # lines[k].name
        OBVIOUS
      <4>1. j \in 1..n /\ j \in DOMAIN lines'
        <5> HIDE DEF n
        <5> QED
          BY <1>1, <1>2
      <4> QED
        BY <1>2, <3>2, <4>1
    <3>4. /\ lines[k].name \in DOMAIN fields
          /\ fields[lines[k].name] = lines[k].value
      BY <1>1, <3>1, <3>3 DEF TransferInv, LinesFiled
    <3> QED
      BY <1>4, <3>2, <3>4
  <2> QED
    BY <2>1, <2>2
<1>6. FieldsOfOneHop'
  <2> SUFFICES ASSUME hops' = 1, NEW other \in DOMAIN fields'
               PROVE  \E k \in DOMAIN lines' : lines'[k].name = other
    BY DEF FieldsOfOneHop
  <2>1. n + 1 \in DOMAIN lines'
    BY <1>1, <1>2
  <2>2. CASE other = name
    BY <1>2, <2>1, <2>2
  <2>3. CASE other # name
    <3>1. other \in DOMAIN fields /\ hops = 1
      BY <1>4, <2>3 DEF HeaderLine
    <3>2. PICK k \in DOMAIN lines : lines[k].name = other
      BY <3>1 DEF TransferInv, FieldsOfOneHop
    <3>3. k \in 1..n /\ k \in DOMAIN lines'
      BY <1>1, <1>2
    <3> QED
      BY <1>2, <3>2, <3>3
  <2> QED
    BY <2>2, <2>3
<1>7. /\ stage = "head" /\ stage' = "head" /\ hops' = hops
      /\ body' = body /\ sending' = sending /\ sent' = sent
  BY DEF HeaderLine
<1> QED
  BY <1>2, <1>5, <1>6, <1>7 DEF TransferInv

\* A hop begins without lines; what the map holds is then not from one hop.
LEMMA NextHopInv == ASSUME TransferInv, NextHop PROVE TransferInv'
<1>1. /\ stage = "head" /\ stage' = "head" /\ hops' = hops + 1 /\ lines' = <<>>
      /\ body' = body /\ sending' = sending /\ sent' = sent /\ fields' = fields
  BY DEF NextHop
<1>2. hops' \in Nat \ {0} /\ hops' # 1
  BY <1>1 DEF TransferInv
<1>3. lines' \in Seq([name : Names, value : Values]) /\ DOMAIN lines' = {}
  BY <1>1
<1>4. LinesFiled' /\ FieldsOfOneHop'
  BY <1>2, <1>3 DEF LinesFiled, FieldsOfOneHop
<1> QED
  BY <1>1, <1>2, <1>3, <1>4 DEF TransferInv

\* A piece moves from what is to come to what has come.
LEMMA BodyPieceInv ==
  ASSUME TransferInv, NEW n \in 1..Len(sending), BodyPiece(n)
  PROVE  TransferInv'
<1> DEFINE piece == SubSeq(sending, 1, n)
           left == SubSeq(sending, n + 1, Len(sending))
<1>1. /\ stage = "head" /\ stage' = "head" /\ hops' = hops /\ lines' = lines
      /\ body' = body \o piece /\ sending' = left /\ sent' = sent /\ fields' = fields
  BY DEF BodyPiece
<1>2. body \in Seq(Byte) /\ sending \in Seq(Byte) /\ body \o sending = sent
  BY DEF TransferInv
<1>3. piece \in Seq(Byte) /\ left \in Seq(Byte) /\ piece \o left = sending
  BY <1>2
<1>4. (body \o piece) \o left = body \o (piece \o left)
  <2> HIDE DEF piece, left
  <2> QED
    <3>1. Byte \subseteq Nat
      BY BaseAssumption DEF Byte
    <3>2. body \in Seq(Nat) /\ piece \in Seq(Nat) /\ left \in Seq(Nat)
      BY <1>2, <1>3, <3>1, SeqMonotonic
    <3> QED
      BY <3>2, Regrouped
<1>5. body \o piece \in Seq(Byte)
  <2> HIDE DEF piece
  <2> QED
    BY <1>2, <1>3
<1>6. LinesFiled' /\ FieldsOfOneHop'
  BY <1>1 DEF LinesFiled, FieldsOfOneHop, TransferInv
<1> HIDE DEF piece, left
<1> QED
  BY <1>1, <1>2, <1>3, <1>4, <1>5, <1>6 DEF TransferInv

\* The response that is returned holds the map and the body as they are.
LEMMA CompletedInv ==
  ASSUME TransferInv, NEW status \in Statuses, Completed(status)
  PROVE  TransferInv'
<1>1. /\ stage' = "done" /\ result' = Response(status) /\ hops' = hops /\ lines' = lines
      /\ body' = body /\ sending' = sending /\ sent' = sent /\ fields' = fields
  BY DEF Completed
<1>2. result' = Response(status)'
  BY <1>1 DEF Response
<1>3. LinesFiled' /\ FieldsOfOneHop'
  BY <1>1 DEF LinesFiled, FieldsOfOneHop, TransferInv
<1> QED
  BY <1>1, <1>2, <1>3 DEF TransferInv

\* A broken exchange returns an error of the transport.
LEMMA BrokenInv ==
  ASSUME TransferInv, NEW rc \in CurlCodes, Broken(rc)
  PROVE  TransferInv'
<1>1. /\ stage' = "broken" /\ result' = TransportError(rc) /\ hops' = hops /\ lines' = lines
      /\ body' = body /\ sending' = sending /\ sent' = sent /\ fields' = fields
  BY DEF Broken
<1>2. LinesFiled' /\ FieldsOfOneHop'
  BY <1>1 DEF LinesFiled, FieldsOfOneHop, TransferInv
<1> QED
  BY <1>1, <1>2 DEF TransferInv

\* A step that leaves the exchange alone keeps what is known of it.
LEMMA SameTransfer == ASSUME TransferInv, UNCHANGED transferVars PROVE TransferInv'
<1>1. LinesFiled' /\ FieldsOfOneHop'
  BY DEF transferVars, LinesFiled, FieldsOfOneHop, TransferInv
<1>2. \A status : Response(status)' = Response(status)
  BY DEF transferVars, Response
<1> QED
  BY <1>1, <1>2 DEF transferVars, TransferInv

\* Every step keeps the invariant.
LEMMA StepInv == IInv /\ [Next]_vars => IInv'
<1> SUFFICES ASSUME IInv, [Next]_vars PROVE IInv'
  OBVIOUS
<1>1. CASE Receive
  <2>1. stage = "head" /\ TransferNext /\ reply' = reply
    BY <1>1 DEF Receive
  <2>2. TransferInv'
    BY <2>1, HeaderLineInv, NextHopInv, BodyPieceInv, CompletedInv, BrokenInv
       DEF TransferNext, IInv
  <2>3. reply = None
    BY <2>1 DEF IInv, ReplyInv
  <2> QED
    BY <2>1, <2>2, <2>3 DEF IInv, ReplyInv
<1>2. CASE PassError
  <2>1. TransferInv'
    BY <1>2, SameTransfer DEF PassError, IInv
  <2> QED
    BY <1>2, <2>1 DEF PassError, IInv, ReplyInv, transferVars
<1>3. CASE DecodeNative
  <2>1. TransferInv'
    BY <1>3, SameTransfer DEF DecodeNative, IInv
  <2>2. /\ stage' = "done" /\ caller' = "native" /\ result' = result
        /\ reply' = NativeReply(result)
    BY <1>3 DEF DecodeNative, transferVars
  <2> QED
    BY <2>1, <2>2 DEF IInv, ReplyInv
<1>4. CASE RefuseStatus
  <2>1. TransferInv'
    BY <1>4, SameTransfer DEF RefuseStatus, IInv
  <2>2. /\ stage' = "done" /\ caller' = "json"
        /\ reply' = Failure(result.status)
    BY <1>4 DEF RefuseStatus, transferVars
  <2>3. DOMAIN reply' = {"code"}
    BY <2>2 DEF Failure
  <2> QED
    BY <2>1, <2>2, <2>3 DEF IInv, ReplyInv
<1>5. CASE ReadJson
  <2>1. TransferInv'
    BY <1>5, SameTransfer DEF ReadJson, IInv
  <2>2. /\ stage' = "done" /\ caller' = "json"
        /\ reply' = IF Accepted(p') THEN [json |-> p'.value]
                    ELSE IF Stopped(p') THEN Failure(700) ELSE None
    BY <1>5 DEF ReadJson, transferVars
  <2>3. reply' = None \/ DOMAIN reply' \in {{"code"}, {"json"}}
    BY <2>2 DEF Failure
  <2> QED
    BY <2>1, <2>2, <2>3 DEF IInv, ReplyInv
<1>6. CASE UNCHANGED vars
  <2>1. TransferInv'
    BY <1>6, SameTransfer DEF vars, IInv
  <2> QED
    BY <1>6, <2>1 DEF vars, transferVars, IInv, ReplyInv
<1> QED
  BY <1>1, <1>2, <1>3, <1>4, <1>5, <1>6 DEF Next

\* The invariant holds in every reachable state of exchanges and replies.
THEOREM ResponsesInvariant == Spec => []IInv
BY InitInv, StepInv, PTL DEF Spec

-----------------------------------------------------------------------------
\* The place of the last line of a name in the final response, or 0.
LastPlace(name) == SelectLastInSeq(lines, LAMBDA l : l.name = name)

\* The last line of a name in the final response is what the map holds.
LEMMA LastLineFiled ==
  ASSUME TransferInv, NEW name
  PROVE  /\ LastPlace(name) # 0 =>
              /\ LastPlace(name) \in DOMAIN lines
              /\ lines[LastPlace(name)] \in [name : Names, value : Values]
              /\ name \in DOMAIN fields
              /\ fields[name] = lines[LastPlace(name)].value
         /\ LastPlace(name) = 0 /\ hops = 1 => name \notin DOMAIN fields
<1> DEFINE i == LastPlace(name)
<1>1. lines \in Seq([name : Names, value : Values])
  BY DEF TransferInv
<1>2. /\ i = 0 => \A k \in DOMAIN lines : lines[k].name # name
      /\ i # 0 => /\ i \in DOMAIN lines
                  /\ lines[i].name = name
                  /\ \A k \in DOMAIN lines : k > i => lines[k].name # name
  BY <1>1, LastLine DEF LastPlace
<1> HIDE DEF i
<1>3. i # 0 => name \in DOMAIN fields /\ fields[name] = lines[i].value
  BY <1>2 DEF TransferInv, LinesFiled
<1>4. i = 0 /\ hops = 1 => name \notin DOMAIN fields
  BY <1>2 DEF TransferInv, FieldsOfOneHop
<1>5. i # 0 => i \in DOMAIN lines /\ lines[i] \in [name : Names, value : Values]
  <2>1. \A k \in DOMAIN lines : lines[k] \in [name : Names, value : Values]
    <3> DEFINE Line == [name : Names, value : Values]
    <3> HIDE DEF Line
    <3>1. lines \in Seq(Line)
      BY <1>1 DEF Line
    <3>2. \A k \in DOMAIN lines : lines[k] \in Line
      BY <3>1
    <3> QED
      BY <3>2 DEF Line
  <2> QED
    BY <1>2, <2>1
<1> QED
  BY <1>3, <1>4, <1>5 DEF i

\* A completed exchange returns the map and the body that were received.
LEMMA ResultOfDone ==
  ASSUME TransferInv, stage = "done"
  PROVE  result.fields = fields /\ result.body = body
BY DEF TransferInv, Response

\* Whatever lines the hops of an exchange have, and however many, the caller
\* reads a header field as the last line of the final response has it.
THEOREM FieldsAreFinal == Spec => []FinalHopRules
<1>1. IInv => FinalHopRules
  <2> SUFFICES ASSUME IInv, NEW name \in Names
               PROVE  LET i == SelectLastInSeq(lines, LAMBDA l : l.name = name)
                      IN  stage = "done" /\ i # 0 => result.fields[name] = lines[i].value
    BY DEF FinalHopRules
  <2>1. LastPlace(name) # 0 => fields[name] = lines[LastPlace(name)].value
    BY LastLineFiled DEF IInv
  <2>2. stage = "done" /\ LastPlace(name) # 0 =>
          result.fields[name] = lines[LastPlace(name)].value
    BY <2>1, ResultOfDone DEF IInv
  <2> QED
    BY <2>2 DEF LastPlace
<1> QED
  BY <1>1, ResponsesInvariant, PTL

\* What the two kinds of callers can return, as far as payloads go.
LEMMA PayloadOnlyNative ==
  ASSUME IInv
  PROVE  \/ reply # Undefined /\ Payloads(reply) = {}
         \/ stage = "done" /\ caller = "native" /\ reply = NativeReply(result)
<1>1. CASE reply = None
  <2>1. DOMAIN reply = {"none"}
    BY <1>1 DEF None
  <2>2. DOMAIN Undefined = {"undefined"}
    BY DEF Undefined
  <2> QED
    BY <2>1, <2>2 DEF Payloads
<1>2. CASE stage = "broken" /\ reply = result
  <2>1. PICK rc \in CurlCodes : reply = TransportError(rc)
    BY <1>2 DEF IInv, TransferInv
  <2>2. DOMAIN reply = {"rc", "retryable"}
    BY <2>1 DEF TransportError
  <2>3. DOMAIN Undefined = {"undefined"}
    BY DEF Undefined
  <2> QED
    BY <2>2, <2>3 DEF Payloads
<1>3. CASE stage = "done" /\ caller = "json" /\ DOMAIN reply \in {{"code"}, {"json"}}
  <2>1. DOMAIN Undefined = {"undefined"}
    BY DEF Undefined
  <2> QED
    BY <1>3, <2>1 DEF Payloads
<1> QED
  BY <1>1, <1>2, <1>3 DEF IInv, ReplyInv

\* An error carries no payload.
LEMMA FailureHasNoPayload ==
  ASSUME NEW code
  PROVE  Failure(code) # Undefined /\ Payloads(Failure(code)) = {}
<1>1. DOMAIN Failure(code) = {"code"} /\ DOMAIN Undefined = {"undefined"}
  BY DEF Failure, Undefined
<1> QED
  BY <1>1 DEF Payloads

\* A payload is the message it was made from.
LEMMA PayloadOf ==
  ASSUME NEW m
  PROVE  Payload(m) # Undefined /\ Payloads(Payload(m)) = {m}
<1>1. DOMAIN Payload(m) = {"payload"} /\ DOMAIN Undefined = {"undefined"} /\ Payload(m).payload = m
  BY DEF Payload, Undefined
<1> QED
  BY <1>1 DEF Payloads

\* A native call that succeeds returns the whole message, however the body was
\* cut into pieces and wherever the connection broke.
THEOREM PayloadCorrect == Spec => []PayloadIntact
<1>1. IInv => PayloadIntact
  <2> SUFFICES ASSUME IInv, NEW m \in Messages, sent = Frame(m), 5 + Len(m) < Wrap
               PROVE  reply # Undefined /\ Payloads(reply) \subseteq {m}
    BY DEF PayloadIntact
  <2>1. CASE reply # Undefined /\ Payloads(reply) = {}
    BY <2>1
  <2>2. CASE stage = "done" /\ caller = "native" /\ reply = NativeReply(result)
    <3>1. result.body = body
      BY <2>2, ResultOfDone DEF IInv
    <3>2. Arrived(body, sending, m)
      BY ResponsesAssumption DEF IInv, TransferInv, Byte, Arrived
    <3>3. \/ Unframe(body) = Payload(m)
          \/ Unframe(body) = Failure(860)
          \/ Unframe(body) = Failure(862)
      BY <3>2, UnframePart
    <3>4. \/ reply = Failure(result.status) \/ reply = Failure(865) \/ reply = Unframe(body)
      BY <2>2, <3>1 DEF NativeReply
    <3>5. reply = Payload(m) \/ \E code : reply = Failure(code)
      BY <3>3, <3>4
    <3> QED
      BY <3>5, FailureHasNoPayload, PayloadOf
  <2> QED
    BY <2>1, <2>2, PayloadOnlyNative
<1> QED
  BY <1>1, ResponsesInvariant, PTL

\* A failure the server reports never looks like a success, and a message that
\* arrived in full with a good status is never lost.
THEOREM OutcomeCorrect == Spec => []OutcomeReported
<1>1. IInv => OutcomeReported
  <2> SUFFICES ASSUME IInv, caller = "native", stage = "done", reply # None
               PROVE  /\ result.status # 200 \/ LastStatus \notin {"0", "none"} => Payloads(reply) = {}
                      /\ \A m \in Messages :
                           /\ sent = Frame(m) /\ 5 + Len(m) < Wrap /\ sending = <<>>
                           /\ result.status = 200
                           /\ (LastStatus = "0" \/ (hops = 1 /\ LastStatus = "none"))
                           => Payloads(reply) = {m}
    BY DEF OutcomeReported
  <2> DEFINE i == LastPlace("grpc-status")
             refused == "grpc-status" \in DOMAIN fields /\ fields["grpc-status"] # "0"
  <2>1. /\ i # 0 => /\ lines[i] \in [name : Names, value : Values]
                    /\ "grpc-status" \in DOMAIN fields
                    /\ fields["grpc-status"] = lines[i].value
        /\ i = 0 /\ hops = 1 => "grpc-status" \notin DOMAIN fields
    BY LastLineFiled DEF IInv
  <2>2. LastStatus = IF i = 0 THEN "none" ELSE lines[i].value
    BY DEF LastStatus, LastPlace
  <2> HIDE DEF i
  <2>3. i # 0 => lines[i].value # "none"
    BY <2>1, ResponsesAssumption
  <2>4. LastStatus \notin {"0", "none"} => refused
    BY <2>1, <2>2
  <2>5. LastStatus = "0" \/ (hops = 1 /\ LastStatus = "none") => ~refused
    BY <2>1, <2>2, <2>3
  <2>6. reply = IF result.status # 200 THEN Failure(result.status)
                ELSE IF refused THEN Failure(865) ELSE Unframe(body)
    BY ResultOfDone DEF IInv, ReplyInv, NativeReply
  <2> HIDE DEF refused
  <2>7. result.status # 200 \/ LastStatus \notin {"0", "none"} => Payloads(reply) = {}
    BY <2>4, <2>6, FailureHasNoPayload
  <2>8. ASSUME NEW m \in Messages, sent = Frame(m), 5 + Len(m) < Wrap, sending = <<>>,
               result.status = 200,
               LastStatus = "0" \/ (hops = 1 /\ LastStatus = "none")
        PROVE  Payloads(reply) = {m}
    <3>1. Arrived(body, sending, m)
      BY <2>8, ResponsesAssumption DEF IInv, TransferInv, Byte, Arrived
    <3>2. Unframe(body) = Payload(m)
      BY <2>8, <3>1, UnframePart
    <3>3. reply = Payload(m)
      BY <2>5, <2>6, <2>8, <3>2
    <3> QED
      BY <3>3, PayloadOf
  <2> QED
    BY <2>7, <2>8
<1> QED
  BY <1>1, ResponsesInvariant, PTL

-----------------------------------------------------------------------------
(***************************************************************************)
(* The documents of JsonGrammar.  The grammar is tabulated by length with a *)
(* fold.  LevelAt and InsideAt are what the proofs use of that: each level *)
(* is made from those below it.                                            *)
(***************************************************************************)

Insides(A) == Tabulate(LAMBDA t, n : StringLevel(A, t, n), A.most)
Tables(A, strict) == Tabulate(LAMBDA t, n : JsonLevel(A, strict, Quoted(A), t, n), A.most)
Levels(A) == Tables(A, FALSE)

\* The greatest of a set of positions, and what is left without it.
LEMMA WithoutGreatest ==
  ASSUME NEW x \in Nat \ {0}, NEW s \in SUBSET (1..x), s # {}
  PROVE  /\ Max(s) \in s
         /\ s \ {Max(s)} \in SUBSET (1..(x - 1))
         /\ s \notin SUBSET (1..(x - 1)) => Max(s) = x
         /\ s = 1..x => s \ {Max(s)} = 1..(x - 1) /\ Max(s) = x
<1>1. Max(s) \in s /\ \A y \in s : y <= Max(s)
  BY GreatestNumber
<1>2. Max(s) \in 1..x
  BY <1>1
<1> DEFINE m == Max(s)
<1> HIDE DEF m
<1>3. ASSUME NEW y \in s \ {m} PROVE y \in 1..(x - 1)
  BY <1>1, <1>2, <1>3 DEF m
<1>4. s \notin SUBSET (1..(x - 1)) => m = x
  <2> SUFFICES ASSUME m # x PROVE \A y \in s : y \in 1..(x - 1)
    OBVIOUS
  <2>1. m < x
    BY <1>2 DEF m
  <2> QED
    BY <1>1, <1>2, <2>1 DEF m
<1>5. s = 1..x => s \ {m} = 1..(x - 1) /\ m = x
  BY <1>1, <1>2 DEF m
<1> QED
  BY <1>1, <1>3, <1>4, <1>5 DEF m

\* The table of the values and their parts grows by one level at a time.
LEMMA LevelsFold ==
  ASSUME NEW A, A.most \in Nat, NEW strict
  PROVE  \E f : /\ f[0] = <<>>
                /\ \A k \in 1..A.most : f[k] = Append(f[k - 1], JsonLevel(A, strict, Quoted(A), f[k - 1], k))
                /\ Tables(A, strict) = f[A.most]
<1> DEFINE n == A.most
           seq == [k \in 1..n |-> k]
           Step(y, k) == Append(y, JsonLevel(A, strict, Quoted(A), y, k))
           Solves(iter, S) == iter = [s \in SUBSET S |->
                       IF s = {} THEN <<>> ELSE Step(iter[s \ {Max(s)}], seq[Max(s)])]
           iter == CHOOSE iter : Solves(iter, DOMAIN seq)
<1>1. Tables(A, strict) = iter[DOMAIN seq]
  BY DEF Tables, Tabulate, FoldLeft, MapThenFoldSet
<1>2. n \in Nat /\ DOMAIN seq = 1..n /\ \A k \in 1..n : seq[k] = k
  OBVIOUS
<1> HIDE DEF n, seq, Step
<1> DEFINE Can(k) == \E it : Solves(it, 1..k)
<1>3. ASSUME NEW k \in Nat PROVE Can(k)
  <2> DEFINE T == {j \in Nat : ~ Can(j)}
  <2> SUFFICES ASSUME T # {} PROVE FALSE
    <3> HIDE DEF Can
    <3> QED
      OBVIOUS
  <2>1. PICK x \in T : \A y \in T : x <= y
    <3>1. T \subseteq Nat
      OBVIOUS
    <3> HIDE DEF T
    <3> QED
      BY <3>1, LeastNatural
  <2>2. x \in Nat /\ ~ Can(x)
    <3> HIDE DEF Can
    <3> QED
      OBVIOUS
  <2>3. CASE x = 0
    <3> DEFINE it == [s \in SUBSET (1..0) |-> <<>>]
    <3>1. 1..0 = {}
      OBVIOUS
    <3>2. Solves(it, 1..0)
      BY <3>1
    <3> QED
      BY <2>2, <2>3, <3>2
  <2>4. CASE x # 0
    <3>1. x - 1 \in Nat /\ Can(x - 1)
      <4> HIDE DEF Can
      <4> QED
        BY <2>1, <2>2, <2>4
    <3>2. PICK old : Solves(old, 1..(x - 1))
      BY <3>1
    <3> DEFINE it == [s \in SUBSET (1..x) |->
                        IF s \in SUBSET (1..(x - 1)) THEN old[s]
                        ELSE Step(old[s \ {Max(s)}], seq[Max(s)])]
    <3>3. ASSUME NEW s \in SUBSET (1..x)
          PROVE  it[s] = IF s = {} THEN <<>> ELSE Step(it[s \ {Max(s)}], seq[Max(s)])
      <4>1. CASE s = {}
        BY <3>2, <4>1
      <4>2. CASE s # {}
        <5>1. s \ {Max(s)} \in SUBSET (1..(x - 1))
          BY <2>2, <2>4, <4>2, WithoutGreatest
        <5>2. s \ {Max(s)} \in SUBSET (1..x)
          OBVIOUS
        <5>3. it[s \ {Max(s)}] = old[s \ {Max(s)}]
          BY <5>1, <5>2
        <5>4. CASE s \in SUBSET (1..(x - 1))
          BY <3>2, <4>2, <5>3, <5>4
        <5>5. CASE s \notin SUBSET (1..(x - 1))
          BY <4>2, <5>3, <5>5
        <5> QED
          BY <5>4, <5>5
      <4> QED
        BY <4>1, <4>2
    <3>4. it = [s \in SUBSET (1..x) |->
                  IF s = {} THEN <<>> ELSE Step(it[s \ {Max(s)}], seq[Max(s)])]
      <4>1. it = [s \in SUBSET (1..x) |-> it[s]]
        OBVIOUS
      <4> HIDE DEF it
      <4> QED
        BY <3>3, <4>1
    <3> QED
      BY <2>2, <3>4
  <2> QED
    BY <2>3, <2>4
<1>4. Solves(iter, 1..n)
  <2>1. \E it : Solves(it, 1..n)
    <3>1. Can(n)
      <4> HIDE DEF Can
      <4> QED
        BY <1>2, <1>3
    <3> QED
      BY <3>1
  <2> QED
    BY <1>2, <2>1
<1> HIDE DEF iter
<1> DEFINE f == [k \in 0..n |-> iter[1..k]]
<1>5. f[0] = <<>>
  <2>1. 1..0 = {} /\ 0 \in 0..n /\ {} \in SUBSET (1..n)
    BY <1>2
  <2> QED
    BY <1>4, <2>1
<1>6. ASSUME NEW k \in 1..n PROVE f[k] = Step(f[k - 1], k)
  <2>1. k \in Nat \ {0} /\ 1..k \in SUBSET (1..n) /\ 1..k # {} /\ k \in 0..n /\ k - 1 \in 0..n
    BY <1>2
  <2>2. (1..k) \ {Max(1..k)} = 1..(k - 1) /\ Max(1..k) = k
    <3> DEFINE s == 1..k
    <3>1. s \in SUBSET (1..k) /\ s # {} /\ s = 1..k
      BY <2>1
    <3> HIDE DEF s
    <3> QED
      BY <2>1, <3>1, WithoutGreatest
  <2>3. iter[1..k] = Step(iter[1..(k - 1)], seq[k])
    BY <1>4, <2>1, <2>2
  <2> QED
    BY <1>2, <2>1, <2>3
<1>7. Tables(A, strict) = f[n]
  BY <1>1, <1>2
<1> HIDE DEF f
<1>8. \A k \in 1..n : f[k] = Append(f[k - 1], JsonLevel(A, strict, Quoted(A), f[k - 1], k))
  BY <1>6 DEF Step
<1> QED
  BY <1>5, <1>7, <1>8 DEF n

\* The table of the insides of strings grows by one level at a time.
LEMMA InsidesFold ==
  ASSUME NEW A, A.most \in Nat
  PROVE  \E f : /\ f[0] = <<>>
                /\ \A k \in 1..A.most : f[k] = Append(f[k - 1], StringLevel(A, f[k - 1], k))
                /\ Insides(A) = f[A.most]
<1> DEFINE n == A.most
           seq == [k \in 1..n |-> k]
           Step(y, k) == Append(y, StringLevel(A, y, k))
           Solves(iter, S) == iter = [s \in SUBSET S |->
                       IF s = {} THEN <<>> ELSE Step(iter[s \ {Max(s)}], seq[Max(s)])]
           iter == CHOOSE iter : Solves(iter, DOMAIN seq)
<1>1. Insides(A) = iter[DOMAIN seq]
  BY DEF Insides, Tabulate, FoldLeft, MapThenFoldSet
<1>2. n \in Nat /\ DOMAIN seq = 1..n /\ \A k \in 1..n : seq[k] = k
  OBVIOUS
<1> HIDE DEF n, seq, Step
<1> DEFINE Can(k) == \E it : Solves(it, 1..k)
<1>3. ASSUME NEW k \in Nat PROVE Can(k)
  <2> DEFINE T == {j \in Nat : ~ Can(j)}
  <2> SUFFICES ASSUME T # {} PROVE FALSE
    <3> HIDE DEF Can
    <3> QED
      OBVIOUS
  <2>1. PICK x \in T : \A y \in T : x <= y
    <3>1. T \subseteq Nat
      OBVIOUS
    <3> HIDE DEF T
    <3> QED
      BY <3>1, LeastNatural
  <2>2. x \in Nat /\ ~ Can(x)
    <3> HIDE DEF Can
    <3> QED
      OBVIOUS
  <2>3. CASE x = 0
    <3> DEFINE it == [s \in SUBSET (1..0) |-> <<>>]
    <3>1. 1..0 = {}
      OBVIOUS
    <3>2. Solves(it, 1..0)
      BY <3>1
    <3> QED
      BY <2>2, <2>3, <3>2
  <2>4. CASE x # 0
    <3>1. x - 1 \in Nat /\ Can(x - 1)
      <4> HIDE DEF Can
      <4> QED
        BY <2>1, <2>2, <2>4
    <3>2. PICK old : Solves(old, 1..(x - 1))
      BY <3>1
    <3> DEFINE it == [s \in SUBSET (1..x) |->
                        IF s \in SUBSET (1..(x - 1)) THEN old[s]
                        ELSE Step(old[s \ {Max(s)}], seq[Max(s)])]
    <3>3. ASSUME NEW s \in SUBSET (1..x)
          PROVE  it[s] = IF s = {} THEN <<>> ELSE Step(it[s \ {Max(s)}], seq[Max(s)])
      <4>1. CASE s = {}
        BY <3>2, <4>1
      <4>2. CASE s # {}
        <5>1. s \ {Max(s)} \in SUBSET (1..(x - 1))
          BY <2>2, <2>4, <4>2, WithoutGreatest
        <5>2. s \ {Max(s)} \in SUBSET (1..x)
          OBVIOUS
        <5>3. it[s \ {Max(s)}] = old[s \ {Max(s)}]
          BY <5>1, <5>2
        <5>4. CASE s \in SUBSET (1..(x - 1))
          BY <3>2, <4>2, <5>3, <5>4
        <5>5. CASE s \notin SUBSET (1..(x - 1))
          BY <4>2, <5>3, <5>5
        <5> QED
          BY <5>4, <5>5
      <4> QED
        BY <4>1, <4>2
    <3>4. it = [s \in SUBSET (1..x) |->
                  IF s = {} THEN <<>> ELSE Step(it[s \ {Max(s)}], seq[Max(s)])]
      <4>1. it = [s \in SUBSET (1..x) |-> it[s]]
        OBVIOUS
      <4> HIDE DEF it
      <4> QED
        BY <3>3, <4>1
    <3> QED
      BY <2>2, <3>4
  <2> QED
    BY <2>3, <2>4
<1>4. Solves(iter, 1..n)
  <2>1. \E it : Solves(it, 1..n)
    <3>1. Can(n)
      <4> HIDE DEF Can
      <4> QED
        BY <1>2, <1>3
    <3> QED
      BY <3>1
  <2> QED
    BY <1>2, <2>1
<1> HIDE DEF iter
<1> DEFINE f == [k \in 0..n |-> iter[1..k]]
<1>5. f[0] = <<>>
  <2>1. 1..0 = {} /\ 0 \in 0..n /\ {} \in SUBSET (1..n)
    BY <1>2
  <2> QED
    BY <1>4, <2>1
<1>6. ASSUME NEW k \in 1..n PROVE f[k] = Step(f[k - 1], k)
  <2>1. k \in Nat \ {0} /\ 1..k \in SUBSET (1..n) /\ 1..k # {} /\ k \in 0..n /\ k - 1 \in 0..n
    BY <1>2
  <2>2. (1..k) \ {Max(1..k)} = 1..(k - 1) /\ Max(1..k) = k
    <3> DEFINE s == 1..k
    <3>1. s \in SUBSET (1..k) /\ s # {} /\ s = 1..k
      BY <2>1
    <3> HIDE DEF s
    <3> QED
      BY <2>1, <3>1, WithoutGreatest
  <2>3. iter[1..k] = Step(iter[1..(k - 1)], seq[k])
    BY <1>4, <2>1, <2>2
  <2> QED
    BY <1>2, <2>1, <2>3
<1>7. Insides(A) = f[n]
  BY <1>1, <1>2
<1> HIDE DEF f
<1>8. \A k \in 1..n : f[k] = Append(f[k - 1], StringLevel(A, f[k - 1], k))
  BY <1>6 DEF Step
<1> QED
  BY <1>5, <1>7, <1>8 DEF n

\* The digits of a code unit are added up from the left.
LEMMA UnitFold ==
  ASSUME NEW unit, DOMAIN unit = 1..4
  PROVE  \E f : /\ f[0] = 0
                /\ \A k \in 1..4 : f[k] = 16 * f[k - 1] + unit[k]
                /\ FoldLeft(LAMBDA m, d : 16 * m + d, 0, unit) = f[4]
<1> DEFINE n == 4
           seq == unit
           Step(y, k) == 16 * y + k
           Solves(iter, S) == iter = [s \in SUBSET S |->
                       IF s = {} THEN 0 ELSE Step(iter[s \ {Max(s)}], seq[Max(s)])]
           total == FoldLeft(LAMBDA m, d : 16 * m + d, 0, unit)
           iter == CHOOSE iter : Solves(iter, DOMAIN seq)
<1>1. total = iter[DOMAIN seq]
  BY DEF FoldLeft, MapThenFoldSet
<1>2. n \in Nat /\ DOMAIN seq = 1..n
  OBVIOUS
<1> HIDE DEF n, seq, Step, total
<1> DEFINE Can(k) == \E it : Solves(it, 1..k)
<1>3. ASSUME NEW k \in Nat PROVE Can(k)
  <2> DEFINE T == {j \in Nat : ~ Can(j)}
  <2> SUFFICES ASSUME T # {} PROVE FALSE
    <3> HIDE DEF Can
    <3> QED
      OBVIOUS
  <2>1. PICK x \in T : \A y \in T : x <= y
    <3>1. T \subseteq Nat
      OBVIOUS
    <3> HIDE DEF T
    <3> QED
      BY <3>1, LeastNatural
  <2>2. x \in Nat /\ ~ Can(x)
    <3> HIDE DEF Can
    <3> QED
      OBVIOUS
  <2>3. CASE x = 0
    <3> DEFINE it == [s \in SUBSET (1..0) |-> 0]
    <3>1. 1..0 = {}
      OBVIOUS
    <3>2. Solves(it, 1..0)
      BY <3>1
    <3> QED
      BY <2>2, <2>3, <3>2
  <2>4. CASE x # 0
    <3>1. x - 1 \in Nat /\ Can(x - 1)
      <4> HIDE DEF Can
      <4> QED
        BY <2>1, <2>2, <2>4
    <3>2. PICK old : Solves(old, 1..(x - 1))
      BY <3>1
    <3> DEFINE it == [s \in SUBSET (1..x) |->
                        IF s \in SUBSET (1..(x - 1)) THEN old[s]
                        ELSE Step(old[s \ {Max(s)}], seq[Max(s)])]
    <3>3. ASSUME NEW s \in SUBSET (1..x)
          PROVE  it[s] = IF s = {} THEN 0 ELSE Step(it[s \ {Max(s)}], seq[Max(s)])
      <4>1. CASE s = {}
        BY <3>2, <4>1
      <4>2. CASE s # {}
        <5>1. s \ {Max(s)} \in SUBSET (1..(x - 1))
          BY <2>2, <2>4, <4>2, WithoutGreatest
        <5>2. s \ {Max(s)} \in SUBSET (1..x)
          OBVIOUS
        <5>3. it[s \ {Max(s)}] = old[s \ {Max(s)}]
          BY <5>1, <5>2
        <5>4. CASE s \in SUBSET (1..(x - 1))
          BY <3>2, <4>2, <5>3, <5>4
        <5>5. CASE s \notin SUBSET (1..(x - 1))
          BY <4>2, <5>3, <5>5
        <5> QED
          BY <5>4, <5>5
      <4> QED
        BY <4>1, <4>2
    <3>4. it = [s \in SUBSET (1..x) |->
                  IF s = {} THEN 0 ELSE Step(it[s \ {Max(s)}], seq[Max(s)])]
      <4>1. it = [s \in SUBSET (1..x) |-> it[s]]
        OBVIOUS
      <4> HIDE DEF it
      <4> QED
        BY <3>3, <4>1
    <3> QED
      BY <2>2, <3>4
  <2> QED
    BY <2>3, <2>4
<1>4. Solves(iter, 1..n)
  <2>1. \E it : Solves(it, 1..n)
    <3>1. Can(n)
      <4> HIDE DEF Can
      <4> QED
        BY <1>2, <1>3
    <3> QED
      BY <3>1
  <2> QED
    BY <1>2, <2>1
<1> HIDE DEF iter
<1> DEFINE f == [k \in 0..n |-> iter[1..k]]
<1>5. f[0] = 0
  <2>1. 1..0 = {} /\ 0 \in 0..n /\ {} \in SUBSET (1..n)
    BY <1>2
  <2> QED
    BY <1>4, <2>1
<1>6. ASSUME NEW k \in 1..n PROVE f[k] = Step(f[k - 1], seq[k])
  <2>1. k \in Nat \ {0} /\ 1..k \in SUBSET (1..n) /\ 1..k # {} /\ k \in 0..n /\ k - 1 \in 0..n
    BY DEF n
  <2>2. (1..k) \ {Max(1..k)} = 1..(k - 1) /\ Max(1..k) = k
    <3> DEFINE s == 1..k
    <3>1. s \in SUBSET (1..k) /\ s # {} /\ s = 1..k
      BY <2>1
    <3> HIDE DEF s
    <3> QED
      BY <2>1, <3>1, WithoutGreatest
  <2>3. iter[1..k] = Step(iter[1..(k - 1)], seq[k])
    BY <1>4, <2>1, <2>2
  <2> QED
    BY <1>2, <2>1, <2>3
<1>7. total = f[n]
  BY <1>1, <1>2
<1> HIDE DEF f
<1>8. \A k \in 1..n : f[k] = 16 * f[k - 1] + unit[k]
  BY <1>6 DEF Step, seq
<1> QED
  BY <1>5, <1>7, <1>8 DEF n, total

IsTable(t, g, k) == t = [j \in 1..k |-> g[j]]

\* A sequence that grows by one element per step is known element by element.
LEMMA GrownTable ==
  ASSUME NEW n \in Nat, NEW f, NEW g, f[0] = <<>>, \A k \in 1..n : f[k] = Append(f[k - 1], g[k]),
         NEW k \in 0..n
  PROVE  IsTable(f[k], g, k)
<1> DEFINE Good(x) == f[x] = [j \in 1..x |-> g[j]]
           T == {x \in Nat : x \in 0..n /\ ~Good(x)}
<1> SUFFICES ASSUME T # {} PROVE FALSE
  <2>1. k \in Nat
    OBVIOUS
  <2> HIDE DEF Good
  <2>2. Good(k)
    BY <2>1
  <2> QED
    BY <2>2 DEF Good, IsTable
<1>1. PICK x \in T : \A y \in T : x <= y
  <2>1. T \subseteq Nat
    OBVIOUS
  <2> HIDE DEF T
  <2> QED
    BY <2>1, LeastNatural
<1>2. x \in 0..n /\ ~Good(x)
  <2> HIDE DEF Good
  <2> QED
    OBVIOUS
<1>3. x # 0
  <2>1. Good(0)
    OBVIOUS
  <2> HIDE DEF Good
  <2> QED
    BY <1>2, <2>1
<1>4. Good(x - 1)
  <2>1. x - 1 \in Nat /\ x - 1 \in 0..n /\ ~(x <= x - 1)
    BY <1>2, <1>3
  <2> HIDE DEF Good
  <2> QED
    BY <1>1, <2>1
<1>5. f[x] = Append([j \in 1..(x - 1) |-> g[j]], g[x])
  BY <1>2, <1>3, <1>4
<1> DEFINE shorter == [j \in 1..(x - 1) |-> g[j]]
           S == {g[j] : j \in 1..n}
<1>6. shorter \in Seq(S) /\ Len(shorter) = x - 1 /\ g[x] \in S
  <2> DEFINE m == x - 1
  <2>1. m \in Nat /\ x \in 1..n /\ \A j \in 1..m : j \in 1..n
    BY <1>2, <1>3
  <2>2. g[x] \in S /\ \A j \in 1..m : g[j] \in S
    BY <2>1
  <2> HIDE DEF S, m
  <2>3. [j \in 1..m |-> g[j]] \in Seq(S) /\ Len([j \in 1..m |-> g[j]]) = m
    BY <2>1, <2>2
  <2> QED
    BY <2>2, <2>3 DEF m
<1> HIDE DEF shorter
<1>7. /\ Append(shorter, g[x]) = [j \in 1..x |-> Append(shorter, g[x])[j]]
      /\ \A j \in 1..(x - 1) : Append(shorter, g[x])[j] = shorter[j]
      /\ Append(shorter, g[x])[x] = g[x]
  <2> HIDE DEF S
  <2>1. x \in Nat /\ x - 1 \in Nat /\ (x - 1) + 1 = x
    BY <1>2, <1>3
  <2> QED
    BY <1>6, <2>1, AppendProperties
<1>8. ASSUME NEW j \in 1..x PROVE Append(shorter, g[x])[j] = g[j]
  <2>1. CASE j = x
    BY <1>7, <2>1
  <2>2. CASE j # x
    <3>1. j \in 1..(x - 1)
      BY <1>2, <2>2
    <3> QED
      BY <1>7, <3>1 DEF shorter
  <2> QED
    BY <2>1, <2>2
<1> QED
  BY <1>2, <1>5, <1>7, <1>8 DEF shorter

\* A level of the table is made from the levels below it.
LEMMA LevelAt ==
  ASSUME NEW A, A.most \in Nat, NEW strict, NEW n \in 1..A.most
  PROVE  \E t : /\ DOMAIN t = 1..(n - 1)
                /\ \A j \in 1..(n - 1) : t[j] = Tables(A, strict)[j]
                /\ Tables(A, strict)[n] = JsonLevel(A, strict, Quoted(A), t, n)
<1>1. PICK f : /\ f[0] = <<>>
               /\ \A k \in 1..A.most : f[k] = Append(f[k - 1], JsonLevel(A, strict, Quoted(A), f[k - 1], k))
               /\ Tables(A, strict) = f[A.most]
  BY LevelsFold
<1> DEFINE level(k) == JsonLevel(A, strict, Quoted(A), f[k - 1], k)
           g == [k \in 1..A.most |-> level(k)]
           most == A.most
<1>2. most \in Nat /\ f[0] = <<>> /\ \A k \in 1..most : f[k] = Append(f[k - 1], g[k])
  <2>1. \A k \in 1..most : f[k] = Append(f[k - 1], level(k))
    BY <1>1
  <2> HIDE DEF level
  <2> QED
    BY <1>1, <2>1
<1> HIDE DEF g, most
<1>3. ASSUME NEW k \in 0..most PROVE IsTable(f[k], g, k)
  BY <1>2, GrownTable
<1>4. n \in 1..most /\ n - 1 \in 0..most /\ most \in 0..most
  BY <1>2 DEF most
<1>5. Tables(A, strict) = [j \in 1..most |-> g[j]]
  BY <1>1, <1>3, <1>4 DEF most, IsTable
<1>6. f[n - 1] = [j \in 1..(n - 1) |-> g[j]]
  BY <1>3, <1>4 DEF IsTable
<1>7. Tables(A, strict)[n] = level(n)
  BY <1>4, <1>5 DEF g, most
<1>8. \A j \in 1..(n - 1) : f[n - 1][j] = Tables(A, strict)[j]
  BY <1>2, <1>4, <1>5, <1>6
<1>9. DOMAIN f[n - 1] = 1..(n - 1)
  BY <1>6
<1> QED
  BY <1>7, <1>8, <1>9

\* A level of the insides of strings is made from the levels below it.
LEMMA InsideAt ==
  ASSUME NEW A, A.most \in Nat, NEW n \in 1..A.most
  PROVE  \E t : /\ DOMAIN Insides(A) = 1..A.most
                /\ \A j \in 1..(n - 1) : t[j] = Insides(A)[j]
                /\ Insides(A)[n] = StringLevel(A, t, n)
<1>1. PICK f : /\ f[0] = <<>>
               /\ \A k \in 1..A.most : f[k] = Append(f[k - 1], StringLevel(A, f[k - 1], k))
               /\ Insides(A) = f[A.most]
  BY InsidesFold
<1> DEFINE level(k) == StringLevel(A, f[k - 1], k)
           g == [k \in 1..A.most |-> level(k)]
           most == A.most
<1>2. most \in Nat /\ f[0] = <<>> /\ \A k \in 1..most : f[k] = Append(f[k - 1], g[k])
  <2>1. \A k \in 1..most : f[k] = Append(f[k - 1], level(k))
    BY <1>1
  <2> HIDE DEF level
  <2> QED
    BY <1>1, <2>1
<1> HIDE DEF g, most
<1>3. ASSUME NEW k \in 0..most PROVE IsTable(f[k], g, k)
  BY <1>2, GrownTable
<1>4. n \in 1..most /\ n - 1 \in 0..most /\ most \in 0..most
  BY <1>2 DEF most
<1>5. Insides(A) = [j \in 1..most |-> g[j]]
  BY <1>1, <1>3, <1>4 DEF most, IsTable
<1>6. f[n - 1] = [j \in 1..(n - 1) |-> g[j]]
  BY <1>3, <1>4 DEF IsTable
<1>7. Insides(A)[n] = level(n)
  BY <1>4, <1>5 DEF g, most
<1>8. \A j \in 1..(n - 1) : f[n - 1][j] = Insides(A)[j]
  BY <1>2, <1>4, <1>5, <1>6
<1>9. DOMAIN Insides(A) = 1..A.most
  BY <1>5 DEF most
<1> QED
  BY <1>7, <1>8, <1>9

-----------------------------------------------------------------------------
(***************************************************************************)
(* A text and what it stands for, for each kind of part of a document, and *)
(* how the parts make longer ones (FirstElement, NextElement, FirstMember, *)
(* NextMember, ContainerMade).                                             *)
(***************************************************************************)

\* x is a text of a kind, and stands for v.
IsText(A, x) == x \in Seq(Nat) /\ Len(x) \in 1..A.most
ValueText(A, x, v) == IsText(A, x) /\ <<x, v>> \in Levels(A)[Len(x)].value
PaddedText(A, x, v) == IsText(A, x) /\ <<x, v>> \in Levels(A)[Len(x)].padded
KeyText(A, x, k) == IsText(A, x) /\ <<x, k>> \in Levels(A)[Len(x)].key
PairText(A, x, q) == IsText(A, x) /\ <<x, q>> \in Levels(A)[Len(x)].pair
ElementsText(A, x, s) == IsText(A, x) /\ <<x, s>> \in Levels(A)[Len(x)].elements
MembersText(A, x, m) == IsText(A, x) /\ <<x, m>> \in Levels(A)[Len(x)].members
QuotedText(A, x, k) == IsText(A, x) /\ <<x, k>> \in Quoted(A)[Len(x)]
NoLevel == [value |-> {}, padded |-> {}, key |-> {}, pair |-> {}, elements |-> {}, members |-> {}]
Below(A, n, k) == IF k \in 1..(n - 1) THEN Levels(A)[k] ELSE NoLevel
\* How a level is made from those below it.
Composed(A, n, L) ==
  /\ L.value = ValueLevel(A, FALSE, Quoted(A), Below(A, n, n - 2), n)
  /\ L.padded = Padded(A, L.value, Below(A, n, n - 1).padded)
  /\ L.key = Padded(A, Quoted(A)[n], Below(A, n, n - 1).key)
  /\ \A i \in 1..(n - 2) : \A x \in Below(A, n, i).key, y \in Below(A, n, n - 1 - i).padded :
       Colon \in A.outside => <<x[1] \o <<Colon>> \o y[1], <<x[2], y[2]>>>> \in L.pair
  /\ \A x \in L.padded : <<x[1], <<x[2]>>>> \in L.elements
  /\ \A i \in 1..(n - 2) : \A x \in Below(A, n, i).elements, y \in Below(A, n, n - 1 - i).padded :
       Comma \in A.outside => <<x[1] \o <<Comma>> \o y[1], Append(x[2], y[2])>> \in L.elements
  /\ \A x \in L.pair : <<x[1], Assigned(<<>>, x[2][1], x[2][2])>> \in L.members
  /\ \A i \in 1..(n - 2) : \A x \in Below(A, n, i).members, y \in Below(A, n, n - 1 - i).pair :
       Comma \in A.outside => <<x[1] \o <<Comma>> \o y[1], Assigned(x[2], y[2][1], y[2][2])>> \in L.members

\* The texts that a byte before or behind x, or a byte and y behind x, make.
LEMMA Lengthened ==
  ASSUME NEW x \in Seq(Nat), NEW b \in Nat
  PROVE  /\ <<b>> \o x \in Seq(Nat) /\ Len(<<b>> \o x) = Len(x) + 1
         /\ Append(x, b) \in Seq(Nat) /\ Len(Append(x, b)) = Len(x) + 1
<1>1. <<b>> \in Seq(Nat) /\ Len(<<b>>) = 1
  OBVIOUS
<1> DEFINE w == <<b>>
<1> HIDE DEF w
<1>2. w \o x \in Seq(Nat) /\ Len(w \o x) = Len(w) + Len(x)
  BY <1>1, ConcatProperties DEF w
<1>3. Append(x, b) \in Seq(Nat) /\ Len(Append(x, b)) = Len(x) + 1
  BY AppendProperties
<1>4. Len(x) \in Nat
  OBVIOUS
<1> QED
  BY <1>1, <1>2, <1>3, <1>4 DEF w

\* Two texts with a byte between them.
LEMMA Joined ==
  ASSUME NEW x \in Seq(Nat), NEW y \in Seq(Nat), NEW b \in Nat
  PROVE  x \o <<b>> \o y \in Seq(Nat) /\ Len(x \o <<b>> \o y) = Len(x) + 1 + Len(y)
<1> DEFINE w == <<b>>
<1>1. w \in Seq(Nat) /\ Len(w) = 1
  OBVIOUS
<1> HIDE DEF w
<1>2. x \o w \in Seq(Nat) /\ Len(x \o w) = Len(x) + Len(w)
  BY <1>1, ConcatProperties
<1>3. (x \o w) \o y \in Seq(Nat) /\ Len((x \o w) \o y) = Len(x \o w) + Len(y)
  BY <1>2, ConcatProperties
<1> QED
  BY <1>1, <1>2, <1>3 DEF w

\* A text between two bytes.
LEMMA Bracketed ==
  ASSUME NEW x \in Seq(Nat), NEW b \in Nat, NEW c \in Nat
  PROVE  <<b>> \o x \o <<c>> \in Seq(Nat) /\ Len(<<b>> \o x \o <<c>>) = Len(x) + 2
<1> DEFINE w == <<b>> z == <<c>>
<1>1. w \in Seq(Nat) /\ Len(w) = 1 /\ z \in Seq(Nat) /\ Len(z) = 1
  OBVIOUS
<1> HIDE DEF w, z
<1>2. w \o x \in Seq(Nat) /\ Len(w \o x) = Len(w) + Len(x)
  BY <1>1, ConcatProperties
<1>3. (w \o x) \o z \in Seq(Nat) /\ Len((w \o x) \o z) = Len(w \o x) + Len(z)
  BY <1>1, <1>2, ConcatProperties
<1>4. Len(x) \in Nat
  OBVIOUS
<1> QED
  BY <1>1, <1>2, <1>3, <1>4 DEF w, z

\* Every level of the table is made that way.
LEMMA LevelParts ==
  ASSUME NEW A, A.most \in Nat, NEW n \in 1..A.most
  PROVE  Composed(A, n, Levels(A)[n])
<1> DEFINE Q == Quoted(A)
<1>1. PICK t : /\ DOMAIN t = 1..(n - 1)
               /\ \A j \in 1..(n - 1) : t[j] = Levels(A)[j]
               /\ Levels(A)[n] = JsonLevel(A, FALSE, Q, t, n)
  BY LevelAt DEF Levels
<1> HIDE DEF Q
<1> DEFINE before(k) == IF k \in DOMAIN t THEN t[k] ELSE NoLevel
<1>2. \A k : Below(A, n, k) = before(k)
  BY <1>1 DEF Below
<1> DEFINE J == JsonLevel(A, FALSE, Q, t, n)
<1>3. J.value = ValueLevel(A, FALSE, Q, before(n - 2), n)
  BY DEF JsonLevel, NoLevel
<1>4. J.padded = Padded(A, J.value, before(n - 1).padded)
  BY DEF JsonLevel, NoLevel
<1>5. J.key = Padded(A, Q[n], before(n - 1).key)
  BY DEF JsonLevel, NoLevel
<1>6. J.pair = Glued(A, n, Colon, LAMBDA k : before(k).key, LAMBDA k : before(k).padded,
                    LAMBDA key, v : <<key, v>>)
  BY DEF JsonLevel, NoLevel
<1>7. J.elements = {<<e[1], <<e[2]>>>> : e \in J.padded} \cup
       Glued(A, n, Comma, LAMBDA k : before(k).elements, LAMBDA k : before(k).padded, Append)
  BY DEF JsonLevel, NoLevel
<1>8. J.members = {<<q[1], Assigned(<<>>, q[2][1], q[2][2])>> : q \in J.pair} \cup
       Glued(A, n, Comma, LAMBDA k : before(k).members, LAMBDA k : before(k).pair,
             LAMBDA m, q : Assigned(m, q[1], q[2]))
  BY DEF JsonLevel, NoLevel
<1> HIDE DEF before, J
<1>9. ASSUME NEW i \in 1..(n - 2), Colon \in A.outside,
             NEW x \in Below(A, n, i).key, NEW y \in Below(A, n, n - 1 - i).padded
      PROVE  <<x[1] \o <<Colon>> \o y[1], <<x[2], y[2]>>>> \in J.pair
  <2> DEFINE part(k) == {<<z[1][1] \o <<Colon>> \o z[2][1], <<z[1][2], z[2][2]>>>> :
                          z \in before(k).key \X before(n - 1 - k).padded}
  <2>1. UNION {part(k) : k \in IF Colon \in A.outside THEN 1..(n - 2) ELSE {}} \subseteq J.pair
    BY <1>6 DEF Glued
  <2>2. x \in before(i).key /\ y \in before(n - 1 - i).padded
    BY <1>2
  <2>3. <<x[1] \o <<Colon>> \o y[1], <<x[2], y[2]>>>> \in part(i)
    <3> DEFINE w == <<x, y>>
    <3>1. w \in before(i).key \X before(n - 1 - i).padded /\ w[1] = x /\ w[2] = y
      BY <2>2
    <3> HIDE DEF w
    <3> QED
      BY <3>1
  <2> HIDE DEF part
  <2> QED
    BY <1>9, <2>1, <2>3
<1>10. \A x \in J.padded : <<x[1], <<x[2]>>>> \in J.elements
  BY <1>7
<1>11. ASSUME NEW i \in 1..(n - 2), Comma \in A.outside,
              NEW x \in Below(A, n, i).elements, NEW y \in Below(A, n, n - 1 - i).padded
       PROVE  <<x[1] \o <<Comma>> \o y[1], Append(x[2], y[2])>> \in J.elements
  <2> DEFINE part(k) == {<<z[1][1] \o <<Comma>> \o z[2][1], Append(z[1][2], z[2][2])>> :
                          z \in before(k).elements \X before(n - 1 - k).padded}
  <2>1. UNION {part(k) : k \in IF Comma \in A.outside THEN 1..(n - 2) ELSE {}} \subseteq J.elements
    <3>1. Glued(A, n, Comma, LAMBDA k : before(k).elements, LAMBDA k : before(k).padded, Append) \subseteq J.elements
      BY <1>7
    <3> QED
      BY <3>1 DEF Glued
  <2>2. x \in before(i).elements /\ y \in before(n - 1 - i).padded
    BY <1>2
  <2>3. <<x[1] \o <<Comma>> \o y[1], Append(x[2], y[2])>> \in part(i)
    <3> DEFINE w == <<x, y>>
    <3>1. w \in before(i).elements \X before(n - 1 - i).padded /\ w[1] = x /\ w[2] = y
      BY <2>2
    <3> HIDE DEF w
    <3> QED
      BY <3>1
  <2> HIDE DEF part
  <2> QED
    BY <1>11, <2>1, <2>3
<1>12. \A x \in J.pair : <<x[1], Assigned(<<>>, x[2][1], x[2][2])>> \in J.members
  BY <1>8
<1>13. ASSUME NEW i \in 1..(n - 2), Comma \in A.outside,
              NEW x \in Below(A, n, i).members, NEW y \in Below(A, n, n - 1 - i).pair
       PROVE  <<x[1] \o <<Comma>> \o y[1], Assigned(x[2], y[2][1], y[2][2])>> \in J.members
  <2> DEFINE part(k) == {<<z[1][1] \o <<Comma>> \o z[2][1], Assigned(z[1][2], z[2][2][1], z[2][2][2])>> :
                          z \in before(k).members \X before(n - 1 - k).pair}
  <2>1. UNION {part(k) : k \in IF Comma \in A.outside THEN 1..(n - 2) ELSE {}} \subseteq J.members
    <3>1. Glued(A, n, Comma, LAMBDA k : before(k).members, LAMBDA k : before(k).pair,
                LAMBDA m, q : Assigned(m, q[1], q[2])) \subseteq J.members
      BY <1>8
    <3> QED
      BY <3>1 DEF Glued
  <2>2. x \in before(i).members /\ y \in before(n - 1 - i).pair
    BY <1>2
  <2>3. <<x[1] \o <<Comma>> \o y[1], Assigned(x[2], y[2][1], y[2][2])>> \in part(i)
    <3> DEFINE w == <<x, y>>
    <3>1. w \in before(i).members \X before(n - 1 - i).pair /\ w[1] = x /\ w[2] = y
      BY <2>2
    <3> HIDE DEF w
    <3> QED
      BY <3>1
  <2> HIDE DEF part
  <2> QED
    BY <1>13, <2>1, <2>3
<1>14. /\ J.value = ValueLevel(A, FALSE, Q, Below(A, n, n - 2), n)
       /\ J.padded = Padded(A, J.value, Below(A, n, n - 1).padded)
       /\ J.key = Padded(A, Q[n], Below(A, n, n - 1).key)
  BY <1>2, <1>3, <1>4, <1>5
<1>15. Levels(A)[n] = J
  BY <1>1 DEF J
<1> HIDE DEF Q
<1>16. Composed(A, n, J)
  BY <1>9, <1>10, <1>11, <1>12, <1>13, <1>14 DEF Composed, Q
<1> QED
  BY <1>15, <1>16

\* The padding of a value or a key, one blank at a time.
LEMMA PaddedParts ==
  ASSUME NEW A, NEW own, NEW shorter, NEW b \in Padding(A), NEW x, NEW v, <<x, v>> \in shorter
  PROVE  /\ <<<<b>> \o x, v>> \in Padded(A, own, shorter)
         /\ <<Append(x, b), v>> \in Padded(A, own, shorter)
<1> DEFINE left == {<<<<c>> \o r[1], r[2]>> : c \in Padding(A), r \in shorter}
           right == {<<Append(r[1], c), r[2]>> : c \in Padding(A), r \in shorter}
<1>1. Padded(A, own, shorter) = UNION {own, left, right}
  BY DEF Padded
<1>2. \A c \in Padding(A), r \in shorter : <<<<c>> \o r[1], r[2]>> \in left
  OBVIOUS
<1>3. \A c \in Padding(A), r \in shorter : <<Append(r[1], c), r[2]>> \in right
  OBVIOUS
<1> HIDE DEF left, right
<1> DEFINE r == <<x, v>>
<1>4. r \in shorter /\ r[1] = x /\ r[2] = v
  OBVIOUS
<1> HIDE DEF r
<1>5. <<<<b>> \o x, v>> \in left /\ <<Append(x, b), v>> \in right
  BY <1>2, <1>3, <1>4
<1> QED
  BY <1>1, <1>5

\* A text without more blanks is among those with blanks around them.
LEMMA PaddedOwn ==
  ASSUME NEW A, NEW own, NEW shorter, NEW r \in own
  PROVE  r \in Padded(A, own, shorter)
BY DEF Padded

\* A value and a key in quotes are themselves without blanks around them.
LEMMA Unpadded ==
  ASSUME NEW A, A.most \in Nat, NEW x, NEW v
  PROVE  /\ ValueText(A, x, v) => PaddedText(A, x, v)
         /\ QuotedText(A, x, v) => KeyText(A, x, v) /\ ValueText(A, x, Text(v))
<1> SUFFICES ASSUME IsText(A, x)
             PROVE  /\ <<x, v>> \in Levels(A)[Len(x)].value => <<x, v>> \in Levels(A)[Len(x)].padded
                    /\ <<x, v>> \in Quoted(A)[Len(x)] => /\ <<x, v>> \in Levels(A)[Len(x)].key
                                                         /\ <<x, Text(v)>> \in Levels(A)[Len(x)].value
  BY DEF ValueText, PaddedText, QuotedText, KeyText
<1> DEFINE n == Len(x) L == Levels(A)[n]
<1>1. n \in 1..A.most
  BY DEF IsText
<1> HIDE DEF n
<1>2. Composed(A, n, L)
  BY <1>1, LevelParts
<1>3. /\ L.padded = Padded(A, L.value, Below(A, n, n - 1).padded)
      /\ L.key = Padded(A, Quoted(A)[n], Below(A, n, n - 1).key)
      /\ L.value = ValueLevel(A, FALSE, Quoted(A), Below(A, n, n - 2), n)
  BY <1>2 DEF Composed
<1> HIDE DEF L
<1>4. ASSUME NEW r \in L.value PROVE r \in L.padded
  BY <1>3, PaddedOwn
<1>5. ASSUME NEW r \in Quoted(A)[n] PROVE r \in L.key
  BY <1>3, PaddedOwn
<1>6. \A r \in Quoted(A)[n] : <<r[1], Text(r[2])>> \in L.value
  BY <1>3 DEF ValueLevel
<1>7. <<x, v>> \in Quoted(A)[n] => <<x, Text(v)>> \in L.value
  BY <1>6
<1> QED
  BY <1>4, <1>5, <1>7 DEF L, n

\* A blank may be added on either side of a padded value or key.
LEMMA BlankAdded ==
  ASSUME NEW A, A.most \in Nat, NEW x, NEW v, NEW b \in Padding(A), Len(x) < A.most
  PROVE  /\ PaddedText(A, x, v) => PaddedText(A, <<b>> \o x, v) /\ PaddedText(A, Append(x, b), v)
         /\ KeyText(A, x, v) => KeyText(A, <<b>> \o x, v) /\ KeyText(A, Append(x, b), v)
<1> SUFFICES ASSUME IsText(A, x)
             PROVE  /\ PaddedText(A, x, v) => PaddedText(A, <<b>> \o x, v) /\ PaddedText(A, Append(x, b), v)
                    /\ KeyText(A, x, v) => KeyText(A, <<b>> \o x, v) /\ KeyText(A, Append(x, b), v)
  BY DEF PaddedText, KeyText
<1> DEFINE m == Len(x) n == m + 1
<1>1. m \in 1..A.most /\ x \in Seq(Nat)
  BY DEF IsText
<1>2. n \in 1..A.most /\ m \in 1..(n - 1) /\ n - 1 = m
  BY <1>1
<1>3. b \in Nat
  BY DEF Padding, Blank
<1>4. /\ <<b>> \o x \in Seq(Nat) /\ Len(<<b>> \o x) = n
      /\ Append(x, b) \in Seq(Nat) /\ Len(Append(x, b)) = n
  BY <1>1, <1>3, Lengthened
<1>5. IsText(A, <<b>> \o x) /\ IsText(A, Append(x, b))
  BY <1>2, <1>4 DEF IsText
<1> DEFINE L == Levels(A)[n] B == Levels(A)[m]
<1> HIDE DEF n, m
<1>6. Composed(A, n, L)
  BY <1>2, LevelParts
<1>7. Below(A, n, n - 1) = B
  BY <1>2 DEF Below
<1>8. L.padded = Padded(A, L.value, B.padded) /\ L.key = Padded(A, Quoted(A)[n], B.key)
  BY <1>6, <1>7 DEF Composed
<1> HIDE DEF B, L
<1>9. ASSUME <<x, v>> \in B.padded
       PROVE  <<<<b>> \o x, v>> \in L.padded /\ <<Append(x, b), v>> \in L.padded
  BY <1>8, <1>9, PaddedParts
<1>10. ASSUME <<x, v>> \in B.key
       PROVE  <<<<b>> \o x, v>> \in L.key /\ <<Append(x, b), v>> \in L.key
  BY <1>8, <1>10, PaddedParts
<1> QED
  BY <1>4, <1>5, <1>9, <1>10 DEF L, B, PaddedText, KeyText, m

FitsTogether(A, x, c, y, n) ==
  /\ IsText(A, x \o <<c>> \o y) /\ Len(x \o <<c>> \o y) = n
  /\ n \in 1..A.most /\ Len(x) \in 1..(n - 2)
  /\ Below(A, n, Len(x)) = Levels(A)[Len(x)]
  /\ Below(A, n, n - 1 - Len(x)) = Levels(A)[Len(y)]

\* What lies below a level of the length of two parts and a byte.
LEMMA PartsBelow ==
  ASSUME NEW A, A.most \in Nat, NEW x, NEW y, NEW c \in Nat, IsText(A, x), IsText(A, y),
         Len(x) + Len(y) < A.most, NEW n, n = Len(x) + 1 + Len(y)
  PROVE  FitsTogether(A, x, c, y, n)
<1>1. Len(x) \in 1..A.most /\ Len(y) \in 1..A.most /\ x \in Seq(Nat) /\ y \in Seq(Nat)
  BY DEF IsText
<1>2. x \o <<c>> \o y \in Seq(Nat) /\ Len(x \o <<c>> \o y) = n
  BY <1>1, Joined
<1> DEFINE i == Len(x) j == Len(y)
<1> HIDE DEF i, j
<1>3. /\ n \in 1..A.most /\ i \in 1..(n - 2) /\ n - 1 - i = j
      /\ i \in 1..(n - 1) /\ j \in 1..(n - 1)
  BY <1>1 DEF i, j
<1> QED
  BY <1>2, <1>3 DEF FitsTogether, Below, IsText, i, j

\* A key, a colon and a value make a pair.
LEMMA PairMade ==
  ASSUME NEW A, A.most \in Nat, NEW x, NEW k, NEW y, NEW v, KeyText(A, x, k), PaddedText(A, y, v),
         Len(x) + Len(y) < A.most, Colon \in A.outside
  PROVE  PairText(A, x \o <<Colon>> \o y, <<k, v>>)
<1> DEFINE n == Len(x) + 1 + Len(y) i == Len(x) L == Levels(A)[n]
           a == <<x, k>> b == <<y, v>>
<1>1. IsText(A, x) /\ IsText(A, y) /\ a \in Levels(A)[i].key /\ b \in Levels(A)[Len(y)].padded
  BY DEF KeyText, PaddedText
<1>2. FitsTogether(A, x, Colon, y, n)
  <2>1. Colon \in Nat
    BY DEF Colon
  <2> QED
    BY <1>1, <2>1, PartsBelow
<1>3. a[1] = x /\ a[2] = k /\ b[1] = y /\ b[2] = v
  OBVIOUS
<1> HIDE DEF n, i, a, b
<1>4. \A j \in 1..(n - 2) : \A p1 \in Below(A, n, j).key, p2 \in Below(A, n, n - 1 - j).padded :
        <<p1[1] \o <<Colon>> \o p2[1], <<p1[2], p2[2]>>>> \in L.pair
  <2>1. Composed(A, n, L)
    BY <1>2, LevelParts DEF FitsTogether
  <2> QED
    BY <2>1 DEF Composed
<1> HIDE DEF L
<1>5. <<a[1] \o <<Colon>> \o b[1], <<a[2], b[2]>>>> \in L.pair
  BY <1>1, <1>2, <1>4 DEF FitsTogether, i
<1> QED
  BY <1>2, <1>3, <1>5 DEF FitsTogether, PairText, L

\* A value is the only element of a list, or one more behind a comma.
LEMMA FirstElement ==
  ASSUME NEW A, A.most \in Nat, NEW x, NEW v, PaddedText(A, x, v)
  PROVE  ElementsText(A, x, <<v>>)
<1> DEFINE n == Len(x) L == Levels(A)[n] a == <<x, v>>
<1>1. IsText(A, x) /\ n \in 1..A.most /\ a \in L.padded
  BY DEF PaddedText, IsText
<1>2. Composed(A, n, L)
  BY <1>1, LevelParts
<1>3. a[1] = x /\ a[2] = v
  OBVIOUS
<1> HIDE DEF n, L, a
<1>4. <<a[1], <<a[2]>>>> \in L.elements
  BY <1>1, <1>2 DEF Composed
<1> QED
  BY <1>1, <1>3, <1>4 DEF ElementsText, n, L

\* A comma and one more value behind the elements of an array.
LEMMA NextElement ==
  ASSUME NEW A, A.most \in Nat, NEW x, NEW s, NEW y, NEW v, ElementsText(A, x, s), PaddedText(A, y, v),
         Len(x) + Len(y) < A.most, Comma \in A.outside
  PROVE  ElementsText(A, x \o <<Comma>> \o y, Append(s, v))
<1> DEFINE n == Len(x) + 1 + Len(y) i == Len(x) L == Levels(A)[n]
           a == <<x, s>> b == <<y, v>>
<1>1. IsText(A, x) /\ IsText(A, y) /\ a \in Levels(A)[i].elements /\ b \in Levels(A)[Len(y)].padded
  BY DEF ElementsText, PaddedText
<1>2. FitsTogether(A, x, Comma, y, n)
  <2>1. Comma \in Nat
    BY DEF Comma
  <2> QED
    BY <1>1, <2>1, PartsBelow
<1>3. a[1] = x /\ a[2] = s /\ b[1] = y /\ b[2] = v
  OBVIOUS
<1> HIDE DEF n, i, a, b
<1>4. \A j \in 1..(n - 2) : \A p1 \in Below(A, n, j).elements, p2 \in Below(A, n, n - 1 - j).padded :
        <<p1[1] \o <<Comma>> \o p2[1], Append(p1[2], p2[2])>> \in L.elements
  <2>1. Composed(A, n, L)
    BY <1>2, LevelParts DEF FitsTogether
  <2> QED
    BY <2>1 DEF Composed
<1> HIDE DEF L
<1>5. <<a[1] \o <<Comma>> \o b[1], Append(a[2], b[2])>> \in L.elements
  BY <1>1, <1>2, <1>4 DEF FitsTogether, i
<1> QED
  BY <1>2, <1>3, <1>5 DEF FitsTogether, ElementsText, L

\* A pair is the only member of an object, or one more behind a comma.
LEMMA FirstMember ==
  ASSUME NEW A, A.most \in Nat, NEW x, NEW k, NEW v, PairText(A, x, <<k, v>>)
  PROVE  MembersText(A, x, Assigned(<<>>, k, v))
<1> DEFINE n == Len(x) L == Levels(A)[n] q == <<k, v>> a == <<x, q>>
<1>1. IsText(A, x) /\ n \in 1..A.most /\ a \in L.pair
  BY DEF PairText, IsText
<1>2. Composed(A, n, L)
  BY <1>1, LevelParts
<1>3. a[1] = x /\ a[2] = q /\ q[1] = k /\ q[2] = v
  OBVIOUS
<1> HIDE DEF n, L, a, q
<1>4. <<a[1], Assigned(<<>>, a[2][1], a[2][2])>> \in L.members
  BY <1>1, <1>2 DEF Composed
<1> QED
  BY <1>1, <1>3, <1>4 DEF MembersText, n, L

\* A comma and one more pair behind the members of an object.
LEMMA NextMember ==
  ASSUME NEW A, A.most \in Nat, NEW x, NEW m, NEW y, NEW k, NEW v,
         MembersText(A, x, m), PairText(A, y, <<k, v>>),
         Len(x) + Len(y) < A.most, Comma \in A.outside
  PROVE  MembersText(A, x \o <<Comma>> \o y, Assigned(m, k, v))
<1> DEFINE n == Len(x) + 1 + Len(y) i == Len(x) L == Levels(A)[n]
           q == <<k, v>> a == <<x, m>> b == <<y, q>>
<1>1. IsText(A, x) /\ IsText(A, y) /\ a \in Levels(A)[i].members /\ b \in Levels(A)[Len(y)].pair
  BY DEF MembersText, PairText
<1>2. FitsTogether(A, x, Comma, y, n)
  <2>1. Comma \in Nat
    BY DEF Comma
  <2> QED
    BY <1>1, <2>1, PartsBelow
<1>3. a[1] = x /\ a[2] = m /\ b[1] = y /\ b[2] = q /\ q[1] = k /\ q[2] = v
  OBVIOUS
<1> HIDE DEF n, i, a, b, q
<1>4. \A j \in 1..(n - 2) : \A p1 \in Below(A, n, j).members, p2 \in Below(A, n, n - 1 - j).pair :
        <<p1[1] \o <<Comma>> \o p2[1], Assigned(p1[2], p2[2][1], p2[2][2])>> \in L.members
  <2>1. Composed(A, n, L)
    BY <1>2, LevelParts DEF FitsTogether
  <2> QED
    BY <2>1 DEF Composed
<1> HIDE DEF L
<1>5. <<a[1] \o <<Comma>> \o b[1], Assigned(a[2], b[2][1], b[2][2])>> \in L.members
  BY <1>1, <1>2, <1>4 DEF FitsTogether, i
<1> QED
  BY <1>2, <1>3, <1>5 DEF FitsTogether, MembersText, L

\* Brackets around a text of a set.
LEMMA BracketsAround ==
  ASSUME NEW A, NEW open, NEW close, {open, close} \subseteq A.outside, NEW S, NEW x, NEW v, <<x, v>> \in S
  PROVE  <<<<open>> \o x \o <<close>>, v>> \in Wrapped(A, open, close, S)
<1> DEFINE r == <<x, v>>
<1>1. r \in S /\ r[1] = x /\ r[2] = v
  OBVIOUS
<1> HIDE DEF r
<1>2. <<<<open>> \o r[1] \o <<close>>, r[2]>> \in Wrapped(A, open, close, S)
  BY <1>1 DEF Wrapped
<1> QED
  BY <1>1, <1>2

\* The elements of an array in brackets are a value, and so is an empty one.
LEMMA ContainerMade ==
  ASSUME NEW A, A.most \in Nat, NEW x \in Seq(Nat), Len(x) + 2 <= A.most
  PROVE  /\ {LBracket, RBracket} \subseteq A.outside =>
              /\ \A s : ElementsText(A, x, s) => ValueText(A, <<LBracket>> \o x \o <<RBracket>>, Array(s))
              /\ x \in Seq(Padding(A)) => ValueText(A, <<LBracket>> \o x \o <<RBracket>>, Array(<<>>))
         /\ {LBrace, RBrace} \subseteq A.outside =>
              /\ \A m : MembersText(A, x, m) => ValueText(A, <<LBrace>> \o x \o <<RBrace>>, Object(m))
              /\ x \in Seq(Padding(A)) => ValueText(A, <<LBrace>> \o x \o <<RBrace>>, Object(<<>>))
<1> DEFINE i == Len(x) n == i + 2 L == Levels(A)[n] inner == Below(A, n, n - 2)
           blanks == IF n >= 2 THEN TupleOf(Padding(A), n - 2) ELSE {}
           arrays == {<<b, Array(<<>>)>> : b \in blanks} \cup {<<e[1], Array(e[2])>> : e \in inner.elements}
           objects == {<<b, Object(<<>>)>> : b \in blanks} \cup {<<m[1], Object(m[2])>> : m \in inner.members}
<1>1. n \in 1..A.most /\ i \in Nat /\ n - 2 = i /\ i \in 0..(n - 1) /\ n >= 2
  OBVIOUS
<1>2. /\ IsText(A, <<LBracket>> \o x \o <<RBracket>>) /\ Len(<<LBracket>> \o x \o <<RBracket>>) = n
      /\ IsText(A, <<LBrace>> \o x \o <<RBrace>>) /\ Len(<<LBrace>> \o x \o <<RBrace>>) = n
  <2>1. LBracket \in Nat /\ RBracket \in Nat /\ LBrace \in Nat /\ RBrace \in Nat
    BY DEF LBracket, RBracket, LBrace, RBrace
  <2> HIDE DEF n
  <2>2. /\ <<LBracket>> \o x \o <<RBracket>> \in Seq(Nat) /\ Len(<<LBracket>> \o x \o <<RBracket>>) = n
    BY <2>1, Bracketed DEF n
  <2>3. /\ <<LBrace>> \o x \o <<RBrace>> \in Seq(Nat) /\ Len(<<LBrace>> \o x \o <<RBrace>>) = n
    BY <2>1, Bracketed DEF n
  <2> QED
    BY <1>1, <2>2, <2>3 DEF IsText
<1>3. x \in Seq(Padding(A)) => x \in blanks
  BY <1>1 DEF TupleOf
<1> HIDE DEF n, blanks
<1>4. /\ Wrapped(A, LBracket, RBracket, arrays) \subseteq L.value
      /\ Wrapped(A, LBrace, RBrace, objects) \subseteq L.value
  <2>1. L.value = ValueLevel(A, FALSE, Quoted(A), inner, n)
    <3>1. Composed(A, n, L)
      BY <1>1, LevelParts
    <3> QED
      BY <3>1 DEF Composed
  <2>2. ValueLevel(A, FALSE, Quoted(A), inner, n) = UNION {
        {l \in Literals : Len(l[1]) = n /\ \A j \in 1..n : l[1][j] \in A.outside},
        {<<d, NumberIn(d)>> : d \in NumberTexts(A, FALSE, n)},
        {<<s[1], Text(s[2])>> : s \in Quoted(A)[n]},
        Wrapped(A, LBracket, RBracket, arrays),
        Wrapped(A, LBrace, RBrace, objects)}
    BY DEF ValueLevel, blanks
  <2> HIDE DEF L, inner, arrays, objects
  <2> QED
    BY <2>1, <2>2
<1>5. /\ \A e : e \in inner.elements => <<e[1], Array(e[2])>> \in arrays
      /\ \A e : e \in inner.members => <<e[1], Object(e[2])>> \in objects
      /\ \A b \in blanks : <<b, Array(<<>>)>> \in arrays /\ <<b, Object(<<>>)>> \in objects
  <2> HIDE DEF inner
  <2> QED
    OBVIOUS
<1> HIDE DEF arrays, objects
<1>6. IsText(A, x) => inner = Levels(A)[i]
  BY <1>1 DEF Below, IsText
<1> HIDE DEF inner, L, i
<1>7. ASSUME NEW s, ElementsText(A, x, s) PROVE <<x, Array(s)>> \in arrays
  <2> DEFINE e == <<x, s>>
  <2>1. e \in inner.elements /\ e[1] = x /\ e[2] = s
    BY <1>6, <1>7 DEF ElementsText, i
  <2> HIDE DEF e
  <2> QED
    BY <1>5, <2>1
<1>8. ASSUME NEW m, MembersText(A, x, m) PROVE <<x, Object(m)>> \in objects
  <2> DEFINE e == <<x, m>>
  <2>1. e \in inner.members /\ e[1] = x /\ e[2] = m
    BY <1>6, <1>8 DEF MembersText, i
  <2> HIDE DEF e
  <2> QED
    BY <1>5, <2>1
<1>9. ASSUME NEW v, <<x, v>> \in arrays, {LBracket, RBracket} \subseteq A.outside
      PROVE  ValueText(A, <<LBracket>> \o x \o <<RBracket>>, v)
  <2>1. <<<<LBracket>> \o x \o <<RBracket>>, v>> \in Wrapped(A, LBracket, RBracket, arrays)
    BY <1>9, BracketsAround
  <2> QED
    BY <1>2, <1>4, <2>1 DEF ValueText, L
<1>10. ASSUME NEW v, <<x, v>> \in objects, {LBrace, RBrace} \subseteq A.outside
      PROVE  ValueText(A, <<LBrace>> \o x \o <<RBrace>>, v)
  <2>1. <<<<LBrace>> \o x \o <<RBrace>>, v>> \in Wrapped(A, LBrace, RBrace, objects)
    BY <1>10, BracketsAround
  <2> QED
    BY <1>2, <1>4, <2>1 DEF ValueText, L
<1> QED
  BY <1>3, <1>5, <1>7, <1>8, <1>9, <1>10

-----------------------------------------------------------------------------
(***************************************************************************)
(* Strings.  StringSoFar says of the bytes behind an opening quote that with *)
(* every inside of a string behind them they are the inside of a string,   *)
(* for what has been taken in and then what that one stands for.           *)
(***************************************************************************)

\* The inside of a string, and the bytes it stands for.
InsideSet(A, n) == IF n = 0 THEN {<<<<>>, <<>>>>} ELSE Insides(A)[n]
InsideText(A, x, w) == /\ x \in Seq(Nat) /\ w \in Seq(Nat) /\ Len(x) <= A.most
                       /\ <<x, w>> \in InsideSet(A, Len(x))
Pieces(A, k) == IF k = 1 THEN Plain(A) ELSE IF k = 2 THEN Marks(A) ELSE Units(A)

\* How the inside of a string is made from shorter ones.
LEMMA StringParts ==
  ASSUME NEW A, A.most \in Nat, NEW n \in 1..A.most, NEW k \in {1, 2, 6}, k <= n,
         NEW a, NEW b, <<a, b>> \in Pieces(A, k), NEW x, NEW w, <<x, w>> \in InsideSet(A, n - k)
  PROVE  <<a \o x, b \o w>> \in Insides(A)[n]
<1>1. PICK t : /\ \A j \in 1..(n - 1) : t[j] = Insides(A)[j]
               /\ Insides(A)[n] = StringLevel(A, t, n)
  BY InsideAt
<1> DEFINE of(m) == IF m < 0 THEN {} ELSE IF m = 0 THEN {<<<<>>, <<>>>>} ELSE t[m]
           put(S, m) == {<<z[1][1] \o z[2][1], z[1][2] \o z[2][2]>> : z \in S \X of(n - m)}
<1>2. StringLevel(A, t, n) = UNION {put(Plain(A), 1), put(Marks(A), 2), put(Units(A), 6)}
  BY DEF StringLevel
<1>3. of(n - k) = InsideSet(A, n - k)
  BY <1>1 DEF InsideSet
<1> DEFINE p1 == <<a, b>> r == <<x, w>> z == <<p1, r>>
<1>4. z \in Pieces(A, k) \X of(n - k) /\ z[1][1] = a /\ z[1][2] = b /\ z[2][1] = x /\ z[2][2] = w
  BY <1>3
<1> HIDE DEF of, z
<1>5. <<z[1][1] \o z[2][1], z[1][2] \o z[2][2]>> \in put(Pieces(A, k), k)
  BY <1>4
<1>6. put(Pieces(A, k), k) \subseteq StringLevel(A, t, n)
  <2> HIDE DEF put
  <2> QED
    BY <1>2 DEF Pieces
<1> QED
  BY <1>1, <1>4, <1>5, <1>6

\* A byte or an escape before the inside of a string makes a longer one.
LEMMA InsideGrows ==
  ASSUME NEW A, A.most \in Nat, NEW k \in {1, 2, 6}, NEW a \in Seq(Nat), NEW b \in Seq(Nat), Len(a) = k,
         <<a, b>> \in Pieces(A, k), NEW x, NEW w, InsideText(A, x, w), Len(a) + Len(x) <= A.most
  PROVE  InsideText(A, a \o x, b \o w)
<1> DEFINE n == k + Len(x)
<1>1. /\ x \in Seq(Nat) /\ w \in Seq(Nat) /\ Len(x) \in Nat
      /\ <<x, w>> \in InsideSet(A, Len(x))
  BY DEF InsideText
<1>2. n \in 1..A.most /\ n - k = Len(x) /\ k <= n /\ n # 0
  BY <1>1
<1>3. /\ a \o x \in Seq(Nat) /\ Len(a \o x) = n
      /\ b \o w \in Seq(Nat)
  BY <1>1, ConcatProperties
<1> HIDE DEF n
<1>4. <<a \o x, b \o w>> \in Insides(A)[n]
  BY <1>1, <1>2, StringParts
<1> QED
  BY <1>2, <1>3, <1>4 DEF InsideText, InsideSet

\* What has been read of a string, whatever follows.
StringSoFar(A, s, lex) ==
  /\ s \in Seq(Nat) /\ lex \in Seq(Nat)
  /\ \A x, w : InsideText(A, x, w) /\ Len(s) + Len(x) <= A.most => InsideText(A, s \o x, lex \o w)

\* Behind the opening quote, nothing has been read and nothing taken in.
LEMMA StringBegins ==
  ASSUME NEW A, A.most \in Nat
  PROVE  StringSoFar(A, <<>>, <<>>)
<1>1. ASSUME NEW x, NEW w, InsideText(A, x, w) PROVE InsideText(A, <<>> \o x, <<>> \o w)
  <2>1. x \in Seq(Nat) /\ w \in Seq(Nat)
    BY <1>1 DEF InsideText
  <2>2. <<>> \o x = x /\ <<>> \o w = w
    BY <2>1, ConcatEmptySeq
  <2> QED
    BY <1>1, <2>2
<1>2. <<>> \in Seq(Nat)
  OBVIOUS
<1> QED
  BY <1>1, <1>2 DEF StringSoFar

\* One more byte or escape of a string: what it stands for is taken in.
LEMMA StringContinues ==
  ASSUME NEW A, A.most \in Nat, NEW k \in {1, 2, 6}, NEW a \in Seq(Nat), NEW b \in Seq(Nat), Len(a) = k,
         <<a, b>> \in Pieces(A, k), NEW s, NEW lex, StringSoFar(A, s, lex)
  PROVE  StringSoFar(A, s \o a, lex \o b)
<1>1. s \in Seq(Nat) /\ lex \in Seq(Nat)
  BY DEF StringSoFar
<1>2. s \o a \in Seq(Nat) /\ Len(s \o a) = Len(s) + k /\ lex \o b \in Seq(Nat)
  BY <1>1, ConcatProperties
<1>3. ASSUME NEW x, NEW w, InsideText(A, x, w), Len(s \o a) + Len(x) <= A.most
      PROVE  InsideText(A, (s \o a) \o x, (lex \o b) \o w)
  <2>1. x \in Seq(Nat) /\ w \in Seq(Nat)
    BY <1>3 DEF InsideText
  <2>2. Len(a) + Len(x) <= A.most /\ Len(s) + Len(a \o x) <= A.most
    <3>1. Len(a \o x) = k + Len(x)
      BY <2>1, ConcatProperties
    <3>2. Len(s) \in Nat /\ Len(x) \in Nat
      BY <1>1, <2>1
    <3> QED
      BY <1>2, <1>3, <3>1, <3>2
  <2>3. InsideText(A, a \o x, b \o w)
    BY <1>3, <2>2, InsideGrows
  <2>4. InsideText(A, s \o (a \o x), lex \o (b \o w))
    BY <2>2, <2>3 DEF StringSoFar
  <2>5. s \o (a \o x) = (s \o a) \o x
    BY <1>1, <2>1, Regrouped, ZenonT(60)
  <2>6. lex \o (b \o w) = (lex \o b) \o w
    BY <1>1, <2>1, Regrouped, ZenonT(60)
  <2> QED
    BY <2>4, <2>5, <2>6
<1> QED
  BY <1>2, <1>3 DEF StringSoFar

\* A string in quotes.
LEMMA StringEnds ==
  ASSUME NEW A, A.most \in Nat, NEW s, NEW lex, StringSoFar(A, s, lex), Len(s) + 2 <= A.most,
         Quote \in A.inside, Quote \in A.outside
  PROVE  QuotedText(A, <<Quote>> \o s \o <<Quote>>, lex)
<1> DEFINE m == Len(s) n == m + 2
<1>1. s \in Seq(Nat) /\ lex \in Seq(Nat) /\ m \in Nat
  BY DEF StringSoFar
<1>2. <<s, lex>> \in InsideSet(A, m)
  <2>1. InsideText(A, <<>>, <<>>)
    BY DEF InsideText, InsideSet
  <2>2. InsideText(A, s \o <<>>, lex \o <<>>)
    <3> DEFINE e == <<>>
    <3>1. Len(e) = 0 /\ InsideText(A, e, e)
      BY <2>1
    <3> HIDE DEF e
    <3>2. Len(s) + Len(e) <= A.most
      BY <1>1, <3>1
    <3>3. InsideText(A, s \o e, lex \o e)
      BY <3>1, <3>2 DEF StringSoFar
    <3> QED
      BY <3>3 DEF e
  <2>3. s \o <<>> = s /\ lex \o <<>> = lex
    BY <1>1, ConcatEmptySeq
  <2> QED
    BY <2>2, <2>3 DEF InsideText
<1>3. /\ IsText(A, <<Quote>> \o s \o <<Quote>>) /\ Len(<<Quote>> \o s \o <<Quote>>) = n
  <2>1. Quote \in Nat
    BY DEF Quote
  <2> HIDE DEF n
  <2>2. <<Quote>> \o s \o <<Quote>> \in Seq(Nat) /\ Len(<<Quote>> \o s \o <<Quote>>) = m + 2
    BY <1>1, <2>1, Bracketed
  <2> QED
    BY <1>1, <2>2 DEF IsText, n
<1> DEFINE S == IF {Quote} \cap A.outside \cap A.inside = {} THEN {}
                ELSE IF n = 2 THEN {<<<<>>, <<>>>>} ELSE At(Insides(A), n - 2)
<1>4. Quoted(A)[n] = {<<<<Quote>> \o r[1] \o <<Quote>>, r[2]>> : r \in S}
  <2> DEFINE T(j) == {<<<<Quote>> \o r[1] \o <<Quote>>, r[2]>> :
                r \in IF {Quote} \cap A.outside \cap A.inside = {} THEN {}
                      ELSE IF j = 2 THEN {<<<<>>, <<>>>>} ELSE At(Insides(A), j - 2)}
  <2>1. Quoted(A) = [j \in 1..A.most |-> T(j)]
    BY DEF Quoted, Insides
  <2>2. n \in 1..A.most
    BY <1>1
  <2> HIDE DEF T, n
  <2>3. Quoted(A)[n] = T(n)
    BY <2>1, <2>2
  <2> QED
    BY <2>3 DEF T, n
<1>5. <<s, lex>> \in S
  <2>1. CASE m = 0
    BY <1>2, <2>1 DEF InsideSet
  <2>2. CASE m # 0
    <3>1. m \in 1..A.most /\ n - 2 = m /\ n # 2
      BY <1>1, <2>2
    <3>2. DOMAIN Insides(A) = 1..A.most
      BY <3>1, InsideAt
    <3> QED
      BY <1>2, <2>2, <3>1, <3>2 DEF InsideSet, At
  <2> QED
    BY <2>1, <2>2
<1> HIDE DEF S, n
<1> DEFINE r == <<s, lex>>
<1>6. r[1] = s /\ r[2] = lex /\ r \in S
  BY <1>5
<1> HIDE DEF r
<1>7. <<<<Quote>> \o r[1] \o <<Quote>>, r[2]>> \in Quoted(A)[n]
  BY <1>4, <1>6
<1> QED
  BY <1>3, <1>6, <1>7 DEF QuotedText

-----------------------------------------------------------------------------
(***************************************************************************)
(* Numbers.  NumberSoFar says of the bytes that parse_number has collected *)
(* that they are a sign, digits, a point and digits, and an exponent, as far *)
(* as they go.  NumberContinues shows that Continues keeps that, although it *)
(* looks only for a point, an exponent and the last byte, and NumberMade that *)
(* what Readable accepts of them is a number.                              *)
(***************************************************************************)

\* A byte behind two texts is a byte behind the second.
LEMMA AppendRight ==
  ASSUME NEW x \in Seq(Nat), NEW y \in Seq(Nat), NEW c \in Nat
  PROVE  Append(x \o y, c) = x \o Append(y, c)
<1>1. x \o y \in Seq(Nat) /\ <<c>> \in Seq(Nat)
  BY ConcatProperties
<1>2. Append(x \o y, c) = (x \o y) \o <<c>> /\ Append(y, c) = y \o <<c>>
  BY <1>1, AppendIsConcat
<1> DEFINE z == <<c>>
<1> HIDE DEF z
<1>3. (x \o y) \o z = x \o (y \o z)
  BY <1>1, Regrouped DEF z
<1> QED
  BY <1>2, <1>3 DEF z

\* Two texts have a byte of a set when one of them has.
LEMMA HasConcat ==
  ASSUME NEW x \in Seq(Nat), NEW y \in Seq(Nat), NEW B
  PROVE  Has(x \o y, B) <=> Has(x, B) \/ Has(y, B)
<1>1. /\ x \o y \in Seq(Nat) /\ Len(x \o y) = Len(x) + Len(y)
      /\ \A i \in 1 .. Len(x) + Len(y) : (x \o y)[i] = IF i <= Len(x) THEN x[i] ELSE y[i - Len(x)]
  BY ConcatProperties
<1>2. /\ DOMAIN x = 1..Len(x) /\ DOMAIN y = 1..Len(y) /\ DOMAIN (x \o y) = 1..(Len(x) + Len(y))
      /\ Len(x) \in Nat /\ Len(y) \in Nat
  BY <1>1
<1> DEFINE t == x \o y m == Len(x) n == Len(y)
<1> HIDE DEF t, m, n
<1>3. ASSUME NEW i \in 1..(m + n), t[i] \in B PROVE Has(x, B) \/ Has(y, B)
  <2>1. CASE i <= m
    <3>1. i \in 1..m /\ x[i] \in B
      BY <1>1, <1>2, <1>3, <2>1 DEF t, m, n
    <3> QED
      BY <1>2, <3>1 DEF Has, m
  <2>2. CASE ~(i <= m)
    <3>1. i - m \in 1..n /\ y[i - m] \in B
      BY <1>1, <1>2, <1>3, <2>2 DEF t, m, n
    <3> QED
      BY <1>2, <3>1 DEF Has, n
  <2> QED
    BY <2>1, <2>2
<1>4. ASSUME NEW i \in 1..m, x[i] \in B PROVE t[i] \in B /\ i \in 1..(m + n)
  BY <1>1, <1>2, <1>4 DEF t, m, n
<1>5. ASSUME NEW i \in 1..n, y[i] \in B PROVE t[m + i] \in B /\ m + i \in 1..(m + n)
  <2>1. m + i \in 1..(m + n) /\ ~(m + i <= m) /\ (m + i) - m = i
    BY <1>2 DEF m, n
  <2> QED
    BY <1>1, <1>5, <2>1 DEF t, m, n
<1> QED
  BY <1>2, <1>3, <1>4, <1>5 DEF Has, t, m, n

\* The parts of a number: sign, digits, fraction, exponent.
NumberParts(A, a, b, c, d) ==
  /\ a = <<>> \/ (Minus \in A.outside /\ a = <<Minus>>)
  /\ b \in Seq(Digit \cap A.outside)
  /\ c = <<>> \/ (Dot \in A.outside /\ \E s \in Seq(Digit \cap A.outside) : c = <<Dot>> \o s)
  /\ \/ d = <<>>
     \/ \E s \in Seq(Digit \cap A.outside), m \in ExponentMark \cap A.outside :
          \/ d = <<m>> \o s
          \/ \E g \in {Plus, Minus} \cap A.outside : d = (<<m>> \o <<g>>) \o s
NumberSoFar(A, lex) ==
  \E a, b, c, d \in Seq(Nat) : lex = (a \o b) \o (c \o d) /\ NumberParts(A, a, b, c, d)

\* A byte as a text, and digits as a text.
LEMMA SingleByte ==
  ASSUME NEW c \in Nat
  PROVE  <<c>> \in Seq(Nat) /\ Len(<<c>>) = 1 /\ \A B : Has(<<c>>, B) <=> c \in B
<1>1. <<c>> \in Seq(Nat) /\ Len(<<c>>) = 1 /\ <<c>>[1] = c /\ DOMAIN <<c>> = {1}
  OBVIOUS
<1> QED
  BY <1>1 DEF Has

\* The digits of an alphabet are bytes.
LEMMA DigitBytes ==
  ASSUME NEW A, NEW s \in Seq(Digit \cap A.outside)
  PROVE  s \in Seq(Nat) /\ s \in DigitTexts(A, Len(s))
<1>1. Digit \cap A.outside \subseteq Nat
  BY DEF Digit
<1>2. s \in Seq(Nat)
  BY <1>1
<1> QED
  BY <1>2 DEF DigitTexts, TupleOf

\* A text of one byte has the bytes of a set that the byte is in.
LEMMA OneByte ==
  ASSUME NEW A, NEW B, NEW c \in B \cap A.outside
  PROVE  <<c>> \in One(A, B)
BY DEF One

\* What the parts of a number read so far consist of.
LEMMA NumberPartsAre ==
  ASSUME NEW A, NEW a \in Seq(Nat), NEW b \in Seq(Nat), NEW c \in Seq(Nat), NEW d \in Seq(Nat),
         NumberParts(A, a, b, c, d)
  PROVE  /\ a \in Signs(A, Len(a)) /\ Len(a) <= 1
         /\ b \in Whole(A, FALSE, Len(b))
         /\ c \in Fraction(A, FALSE, Len(c))
         /\ Has(d, Digit) \/ d = <<>> => d \in Exponent(A, Len(d))
<1>1. a \in Signs(A, Len(a)) /\ Len(a) <= 1
  <2>1. CASE a = <<>>
    BY <2>1 DEF Signs
  <2>2. ASSUME Minus \in A.outside, a = <<Minus>>
        PROVE  a \in Signs(A, Len(a)) /\ Len(a) <= 1
    <3>1. Len(a) = 1
      BY <2>2
    <3>2. Minus \in {Minus} \cap A.outside
      BY <2>2
    <3>3. <<Minus>> \in One(A, {Minus})
      BY <3>2 DEF One
    <3> QED
      BY <2>2, <3>1, <3>3 DEF Signs
  <2> QED
    BY <2>1, <2>2 DEF NumberParts
<1>2. ASSUME NEW s \in Seq(Digit \cap A.outside) PROVE s \in DigitTexts(A, Len(s))
  BY DEF DigitTexts, TupleOf
<1>3. b \in Whole(A, FALSE, Len(b))
  BY <1>2 DEF NumberParts, Whole
<1>4. c \in Fraction(A, FALSE, Len(c))
  <2>1. CASE c = <<>>
    BY <2>1 DEF Fraction
  <2>2. ASSUME Dot \in A.outside, NEW s \in Seq(Digit \cap A.outside), c = <<Dot>> \o s
        PROVE  c \in Fraction(A, FALSE, Len(c))
    <3> DEFINE w == <<Dot>> z == <<w, s>>
    <3>1. w \in Seq(Nat) /\ Len(w) = 1 /\ s \in Seq(Nat) /\ w \in One(A, {Dot})
      BY <2>2 DEF Dot, Digit, One
    <3>2. z[1] = w /\ z[2] = s
      OBVIOUS
    <3> HIDE DEF w
    <3>3. Len(c) = 1 + Len(s) /\ Len(s) \in Nat
      BY <2>2, <3>1, ConcatProperties DEF w
    <3>4. s \in DigitTexts(A, Len(c) - 1) /\ Len(c) # 0
      BY <1>2, <3>3
    <3>5. z \in One(A, {Dot}) \X DigitTexts(A, Len(c) - 1)
      BY <3>1, <3>4
    <3> HIDE DEF z
    <3>6. c \in Both(One(A, {Dot}), DigitTexts(A, Len(c) - 1))
      BY <2>2, <3>2, <3>5 DEF Both, w
    <3> QED
      BY <3>4, <3>6 DEF Fraction
  <2> QED
    BY <2>1, <2>2 DEF NumberParts
<1>5. ASSUME NEW s \in Seq(Digit \cap A.outside), NEW m \in ExponentMark \cap A.outside, Has(d, Digit),
             d = <<m>> \o s
      PROVE  d \in Exponent(A, Len(d))
  <2> DEFINE w == <<m>> z == <<w, s>>
  <2>1. w \in Seq(Nat) /\ Len(w) = 1 /\ s \in Seq(Nat) /\ w \in One(A, ExponentMark) /\ ~Has(w, Digit)
    <3>1. m \in Nat /\ m \notin Digit
      BY DEF ExponentMark, Digit
    <3> QED
      BY <3>1, SingleByte, DigitBytes, OneByte
  <2>2. z[1] = w /\ z[2] = s
    OBVIOUS
  <2> HIDE DEF w
  <2>3. Len(d) = 1 + Len(s) /\ Len(s) \in Nat
    BY <1>5, <2>1, ConcatProperties DEF w
  <2>4. Has(s, Digit)
    BY <1>5, <2>1, HasConcat DEF w
  <2>5. Len(s) # 0
    BY <2>1, <2>3, <2>4 DEF Has
  <2>6. s \in DigitTexts(A, Len(d) - 1) /\ Len(d) # 0 /\ Len(d) # 1
    BY <1>2, <2>3, <2>5
  <2>7. z \in One(A, ExponentMark) \X DigitTexts(A, Len(d) - 1)
    BY <2>1, <2>6
  <2> HIDE DEF z
  <2>8. d \in Both(One(A, ExponentMark), DigitTexts(A, Len(d) - 1))
    BY <1>5, <2>2, <2>7 DEF Both, w
  <2> QED
    BY <2>6, <2>8 DEF Exponent
<1>6. ASSUME NEW s \in Seq(Digit \cap A.outside), NEW m \in ExponentMark \cap A.outside,
             NEW g \in {Plus, Minus} \cap A.outside, Has(d, Digit), d = (<<m>> \o <<g>>) \o s
      PROVE  d \in Exponent(A, Len(d))
  <2> DEFINE w == <<m>> v == <<g>> y == <<w, v>> u == w \o v
             marks == Both(One(A, ExponentMark), One(A, {Plus, Minus}))
  <2>1. w \in Seq(Nat) /\ Len(w) = 1 /\ s \in Seq(Nat) /\ w \in One(A, ExponentMark) /\ ~Has(w, Digit)
    <3>1. m \in Nat /\ m \notin Digit
      BY DEF ExponentMark, Digit
    <3> QED
      BY <3>1, SingleByte, DigitBytes, OneByte
  <2>2. v \in Seq(Nat) /\ Len(v) = 1 /\ v \in One(A, {Plus, Minus}) /\ ~Has(v, Digit)
    <3>1. g \in Nat /\ g \notin Digit
      BY DEF Plus, Minus, Digit
    <3> QED
      BY <3>1, SingleByte, OneByte
  <2>3. y \in One(A, ExponentMark) \X One(A, {Plus, Minus}) /\ y[1] = w /\ y[2] = v
    BY <2>1, <2>2
  <2> HIDE DEF w, v, y
  <2>4. u \in marks
    BY <2>3 DEF Both
  <2>5. u \in Seq(Nat) /\ Len(u) = 2 /\ ~Has(u, Digit)
    <3>1. u \in Seq(Nat) /\ Len(u) = Len(w) + Len(v)
      BY <2>1, <2>2, ConcatProperties
    <3>2. ~Has(u, Digit)
      BY <2>1, <2>2, HasConcat
    <3> QED
      BY <2>1, <2>2, <3>1, <3>2
  <2>6. d = u \o s
    BY <1>6 DEF w, v
  <2> HIDE DEF u, marks
  <2>7. ASSUME NEW e \in marks, e \in Seq(Nat), Len(e) = 2, ~Has(e, Digit), d = e \o s
        PROVE  d \in Exponent(A, Len(d))
    <3> DEFINE z == <<e, s>>
    <3>7. e \in Seq(Nat) /\ s \in Seq(Nat)
      BY <2>1, <2>7
    <3>8. Len(e \o s) = Len(e) + Len(s) /\ Len(s) \in Nat
      BY <3>7, ConcatProperties
    <3>1. Len(d) = 2 + Len(s) /\ Len(s) \in Nat
      BY <2>7, <3>8
    <3>9. Has(e \o s, Digit) => Has(e, Digit) \/ Has(s, Digit)
      BY <3>7, HasConcat
    <3>2. Has(s, Digit)
      BY <1>6, <2>7, <3>9
    <3>3. Len(s) # 0
      BY <2>1, <3>1, <3>2 DEF Has
    <3>4. s \in DigitTexts(A, Len(d) - 2) /\ Len(d) # 0 /\ ~(Len(d) < 3)
      BY <1>2, <3>1, <3>3
    <3>5. z \in marks \X DigitTexts(A, Len(d) - 2) /\ z[1] = e /\ z[2] = s
      BY <3>4
    <3> HIDE DEF z
    <3>6. d \in Both(marks, DigitTexts(A, Len(d) - 2))
      BY <2>7, <3>5 DEF Both
    <3> QED
      BY <3>4, <3>6 DEF Exponent, marks
  <2> QED
    BY <2>4, <2>5, <2>6, <2>7
<1>7. d = <<>> => d \in Exponent(A, Len(d))
  BY DEF Exponent
<1> QED
  BY <1>1, <1>3, <1>4, <1>5, <1>6, <1>7 DEF NumberParts

\* Where the parts of a number hold marks and points.
LEMMA PartsHave ==
  ASSUME NEW A, NEW a \in Seq(Nat), NEW b \in Seq(Nat), NEW c \in Seq(Nat), NEW d \in Seq(Nat),
         NumberParts(A, a, b, c, d)
  PROVE  /\ ~Has((a \o b) \o c, ExponentMark)
         /\ c = <<>> \/ Has(c, {Dot})
         /\ d = <<>> \/ Has(d, ExponentMark)
<1>1. ~Has(<<>>, ExponentMark)
  BY DEF Has
<1>2. ASSUME NEW s \in Seq(Digit \cap A.outside)
      PROVE  s \in Seq(Nat) /\ ~Has(s, ExponentMark)
  <2>1. \A i \in DOMAIN s : s[i] \in Digit
    OBVIOUS
  <2>2. \A e \in Digit : e \notin ExponentMark
    BY DEF Digit, ExponentMark
  <2> QED
    BY <2>1, <2>2, DigitBytes DEF Has
<1>3. ~Has(a, ExponentMark)
  <2>1. Minus \in Nat /\ Minus \notin ExponentMark
    BY DEF Minus, ExponentMark
  <2> QED
    BY <1>1, <2>1, SingleByte DEF NumberParts
<1>4. ~Has(b, ExponentMark)
  BY <1>2 DEF NumberParts
<1>5. c = <<>> \/ (Has(c, {Dot}) /\ ~Has(c, ExponentMark))
  <2>1. ASSUME NEW s \in Seq(Digit \cap A.outside), c = <<Dot>> \o s
        PROVE  Has(c, {Dot}) /\ ~Has(c, ExponentMark)
    <3>1. Dot \in Nat /\ Dot \notin ExponentMark /\ Dot \in {Dot}
      BY DEF Dot, ExponentMark
    <3> DEFINE w == <<Dot>>
    <3>2. w \in Seq(Nat) /\ Has(w, {Dot}) /\ ~Has(w, ExponentMark)
      BY <3>1, SingleByte
    <3> HIDE DEF w
    <3>3. Has(w \o s, {Dot}) /\ ~Has(w \o s, ExponentMark)
      BY <1>2, <3>2, HasConcat
    <3> QED
      BY <2>1, <3>3 DEF w
  <2> QED
    BY <2>1 DEF NumberParts
<1>6. d = <<>> \/ Has(d, ExponentMark)
  <2>1. ASSUME NEW s \in Seq(Digit \cap A.outside), NEW m \in ExponentMark \cap A.outside
        PROVE  /\ Has(<<m>> \o s, ExponentMark)
               /\ \A g \in {Plus, Minus} \cap A.outside : Has((<<m>> \o <<g>>) \o s, ExponentMark)
    <3> DEFINE w == <<m>>
    <3>1. w \in Seq(Nat) /\ Has(w, ExponentMark)
      <4>1. m \in Nat
        BY DEF ExponentMark
      <4> QED
        BY <4>1, SingleByte
    <3> HIDE DEF w
    <3>2. ASSUME NEW g \in {Plus, Minus} PROVE Has((w \o <<g>>) \o s, ExponentMark)
      <4> DEFINE v == <<g>>
      <4>1. v \in Seq(Nat)
        BY DEF Plus, Minus
      <4> HIDE DEF v
      <4>2. w \o v \in Seq(Nat) /\ Has(w \o v, ExponentMark)
        BY <3>1, <4>1, HasConcat, ConcatProperties
      <4>3. Has((w \o v) \o s, ExponentMark)
        BY <1>2, <4>2, HasConcat
      <4> QED
        BY <4>3 DEF v
    <3>3. Has(w \o s, ExponentMark)
      BY <1>2, <3>1, HasConcat
    <3> QED
      BY <3>2, <3>3 DEF w
  <2> QED
    BY <2>1 DEF NumberParts
<1>7. a \o b \in Seq(Nat) /\ ~Has(a \o b, ExponentMark)
  BY <1>3, <1>4, HasConcat, ConcatProperties
<1>8. ~Has((a \o b) \o c, ExponentMark)
  BY <1>1, <1>5, <1>7, HasConcat
<1> QED
  BY <1>5, <1>6, <1>8

Appended(a, b, c, d, e) ==
  /\ Append((a \o b) \o (c \o d), e) = (a \o b) \o (c \o Append(d, e))
  /\ d = <<>> => Append((a \o b) \o (c \o d), e) = (a \o b) \o (Append(c, e) \o d)
  /\ d = <<>> /\ c = <<>> => Append((a \o b) \o (c \o d), e) = (a \o Append(b, e)) \o (c \o d)

\* A byte more, in the last part that there is.
LEMMA PartAppended ==
  ASSUME NEW a \in Seq(Nat), NEW b \in Seq(Nat), NEW c \in Seq(Nat), NEW d \in Seq(Nat), NEW e \in Nat
  PROVE  Appended(a, b, c, d, e)
<1> DEFINE x == a \o b y == c \o d
<1>1. x \in Seq(Nat) /\ y \in Seq(Nat)
  BY ConcatProperties
<1>2. Append(y, e) = c \o Append(d, e) /\ Append(x, e) = a \o Append(b, e)
  BY AppendRight
<1> HIDE DEF x, y
<1>3. Append(x \o y, e) = x \o Append(y, e)
  BY <1>1, AppendRight, ZenonT(60)
<1>4. \A s \in Seq(Nat) : s \o <<>> = s
  BY ConcatEmptySeq
<1>5. ASSUME d = <<>> PROVE Append(y, e) = Append(c, e) \o d
  <2>1. y = c /\ Append(c, e) \in Seq(Nat)
    BY <1>4, <1>5, AppendProperties DEF y
  <2> QED
    BY <1>4, <1>5, <2>1
<1>6. ASSUME d = <<>>, c = <<>> PROVE Append(x \o y, e) = Append(x, e) \o y
  <2>1. y = <<>> /\ Append(x, e) \in Seq(Nat)
    BY <1>1, <1>4, <1>6, AppendProperties DEF y
  <2> QED
    BY <1>1, <1>4, <1>6, <2>1
<1> QED
  BY <1>2, <1>3, <1>5, <1>6 DEF x, y, Appended

\* The last byte of two parts is that of the second one.
LEMMA LastConcat ==
  ASSUME NEW x \in Seq(Nat), NEW y \in Seq(Nat), y # <<>>
  PROVE  Last(x \o y) = Last(y)
<1>1. /\ x \o y \in Seq(Nat) /\ Len(x \o y) = Len(x) + Len(y)
      /\ \A i \in 1 .. Len(x) + Len(y) : (x \o y)[i] = IF i <= Len(x) THEN x[i] ELSE y[i - Len(x)]
  BY ConcatProperties
<1>2. Len(x) \in Nat /\ Len(y) \in Nat \ {0}
  BY EmptySeq
<1> DEFINE t == x \o y m == Len(x) n == Len(y)
<1> HIDE DEF t, m, n
<1>3. m + n \in 1..(m + n) /\ ~(m + n <= m) /\ (m + n) - m = n
  BY <1>2 DEF m, n
<1>4. t[m + n] = y[n]
  BY <1>1, <1>3 DEF t, m, n
<1> QED
  BY <1>1, <1>4 DEF Last, t, m, n

\* A text ends in a byte of a set only if it has one.
LEMMA LastHas ==
  ASSUME NEW x \in Seq(Nat), x # <<>>
  PROVE  \A B : Last(x) \in B => Has(x, B)
<1>1. Len(x) \in DOMAIN x
  BY EmptySeq
<1> QED
  BY <1>1 DEF Last, Has

\* The first byte of a number.
LEMMA NumberBegins ==
  ASSUME NEW A, NEW e \in A.outside, e = Minus \/ e \in Digit
  PROVE  NumberSoFar(A, <<e>>)
<1> DEFINE w == <<e>> o == <<>>
<1>1. o \in Seq(Nat) /\ o \in Seq(Digit \cap A.outside) /\ o \o o = o
  BY ConcatEmptySeq
<1>2. w \in Seq(Nat) /\ w \o o = w /\ o \o w = w
  <2>1. e \in Nat
    BY DEF Minus, Digit
  <2>2. w \in Seq(Nat)
    BY <2>1
  <2> HIDE DEF w
  <2> QED
    BY <2>2, ConcatEmptySeq
<1>3. CASE e = Minus
  <2>1. NumberParts(A, w, o, o, o)
    BY <1>3, <1>1 DEF NumberParts
  <2> HIDE DEF w, o
  <2>2. w = (w \o o) \o (o \o o)
    BY <1>1, <1>2
  <2> QED
    BY <1>1, <1>2, <2>1, <2>2 DEF NumberSoFar, w
<1>4. CASE e \in Digit
  <2>1. w \in Seq(Digit \cap A.outside)
    BY <1>4
  <2>2. NumberParts(A, o, w, o, o)
    BY <2>1 DEF NumberParts
  <2> HIDE DEF w, o
  <2>3. w = (o \o w) \o (o \o o)
    BY <1>1, <1>2
  <2> QED
    BY <1>1, <1>2, <2>2, <2>3 DEF NumberSoFar, w
<1> QED
  BY <1>3, <1>4

\* A digit goes to the last part of the number that has begun.
LEMMA DigitContinues ==
  ASSUME NEW A, NEW a \in Seq(Nat), NEW b \in Seq(Nat), NEW c \in Seq(Nat), NEW d \in Seq(Nat),
         NumberParts(A, a, b, c, d), NEW e \in Digit \cap A.outside
  PROVE  \/ NumberParts(A, a, b, c, Append(d, e))
         \/ d = <<>> /\ NumberParts(A, a, b, Append(c, e), d)
         \/ d = <<>> /\ c = <<>> /\ NumberParts(A, a, Append(b, e), c, d)
<1>1. \A s \in Seq(Digit \cap A.outside) : Append(s, e) \in Seq(Digit \cap A.outside) /\ s \in Seq(Nat)
  BY AppendProperties, DigitBytes
<1>2. e \in Nat
  BY DEF Digit
<1>3. CASE d = <<>> /\ c = <<>>
  BY <1>1, <1>3 DEF NumberParts
<1>4. ASSUME d = <<>>, c # <<>> PROVE NumberParts(A, a, b, Append(c, e), d)
  <2>1. PICK s \in Seq(Digit \cap A.outside) : Dot \in A.outside /\ c = <<Dot>> \o s
    BY <1>4 DEF NumberParts
  <2>2. <<Dot>> \in Seq(Nat)
    BY DEF Dot
  <2>3. Append(c, e) = <<Dot>> \o Append(s, e)
    BY <1>1, <1>2, <2>1, <2>2, AppendRight
  <2> QED
    BY <1>1, <1>4, <2>1, <2>3 DEF NumberParts
<1>5. ASSUME d # <<>> PROVE NumberParts(A, a, b, c, Append(d, e))
  <2>1. PICK s \in Seq(Digit \cap A.outside), m \in ExponentMark \cap A.outside :
          \/ d = <<m>> \o s
          \/ \E g \in {Plus, Minus} \cap A.outside : d = (<<m>> \o <<g>>) \o s
    BY <1>5 DEF NumberParts
  <2>2. ASSUME d = <<m>> \o s PROVE Append(d, e) = <<m>> \o Append(s, e)
    <3>1. <<m>> \in Seq(Nat)
      BY DEF ExponentMark
    <3> QED
      BY <1>1, <1>2, <2>2, <3>1, AppendRight
  <2>3. ASSUME NEW g \in {Plus, Minus} \cap A.outside, d = (<<m>> \o <<g>>) \o s
        PROVE  Append(d, e) = (<<m>> \o <<g>>) \o Append(s, e)
    <3> DEFINE w == <<m>> v == <<g>>
    <3>1. w \in Seq(Nat) /\ v \in Seq(Nat)
      BY DEF ExponentMark, Plus, Minus
    <3> HIDE DEF w, v
    <3>2. w \o v \in Seq(Nat)
      BY <3>1, ConcatProperties
    <3>3. Append((w \o v) \o s, e) = (w \o v) \o Append(s, e)
      BY <1>1, <1>2, <3>2, AppendRight
    <3> QED
      BY <2>3, <3>3 DEF w, v
  <2>4. Append(s, e) \in Seq(Digit \cap A.outside)
    BY <1>1
  <2> QED
    BY <2>1, <2>2, <2>3, <2>4 DEF NumberParts
<1> QED
  BY <1>3, <1>4, <1>5

\* A sign behind a mark: the mark is all of the exponent.
LEMMA SignContinues ==
  ASSUME NEW A, NEW a \in Seq(Nat), NEW b \in Seq(Nat), NEW c \in Seq(Nat), NEW d \in Seq(Nat),
         NumberParts(A, a, b, c, d), NEW g \in {Plus, Minus} \cap A.outside,
         (a \o b) \o (c \o d) # <<>>, Last((a \o b) \o (c \o d)) \in ExponentMark
  PROVE  NumberParts(A, a, b, c, Append(d, g))
<1> DEFINE l == a \o b r == l \o c
<1>1. l \in Seq(Nat) /\ r \in Seq(Nat) /\ ~Has(r, ExponentMark)
  BY ConcatProperties, PartsHave
<1>2. l \o (c \o d) = r \o d
  <2>1. \A q, y, z \in Seq(Nat) : (q \o y) \o z = q \o (y \o z)
    BY Associative, Zenon DEF Associates
  <2>2. l \in Seq(Nat)
    BY <1>1
  <2> HIDE DEF l
  <2>3. l \o (c \o d) = (l \o c) \o d
    BY <2>1, <2>2, Zenon
  <2> QED
    BY <2>3
<1> HIDE DEF r
<1>11. r \o d # <<>> /\ Last(r \o d) \in ExponentMark
  BY <1>2
<1> HIDE DEF l
<1>3. d # <<>>
  <2>1. SUFFICES ASSUME d = <<>> PROVE FALSE
    OBVIOUS
  <2>2. r \o d = r
    BY <1>1, <2>1, ConcatEmptySeq
  <2> QED
    BY <1>1, <1>11, <2>2, LastHas
<1>4. Last(d) \in ExponentMark
  <2>1. Last(r \o d) = Last(d)
    BY <1>1, <1>3, LastConcat
  <2> QED
    BY <1>11, <2>1
<1>5. PICK s \in Seq(Digit \cap A.outside), m \in ExponentMark \cap A.outside :
        \/ d = <<m>> \o s
        \/ \E h \in {Plus, Minus} \cap A.outside : d = (<<m>> \o <<h>>) \o s
  BY <1>3 DEF NumberParts
<1>6. s \in Seq(Nat) /\ (s # <<>> => Last(s) \notin ExponentMark)
  <2>1. s # <<>> => Len(s) \in 1..Len(s)
    BY EmptySeq
  <2>2. s # <<>> => Last(s) \in Digit
    BY <2>1 DEF Last
  <2>3. \A e \in Digit : e \notin ExponentMark
    BY DEF Digit, ExponentMark
  <2> QED
    BY <2>2, <2>3, DigitBytes
<1>7. ASSUME NEW h \in {Plus, Minus}, d = (<<m>> \o <<h>>) \o s PROVE FALSE
  <2> DEFINE w == <<m>> v == <<h>>
  <2>1. w \in Seq(Nat) /\ v \in Seq(Nat) /\ v # <<>> /\ Last(v) = h
    BY DEF ExponentMark, Plus, Minus, Last
  <2> HIDE DEF w, v
  <2>2. w \o v \in Seq(Nat) /\ Last(w \o v) = h
    BY <2>1, ConcatProperties, LastConcat
  <2>3. h \notin ExponentMark
    BY DEF ExponentMark, Plus, Minus
  <2>4. s # <<>> => Last((w \o v) \o s) = Last(s)
    BY <1>6, <2>2, LastConcat
  <2>5. s = <<>> => (w \o v) \o s = w \o v
    BY <2>2, ConcatEmptySeq
  <2> QED
    BY <1>4, <1>6, <1>7, <2>2, <2>3, <2>4, <2>5 DEF w, v
<1>8. d = <<m>>
  <2> DEFINE w == <<m>>
  <2>1. w \in Seq(Nat)
    BY DEF ExponentMark
  <2>2. d = w \o s
    BY <1>5, <1>7
  <2> HIDE DEF w
  <2>3. s # <<>> => Last(w \o s) = Last(s)
    BY <1>6, <2>1, LastConcat
  <2>4. s = <<>> => w \o s = w
    BY <2>1, ConcatEmptySeq
  <2> QED
    BY <1>4, <1>6, <2>2, <2>3, <2>4 DEF w
<1>9. Append(d, g) = (<<m>> \o <<g>>) \o <<>>
  <2>1. m \in Nat /\ g \in Nat
    BY DEF ExponentMark, Plus, Minus
  <2>2. <<m>> \in Seq(Nat)
    BY <2>1
  <2>3. Append(<<m>>, g) = <<m>> \o <<g>> /\ Append(<<m>>, g) \in Seq(Nat)
    BY <2>1, <2>2, AppendIsConcat, AppendProperties
  <2>4. Append(<<m>>, g) \o <<>> = Append(<<m>>, g)
    BY <2>3, ConcatEmptySeq
  <2> QED
    BY <1>8, <2>3, <2>4
<1>10. <<>> \in Seq(Digit \cap A.outside)
  OBVIOUS
<1> QED
  BY <1>9, <1>10 DEF NumberParts

\* A byte that parse_number takes continues a number.
LEMMA NumberContinues ==
  ASSUME NEW A, NEW lex, lex # <<>>, NumberSoFar(A, lex), NEW e \in A.outside, e \in Nat, Continues(lex, e)
  PROVE  NumberSoFar(A, Append(lex, e))
<1>1. PICK a \in Seq(Nat), b \in Seq(Nat), c \in Seq(Nat), d \in Seq(Nat) :
        lex = (a \o b) \o (c \o d) /\ NumberParts(A, a, b, c, d)
  BY DEF NumberSoFar
<1>2. /\ Append(lex, e) = (a \o b) \o (c \o Append(d, e))
      /\ d = <<>> => Append(lex, e) = (a \o b) \o (Append(c, e) \o d)
      /\ d = <<>> /\ c = <<>> => Append(lex, e) = (a \o Append(b, e)) \o (c \o d)
  <2>1. Appended(a, b, c, d, e)
    BY PartAppended
  <2> QED
    BY <1>1, <2>1 DEF Appended
<1>3. Append(b, e) \in Seq(Nat) /\ Append(c, e) \in Seq(Nat) /\ Append(d, e) \in Seq(Nat)
  BY AppendProperties
<1>4. /\ NumberParts(A, a, b, c, Append(d, e)) => NumberSoFar(A, Append(lex, e))
      /\ d = <<>> /\ NumberParts(A, a, b, Append(c, e), d) => NumberSoFar(A, Append(lex, e))
      /\ d = <<>> /\ c = <<>> /\ NumberParts(A, a, Append(b, e), c, d) => NumberSoFar(A, Append(lex, e))
  BY <1>2, <1>3 DEF NumberSoFar
<1>5. \A B : Has(lex, B) <=> Has((a \o b) \o c, B) \/ Has(d, B)
  <2> DEFINE l == a \o b r == l \o c
  <2>1. l \in Seq(Nat) /\ r \in Seq(Nat)
    BY ConcatProperties
  <2>2. (l \o c) \o d = l \o (c \o d)
    <3>1. \A q, y, z \in Seq(Nat) : (q \o y) \o z = q \o (y \o z)
      BY Associative, Zenon DEF Associates
    <3>2. l \in Seq(Nat)
      BY <2>1
    <3> HIDE DEF l
    <3> QED
      BY <3>1, <3>2, Zenon
  <2>3. lex = r \o d
    BY <1>1, <2>2
  <2> HIDE DEF r
  <2>4. \A B : Has(r \o d, B) <=> Has(r, B) \/ Has(d, B)
    BY <2>1, HasConcat
  <2> QED
    BY <2>3, <2>4 DEF r
<1>6. \A B : Has(c, B) => Has((a \o b) \o c, B)
  <2>1. a \o b \in Seq(Nat)
    BY ConcatProperties
  <2> QED
    BY <2>1, HasConcat
<1>7. \A B, C : Has(lex, B) => Has(lex, B \cup C) /\ Has(lex, C \cup B)
  BY DEF Has
<1>8. <<e>> \o <<>> = <<e>> /\ Append(<<>>, e) = <<e>>
  <2>1. <<e>> \in Seq(Nat)
    OBVIOUS
  <2>2. <<e>> \o <<>> = <<e>>
    BY <2>1, ConcatEmptySeq
  <2> QED
    BY <2>2
<1>9. <<>> \in Seq(Digit \cap A.outside)
  OBVIOUS
<1>10. CASE e \in Digit
  BY <1>1, <1>4, <1>10, DigitContinues
<1>11. ASSUME e = Dot, ~Has(lex, {Dot} \cup ExponentMark) PROVE NumberSoFar(A, Append(lex, e))
  <2>1. ~Has(lex, {Dot}) /\ ~Has(lex, ExponentMark)
    BY <1>7, <1>11
  <2>2. d = <<>> /\ c = <<>>
    BY <1>1, <1>5, <1>6, <2>1, PartsHave
  <2>3. Append(c, e) = <<Dot>> \o <<>>
    BY <1>8, <1>11, <2>2
  <2>4. NumberParts(A, a, b, Append(c, e), d)
    BY <1>1, <1>9, <1>11, <2>2, <2>3 DEF NumberParts
  <2> QED
    BY <1>4, <2>2, <2>4
<1>12. ASSUME e \in ExponentMark, ~Has(lex, ExponentMark) PROVE NumberSoFar(A, Append(lex, e))
  <2>1. d = <<>>
    BY <1>1, <1>5, <1>12, PartsHave
  <2>2. Append(d, e) = <<e>> \o <<>>
    BY <1>8, <2>1
  <2>3. NumberParts(A, a, b, c, Append(d, e))
    BY <1>1, <1>9, <1>12, <2>2 DEF NumberParts
  <2> QED
    BY <1>4, <2>3
<1>13. ASSUME e \in {Plus, Minus}, Last(lex) \in ExponentMark PROVE NumberSoFar(A, Append(lex, e))
  BY <1>1, <1>4, <1>13, SignContinues
<1> QED
  BY <1>10, <1>11, <1>12, <1>13 DEF Continues

\* The first byte of a kind is where UpTo ends.
LEMMA UpToBefore ==
  ASSUME NEW x \in Seq(Nat), NEW B
  PROVE  \/ ~Has(x, B) /\ UpTo(x, B) = x
         \/ \E i \in DOMAIN x : x[i] \in B /\ UpTo(x, B) = SubSeq(x, 1, i - 1)
<1> DEFINE I == {i \in 1..Len(x) : x[i] \in B}
<1>1. CASE I = {}
  BY <1>1 DEF UpTo, SelectInSeq, Has
<1>2. CASE I # {}
  <2>1. PICK i \in I : \A j \in I : i <= j
    <3>1. I \subseteq Nat
      OBVIOUS
    <3> HIDE DEF I
    <3> QED
      BY <1>2, <3>1, LeastNatural
  <2>2. Min(I) \in I
    BY <2>1 DEF Min
  <2> DEFINE k == Min(I)
  <2>3. UpTo(x, B) = IF k = 0 THEN x ELSE SubSeq(x, 1, k - 1)
    BY <1>2 DEF UpTo, SelectInSeq
  <2> HIDE DEF k
  <2>4. k \in DOMAIN x /\ x[k] \in B /\ k # 0
    BY <2>2 DEF k
  <2> QED
    BY <2>3, <2>4
<1> QED
  BY <1>1, <1>2

\* A text of each of two sets, one behind the other.
LEMMA BothMade ==
  ASSUME NEW S, NEW T, NEW x \in S, NEW y \in T
  PROVE  x \o y \in Both(S, T)
<1> DEFINE z == <<x, y>>
<1>1. z \in S \X T /\ z[1] = x /\ z[2] = y
  OBVIOUS
<1> HIDE DEF z
<1>2. z[1] \o z[2] \in Both(S, T)
  BY <1>1 DEF Both
<1> QED
  BY <1>1, <1>2

\* What follows the first mark of a number lies in its exponent.
LEMMA ExponentDigits ==
  ASSUME NEW r \in Seq(Nat), NEW d \in Seq(Nat), NEW B, ~Has(r, B), NEW D, Has(After(r \o d, B), D)
  PROVE  Has(d, D)
<1> DEFINE x == r \o d m == Len(r) n == Len(d)
<1>1. /\ x \in Seq(Nat) /\ Len(x) = m + n
      /\ \A i \in 1 .. m + n : x[i] = IF i <= m THEN r[i] ELSE d[i - m]
  BY ConcatProperties
<1>2. m \in Nat /\ n \in Nat /\ DOMAIN r = 1..m /\ DOMAIN d = 1..n /\ DOMAIN x = 1..(m + n)
  BY <1>1
<1> HIDE DEF x, m, n
<1>3. PICK q \in DOMAIN After(x, B) : After(x, B)[q] \in D
  BY DEF Has, x
<1>4. UpTo(x, B) # x
  <2>1. SUFFICES ASSUME UpTo(x, B) = x PROVE FALSE
    OBVIOUS
  <2>2. After(x, B) = SubSeq(x, m + n + 2, m + n)
    BY <1>1, <2>1 DEF After
  <2>3. DOMAIN SubSeq(x, m + n + 2, m + n) = {}
    BY <1>1, <1>2
  <2> QED
    BY <1>3, <2>2, <2>3
<1>5. PICK i \in DOMAIN x : x[i] \in B /\ UpTo(x, B) = SubSeq(x, 1, i - 1)
  BY <1>1, <1>4, UpToBefore
<1>6. i \in 1..(m + n) /\ i > m
  <2>1. i \in 1..(m + n)
    BY <1>2
  <2>2. ~(i <= m)
    <3>1. SUFFICES ASSUME i <= m PROVE FALSE
      OBVIOUS
    <3>2. r[i] \in B /\ i \in DOMAIN r
      BY <1>1, <1>2, <1>5, <2>1, <3>1
    <3> QED
      BY <3>2 DEF Has
  <2> QED
    BY <1>2, <2>1, <2>2
<1>7. Len(SubSeq(x, 1, i - 1)) = i - 1
  BY <1>1, <1>2, <1>6
<1>8. After(x, B) = SubSeq(x, i + 1, m + n)
  <2>1. (i - 1) + 2 = i + 1
    BY <1>6
  <2> QED
    BY <1>1, <1>5, <1>7, <2>1 DEF After
<1> DEFINE k == i + q
<1>9. m \in Nat /\ n \in Nat /\ i \in Nat /\ q \in Nat /\ q >= 1 /\ i > m /\ k <= m + n /\ k \in Nat
  <2>1. DOMAIN SubSeq(x, i + 1, m + n) = 1..((m + n) - i)
    BY <1>1, <1>2, <1>6
  <2>2. q \in 1..((m + n) - i)
    BY <1>3, <1>8, <2>1
  <2>3. m + n \in Nat /\ i \in Nat /\ i > m
    BY <1>2, <1>6
  <2> QED
    BY <1>2, <2>2, <2>3
<1>10. SubSeq(x, i + 1, m + n)[q] = x[k]
  <2> DEFINE f == i + 1 u == m + n
  <2>1. f \in Int /\ u \in Int /\ q \in 1..(u - f + 1) /\ f + q - 1 = k
    BY <1>9
  <2>2. \A j \in f..u : x[j] \in Nat
    <3>1. \A j \in 1..(m + n) : x[j] \in Nat
      BY <1>1, <1>2
    <3>2. f..u \subseteq 1..(m + n)
      BY <1>9
    <3> HIDE DEF f, u
    <3> QED
      BY <3>1, <3>2
  <2> HIDE DEF f, u, k
  <2>3. SubSeq(x, f, u)[q] = x[f + q - 1]
    BY <2>1, <2>2, SubSeqProperties
  <2> QED
    BY <2>1, <2>3 DEF f, u
<1>11. k \in 1..(m + n) /\ ~(k <= m) /\ k - m \in 1..n
  BY <1>9
<1> HIDE DEF k
<1>12. x[k] = d[k - m]
  BY <1>1, <1>11
<1>13. d[k - m] \in D
  BY <1>3, <1>8, <1>10, <1>12
<1> QED
  BY <1>2, <1>11, <1>13 DEF Has

\* A number that parse_floating_point reads is one of the grammar.
LEMMA NumberMade ==
  ASSUME NEW A, A.most \in Nat, NEW lex, lex # <<>>, NumberSoFar(A, lex), Readable(lex), Len(lex) <= A.most
  PROVE  ValueText(A, lex, NumberIn(lex))
<1> DEFINE n == Len(lex)
<1>1. PICK a \in Seq(Nat), b \in Seq(Nat), c \in Seq(Nat), d \in Seq(Nat) :
        lex = (a \o b) \o (c \o d) /\ NumberParts(A, a, b, c, d)
  BY DEF NumberSoFar
<1> DEFINE l == a \o b r == l \o c t == <<Len(a), Len(b), Len(c)>>
           part(z) == Both(Both(Signs(A, z[1]), Whole(A, FALSE, z[2])),
                           Both(Fraction(A, FALSE, z[3]), Exponent(A, n - z[1] - z[2] - z[3])))
           parts == {z \in (0..1) \X (0..n) \X (0..n) : z[1] + z[2] + z[3] <= n}
<1>2. l \in Seq(Nat) /\ Len(l) = Len(a) + Len(b)
  BY ConcatProperties
<1>3. (l \o c) \o d = l \o (c \o d)
  <2>1. \A q, y, z \in Seq(Nat) : (q \o y) \o z = q \o (y \o z)
    BY Associative, Zenon DEF Associates
  <2>2. l \in Seq(Nat)
    BY <1>2
  <2> HIDE DEF l
  <2> QED
    BY <2>1, <2>2, Zenon
<1> HIDE DEF l
<1>4. r \in Seq(Nat) /\ Len(r) = Len(l) + Len(c)
  BY <1>2, ConcatProperties
<1>5. lex = r \o d
  BY <1>1, <1>3 DEF l
<1> HIDE DEF r
<1>6. r \o d \in Seq(Nat) /\ Len(r \o d) = Len(r) + Len(d)
  BY <1>4, ConcatProperties
<1>7. lex \in Seq(Nat) /\ n = Len(a) + Len(b) + Len(c) + Len(d)
  BY <1>2, <1>4, <1>5, <1>6
<1>8. d = <<>> \/ Has(d, Digit)
  <2>1. SUFFICES ASSUME d # <<>> PROVE Has(d, Digit)
    OBVIOUS
  <2>2. ~Has(r, ExponentMark) /\ Has(d, ExponentMark)
    BY <1>1, <2>1, PartsHave DEF r, l
  <2>3. Has(r \o d, ExponentMark)
    BY <1>4, <2>2, HasConcat
  <2>4. Has(After(r \o d, ExponentMark), Digit)
    BY <1>5, <2>3 DEF Readable
  <2> QED
    BY <1>4, <2>2, <2>4, ExponentDigits
<1>9. /\ a \in Signs(A, Len(a)) /\ Len(a) <= 1
      /\ b \in Whole(A, FALSE, Len(b))
      /\ c \in Fraction(A, FALSE, Len(c))
      /\ d \in Exponent(A, Len(d))
  BY <1>1, <1>8, NumberPartsAre
<1>10. Len(a) \in Nat /\ Len(b) \in Nat /\ Len(c) \in Nat /\ Len(d) \in Nat
  OBVIOUS
<1> HIDE DEF n
<1>11. n \in Nat
  BY <1>7, <1>10
<1>12. t \in parts /\ t[1] = Len(a) /\ t[2] = Len(b) /\ t[3] = Len(c) /\ n - t[1] - t[2] - t[3] = Len(d)
  <2>1. t[1] = Len(a) /\ t[2] = Len(b) /\ t[3] = Len(c)
    OBVIOUS
  <2>2. Len(a) \in 0..1 /\ Len(b) \in 0..n /\ Len(c) \in 0..n
    <3>1. Len(a) <= 1
      BY <1>9
    <3>2. n = Len(a) + Len(b) + Len(c) + Len(d)
      BY <1>7
    <3> HIDE DEF parts, part, t
    <3> DEFINE na == Len(a) nb == Len(b) nc == Len(c) nd == Len(d)
    <3>3. na \in Nat /\ nb \in Nat /\ nc \in Nat /\ nd \in Nat /\ n = na + nb + nc + nd /\ na <= 1
      BY <1>10, <3>1, <3>2
    <3> HIDE DEF na, nb, nc, nd
    <3>4. na \in 0..1 /\ nb \in 0..n /\ nc \in 0..n
      BY <3>3
    <3> QED
      BY <3>4 DEF na, nb, nc
  <2>3. t \in (0..1) \X (0..n) \X (0..n)
    BY <2>2
  <2>4. n - Len(a) - Len(b) - Len(c) = Len(d) /\ Len(a) + Len(b) + Len(c) <= n
    BY <1>7, <1>10, <1>11
  <2> HIDE DEF t
  <2> QED
    BY <2>1, <2>3, <2>4
<1> HIDE DEF t
<1>13. lex \in part(t)
  <2>1. l \in Both(Signs(A, t[1]), Whole(A, FALSE, t[2]))
    BY <1>9, <1>12, BothMade DEF l
  <2>2. c \o d \in Both(Fraction(A, FALSE, t[3]), Exponent(A, n - t[1] - t[2] - t[3]))
    BY <1>9, <1>12, BothMade
  <2>3. l \o (c \o d) \in part(t)
    BY <2>1, <2>2, BothMade
  <2> QED
    BY <1>1, <2>3 DEF l
<1>14. lex \in NumberTexts(A, FALSE, n)
  <2>1. NumberTexts(A, FALSE, n) = {x \in UNION {part(z) : z \in parts} :
                                      Has(UpTo(x, ExponentMark), Digit) /\ InRange(NumberIn(x))}
    BY DEF NumberTexts
  <2> HIDE DEF part, parts
  <2> QED
    BY <1>12, <1>13, <2>1 DEF Readable
<1>15. n \in 1..A.most
  <2>1. n # 0
    BY <1>7, EmptySeq DEF n
  <2> QED
    BY <1>11, <2>1 DEF n
<1> DEFINE L == Levels(A)[n]
<1>16. <<lex, NumberIn(lex)>> \in L.value
  <2>1. L.value = ValueLevel(A, FALSE, Quoted(A), Below(A, n, n - 2), n)
    <3>1. Composed(A, n, L)
      BY <1>15, LevelParts
    <3> QED
      BY <3>1 DEF Composed
  <2> HIDE DEF L
  <2>2. {<<x, NumberIn(x)>> : x \in NumberTexts(A, FALSE, n)} \subseteq L.value
    BY <2>1 DEF ValueLevel
  <2> QED
    BY <1>14, <2>2
<1> QED
  BY <1>7, <1>15, <1>16 DEF ValueText, IsText, n

-----------------------------------------------------------------------------
(***************************************************************************)
(* Blanks around a text.                                                   *)
(***************************************************************************)

\* What takes one blank on either side takes any number.
Grows(A, S) == /\ S \subseteq Seq(Nat)
               /\ \A x \in S, b \in Padding(A) : Len(x) < A.most => <<b>> \o x \in S /\ Append(x, b) \in S

Apart(A, s, k) ==
  /\ \E t \in Seq(Padding(A)), b \in Padding(A) : Len(t) = k /\ s = Append(t, b)
  /\ \E t \in Seq(Padding(A)), b \in Padding(A) : Len(t) = k /\ s = <<b>> \o t

\* A text of blanks is one blank and another such text, at either end.
LEMMA BlanksApart ==
  ASSUME NEW A, NEW k \in Nat, NEW s \in Seq(Padding(A)), Len(s) = k + 1
  PROVE  Apart(A, s, k)
<1>1. s # <<>> /\ Len(s) \in 1..Len(s) /\ 1 \in 1..Len(s)
  BY EmptySeq
<1>2. PICK t \in Seq(Padding(A)), b \in Padding(A) : s = Append(t, b)
  BY <1>1, SequenceEmptyOrAppend
<1>3. Len(t) = k
  <2>1. Len(Append(t, b)) = Len(t) + 1 /\ Len(t) \in Nat
    BY AppendProperties
  <2> QED
    BY <1>2, <2>1
<1>4. s = <<s[1]>> \o SubSeq(s, 2, Len(s)) /\ SubSeq(s, 2, Len(s)) \in Seq(Padding(A))
      /\ Len(SubSeq(s, 2, Len(s))) = k /\ s[1] \in Padding(A)
  <2>1. SubSeq(s, 1, Len(s)) = s
    BY SubSeqFull
  <2>2. SubSeq(s, 1, Len(s)) = <<s[1]>> \o SubSeq(s, 1 + 1, Len(s))
    BY <1>1, SubSeqRecursiveFirst
  <2>3. SubSeq(s, 2, Len(s)) \in Seq(Padding(A)) /\ Len(SubSeq(s, 2, Len(s))) = k
    OBVIOUS
  <2> QED
    BY <1>1, <2>1, <2>2, <2>3
<1> QED
  BY <1>2, <1>3, <1>4 DEF Apart

\* Blanks are bytes.
LEMMA PaddingBytes ==
  ASSUME NEW A
  PROVE  /\ Padding(A) \subseteq Nat
         /\ \A s \in Seq(Padding(A)) : s \in Seq(Nat)
<1>1. Padding(A) \subseteq Nat
  BY DEF Padding, Blank
<1> QED
  BY <1>1

\* A set of texts that a blank at either end keeps is kept by many.
LEMMA BlanksGrow ==
  ASSUME NEW A, A.most \in Nat, NEW S, Grows(A, S), NEW x \in S
  PROVE  \A b \in Seq(Padding(A)) : Len(x) + Len(b) <= A.most => x \o b \in S /\ b \o x \in S
<1> DEFINE Bad(k) == \E b \in Seq(Padding(A)) : /\ Len(b) = k /\ Len(x) + Len(b) <= A.most
                                                /\ ~(x \o b \in S /\ b \o x \in S)
           T == {k \in Nat : Bad(k)}
<1>1. x \in Seq(Nat) /\ Len(x) \in Nat
  BY DEF Grows
<1>2. ASSUME T # {} PROVE FALSE
  <2>1. PICK k \in T : \A j \in T : k <= j
    <3>1. T \subseteq Nat
      OBVIOUS
    <3> HIDE DEF T
    <3> QED
      BY <1>2, <3>1, LeastNatural
  <2>2. k \in Nat /\ Bad(k)
    OBVIOUS
  <2>3. PICK b \in Seq(Padding(A)) : /\ Len(b) = k /\ Len(x) + Len(b) <= A.most
                                     /\ ~(x \o b \in S /\ b \o x \in S)
    BY <2>2
  <2>4. CASE k = 0
    <3>1. b = <<>>
      BY <2>3, <2>4, EmptySeq
    <3>2. x \o b = x /\ b \o x = x
      BY <1>1, <3>1, ConcatEmptySeq
    <3> QED
      BY <2>3, <3>2
  <2>5. CASE k # 0
    <3> DEFINE j == k - 1
    <3>1. j \in Nat /\ k = j + 1 /\ j < k
      BY <2>2, <2>5
    <3>2. ~Bad(j)
      <4>1. j \notin T
        BY <2>1, <2>2, <3>1
      <4> QED
        BY <3>1, <4>1
    <3> HIDE DEF j, T
    <3>3. \A t \in Seq(Padding(A)) : Len(t) = j => x \o t \in S /\ t \o x \in S
      <4>1. Len(x) + j <= A.most
        BY <1>1, <2>2, <2>3, <3>1
      <4> QED
        BY <3>2, <4>1
    <3>12. Apart(A, b, j)
      <4>1. Len(b) = j + 1
        BY <2>3, <3>1
      <4> QED
        BY <3>1, <4>1, BlanksApart
    <3>4. PICK t \in Seq(Padding(A)), c \in Padding(A) : Len(t) = j /\ b = Append(t, c)
      BY <3>12 DEF Apart
    <3>5. PICK r \in Seq(Padding(A)), d \in Padding(A) : Len(r) = j /\ b = <<d>> \o r
      BY <3>12 DEF Apart
    <3>6. t \in Seq(Nat) /\ r \in Seq(Nat) /\ c \in Nat /\ d \in Nat
      BY PaddingBytes
    <3>7. x \o t \in S /\ r \o x \in S
      BY <3>3, <3>4, <3>5
    <3>8. Len(x \o t) < A.most /\ Len(r \o x) < A.most
      <4>1. Len(x \o t) = Len(x) + Len(t) /\ Len(r \o x) = Len(r) + Len(x)
        BY <1>1, <3>6, ConcatProperties
      <4> QED
        BY <1>1, <2>2, <2>3, <3>1, <3>4, <3>5, <4>1
    <3>9. Append(x \o t, c) \in S /\ <<d>> \o (r \o x) \in S
      BY <3>7, <3>8 DEF Grows
    <3>10. Append(x \o t, c) = x \o b
      BY <1>1, <3>4, <3>6, AppendRight
    <3>11. <<d>> \o (r \o x) = b \o x
      <4> DEFINE w == <<d>>
      <4>1. w \in Seq(Nat)
        BY <3>6
      <4> HIDE DEF w
      <4>2. (w \o r) \o x = w \o (r \o x)
        BY <1>1, <3>6, <4>1, Regrouped
      <4> QED
        BY <3>5, <4>2 DEF w
    <3> QED
      BY <2>3, <3>9, <3>10, <3>11
  <2> QED
    BY <2>4, <2>5
<1>3. ASSUME NEW b \in Seq(Padding(A)), Len(x) + Len(b) <= A.most
      PROVE  x \o b \in S /\ b \o x \in S
  <2>1. Len(b) \in Nat /\ Len(b) \notin T
    BY <1>2
  <2> QED
    BY <1>3, <2>1
<1> QED
  BY <1>3

\* Blanks may stand before and behind a value and a key.
LEMMA BlanksAround ==
  ASSUME NEW A, A.most \in Nat, NEW x, NEW v, NEW b \in Seq(Padding(A)), Len(x) + Len(b) <= A.most
  PROVE  /\ PaddedText(A, x, v) => PaddedText(A, b \o x, v) /\ PaddedText(A, x \o b, v)
         /\ KeyText(A, x, v) => KeyText(A, b \o x, v) /\ KeyText(A, x \o b, v)
<1> DEFINE S == {y \in Seq(Nat) : PaddedText(A, y, v)} K == {y \in Seq(Nat) : KeyText(A, y, v)}
<1>1. Grows(A, S) /\ Grows(A, K)
  <2>1. ASSUME NEW y \in Seq(Nat), NEW c \in Padding(A), Len(y) < A.most
        PROVE  /\ PaddedText(A, y, v) => PaddedText(A, <<c>> \o y, v) /\ PaddedText(A, Append(y, c), v)
               /\ KeyText(A, y, v) => KeyText(A, <<c>> \o y, v) /\ KeyText(A, Append(y, c), v)
    BY <2>1, BlankAdded
  <2>2. ASSUME NEW y \in Seq(Nat), NEW c \in Padding(A)
        PROVE  <<c>> \o y \in Seq(Nat) /\ Append(y, c) \in Seq(Nat)
    BY PaddingBytes, Lengthened
  <2>3. \A y \in S, c \in Padding(A) : Len(y) < A.most => <<c>> \o y \in S /\ Append(y, c) \in S
    BY <2>1, <2>2
  <2>4. \A y \in K, c \in Padding(A) : Len(y) < A.most => <<c>> \o y \in K /\ Append(y, c) \in K
    BY <2>1, <2>2
  <2>5. S \subseteq Seq(Nat) /\ K \subseteq Seq(Nat)
    OBVIOUS
  <2> HIDE DEF S, K
  <2> QED
    BY <2>3, <2>4, <2>5 DEF Grows
<1>2. ASSUME PaddedText(A, x, v) PROVE PaddedText(A, b \o x, v) /\ PaddedText(A, x \o b, v)
  <2>1. x \in S
    BY <1>2 DEF PaddedText, IsText
  <2> HIDE DEF S
  <2>2. x \o b \in S /\ b \o x \in S
    BY <1>1, <2>1, BlanksGrow
  <2> QED
    BY <2>2 DEF S
<1>3. ASSUME KeyText(A, x, v) PROVE KeyText(A, b \o x, v) /\ KeyText(A, x \o b, v)
  <2>1. x \in K
    BY <1>3 DEF KeyText, IsText
  <2> HIDE DEF K
  <2>2. x \o b \in K /\ b \o x \in K
    BY <1>1, <2>1, BlanksGrow
  <2> QED
    BY <2>2 DEF K
<1> QED
  BY <1>2, <1>3

-----------------------------------------------------------------------------
(***************************************************************************)
(* Literals, and the bytes and escapes of strings.                         *)
(***************************************************************************)

\* null, true and false are values.
LEMMA LiteralMade ==
  ASSUME NEW A, A.most \in Nat, NEW l \in Literals, Len(l[1]) <= A.most,
         \A i \in 1..Len(l[1]) : l[1][i] \in A.outside
  PROVE  ValueText(A, l[1], l[2])
<1> DEFINE n == Len(l[1]) L == Levels(A)[n]
<1>1. l[1] \in Seq(Nat) /\ Len(l[1]) \in {4, 5} /\ l = <<l[1], l[2]>>
  <2>1. CASE l = <<<<110, 117, 108, 108>>, Null>>
    BY <2>1
  <2>2. CASE l = <<<<116, 114, 117, 101>>, Boolean(TRUE)>>
    BY <2>2
  <2>3. CASE l = <<<<102, 97, 108, 115, 101>>, Boolean(FALSE)>>
    BY <2>3
  <2> QED
    BY <2>1, <2>2, <2>3 DEF Literals
<1>2. n \in 1..A.most
  <2>1. n \in Nat /\ n >= 1 /\ n <= A.most
    <3>1. n \in {4, 5} /\ n <= A.most
      BY <1>1
    <3> HIDE DEF n
    <3> QED
      BY <3>1
  <2> HIDE DEF n
  <2> QED
    BY <2>1
<1>3. l \in L.value
  <2>1. L.value = ValueLevel(A, FALSE, Quoted(A), Below(A, n, n - 2), n)
    <3>1. Composed(A, n, L)
      BY <1>2, LevelParts
    <3> QED
      BY <3>1 DEF Composed
  <2> HIDE DEF L
  <2>2. {k \in Literals : Len(k[1]) = n /\ \A i \in 1..n : k[1][i] \in A.outside} \subseteq L.value
    BY <2>1 DEF ValueLevel
  <2>3. l \in {k \in Literals : Len(k[1]) = n /\ \A i \in 1..n : k[1][i] \in A.outside}
    OBVIOUS
  <2> QED
    BY <2>2, <2>3
<1> HIDE DEF L, n
<1> QED
  BY <1>1, <1>2, <1>3 DEF ValueText, IsText, L, n

\* The pieces of a string: a byte, an escape of two bytes and one of six.
LEMMA PlainPiece ==
  ASSUME NEW A, NEW c \in A.inside, c >= 32, c \notin {Quote, Backslash}
  PROVE  <<<<c>>, <<c>>>> \in Pieces(A, 1)
BY DEF Pieces, Plain

\* An escape of one letter.
LEMMA MarkPiece ==
  ASSUME NEW A, NEW e \in Escapes, Backslash \in A.inside, e[1] \in A.inside
  PROVE  <<<<Backslash, e[1]>>, <<e[2]>>>> \in Pieces(A, 2)
<1>1. e \in {d \in Escapes : {Backslash, d[1]} \subseteq A.inside}
  OBVIOUS
<1>2. <<<<Backslash, e[1]>>, <<e[2]>>>> \in Marks(A)
  BY <1>1 DEF Marks
<1> QED
  BY <1>2 DEF Pieces

\* A hexadecimal digit, or -1 for what is none.
LEMMA HexDigitRange ==
  ASSUME NEW c \in Nat
  PROVE  HexDigit(c) \in -1..15
BY DEF HexDigit

HexByte(A) == {c \in A.inside \cap Nat : HexDigit(c) # -1}
HexSum(h) == 4096 * HexDigit(h[1]) + 256 * HexDigit(h[2]) + 16 * HexDigit(h[3]) + HexDigit(h[4])

\* A code unit in four hexadecimal digits.
LEMMA UnitPiece ==
  ASSUME NEW A, A.inside \subseteq Nat, Backslash \in A.inside, 117 \in A.inside,
         NEW h \in Seq(HexByte(A)), Len(h) = 4
  PROVE  <<<<Backslash, 117>> \o h, Utf8(HexSum(h))>> \in Pieces(A, 6)
<1> DEFINE H == {c \in A.inside : HexDigit(c) # -1}
           S == IF {Backslash, 117} \subseteq A.inside THEN TupleOf(H, 4) ELSE {}
<1>1. H = HexByte(A)
  BY DEF HexByte
<1>2. h \in S
  <2>1. h \in [1..4 -> HexByte(A)]
    BY LenProperties
  <2> QED
    BY <1>1, <2>1 DEF TupleOf
<1>3. Units(A) = {<<<<Backslash, 117>> \o g, Utf8(HexSum(g))>> : g \in S}
  BY DEF Units, HexSum
<1> HIDE DEF S
<1>4. <<<<Backslash, 117>> \o h, Utf8(HexSum(h))>> \in Units(A)
  BY <1>2, <1>3
<1> QED
  BY <1>4 DEF Pieces

\* What the reader makes of four hexadecimal digits.
LEMMA UnitSum ==
  ASSUME NEW unit, DOMAIN unit = 1..4, NEW h, \A i \in 1..4 : unit[i] = HexDigit(h[i]) /\ h[i] \in Nat
  PROVE  FoldLeft(LAMBDA n, d : 16 * n + d, 0, unit) = HexSum(h)
<1>1. PICK f : /\ f[0] = 0
               /\ \A k \in 1..4 : f[k] = 16 * f[k - 1] + unit[k]
               /\ FoldLeft(LAMBDA n, d : 16 * n + d, 0, unit) = f[4]
  BY UnitFold
<1> DEFINE u1 == HexDigit(h[1]) u2 == HexDigit(h[2]) u3 == HexDigit(h[3]) u4 == HexDigit(h[4])
<1>2. u1 \in Int /\ u2 \in Int /\ u3 \in Int /\ u4 \in Int
  BY HexDigitRange
<1>3. unit[1] = u1 /\ unit[2] = u2 /\ unit[3] = u3 /\ unit[4] = u4
  OBVIOUS
<1> HIDE DEF u1, u2, u3, u4
<1>4. f[1] = 16 * f[0] + unit[1] /\ f[2] = 16 * f[1] + unit[2] /\ f[3] = 16 * f[2] + unit[3] /\ f[4] = 16 * f[3] + unit[4]
  <2>1. \A k \in 1..4 : f[k] = 16 * f[k - 1] + unit[k]
    BY <1>1
  <2>2. 1 \in 1..4 /\ 2 \in 1..4 /\ 3 \in 1..4 /\ 4 \in 1..4 /\ 1 - 1 = 0 /\ 2 - 1 = 1 /\ 3 - 1 = 2 /\ 4 - 1 = 3
    OBVIOUS
  <2> QED
    BY <2>1, <2>2
<1>10. f[0] = 0
  BY <1>1
<1>5. f[1] = u1
  <2>1. 16 * f[0] = 0 /\ 0 + u1 = u1
    BY <1>2, <1>10
  <2> QED
    BY <1>3, <1>4, <2>1
<1>6. f[2] = 16 * u1 + u2
  BY <1>3, <1>4, <1>5
<1>7. f[3] = 16 * (16 * u1 + u2) + u3
  BY <1>3, <1>4, <1>6
<1>8. f[4] = 16 * (16 * (16 * u1 + u2) + u3) + u4
  BY <1>3, <1>4, <1>7
<1>9. f[4] = 4096 * u1 + 256 * u2 + 16 * u3 + u4
  BY <1>2, <1>8
<1>11. f[4] = HexSum(h)
  BY <1>9 DEF HexSum, u1, u2, u3, u4
<1> QED
  BY <1>1, <1>11

\* A code unit is written in bytes.
LEMMA UnitBytes ==
  ASSUME NEW c \in Nat
  PROVE  Utf8(c) \in Seq(Nat)
<1>1. c \div 64 \in Nat /\ c % 64 \in Nat /\ c \div 4096 \in Nat /\ (c \div 64) % 64 \in Nat
  OBVIOUS
<1>2. CASE c <= 127
  BY <1>2 DEF Utf8
<1>3. CASE ~(c <= 127) /\ c <= 2047
  BY <1>1, <1>3 DEF Utf8
<1>4. CASE ~(c <= 127) /\ ~(c <= 2047)
  BY <1>1, <1>4 DEF Utf8
<1> QED
  BY <1>2, <1>3, <1>4

\* Four hexadecimal digits are a code unit.
LEMMA HexSumNat ==
  ASSUME NEW A, NEW h \in Seq(HexByte(A)), Len(h) = 4
  PROVE  HexSum(h) \in Nat
<1>1. \A i \in 1..4 : h[i] \in HexByte(A)
  OBVIOUS
<1>2. \A c \in HexByte(A) : HexDigit(c) \in 0..15
  <2>1. \A c \in HexByte(A) : c \in Nat /\ HexDigit(c) # -1
    BY DEF HexByte
  <2> QED
    BY <2>1, HexDigitRange
<1>3. HexDigit(h[1]) \in Nat /\ HexDigit(h[2]) \in Nat /\ HexDigit(h[3]) \in Nat /\ HexDigit(h[4]) \in Nat
  BY <1>1, <1>2
<1> QED
  BY <1>3, SMTT(60) DEF HexSum

-----------------------------------------------------------------------------
(***************************************************************************)
(* The text read so far is cut at the places where the calls of parse_array *)
(* and parse_object that are in progress began: each call owns its text up to *)
(* the value that is being read.                                           *)
(***************************************************************************)

Blanks(A) == Seq(Padding(A))
IsArray(f) == f = [items |-> f.items]
IsObject(f) == f = [fields |-> f.fields, key |-> f.key]
\* The text of an object up to a key.
KeyNext(A, f, h) ==
  /\ IsObject(f) /\ LBrace \in A.outside
  /\ \/ f.fields = <<>> /\ h = <<LBrace>>
     \/ Comma \in A.outside /\ \E m : MembersText(A, m, f.fields) /\ h = <<LBrace>> \o Append(m, Comma)
KeyRoom(A, f, s) == \E h : \E b \in Blanks(A) : KeyNext(A, f, h) /\ s = h \o b
Keyed(A, f, s) == \E h, k : KeyNext(A, f, h) /\ KeyText(A, k, f.key) /\ s = h \o k
\* The text of a call in progress up to a value.
Room(A, f, s) ==
  \/ /\ IsArray(f) /\ LBracket \in A.outside
     /\ \E b \in Blanks(A) :
          \/ f.items = <<>> /\ s = <<LBracket>> \o b
          \/ Comma \in A.outside /\ \E e : /\ ElementsText(A, e, f.items)
                                           /\ s = <<LBracket>> \o (Append(e, Comma) \o b)
  \/ Colon \in A.outside /\ \E r : \E b \in Blanks(A) : Keyed(A, f, r) /\ s = Append(r, Colon) \o b
RoomAt(A, st, j, s) == IF j = 0 THEN s \in Blanks(A) ELSE Room(A, st[j], s)

\* The text x in as many parts as calls are in progress, and a last one.
Cut(A, st, x, cuts, cur) ==
  /\ DOMAIN cuts = 1..(Len(st) + 1) /\ cuts[1] = 0
  /\ \A j \in 1..(Len(st) + 1) : cuts[j] \in 0..Len(x)
  /\ \A j \in 1..Len(st) : /\ cuts[j] <= cuts[j + 1]
                           /\ RoomAt(A, st, j - 1, SubSeq(x, cuts[j] + 1, cuts[j + 1]))
  /\ cur = SubSeq(x, cuts[Len(st) + 1] + 1, Len(x))
IsStack(st) == \E S : st \in Seq(S)
Laid(A, st, x, cur) == IsStack(st) /\ x \in Seq(Nat) /\ \E cuts : Cut(A, st, x, cuts, cur)

\* One more byte leaves the parts before it as they are.
LEMMA KeptPart ==
  ASSUME NEW x \in Seq(Nat), NEW c \in Nat, NEW a \in Nat, NEW b \in Nat, b <= Len(x)
  PROVE  SubSeq(Append(x, c), a + 1, b) = SubSeq(x, a + 1, b)
<1> DEFINE t == Append(x, c) f == a + 1
<1>1. /\ t \in Seq(Nat) /\ Len(t) = Len(x) + 1 /\ Len(x) \in Nat
      /\ \A i \in 1..Len(x) : t[i] = x[i]
  BY AppendProperties
<1> HIDE DEF t, f
<1>2. f \in Int /\ f >= 1
  BY DEF f
<1>3. \A i \in f..b : t[i] = x[i] /\ x[i] \in Nat
  <2>1. f..b \subseteq 1..Len(x)
    BY <1>1, <1>2
  <2>2. \A i \in 1..Len(x) : x[i] \in Nat
    OBVIOUS
  <2> QED
    BY <1>1, <2>1, <2>2
<1>4. /\ SubSeq(t, f, b) \in Seq(Nat) /\ SubSeq(x, f, b) \in Seq(Nat)
      /\ Len(SubSeq(t, f, b)) = Len(SubSeq(x, f, b))
      /\ \A i \in 1..(b - f + 1) : SubSeq(t, f, b)[i] = t[f + i - 1] /\ SubSeq(x, f, b)[i] = x[f + i - 1]
      /\ Len(SubSeq(x, f, b)) = IF f <= b THEN b - f + 1 ELSE 0
  <2>1. \A i \in f..b : t[i] \in Nat /\ x[i] \in Nat
    BY <1>3
  <2>2. /\ SubSeq(t, f, b) \in Seq(Nat) /\ Len(SubSeq(t, f, b)) = (IF f <= b THEN b - f + 1 ELSE 0)
        /\ \A i \in 1..(b - f + 1) : SubSeq(t, f, b)[i] = t[f + i - 1]
    BY <1>2, <2>1, SubSeqProperties
  <2>3. /\ SubSeq(x, f, b) \in Seq(Nat) /\ Len(SubSeq(x, f, b)) = (IF f <= b THEN b - f + 1 ELSE 0)
        /\ \A i \in 1..(b - f + 1) : SubSeq(x, f, b)[i] = x[f + i - 1]
    BY <1>2, <2>1, SubSeqProperties
  <2> QED
    BY <2>2, <2>3
<1>5. \A i \in 1..Len(SubSeq(x, f, b)) : SubSeq(t, f, b)[i] = SubSeq(x, f, b)[i]
  <2>1. SUFFICES ASSUME NEW i \in 1..Len(SubSeq(x, f, b)) PROVE SubSeq(t, f, b)[i] = SubSeq(x, f, b)[i]
    OBVIOUS
  <2>2. i \in 1..(b - f + 1) /\ f + i - 1 \in f..b
    BY <1>2, <1>4
  <2> QED
    BY <1>3, <1>4, <2>2
<1> DEFINE u == SubSeq(t, f, b) v == SubSeq(x, f, b)
<1> HIDE DEF u, v
<1>6. u = v
  BY <1>4, <1>5, SeqEqual DEF u, v
<1> QED
  BY <1>6 DEF u, v, t, f

\* One more byte is one more in the last part.
LEMMA GrownPart ==
  ASSUME NEW x \in Seq(Nat), NEW c \in Nat, NEW a \in 0..Len(x)
  PROVE  SubSeq(Append(x, c), a + 1, Len(Append(x, c))) = Append(SubSeq(x, a + 1, Len(x)), c)
<1> DEFINE t == Append(x, c) m == Len(x)
<1>1. t \in Seq(Nat) /\ Len(t) = m + 1 /\ m \in Nat /\ t[m + 1] = c
  BY AppendProperties
<1>2. SubSeq(t, a + 1, m) = SubSeq(x, a + 1, m)
  BY <1>1, KeptPart
<1> HIDE DEF t, m
<1>3. SubSeq(t, a + 1, m + 1) = SubSeq(t, a + 1, m) \o <<t[m + 1]>>
  <2> DEFINE f == a + 1 n == m + 1
  <2>1. f \in 1..Len(t) /\ n \in f..Len(t) /\ n - 1 = m
    BY <1>1 DEF m
  <2> HIDE DEF f, n
  <2>2. SubSeq(t, f, n) = SubSeq(t, f, n - 1) \o <<t[n]>>
    BY <1>1, <2>1, SubSeqRecursiveSecond
  <2>3. SubSeq(t, f, n) = SubSeq(t, f, m) \o <<t[n]>>
    BY <2>1, <2>2
  <2> QED
    BY <2>3 DEF f, n
<1>4. SubSeq(x, a + 1, m) \in Seq(Nat)
  BY DEF m
<1>5. Append(SubSeq(x, a + 1, m), c) = SubSeq(x, a + 1, m) \o <<c>>
  BY <1>4, AppendIsConcat
<1>7. SubSeq(t, a + 1, m + 1) = Append(SubSeq(x, a + 1, m), c)
  BY <1>1, <1>2, <1>3, <1>5
<1> QED
  BY <1>1, <1>7 DEF t, m

\* A stack of calls without the last one, and with one more.
LEMMA StackFront ==
  ASSUME NEW st, IsStack(st), st # <<>>
  PROVE  IsStack(Front(st)) /\ Len(Front(st)) = Len(st) - 1 /\ Len(st) \in Nat \ {0}
         /\ \A j \in 1..(Len(st) - 1) : Front(st)[j] = st[j]
<1> DEFINE n == Len(st) k == n - 1 st2 == Front(st)
<1>1. PICK S : st \in Seq(S)
  BY DEF IsStack
<1>2. n \in Nat \ {0} /\ k \in Nat /\ n = k + 1
  BY <1>1, EmptySeq
<1>3. \A i \in 1..k : st[i] \in S
  <2>1. \A i \in 1..n : st[i] \in S
    BY <1>1
  <2>2. 1..k \subseteq 1..n
    BY <1>2
  <2> QED
    BY <2>1, <2>2
<1>4. 1 \in Int /\ k \in Int /\ st2 = SubSeq(st, 1, k)
  BY <1>2 DEF Front
<1> HIDE DEF k, st2
<1>5. /\ SubSeq(st, 1, k) \in Seq(S) /\ Len(SubSeq(st, 1, k)) = (IF 1 <= k THEN k - 1 + 1 ELSE 0)
      /\ \A i \in 1..(k - 1 + 1) : SubSeq(st, 1, k)[i] = st[1 + i - 1]
  BY <1>3, <1>4, SubSeqProperties
<1>6. Len(st2) = k /\ \A j \in 1..k : st2[j] = st[j]
  BY <1>2, <1>4, <1>5
<1> QED
  BY <1>2, <1>4, <1>5, <1>6 DEF IsStack, st2, k

\* A call more in progress.
LEMMA StackAppend ==
  ASSUME NEW st, IsStack(st), NEW f
  PROVE  IsStack(Append(st, f)) /\ Len(Append(st, f)) = Len(st) + 1 /\ Append(st, f)[Len(st) + 1] = f
         /\ Append(st, f) # <<>> /\ \A j \in 1..Len(st) : Append(st, f)[j] = st[j]
<1>1. PICK S : st \in Seq(S)
  BY DEF IsStack
<1>2. S \subseteq S \cup {f}
  OBVIOUS
<1>3. st \in Seq(S \cup {f}) /\ f \in S \cup {f}
  BY <1>1, <1>2, SeqMonotonic
<1> DEFINE T == S \cup {f}
<1> HIDE DEF T
<1>4. /\ Append(st, f) \in Seq(T) /\ Len(Append(st, f)) = Len(st) + 1 /\ Append(st, f)[Len(st) + 1] = f
      /\ Append(st, f) # <<>> /\ \A j \in 1..Len(st) : Append(st, f)[j] = st[j]
  BY <1>3, AppendProperties DEF T
<1> QED
  BY <1>4 DEF IsStack

\* A byte more belongs to the last part.
LEMMA LaidAppend ==
  ASSUME NEW A, NEW st, NEW x, NEW cur, Laid(A, st, x, cur), NEW c \in Nat
  PROVE  Laid(A, st, Append(x, c), Append(cur, c))
<1> DEFINE n == Len(st)
<1>1. IsStack(st) /\ x \in Seq(Nat) /\ Len(x) \in Nat /\ n \in Nat
  BY DEF Laid, IsStack
<1>2. PICK cuts : Cut(A, st, x, cuts, cur)
  BY DEF Laid
<1> HIDE DEF n
<1>3. Append(x, c) \in Seq(Nat) /\ Len(Append(x, c)) = Len(x) + 1
  BY <1>1, AppendProperties
<1>4. /\ DOMAIN cuts = 1..(n + 1) /\ cuts[1] = 0
      /\ \A j \in 1..(n + 1) : cuts[j] \in 0..Len(x)
      /\ \A j \in 1..n : /\ cuts[j] <= cuts[j + 1]
                        /\ RoomAt(A, st, j - 1, SubSeq(x, cuts[j] + 1, cuts[j + 1]))
      /\ cur = SubSeq(x, cuts[n + 1] + 1, Len(x))
  BY <1>2 DEF Cut, n
<1>5. ASSUME NEW j \in 1..n
      PROVE  SubSeq(Append(x, c), cuts[j] + 1, cuts[j + 1]) = SubSeq(x, cuts[j] + 1, cuts[j + 1])
  <2>1. j \in 1..(n + 1) /\ j + 1 \in 1..(n + 1)
    BY <1>1
  <2>2. cuts[j] \in Nat /\ cuts[j + 1] \in Nat /\ cuts[j + 1] <= Len(x)
    BY <1>1, <1>4, <2>1
  <2> QED
    BY <1>1, <2>2, KeptPart, ZenonT(60)
<1>6. Append(cur, c) = SubSeq(Append(x, c), cuts[n + 1] + 1, Len(Append(x, c)))
  <2>1. n + 1 \in 1..(n + 1)
    BY <1>1
  <2>2. cuts[n + 1] \in 0..Len(x)
    BY <1>4, <2>1
  <2> QED
    BY <1>1, <1>4, <2>2, GrownPart
<1>7. \A j \in 1..(n + 1) : cuts[j] \in 0..Len(Append(x, c))
  BY <1>1, <1>3, <1>4
<1>8. Cut(A, st, Append(x, c), cuts, Append(cur, c))
  BY <1>4, <1>5, <1>6, <1>7 DEF Cut, n
<1> QED
  BY <1>1, <1>3, <1>8 DEF Laid

\* A byte that begins a call begins a part of its own.
LEMMA LaidPush ==
  ASSUME NEW A, NEW st, NEW x, NEW cur, Laid(A, st, x, cur), RoomAt(A, st, Len(st), cur),
         NEW f, NEW c \in Nat
  PROVE  Laid(A, Append(st, f), Append(x, c), <<c>>)
<1> DEFINE n == Len(st) st2 == Append(st, f) x2 == Append(x, c) m == Len(x)
<1>1. IsStack(st) /\ x \in Seq(Nat) /\ m \in Nat /\ n \in Nat
  BY DEF Laid, IsStack
<1>2. PICK cuts : Cut(A, st, x, cuts, cur)
  BY DEF Laid
<1>3. x2 \in Seq(Nat) /\ Len(x2) = m + 1 /\ x2[m + 1] = c
  BY <1>1, AppendProperties
<1>4. IsStack(st2) /\ Len(st2) = n + 1 /\ \A j \in 1..n : st2[j] = st[j]
  BY <1>1, StackAppend
<1> DEFINE more == [j \in 1..(n + 2) |-> IF j = n + 2 THEN m ELSE cuts[j]]
<1>5. /\ DOMAIN cuts = 1..(n + 1) /\ cuts[1] = 0
      /\ \A j \in 1..(n + 1) : cuts[j] \in 0..m
      /\ \A j \in 1..n : /\ cuts[j] <= cuts[j + 1]
                        /\ RoomAt(A, st, j - 1, SubSeq(x, cuts[j] + 1, cuts[j + 1]))
      /\ cur = SubSeq(x, cuts[n + 1] + 1, m)
  BY <1>2 DEF Cut
<1>6. RoomAt(A, st, n, cur)
  OBVIOUS
<1> HIDE DEF n, m, st2, x2
<1>7. /\ DOMAIN more = 1..((n + 1) + 1) /\ more[1] = 0 /\ more[n + 2] = m
      /\ \A j \in 1..(n + 1) : more[j] = cuts[j]
  BY <1>1, <1>5
<1> HIDE DEF more
<1>8. \A j \in 1..((n + 1) + 1) : more[j] \in 0..Len(x2)
  <2>1. SUFFICES ASSUME NEW j \in 1..((n + 1) + 1) PROVE more[j] \in 0..(m + 1)
    BY <1>3
  <2>2. CASE j = n + 2
    BY <1>1, <1>7, <2>2
  <2>3. CASE j # n + 2
    <3>1. j \in 1..(n + 1)
      BY <1>1, <2>3
    <3> QED
      BY <1>1, <1>5, <1>7, <3>1
  <2> QED
    BY <2>2, <2>3
<1>9. \A j \in 0..n : \A s : RoomAt(A, st2, j, s) <=> RoomAt(A, st, j, s)
  BY <1>1, <1>4 DEF RoomAt
<1>10. ASSUME NEW j \in 1..(n + 1)
       PROVE  more[j] <= more[j + 1] /\ RoomAt(A, st2, j - 1, SubSeq(x2, more[j] + 1, more[j + 1]))
  <2>1. j \in 0..(n + 1) /\ j - 1 \in 0..n /\ cuts[j] \in Nat /\ cuts[j] <= m
    BY <1>1, <1>5
  <2>2. CASE j = n + 1
    <3>1. more[j] = cuts[n + 1] /\ more[j + 1] = m
      BY <1>1, <1>7, <2>2
    <3>2. SubSeq(x2, cuts[n + 1] + 1, m) = cur
      <4>1. m <= Len(x)
        BY <1>1 DEF m
      <4>2. SubSeq(x2, cuts[n + 1] + 1, m) = SubSeq(x, cuts[n + 1] + 1, m)
        BY <1>1, <2>1, <2>2, <4>1, KeptPart, ZenonT(60) DEF x2
      <4> QED
        BY <1>5, <4>2
    <3>3. j - 1 = n
      BY <1>1, <2>2
    <3> QED
      BY <1>6, <1>9, <2>1, <2>2, <3>1, <3>2, <3>3
  <2>3. CASE j # n + 1
    <3>1. j \in 1..n /\ j + 1 \in 1..(n + 1)
      BY <1>1, <2>3
    <3>2. more[j] = cuts[j] /\ more[j + 1] = cuts[j + 1] /\ cuts[j + 1] \in 0..m
      BY <1>5, <1>7, <3>1
    <3>3. SubSeq(x2, cuts[j] + 1, cuts[j + 1]) = SubSeq(x, cuts[j] + 1, cuts[j + 1])
      <4>1. cuts[j + 1] \in Nat /\ cuts[j + 1] <= Len(x)
        BY <1>1, <3>2 DEF m
      <4> QED
        BY <1>1, <2>1, <4>1, KeptPart, ZenonT(60) DEF x2
    <3>4. cuts[j] <= cuts[j + 1] /\ RoomAt(A, st, j - 1, SubSeq(x, cuts[j] + 1, cuts[j + 1]))
      BY <1>5, <3>1
    <3> QED
      BY <1>9, <2>1, <3>2, <3>3, <3>4
  <2> QED
    BY <2>2, <2>3
<1>11. <<c>> = SubSeq(x2, more[(n + 1) + 1] + 1, Len(x2))
  <2>1. SubSeq(x2, m + 1, m + 1) = <<x2[m + 1]>>
    <3> DEFINE k == m + 1
    <3>1. k \in 1..Len(x2) /\ k \in k..Len(x2) /\ k + 1 \in Int /\ k \in Int /\ k < k + 1
      BY <1>1, <1>3
    <3> HIDE DEF k
    <3>2. SubSeq(x2, k, k) = <<x2[k]>> \o SubSeq(x2, k + 1, k)
      BY <1>3, <3>1, SubSeqRecursiveFirst
    <3>3. SubSeq(x2, k + 1, k) = <<>>
      BY <3>1, SubSeqEmpty
    <3>4. <<x2[k]>> \o <<>> = <<x2[k]>>
      <4>1. <<x2[k]>> \in Seq(Nat)
        BY <1>3, <3>1
      <4> QED
        BY <4>1, ConcatEmptySeq
    <3> QED
      BY <3>2, <3>3, <3>4 DEF k
  <2>2. more[(n + 1) + 1] = m
    <3>1. (n + 1) + 1 = n + 2
      BY <1>1
    <3> QED
      BY <1>7, <3>1
  <2> QED
    BY <1>3, <2>1, <2>2
<1>12. Cut(A, st2, x2, more, <<c>>)
  BY <1>4, <1>7, <1>8, <1>10, <1>11 DEF Cut
<1> QED
  BY <1>3, <1>4, <1>12 DEF Laid, st2, x2

\* When a call returns, its part joins that of its caller.
LEMMA LaidPop ==
  ASSUME NEW A, NEW st, NEW x, NEW cur, Laid(A, st, x, cur), st # <<>>
  PROVE  \E w \in Seq(Nat) : Laid(A, Front(st), x, w \o cur) /\ RoomAt(A, Front(st), Len(Front(st)), w)
<1> DEFINE n == Len(st) m == Len(x) st2 == Front(st) k == n - 1
<1>1. x \in Seq(Nat) /\ m \in Nat /\ n \in Nat \ {0}
  BY EmptySeq DEF Laid, IsStack
<1>2. PICK cuts : Cut(A, st, x, cuts, cur)
  BY DEF Laid
<1>3. k \in Nat /\ n = k + 1 /\ n \in Nat
  BY <1>1
<1>4. IsStack(st2) /\ Len(st2) = k /\ \A j \in 1..k : st2[j] = st[j]
  <2>1. IsStack(st)
    BY DEF Laid
  <2> QED
    BY <2>1, StackFront
<1> DEFINE less == [j \in 1..n |-> cuts[j]]
<1>5. /\ DOMAIN cuts = 1..(n + 1) /\ cuts[1] = 0
      /\ \A j \in 1..(n + 1) : cuts[j] \in 0..m
      /\ \A j \in 1..n : /\ cuts[j] <= cuts[j + 1]
                        /\ RoomAt(A, st, j - 1, SubSeq(x, cuts[j] + 1, cuts[j + 1]))
      /\ cur = SubSeq(x, cuts[n + 1] + 1, m)
  BY <1>2 DEF Cut
<1> HIDE DEF n, m, st2, k
<1>6. /\ DOMAIN less = 1..(k + 1) /\ less[1] = 0
      /\ \A j \in 1..n : less[j] = cuts[j]
  BY <1>1, <1>3, <1>5
<1> HIDE DEF less
<1>7. \A j \in 1..(k + 1) : less[j] \in 0..m
  BY <1>3, <1>5, <1>6
<1>8. \A j \in 0..k : \A s : RoomAt(A, st2, j, s) <=> RoomAt(A, st, j, s)
  BY <1>3, <1>4 DEF RoomAt
<1>9. ASSUME NEW j \in 1..k
      PROVE  less[j] <= less[j + 1] /\ RoomAt(A, st2, j - 1, SubSeq(x, less[j] + 1, less[j + 1]))
  <2>1. j \in 1..n /\ j + 1 \in 1..n /\ j - 1 \in 0..k
    BY <1>3
  <2> QED
    BY <1>5, <1>6, <1>8, <2>1
<1> DEFINE w == SubSeq(x, cuts[n] + 1, cuts[n + 1])
<1>10. n \in 1..n /\ n \in 1..(n + 1) /\ n + 1 \in 1..(n + 1) /\ n - 1 = k /\ k \in 0..k
  BY <1>3
<1>11. cuts[n] \in 0..m /\ cuts[n + 1] \in 0..m /\ cuts[n] <= cuts[n + 1] /\ less[n] = cuts[n]
  BY <1>5, <1>6, <1>10
<1>12. RoomAt(A, st2, k, w)
  <2>1. RoomAt(A, st, n - 1, w)
    BY <1>5, <1>10
  <2> HIDE DEF w
  <2> QED
    BY <1>8, <1>10, <2>1
<1>13. w \in Seq(Nat) /\ w \o cur = SubSeq(x, less[k + 1] + 1, m)
  <2> DEFINE f == cuts[n] + 1 g == cuts[n + 1]
  <2>1. f \in 1..(Len(x) + 1) /\ g \in f - 1..Len(x) /\ m \in g..Len(x)
    BY <1>1, <1>11 DEF m
  <2>2. w = SubSeq(x, f, g) /\ cur = SubSeq(x, g + 1, m) /\ f = less[k + 1] + 1
    BY <1>3, <1>5, <1>11
  <2>3. \A i \in f..g : x[i] \in Nat
    <3>1. f..g \subseteq 1..Len(x)
      BY <2>1
    <3>2. \A i \in 1..Len(x) : x[i] \in Nat
      BY <1>1
    <3> HIDE DEF f, g
    <3> QED
      BY <3>1, <3>2
  <2>5. f \in Int /\ g \in Int
    BY <2>1
  <2> HIDE DEF f, g, w
  <2>4. SubSeq(x, f, g) \in Seq(Nat)
    BY <2>3, <2>5, SubSeqProperties
  <2>6. SubSeq(x, f, g) \o SubSeq(x, g + 1, m) = SubSeq(x, f, m)
    BY <1>1, <2>1, ConcatAdjacentSubSeq
  <2> QED
    BY <2>2, <2>4, <2>6
<1>14. Cut(A, st2, x, less, w \o cur)
  <2> HIDE DEF w
  <2> QED
    BY <1>4, <1>6, <1>7, <1>9, <1>13 DEF Cut, m
<1>15. Laid(A, st2, x, w \o cur)
  <2> HIDE DEF w
  <2> QED
    BY <1>1, <1>4, <1>14 DEF Laid
<1> HIDE DEF w
<1> QED
  BY <1>4, <1>12, <1>13, <1>15 DEF st2

\* What the innermost call has so far is not in the parts before its own.
LEMMA LaidTop ==
  ASSUME NEW A, NEW st, NEW x, NEW cur, Laid(A, st, x, cur), st # <<>>, NEW f
  PROVE  Laid(A, Append(Front(st), f), x, cur) /\ Last(Append(Front(st), f)) = f
         /\ Append(Front(st), f) # <<>> /\ Len(Append(Front(st), f)) = Len(st)
<1> DEFINE n == Len(st) r == Front(st) t == Append(r, f)
<1>1. IsStack(st) /\ x \in Seq(Nat)
  BY DEF Laid
<1>2. IsStack(r) /\ Len(r) = n - 1 /\ n \in Nat \ {0} /\ \A j \in 1..(n - 1) : r[j] = st[j]
  BY <1>1, StackFront
<1> HIDE DEF r, n
<1>3. /\ IsStack(t) /\ Len(t) = Len(r) + 1 /\ t[Len(r) + 1] = f /\ t # <<>>
      /\ \A j \in 1..Len(r) : t[j] = r[j]
  BY <1>2, StackAppend
<1> HIDE DEF t
<1>4. Len(t) = n /\ t[n] = f /\ \A j \in 1..(n - 1) : t[j] = st[j]
  BY <1>2, <1>3
<1>5. PICK cuts : Cut(A, st, x, cuts, cur)
  BY DEF Laid
<1>6. \A j \in 1..n : \A s : RoomAt(A, t, j - 1, s) <=> RoomAt(A, st, j - 1, s)
  <2>1. SUFFICES ASSUME NEW j \in 1..n, NEW s PROVE RoomAt(A, t, j - 1, s) <=> RoomAt(A, st, j - 1, s)
    OBVIOUS
  <2> DEFINE k == j - 1
  <2>2. k = 0 \/ k \in 1..(n - 1)
    BY <1>2
  <2> HIDE DEF k
  <2>3. RoomAt(A, t, k, s) <=> RoomAt(A, st, k, s)
    BY <1>4, <2>2 DEF RoomAt
  <2> QED
    BY <2>3 DEF k
<1>7. Cut(A, t, x, cuts, cur)
  BY <1>4, <1>5, <1>6 DEF Cut, n
<1> QED
  BY <1>1, <1>3, <1>4, <1>7 DEF Laid, Last, t, r, n

-----------------------------------------------------------------------------
(***************************************************************************)
(* The text of a call up to a value (Room), up to a key (KeyRoom), behind a *)
(* key (Keyed), behind its opening bracket (Opened) and behind a value     *)
(* (Filled), and how a byte leads from one to the next.                    *)
(***************************************************************************)

With(f, v) == IF "items" \in DOMAIN f THEN [items |-> Append(f.items, v)]
              ELSE [fields |-> Assigned(f.fields, f.key, v), key |-> f.key]
\* The text of a call in progress behind a value.
Filled(A, f, s) ==
  \E g, w, y, v : Room(A, g, w) /\ PaddedText(A, y, v) /\ s = w \o y /\ f = With(g, v)
Made(A, f, s) ==
  \/ IsArray(f) /\ LBracket \in A.outside /\ \E e : ElementsText(A, e, f.items) /\ s = <<LBracket>> \o e
  \/ IsObject(f) /\ LBrace \in A.outside /\ \E m : MembersText(A, m, f.fields) /\ s = <<LBrace>> \o m

\* Brackets, braces, commas, colons, quotes and backslashes are bytes.
LEMMA MarkBytes == {LBracket, RBracket, LBrace, RBrace, Comma, Colon, Quote, Backslash} \subseteq Nat
BY DEF LBracket, RBracket, LBrace, RBrace, Comma, Colon, Quote, Backslash

Chained(x, y, z) ==
  /\ x \o y \in Seq(Nat) /\ Len(x \o y) = Len(x) + Len(y)
  /\ (x \o y) \o z \in Seq(Nat) /\ Len((x \o y) \o z) = Len(x) + Len(y) + Len(z)
  /\ (x \o y) \o z = x \o (y \o z)

\* Three texts one behind another, and a byte between two texts.
LEMMA Threefold ==
  ASSUME NEW x \in Seq(Nat), NEW y \in Seq(Nat), NEW z \in Seq(Nat)
  PROVE  Chained(x, y, z)
<1>1. x \o y \in Seq(Nat) /\ Len(x \o y) = Len(x) + Len(y)
  BY ConcatProperties
<1>2. (x \o y) \o z = x \o (y \o z)
  BY Regrouped
<1> DEFINE w == x \o y
<1> HIDE DEF w
<1>3. w \o z \in Seq(Nat) /\ Len(w \o z) = Len(w) + Len(z)
  BY <1>1, ConcatProperties DEF w
<1>4. Len(x) \in Nat /\ Len(y) \in Nat /\ Len(z) \in Nat
  OBVIOUS
<1> QED
  BY <1>1, <1>2, <1>3, <1>4 DEF w, Chained

\* Two texts, one behind the other.
LEMMA Twofold ==
  ASSUME NEW x \in Seq(Nat), NEW y \in Seq(Nat)
  PROVE  x \o y \in Seq(Nat) /\ Len(x \o y) = Len(x) + Len(y) /\ Len(x) \in Nat /\ Len(y) \in Nat
BY ConcatProperties

\* A byte behind a text.
LEMMA ByteBehind ==
  ASSUME NEW x \in Seq(Nat), NEW c \in Nat
  PROVE  Append(x, c) = x \o <<c>> /\ Append(x, c) \in Seq(Nat) /\ Len(Append(x, c)) = Len(x) + 1
BY AppendIsConcat, AppendProperties

\* The text of an object up to a key is a text.
LEMMA KeyNextText ==
  ASSUME NEW A, NEW f, NEW h, KeyNext(A, f, h)
  PROVE  h \in Seq(Nat)
<1>1. <<LBrace>> \in Seq(Nat)
  BY MarkBytes
<1>2. ASSUME NEW m, MembersText(A, m, f.fields), h = <<LBrace>> \o Append(m, Comma) PROVE h \in Seq(Nat)
  <2>1. m \in Seq(Nat)
    BY <1>2 DEF MembersText, IsText
  <2>2. Append(m, Comma) \in Seq(Nat)
    BY <2>1, MarkBytes, ByteBehind
  <2> QED
    BY <1>1, <1>2, <2>2, Twofold
<1> QED
  BY <1>1, <1>2 DEF KeyNext

\* The text of a call up to a value is a text.
LEMMA RoomText ==
  ASSUME NEW A, NEW f, NEW s, Room(A, f, s)
  PROVE  s \in Seq(Nat)
<1>1. \A b \in Blanks(A) : b \in Seq(Nat)
  BY PaddingBytes DEF Blanks
<1>2. <<LBracket>> \in Seq(Nat)
  BY MarkBytes
<1>3. ASSUME NEW b \in Blanks(A), NEW e, ElementsText(A, e, f.items),
             s = <<LBracket>> \o (Append(e, Comma) \o b)
      PROVE  s \in Seq(Nat)
  <2>1. e \in Seq(Nat)
    BY <1>3 DEF ElementsText, IsText
  <2>2. Append(e, Comma) \in Seq(Nat)
    BY <2>1, MarkBytes, ByteBehind
  <2>3. Append(e, Comma) \o b \in Seq(Nat)
    BY <1>1, <2>2, Twofold
  <2> QED
    BY <1>2, <1>3, <2>3, Twofold
<1>4. ASSUME NEW b \in Blanks(A), NEW r, Keyed(A, f, r), s = Append(r, Colon) \o b
      PROVE  s \in Seq(Nat)
  <2>1. r \in Seq(Nat)
    <3>1. PICK h, k : KeyNext(A, f, h) /\ KeyText(A, k, f.key) /\ r = h \o k
      BY <1>4 DEF Keyed
    <3>2. h \in Seq(Nat) /\ k \in Seq(Nat)
      BY <3>1, KeyNextText DEF KeyText, IsText
    <3> QED
      BY <3>1, <3>2, Twofold
  <2>2. Append(r, Colon) \in Seq(Nat)
    BY <2>1, MarkBytes, ByteBehind
  <2> QED
    BY <1>1, <1>4, <2>2, Twofold
<1>5. ASSUME NEW b \in Blanks(A), s = <<LBracket>> \o b PROVE s \in Seq(Nat)
  BY <1>1, <1>2, <1>5, Twofold
<1> QED
  BY <1>3, <1>4, <1>5 DEF Room

\* A value behind the bracket, or behind a comma.
LEMMA ArrayMade ==
  ASSUME NEW A, A.most \in Nat, NEW f, NEW w, NEW y, NEW v, PaddedText(A, y, v), Len(w \o y) <= A.most,
         IsArray(f), LBracket \in A.outside, NEW b \in Blanks(A),
         \/ f.items = <<>> /\ w = <<LBracket>> \o b
         \/ Comma \in A.outside /\ \E e : /\ ElementsText(A, e, f.items)
                                          /\ w = <<LBracket>> \o (Append(e, Comma) \o b)
  PROVE  Made(A, With(f, v), w \o y)
<1> DEFINE z == b \o y l == <<LBracket>> g == With(f, v)
<1>1. b \in Seq(Nat) /\ y \in Seq(Nat) /\ l \in Seq(Nat) /\ Len(l) = 1
  <2>1. b \in Seq(Nat)
    BY PaddingBytes DEF Blanks
  <2>2. l \in Seq(Nat) /\ Len(l) = 1
    BY MarkBytes
  <2> QED
    BY <2>1, <2>2 DEF PaddedText, IsText
<1>2. z \in Seq(Nat) /\ Len(z) = Len(b) + Len(y) /\ Len(b) \in Nat /\ Len(y) \in Nat
  BY <1>1, Twofold
<1>3. g = [items |-> Append(f.items, v)] /\ IsArray(g) /\ g.items = Append(f.items, v)
  <2>1. "items" \in DOMAIN f
    BY DEF IsArray
  <2>2. g = [items |-> Append(f.items, v)]
    BY <2>1 DEF With
  <2> HIDE DEF g
  <2> QED
    BY <2>2 DEF IsArray
<1>4. Len(z) <= A.most => PaddedText(A, z, v)
  BY <1>2, BlanksAround DEF Blanks
<1> HIDE DEF z, l, g
<1>5. ASSUME f.items = <<>>, w = l \o b PROVE Made(A, g, w \o y)
  <2>1. w \o y = l \o z /\ Len(w \o y) = 1 + Len(b) + Len(y)
    <3>1. Chained(l, b, y)
      BY <1>1, Threefold
    <3> QED
      BY <1>1, <1>5, <3>1 DEF Chained, z
  <2>2. Len(z) <= A.most
    BY <1>2, <2>1
  <2>3. ElementsText(A, z, <<v>>)
    BY <1>4, <2>2, FirstElement
  <2>4. g.items = <<v>>
    BY <1>3, <1>5
  <2> QED
    BY <1>3, <2>1, <2>3, <2>4 DEF Made, l
<1>6. ASSUME Comma \in A.outside, NEW e, ElementsText(A, e, f.items), w = l \o (Append(e, Comma) \o b)
      PROVE  Made(A, g, w \o y)
  <2> DEFINE t == Append(e, Comma)
  <2>1. e \in Seq(Nat) /\ Len(e) \in Nat
    BY <1>6 DEF ElementsText, IsText
  <2>2. t = e \o <<Comma>> /\ t \in Seq(Nat) /\ Len(t) = Len(e) + 1
    BY <2>1, MarkBytes, ByteBehind
  <2> HIDE DEF t
  <2>3. t \o b \in Seq(Nat) /\ (t \o b) \o y = t \o z /\ Len(t \o b) = Len(e) + 1 + Len(b)
    <3>1. Chained(t, b, y)
      BY <1>1, <2>2, Threefold
    <3> QED
      BY <2>2, <3>1 DEF Chained, z
  <2>4. w \o y = l \o ((t \o b) \o y) /\ Len(w \o y) = 1 + (Len(e) + 1 + Len(b)) + Len(y)
    <3> DEFINE u == t \o b
    <3>1. u \in Seq(Nat) /\ w = l \o u /\ Len(u) = Len(e) + 1 + Len(b)
      BY <1>6, <2>3 DEF t
    <3> HIDE DEF u
    <3>2. Chained(l, u, y)
      BY <1>1, <3>1, Threefold
    <3> QED
      BY <1>1, <3>1, <3>2 DEF u, Chained
  <2>5. Len(z) <= A.most /\ Len(e) + Len(z) < A.most
    BY <1>2, <2>1, <2>4
  <2>6. ElementsText(A, e \o <<Comma>> \o z, Append(f.items, v))
    BY <1>4, <1>6, <2>5, NextElement
  <2>7. w \o y = l \o (t \o z)
    BY <2>3, <2>4
  <2>8. ElementsText(A, t \o z, g.items)
    BY <1>3, <2>2, <2>6
  <2> QED
    BY <1>3, <2>7, <2>8 DEF Made, l
<1> QED
  BY <1>5, <1>6 DEF g, l

\* An object with one more member.
LEMMA WithObject ==
  ASSUME NEW f, IsObject(f), NEW v
  PROVE  /\ "items" \notin DOMAIN f
         /\ IsObject(With(f, v)) /\ With(f, v).fields = Assigned(f.fields, f.key, v)
<1>1. "items" \notin DOMAIN f
  BY DEF IsObject
<1> DEFINE g == With(f, v) a == Assigned(f.fields, f.key, v)
<1> HIDE DEF a
<1>2. g = [fields |-> a, key |-> f.key]
  BY <1>1 DEF With, a
<1> HIDE DEF g
<1>3. g.fields = a /\ IsObject(g)
  BY <1>2 DEF IsObject
<1> QED
  BY <1>1, <1>3 DEF g, a

\* A value behind a key and a colon.
LEMMA ObjectMade ==
  ASSUME NEW A, A.most \in Nat, NEW f, NEW w, NEW y, NEW v, PaddedText(A, y, v), Len(w \o y) <= A.most,
         Colon \in A.outside, NEW r, NEW b \in Blanks(A), Keyed(A, f, r), w = Append(r, Colon) \o b
  PROVE  Made(A, With(f, v), w \o y)
<1>1. PICK h, k : KeyNext(A, f, h) /\ KeyText(A, k, f.key) /\ r = h \o k
  BY DEF Keyed
<1> DEFINE z == b \o y g == With(f, v) c == Append(k, Colon) q == c \o z n == Len(w \o y)
<1>2. /\ b \in Seq(Nat) /\ y \in Seq(Nat) /\ h \in Seq(Nat) /\ k \in Seq(Nat)
      /\ Len(b) \in Nat /\ Len(y) \in Nat /\ Len(h) \in Nat /\ Len(k) \in Nat
  BY <1>1, PaddingBytes, KeyNextText DEF Blanks, PaddedText, KeyText, IsText
<1>3. c \in Seq(Nat) /\ c = k \o <<Colon>> /\ Len(c) = Len(k) + 1
  BY <1>2, MarkBytes, ByteBehind
<1>4. Append(r, Colon) = h \o c
  <2>1. Append(h \o k, Colon) = h \o Append(k, Colon)
    <3>1. Colon \in Nat /\ h \in Seq(Nat) /\ k \in Seq(Nat)
      BY <1>2, MarkBytes
    <3> QED
      BY <3>1, AppendRight
  <2> QED
    BY <1>1, <2>1
<1> HIDE DEF c
<1>5. z \in Seq(Nat) /\ Len(z) = Len(b) + Len(y)
  BY <1>2, Twofold
<1>6. q \in Seq(Nat) /\ Len(q) = Len(k) + 1 + Len(z)
  BY <1>3, <1>5, Twofold
<1> HIDE DEF q
<1>7. w \o y = h \o q /\ Len(w \o y) = Len(h) + Len(q)
  <2> DEFINE u == h \o c
  <2>1. u \in Seq(Nat) /\ w = u \o b
    BY <1>2, <1>3, <1>4, Twofold
  <2> HIDE DEF u
  <2>2. (u \o b) \o y = u \o z
    <3>1. Chained(u, b, y)
      BY <1>2, <2>1, Threefold
    <3> QED
      BY <3>1 DEF Chained
  <2> HIDE DEF z
  <2>3. (h \o c) \o z = h \o (c \o z)
    <3>1. Chained(h, c, z)
      BY <1>2, <1>3, <1>5, Threefold
    <3> QED
      BY <3>1 DEF Chained
  <2>4. w \o y = h \o q
    BY <2>1, <2>2, <2>3 DEF u, q
  <2>5. Len(h \o q) = Len(h) + Len(q)
    BY <1>2, <1>6, Twofold
  <2> QED
    BY <2>4, <2>5
<1>8. Len(z) \in Nat /\ Len(q) \in Nat
  BY <1>2, <1>5, <1>6
<1>9. Len(z) <= A.most /\ Len(k) + Len(z) < A.most
  BY <1>2, <1>6, <1>7, <1>8, SMTT(60)
<1>10. PaddedText(A, z, v)
  BY <1>5, <1>9, BlanksAround DEF Blanks
<1> HIDE DEF z
<1>11. PairText(A, q, <<f.key, v>>)
  <2>1. PairText(A, k \o <<Colon>> \o z, <<f.key, v>>)
    BY <1>1, <1>9, <1>10, PairMade
  <2> QED
    BY <1>3, <2>1 DEF q
<1>12. IsObject(g) /\ g.fields = Assigned(f.fields, f.key, v) /\ LBrace \in A.outside
  BY <1>1, WithObject DEF KeyNext
<1> HIDE DEF g
<1>13. ASSUME f.fields = <<>>, h = <<LBrace>> PROVE Made(A, g, w \o y)
  <2>1. MembersText(A, q, Assigned(<<>>, f.key, v))
    BY <1>11, FirstMember
  <2>2. MembersText(A, q, g.fields)
    BY <1>12, <1>13, <2>1
  <2> QED
    BY <1>7, <1>12, <1>13, <2>2 DEF Made
<1>14. ASSUME Comma \in A.outside, NEW m, MembersText(A, m, f.fields), h = <<LBrace>> \o Append(m, Comma)
       PROVE  Made(A, g, w \o y)
  <2> DEFINE l == <<LBrace>> t == Append(m, Comma)
  <2>1. m \in Seq(Nat) /\ Len(m) \in Nat /\ l \in Seq(Nat) /\ Len(l) = 1
    <3>1. m \in Seq(Nat)
      BY <1>14 DEF MembersText, IsText
    <3> QED
      BY <3>1, MarkBytes
  <2>2. t = m \o <<Comma>> /\ t \in Seq(Nat) /\ Len(t) = Len(m) + 1
    BY <2>1, MarkBytes, ByteBehind
  <2>3. h = l \o t
    BY <1>14
  <2> HIDE DEF l, t
  <2>4. Chained(l, t, q)
    BY <1>6, <2>1, <2>2, Threefold
  <2>5. h \o q = l \o (t \o q) /\ Len(h) = Len(m) + 2
    <3>1. (l \o t) \o q = l \o (t \o q) /\ Len(l \o t) = Len(l) + Len(t)
      BY <2>4 DEF Chained
    <3>2. h \o q = (l \o t) \o q
      BY <2>3
    <3>3. Len(h) = Len(l) + Len(t)
      BY <2>3, <3>1
    <3>4. h \o q = l \o (t \o q)
      BY <3>1, <3>2
    <3>5. Len(h) = Len(m) + 2
      BY <2>1, <2>2, <3>3
    <3> QED
      BY <3>4, <3>5
  <2>6. Len(m) + Len(q) < A.most
    BY <1>7, <1>8, <2>1, <2>5
  <2>7. MembersText(A, m \o <<Comma>> \o q, Assigned(f.fields, f.key, v))
    BY <1>11, <1>14, <2>6, NextMember
  <2>8. MembersText(A, t \o q, g.fields)
    BY <1>12, <2>2, <2>7
  <2> QED
    BY <1>7, <1>12, <2>5, <2>8 DEF Made, l
<1> QED
  BY <1>1, <1>13, <1>14 DEF KeyNext, g

\* A value in its place is one more element, or the value of one more member.
LEMMA ValueBehind ==
  ASSUME NEW A, A.most \in Nat, NEW f, NEW s, Filled(A, f, s), Len(s) <= A.most
  PROVE  Made(A, f, s)
<1>1. PICK g, w, y, v : Room(A, g, w) /\ PaddedText(A, y, v) /\ s = w \o y /\ f = With(g, v)
  BY DEF Filled
<1>2. Len(w \o y) <= A.most
  BY <1>1
<1>3. ASSUME IsArray(g), LBracket \in A.outside, NEW b \in Blanks(A),
             \/ g.items = <<>> /\ w = <<LBracket>> \o b
             \/ Comma \in A.outside /\ \E e : /\ ElementsText(A, e, g.items)
                                              /\ w = <<LBracket>> \o (Append(e, Comma) \o b)
      PROVE  Made(A, f, s)
  BY <1>1, <1>2, <1>3, ArrayMade
<1>4. ASSUME Colon \in A.outside, NEW r, NEW b \in Blanks(A), Keyed(A, g, r), w = Append(r, Colon) \o b
      PROVE  Made(A, f, s)
  BY <1>1, <1>2, <1>4, ObjectMade
<1> QED
  BY <1>1, <1>3, <1>4 DEF Room

\* The text of a call that has just begun.
Opened(A, f, s) ==
  \E b \in Blanks(A) :
    \/ IsArray(f) /\ f.items = <<>> /\ LBracket \in A.outside /\ s = <<LBracket>> \o b
    \/ IsObject(f) /\ f.fields = <<>> /\ LBrace \in A.outside /\ s = <<LBrace>> \o b

\* There may be no blank at all.
LEMMA NoBlank ==
  ASSUME NEW A
  PROVE  <<>> \in Blanks(A) /\ \A x \in Seq(Nat) : x \o <<>> = x
BY ConcatEmptySeq DEF Blanks

\* A blank behind a text and blanks is one more of the blanks.
LEMMA BlankMore ==
  ASSUME NEW A, NEW b \in Blanks(A), NEW c \in Padding(A)
  PROVE  Append(b, c) \in Blanks(A) /\ \A x \in Seq(Nat) : Append(x \o b, c) = x \o Append(b, c)
<1>1. b \in Seq(Nat) /\ c \in Nat
  BY PaddingBytes DEF Blanks
<1>2. Append(b, c) \in Blanks(A)
  BY AppendProperties DEF Blanks
<1>3. \A x \in Seq(Nat) : Append(x \o b, c) = x \o Append(b, c)
  BY <1>1, AppendRight
<1> QED
  BY <1>2, <1>3

\* The opening bracket or brace.
LEMMA OpenedBegins ==
  ASSUME NEW A
  PROVE  /\ LBracket \in A.outside => Opened(A, [items |-> <<>>], <<LBracket>>)
         /\ LBrace \in A.outside => Opened(A, [fields |-> <<>>, key |-> <<>>], <<LBrace>>)
<1>1. <<LBracket>> \in Seq(Nat) /\ <<LBrace>> \in Seq(Nat)
  BY MarkBytes
<1>2. <<LBracket>> = <<LBracket>> \o <<>> /\ <<LBrace>> = <<LBrace>> \o <<>> /\ <<>> \in Blanks(A)
  BY <1>1, NoBlank
<1> DEFINE f == [items |-> <<>>] g == [fields |-> <<>>, key |-> <<>>]
<1>3. IsArray(f) /\ f.items = <<>> /\ IsObject(g) /\ g.fields = <<>>
  BY DEF IsArray, IsObject
<1> HIDE DEF f, g
<1>4. /\ LBracket \in A.outside => Opened(A, f, <<LBracket>>)
      /\ LBrace \in A.outside => Opened(A, g, <<LBrace>>)
  BY <1>2, <1>3 DEF Opened
<1> QED
  BY <1>4 DEF f, g

\* Behind the opening bracket is room for a value, behind the brace for a key.
LEMMA OpenedRoom ==
  ASSUME NEW A, NEW f, NEW s, Opened(A, f, s)
  PROVE  /\ IsArray(f) \/ IsObject(f)
         /\ "items" \in DOMAIN f => Room(A, f, s)
         /\ "items" \notin DOMAIN f => KeyRoom(A, f, s)
<1>1. PICK b \in Blanks(A) :
        \/ IsArray(f) /\ f.items = <<>> /\ LBracket \in A.outside /\ s = <<LBracket>> \o b
        \/ IsObject(f) /\ f.fields = <<>> /\ LBrace \in A.outside /\ s = <<LBrace>> \o b
  BY DEF Opened
<1>2. ASSUME IsArray(f), f.items = <<>>, LBracket \in A.outside, s = <<LBracket>> \o b
      PROVE  "items" \in DOMAIN f /\ Room(A, f, s)
  <2>1. "items" \in DOMAIN f
    BY <1>2 DEF IsArray
  <2> QED
    BY <1>2, <2>1 DEF Room
<1>3. ASSUME IsObject(f), f.fields = <<>>, LBrace \in A.outside, s = <<LBrace>> \o b
      PROVE  "items" \notin DOMAIN f /\ KeyRoom(A, f, s)
  <2>1. "items" \notin DOMAIN f
    BY <1>3 DEF IsObject
  <2>2. KeyNext(A, f, <<LBrace>>)
    BY <1>3 DEF KeyNext
  <2> QED
    BY <1>3, <2>1, <2>2 DEF KeyRoom
<1> QED
  BY <1>1, <1>2, <1>3

\* A call in progress is one of parse_array or of parse_object.
LEMMA FrameKinds ==
  ASSUME NEW f
  PROVE  /\ IsArray(f) => "items" \in DOMAIN f /\ ~IsObject(f)
         /\ IsObject(f) => "items" \notin DOMAIN f
<1>1. IsArray(f) => "items" \in DOMAIN f
  BY DEF IsArray
<1>2. IsObject(f) => "items" \notin DOMAIN f
  BY DEF IsObject
<1> QED
  BY <1>1, <1>2

\* A comma behind a value, and a colon behind a key.
LEMMA CommaBehind ==
  ASSUME NEW A, A.most \in Nat, NEW f, NEW s, Filled(A, f, s), Len(s) <= A.most, Comma \in A.outside
  PROVE  /\ "items" \in DOMAIN f => Room(A, f, Append(s, Comma))
         /\ "items" \notin DOMAIN f => KeyRoom(A, f, Append(s, Comma))
<1>1. Made(A, f, s)
  BY ValueBehind
<1>2. ASSUME IsArray(f), LBracket \in A.outside, NEW e, ElementsText(A, e, f.items), s = <<LBracket>> \o e
      PROVE  Room(A, f, Append(s, Comma))
  <2> DEFINE l == <<LBracket>> t == Append(e, Comma)
  <2>1. l \in Seq(Nat) /\ e \in Seq(Nat) /\ Comma \in Nat
    BY <1>2, MarkBytes DEF ElementsText, IsText
  <2>2. t \in Seq(Nat)
    BY <2>1, ByteBehind
  <2>3. Append(l \o e, Comma) = l \o t
    BY <2>1, AppendRight
  <2>4. t = t \o <<>> /\ <<>> \in Blanks(A)
    BY <2>2, NoBlank
  <2>5. Append(s, Comma) = l \o (t \o <<>>)
    BY <1>2, <2>3, <2>4
  <2> QED
    BY <1>2, <2>4, <2>5 DEF Room
<1>3. ASSUME IsObject(f), LBrace \in A.outside, NEW m, MembersText(A, m, f.fields), s = <<LBrace>> \o m
      PROVE  KeyRoom(A, f, Append(s, Comma))
  <2> DEFINE l == <<LBrace>> t == Append(m, Comma)
  <2>1. l \in Seq(Nat) /\ m \in Seq(Nat) /\ Comma \in Nat
    BY <1>3, MarkBytes DEF MembersText, IsText
  <2>2. t \in Seq(Nat)
    BY <2>1, ByteBehind
  <2>3. Append(l \o m, Comma) = l \o t
    BY <2>1, AppendRight
  <2>4. KeyNext(A, f, l \o t)
    BY <1>3 DEF KeyNext
  <2>5. l \o t \in Seq(Nat)
    BY <2>1, <2>2, Twofold
  <2> DEFINE h == l \o t
  <2>6. Append(s, Comma) = h /\ KeyNext(A, f, h) /\ h \in Seq(Nat)
    BY <1>3, <2>3, <2>4, <2>5
  <2> HIDE DEF h
  <2>7. h = h \o <<>> /\ <<>> \in Blanks(A)
    BY <2>6, NoBlank
  <2> QED
    BY <2>6, <2>7 DEF KeyRoom
<1> QED
  BY <1>1, <1>2, <1>3, FrameKinds DEF Made

\* Behind the colon is room for the value.
LEMMA ColonBehind ==
  ASSUME NEW A, NEW f, NEW s, s \in Seq(Nat), Keyed(A, f, s), Colon \in A.outside
  PROVE  Room(A, f, Append(s, Colon))
<1> DEFINE t == Append(s, Colon)
<1>1. t \in Seq(Nat)
  BY MarkBytes, ByteBehind
<1>2. t = t \o <<>> /\ <<>> \in Blanks(A)
  BY <1>1, NoBlank
<1> QED
  BY <1>2 DEF Room

\* A call returns the container it has read.
LEMMA CloseBehind ==
  ASSUME NEW A, A.most \in Nat, NEW f, NEW s, Filled(A, f, s) \/ Opened(A, f, s), Len(s) < A.most
  PROVE  /\ "items" \in DOMAIN f /\ RBracket \in A.outside => ValueText(A, Append(s, RBracket), Array(f.items))
         /\ "items" \notin DOMAIN f /\ RBrace \in A.outside => ValueText(A, Append(s, RBrace), Object(f.fields))
<1>1. ASSUME IsArray(f), LBracket \in A.outside, RBracket \in A.outside, NEW x \in Seq(Nat), s = <<LBracket>> \o x,
             ElementsText(A, x, f.items) \/ (x \in Seq(Padding(A)) /\ f.items = <<>>)
      PROVE  ValueText(A, Append(s, RBracket), Array(f.items))
  <2> DEFINE l == <<LBracket>>
  <2>1. l \in Seq(Nat) /\ Len(l) = 1 /\ RBracket \in Nat
    BY MarkBytes
  <2>2. s \in Seq(Nat) /\ Len(s) = 1 + Len(x) /\ Len(x) \in Nat
    BY <1>1, <2>1, Twofold
  <2>3. Append(s, RBracket) = l \o x \o <<RBracket>>
    BY <1>1, <2>1, <2>2, ByteBehind
  <2>4. Len(x) + 2 <= A.most
    BY <2>2
  <2> HIDE DEF l
  <2>5. ValueText(A, <<LBracket>> \o x \o <<RBracket>>, Array(f.items))
    BY <1>1, <2>4, ContainerMade
  <2> QED
    BY <2>3, <2>5 DEF l
<1>2. ASSUME IsObject(f), LBrace \in A.outside, RBrace \in A.outside, NEW x \in Seq(Nat), s = <<LBrace>> \o x,
             MembersText(A, x, f.fields) \/ (x \in Seq(Padding(A)) /\ f.fields = <<>>)
      PROVE  ValueText(A, Append(s, RBrace), Object(f.fields))
  <2> DEFINE l == <<LBrace>>
  <2>1. l \in Seq(Nat) /\ Len(l) = 1 /\ RBrace \in Nat
    BY MarkBytes
  <2>2. s \in Seq(Nat) /\ Len(s) = 1 + Len(x) /\ Len(x) \in Nat
    BY <1>2, <2>1, Twofold
  <2>3. Append(s, RBrace) = l \o x \o <<RBrace>>
    BY <1>2, <2>1, <2>2, ByteBehind
  <2>4. Len(x) + 2 <= A.most
    BY <2>2
  <2> HIDE DEF l
  <2>5. ValueText(A, <<LBrace>> \o x \o <<RBrace>>, Object(f.fields))
    BY <1>2, <2>4, ContainerMade
  <2> QED
    BY <2>3, <2>5 DEF l
<1>3. CASE Filled(A, f, s)
  <2>1. Len(s) <= A.most
    <3>1. s \in Seq(Nat)
      <4>1. PICK g, w, y, v : Room(A, g, w) /\ PaddedText(A, y, v) /\ s = w \o y
        BY <1>3 DEF Filled
      <4>2. w \in Seq(Nat) /\ y \in Seq(Nat)
        BY <4>1, RoomText DEF PaddedText, IsText
      <4> QED
        BY <4>1, <4>2, Twofold
    <3>2. Len(s) \in Nat
      BY <3>1
    <3> QED
      BY <3>2
  <2>2. Made(A, f, s)
    BY <1>3, <2>1, ValueBehind
  <2>3. /\ \A e : ElementsText(A, e, f.items) => e \in Seq(Nat)
        /\ \A m : MembersText(A, m, f.fields) => m \in Seq(Nat)
    BY DEF ElementsText, MembersText, IsText
  <2> QED
    BY <1>1, <1>2, <2>2, <2>3, FrameKinds DEF Made
<1>4. CASE Opened(A, f, s)
  <2>1. \A b \in Blanks(A) : b \in Seq(Nat) /\ b \in Seq(Padding(A))
    BY PaddingBytes DEF Blanks
  <2> QED
    BY <1>1, <1>2, <1>4, <2>1, FrameKinds DEF Opened
<1> QED
  BY <1>3, <1>4

\* A blank more, wherever the reader skips blanks.
LEMMA RoomBlank ==
  ASSUME NEW A, NEW f, NEW s, NEW c \in Padding(A)
  PROVE  /\ Room(A, f, s) => Room(A, f, Append(s, c))
         /\ KeyRoom(A, f, s) => KeyRoom(A, f, Append(s, c))
         /\ Opened(A, f, s) => Opened(A, f, Append(s, c))
<1>1. <<LBracket>> \in Seq(Nat) /\ <<LBrace>> \in Seq(Nat)
  BY MarkBytes
<1>2. ASSUME NEW b \in Blanks(A), IsArray(f), LBracket \in A.outside, f.items = <<>>, s = <<LBracket>> \o b
      PROVE  Room(A, f, Append(s, c)) /\ Opened(A, f, Append(s, c))
  <2>1. Append(b, c) \in Blanks(A) /\ Append(s, c) = <<LBracket>> \o Append(b, c)
    BY <1>1, <1>2, BlankMore
  <2> QED
    BY <1>2, <2>1 DEF Room, Opened
<1>3. ASSUME NEW b \in Blanks(A), IsArray(f), LBracket \in A.outside, Comma \in A.outside,
             NEW e, ElementsText(A, e, f.items), s = <<LBracket>> \o (Append(e, Comma) \o b)
      PROVE  Room(A, f, Append(s, c))
  <2> DEFINE l == <<LBracket>> t == Append(e, Comma)
  <2>1. t \in Seq(Nat)
    BY <1>3, MarkBytes, ByteBehind DEF ElementsText, IsText
  <2> HIDE DEF l, t
  <2>2. Append(b, c) \in Blanks(A) /\ Append(t \o b, c) = t \o Append(b, c)
    BY <2>1, BlankMore
  <2>3. t \o b \in Seq(Nat) /\ c \in Nat
    BY <2>1, PaddingBytes, Twofold DEF Blanks
  <2>4. Append(l \o (t \o b), c) = l \o Append(t \o b, c)
    BY <1>1, <2>3, AppendRight DEF l
  <2>5. Append(s, c) = l \o (t \o Append(b, c))
    BY <1>3, <2>2, <2>4 DEF l, t
  <2> QED
    BY <1>3, <2>2, <2>5 DEF Room, l, t
<1>4. ASSUME NEW b \in Blanks(A), Colon \in A.outside, NEW r, Keyed(A, f, r), s = Append(r, Colon) \o b
      PROVE  Room(A, f, Append(s, c))
  <2> DEFINE t == Append(r, Colon)
  <2>1. t \in Seq(Nat)
    <3>1. PICK h, k : KeyNext(A, f, h) /\ KeyText(A, k, f.key) /\ r = h \o k
      BY <1>4 DEF Keyed
    <3>2. h \in Seq(Nat) /\ k \in Seq(Nat)
      BY <3>1, KeyNextText DEF KeyText, IsText
    <3>3. r \in Seq(Nat)
      BY <3>1, <3>2, Twofold
    <3> QED
      BY <3>3, MarkBytes, ByteBehind
  <2> HIDE DEF t
  <2>2. Append(b, c) \in Blanks(A) /\ Append(t \o b, c) = t \o Append(b, c)
    BY <2>1, BlankMore
  <2>3. Append(s, c) = t \o Append(b, c)
    BY <1>4, <2>2 DEF t
  <2> QED
    BY <1>4, <2>2, <2>3 DEF Room, t
<1>5. ASSUME NEW b \in Blanks(A), NEW h, KeyNext(A, f, h), s = h \o b
      PROVE  KeyRoom(A, f, Append(s, c))
  <2>1. h \in Seq(Nat)
    BY <1>5, KeyNextText
  <2>2. Append(b, c) \in Blanks(A) /\ Append(s, c) = h \o Append(b, c)
    BY <1>5, <2>1, BlankMore
  <2> QED
    BY <1>5, <2>2 DEF KeyRoom
<1>6. ASSUME NEW b \in Blanks(A), IsObject(f), f.fields = <<>>, LBrace \in A.outside, s = <<LBrace>> \o b
      PROVE  Opened(A, f, Append(s, c))
  <2>1. Append(b, c) \in Blanks(A) /\ Append(s, c) = <<LBrace>> \o Append(b, c)
    BY <1>1, <1>6, BlankMore
  <2> QED
    BY <1>6, <2>1 DEF Opened
<1>7. Room(A, f, s) => Room(A, f, Append(s, c))
  BY <1>2, <1>3, <1>4 DEF Room
<1>8. KeyRoom(A, f, s) => KeyRoom(A, f, Append(s, c))
  BY <1>5 DEF KeyRoom
<1>9. Opened(A, f, s) => Opened(A, f, Append(s, c))
  BY <1>2, <1>6 DEF Opened
<1> QED
  BY <1>7, <1>8, <1>9

\* A blank behind a value or a key.
LEMMA FilledBlank ==
  ASSUME NEW A, A.most \in Nat, NEW f, NEW s, NEW c \in Padding(A), Len(s) < A.most
  PROVE  /\ Filled(A, f, s) => Filled(A, f, Append(s, c))
         /\ Keyed(A, f, s) => Keyed(A, f, Append(s, c))
<1>1. c \in Nat
  BY PaddingBytes
<1>2. ASSUME NEW g, NEW w, NEW y, NEW v, Room(A, g, w), PaddedText(A, y, v), s = w \o y, f = With(g, v)
      PROVE  Filled(A, f, Append(s, c))
  <2>1. w \in Seq(Nat) /\ y \in Seq(Nat)
    BY <1>2, RoomText DEF PaddedText, IsText
  <2>2. Len(y) < A.most
    BY <1>2, <2>1, Twofold
  <2>3. PaddedText(A, Append(y, c), v)
    BY <1>2, <2>2, BlankAdded
  <2>4. Append(s, c) = w \o Append(y, c)
    BY <1>1, <1>2, <2>1, AppendRight
  <2> QED
    BY <1>2, <2>3, <2>4 DEF Filled
<1>3. ASSUME NEW h, NEW k, KeyNext(A, f, h), KeyText(A, k, f.key), s = h \o k
      PROVE  Keyed(A, f, Append(s, c))
  <2>1. h \in Seq(Nat) /\ k \in Seq(Nat)
    BY <1>3, KeyNextText DEF KeyText, IsText
  <2>2. Len(k) < A.most
    BY <1>3, <2>1, Twofold
  <2>3. KeyText(A, Append(k, c), f.key)
    BY <1>3, <2>2, BlankAdded
  <2>4. Append(s, c) = h \o Append(k, c)
    BY <1>1, <1>3, <2>1, AppendRight
  <2> QED
    BY <1>3, <2>3, <2>4 DEF Keyed
<1> QED
  BY <1>2, <1>3 DEF Filled, Keyed

\* The string that ends is the next key.
LEMMA KeyedBegins ==
  ASSUME NEW A, A.most \in Nat, NEW f, NEW w, KeyRoom(A, f, w), NEW y, NEW k, QuotedText(A, y, k),
         Len(w \o y) <= A.most
  PROVE  Keyed(A, [f EXCEPT !.key = k], w \o y)
<1>10. PICK h : \E b \in Blanks(A) : KeyNext(A, f, h) /\ w = h \o b
  BY DEF KeyRoom
<1>1. PICK b \in Blanks(A) : KeyNext(A, f, h) /\ w = h \o b
  BY <1>10
<1>2. h \in Seq(Nat) /\ b \in Seq(Nat) /\ y \in Seq(Nat)
  BY <1>1, KeyNextText, PaddingBytes DEF Blanks, QuotedText, IsText
<1>3. (h \o b) \o y = h \o (b \o y) /\ Len((h \o b) \o y) = Len(h) + Len(b) + Len(y)
  <2>1. Chained(h, b, y)
    BY <1>2, Threefold
  <2> QED
    BY <2>1 DEF Chained
<1>4. Len(y) + Len(b) <= A.most
  <2>1. Len(h) \in Nat /\ Len(b) \in Nat /\ Len(y) \in Nat
    BY <1>2
  <2>2. Len(w \o y) = Len(h) + Len(b) + Len(y)
    BY <1>1, <1>3
  <2> QED
    BY <2>1, <2>2
<1>5. KeyText(A, b \o y, k)
  <2>1. KeyText(A, y, k)
    BY Unpadded
  <2> QED
    BY <1>4, <2>1, BlanksAround DEF Blanks
<1> DEFINE g == [f EXCEPT !.key = k]
<1>6. IsObject(g) /\ g.fields = f.fields /\ g.key = k
  <2>1. f = [fields |-> f.fields, key |-> f.key]
    BY <1>1 DEF KeyNext, IsObject
  <2>2. g = [fields |-> f.fields, key |-> k]
    BY <2>1
  <2> HIDE DEF g
  <2>3. g.fields = f.fields /\ g.key = k
    BY <2>2
  <2> QED
    BY <2>2, <2>3 DEF IsObject
<1> HIDE DEF g
<1>7. KeyNext(A, g, h)
  BY <1>1, <1>6 DEF KeyNext
<1>8. w \o y = h \o (b \o y)
  BY <1>1, <1>3
<1>9. Keyed(A, g, w \o y)
  BY <1>5, <1>6, <1>7, <1>8 DEF Keyed
<1> QED
  BY <1>9 DEF g

-----------------------------------------------------------------------------
(***************************************************************************)
(* The invariant of the reader: Reads(A, q, x) says of a parser q that has *)
(* read the text x what the last part of the text is, by the place that the *)
(* parser is at.                                                           *)
(***************************************************************************)

IsParser(q) == q = [at |-> q.at, stack |-> q.stack, lex |-> q.lex, unit |-> q.unit,
                    isKey |-> q.isKey, value |-> q.value]
Parser(r, at, stack, lex, unit, isKey, value) ==
  r = [at |-> at, stack |-> stack, lex |-> lex, unit |-> unit, isKey |-> isKey, value |-> value]

\* The fields of a parser that is given by them.
LEMMA ParserParts ==
  ASSUME NEW r, NEW at, NEW stack, NEW lex, NEW unit, NEW isKey, NEW value,
         Parser(r, at, stack, lex, unit, isKey, value)
  PROVE  /\ IsParser(r) /\ r.at = at /\ r.stack = stack /\ r.lex = lex
         /\ r.unit = unit /\ r.isKey = isKey /\ r.value = value
<1>1. r = [at |-> at, stack |-> stack, lex |-> lex, unit |-> unit, isKey |-> isKey, value |-> value]
  BY DEF Parser
<1>2. r.at = at /\ r.stack = stack /\ r.lex = lex /\ r.unit = unit /\ r.isKey = isKey /\ r.value = value
  BY <1>1
<1> QED
  BY <1>1, <1>2 DEF IsParser

\* A record with one field changed.
LEMMA ParserField ==
  ASSUME NEW q, IsParser(q), NEW v
  PROVE  /\ Parser([q EXCEPT !.at = v], v, q.stack, q.lex, q.unit, q.isKey, q.value)
         /\ Parser([q EXCEPT !.stack = v], q.at, v, q.lex, q.unit, q.isKey, q.value)
         /\ Parser([q EXCEPT !.lex = v], q.at, q.stack, v, q.unit, q.isKey, q.value)
         /\ Parser([q EXCEPT !.unit = v], q.at, q.stack, q.lex, v, q.isKey, q.value)
         /\ Parser([q EXCEPT !.isKey = v], q.at, q.stack, q.lex, q.unit, v, q.value)
         /\ Parser([q EXCEPT !.value = v], q.at, q.stack, q.lex, q.unit, q.isKey, v)
<1>1. q = [at |-> q.at, stack |-> q.stack, lex |-> q.lex, unit |-> q.unit, isKey |-> q.isKey, value |-> q.value]
  BY DEF IsParser
<1>2. Parser([q EXCEPT !.at = v], v, q.stack, q.lex, q.unit, q.isKey, q.value)
  BY <1>1 DEF Parser
<1>3. Parser([q EXCEPT !.stack = v], q.at, v, q.lex, q.unit, q.isKey, q.value)
  BY <1>1 DEF Parser
<1>4. Parser([q EXCEPT !.lex = v], q.at, q.stack, v, q.unit, q.isKey, q.value)
  BY <1>1 DEF Parser
<1>5. Parser([q EXCEPT !.unit = v], q.at, q.stack, q.lex, v, q.isKey, q.value)
  BY <1>1 DEF Parser
<1>6. Parser([q EXCEPT !.isKey = v], q.at, q.stack, q.lex, q.unit, v, q.value)
  BY <1>1 DEF Parser
<1>7. Parser([q EXCEPT !.value = v], q.at, q.stack, q.lex, q.unit, q.isKey, v)
  BY <1>1 DEF Parser
<1> QED
  BY <1>2, <1>3, <1>4, <1>5, <1>6, <1>7

\* The records that the functions of the parser make of one.
LEMMA ParserMoved ==
  ASSUME NEW q, IsParser(q), NEW at, NEW v
  PROVE  /\ Parser(Goto(q, at), at, q.stack, q.lex, q.unit, q.isKey, q.value)
         /\ Parser(Failed(q), "failed", q.stack, q.lex, q.unit, q.isKey, q.value)
         /\ Parser(Collect(q, at, v), at, q.stack, v, q.unit, q.isKey, q.value)
         /\ Parser([q EXCEPT !.at = at, !.stack = v], at, v, q.lex, q.unit, q.isKey, q.value)
         /\ Parser([q EXCEPT !.at = at, !.value = v], at, q.stack, q.lex, q.unit, q.isKey, v)
         /\ Parser([q EXCEPT !.at = at, !.unit = v], at, q.stack, q.lex, v, q.isKey, q.value)
<1> DEFINE r == [q EXCEPT !.at = at]
<1>1. Parser(r, at, q.stack, q.lex, q.unit, q.isKey, q.value)
  BY ParserField
<1>2. IsParser(r) /\ r.at = at /\ r.stack = q.stack /\ r.lex = q.lex /\ r.unit = q.unit /\ r.isKey = q.isKey
      /\ r.value = q.value
  <2> HIDE DEF r
  <2> QED
    BY <1>1, ParserParts
<1>3. Parser(Goto(q, at), at, q.stack, q.lex, q.unit, q.isKey, q.value)
  BY <1>1 DEF Goto
<1>4. Parser(Failed(q), "failed", q.stack, q.lex, q.unit, q.isKey, q.value)
  BY ParserField DEF Failed
<1>5. /\ Collect(q, at, v) = [r EXCEPT !.lex = v]
      /\ [q EXCEPT !.at = at, !.stack = v] = [r EXCEPT !.stack = v]
      /\ [q EXCEPT !.at = at, !.value = v] = [r EXCEPT !.value = v]
      /\ [q EXCEPT !.at = at, !.unit = v] = [r EXCEPT !.unit = v]
  BY DEF Collect
<1> HIDE DEF r
<1>6. /\ Parser([r EXCEPT !.lex = v], at, q.stack, v, q.unit, q.isKey, q.value)
      /\ Parser([r EXCEPT !.stack = v], at, v, q.lex, q.unit, q.isKey, q.value)
      /\ Parser([r EXCEPT !.value = v], at, q.stack, q.lex, q.unit, q.isKey, v)
      /\ Parser([r EXCEPT !.unit = v], at, q.stack, q.lex, v, q.isKey, q.value)
  BY <1>2, ParserField
<1> QED
  BY <1>3, <1>4, <1>5, <1>6

IsAlphabet(A) == A.outside \subseteq Nat /\ A.inside \subseteq Nat /\ A.most \in Nat
Places == {"value", "first", "key", "colon", "behind", "end", "string", "escape", "unit", "number", "literal"}
TopRoom(A, st, s) == RoomAt(A, st, Len(st), s)
Before(A, q, w) == IF q.isKey THEN q.stack # <<>> /\ KeyRoom(A, Last(q.stack), w)
                   ELSE TopRoom(A, q.stack, w)
\* A string of which s and t have been read, and s is taken in.
InString(A, q, cur, t) ==
  /\ Quote \in A.outside
  /\ \E w \in Seq(Nat), s \in Seq(Nat) : /\ Before(A, q, w) /\ StringSoFar(A, s, q.lex)
                                         /\ cur = w \o (<<Quote>> \o (s \o t))
Scalar(A, q, cur) ==
  /\ q.lex \in Seq(A.outside) /\ q.lex # <<>>
  /\ \E w \in Seq(Nat) : TopRoom(A, q.stack, w) /\ cur = w \o q.lex
\* What the last part of the text is, by the place of the parser.
Place(A, q, cur) ==
  /\ q.at = "value" => TopRoom(A, q.stack, cur)
  /\ q.at = "first" => q.stack # <<>> /\ Opened(A, Last(q.stack), cur)
  /\ q.at = "key" => q.stack # <<>> /\ KeyRoom(A, Last(q.stack), cur)
  /\ q.at = "colon" => q.stack # <<>> /\ Keyed(A, Last(q.stack), cur)
  /\ q.at = "behind" => q.stack # <<>> /\ Filled(A, Last(q.stack), cur)
  /\ q.at = "end" => q.stack = <<>> /\ PaddedText(A, cur, q.value)
  /\ q.at = "string" => InString(A, q, cur, <<>>)
  /\ q.at = "escape" => Backslash \in A.inside /\ InString(A, q, cur, <<Backslash>>)
  /\ q.at = "unit" => /\ {Backslash, 117} \subseteq A.inside
                      /\ \E h \in Seq(HexByte(A)) : /\ Len(h) < 4 /\ q.unit = [i \in 1..Len(h) |-> HexDigit(h[i])]
                                                    /\ InString(A, q, cur, <<Backslash, 117>> \o h)
  /\ q.at = "number" => Scalar(A, q, cur) /\ NumberSoFar(A, q.lex)
  /\ q.at = "literal" => Scalar(A, q, cur)
Reads(A, q, x) ==
  /\ IsParser(q) /\ x \in Seq(Nat) /\ Len(x) <= A.most
  /\ q.at \in Places \cup {"failed", "accepted", "truncated"}
  /\ q.at \in Places => \E cur : Laid(A, q.stack, x, cur) /\ Place(A, q, cur)
  /\ q.at = "accepted" => PaddedText(A, x, q.value)

\* The last part of a text is no longer than the text, and all of it outside of all calls.
LEMMA LaidShort ==
  ASSUME NEW A, NEW st, NEW x, NEW cur, Laid(A, st, x, cur)
  PROVE  /\ x \in Seq(Nat) /\ cur \in Seq(Nat) /\ Len(cur) <= Len(x) /\ Len(x) \in Nat
         /\ st = <<>> => cur = x
<1> DEFINE n == Len(st) m == Len(x)
<1>1. IsStack(st) /\ x \in Seq(Nat) /\ m \in Nat /\ n \in Nat
  BY DEF Laid, IsStack
<1>2. PICK cuts : Cut(A, st, x, cuts, cur)
  BY DEF Laid
<1> DEFINE a == cuts[n + 1] f == a + 1
<1>3. a \in 0..m /\ cur = SubSeq(x, a + 1, m) /\ cuts[1] = 0
  <2>1. n + 1 \in 1..(n + 1)
    BY <1>1
  <2> QED
    BY <1>2, <2>1 DEF Cut
<1>4. cur \in Seq(Nat) /\ Len(cur) <= m
  <2>1. f \in Int /\ f >= 1 /\ m \in Int /\ cur = SubSeq(x, f, m)
    BY <1>1, <1>3
  <2>2. \A i \in f..m : x[i] \in Nat
    <3>1. f..m \subseteq 1..m
      BY <2>1
    <3>2. \A i \in 1..m : x[i] \in Nat
      BY <1>1
    <3> HIDE DEF f
    <3> QED
      BY <3>1, <3>2
  <2> HIDE DEF f, m
  <2>3. SubSeq(x, f, m) \in Seq(Nat) /\ Len(SubSeq(x, f, m)) = (IF f <= m THEN m - f + 1 ELSE 0)
    BY <2>1, <2>2, SubSeqProperties
  <2> QED
    BY <1>1, <2>1, <2>3
<1>5. ASSUME st = <<>> PROVE cur = x
  <2>1. n + 1 = 1
    BY <1>5
  <2>2. cur = SubSeq(x, 1, m)
    BY <1>3, <2>1
  <2> QED
    BY <1>1, <2>2, SubSeqFull
<1> QED
  BY <1>1, <1>4, <1>5

\* A value that parse_value returns takes its place.
LEMMA GiveKeeps ==
  ASSUME NEW A, A.most \in Nat, NEW q, IsParser(q), NEW x, Len(x) <= A.most, NEW w \in Seq(Nat), NEW y, NEW v,
         Laid(A, q.stack, x, w \o y), TopRoom(A, q.stack, w), PaddedText(A, y, v)
  PROVE  Reads(A, Give(q, v), x) /\ Give(q, v).at \in {"end", "behind"}
<1> DEFINE cur == w \o y st == q.stack
<1>1. y \in Seq(Nat) /\ Len(y) \in Nat /\ Len(w) \in Nat /\ Len(cur) = Len(w) + Len(y)
  <2>1. y \in Seq(Nat)
    BY DEF PaddedText, IsText
  <2> QED
    BY <2>1, Twofold
<1>2. x \in Seq(Nat) /\ Len(cur) <= Len(x) /\ Len(x) \in Nat /\ (st = <<>> => cur = x)
  BY LaidShort
<1>3. CASE st = <<>>
  <2> DEFINE r == [q EXCEPT !.at = "end", !.value = v]
  <2>1. Give(q, v) = r
    BY <1>3 DEF Give
  <2>2. IsParser(r) /\ r.at = "end" /\ r.stack = st /\ r.value = v
    <3>1. Parser(r, "end", q.stack, q.lex, q.unit, q.isKey, v)
      BY ParserMoved, Zenon
    <3> HIDE DEF r
    <3> QED
      BY <3>1, ParserParts, Zenon
  <2>3. PaddedText(A, cur, v)
    <3>1. w \in Seq(Padding(A))
      <4>1. Len(st) = 0
        BY <1>3
      <4> QED
        BY <4>1 DEF TopRoom, RoomAt, Blanks
    <3>2. Len(y) + Len(w) <= A.most
      BY <1>1, <1>2
    <3> QED
      BY <3>1, <3>2, BlanksAround
  <2> HIDE DEF r, cur
  <2>4. Place(A, r, cur)
    BY <1>3, <2>2, <2>3 DEF Place
  <2>5. Laid(A, r.stack, x, cur)
    BY <2>2 DEF cur
  <2>6. r.at \in Places /\ r.at # "accepted"
    BY <2>2 DEF Places
  <2> QED
    BY <1>2, <2>1, <2>2, <2>4, <2>5, <2>6 DEF Reads
<1>4. CASE st # <<>>
  <2> DEFINE f == Last(st) g == With(f, v) t == Append(Front(st), g)
             r == [q EXCEPT !.at = "behind", !.stack = t]
  <2>1. Give(q, v) = r
    BY <1>4 DEF Give, With, InArray
  <2>2. IsParser(r) /\ r.at = "behind" /\ r.stack = t
    <3> HIDE DEF t
    <3>1. Parser(r, "behind", t, q.lex, q.unit, q.isKey, q.value)
      BY ParserMoved, Zenon
    <3> HIDE DEF r
    <3> QED
      BY <3>1, ParserParts, Zenon
  <2>3. Laid(A, t, x, cur) /\ Last(t) = g /\ t # <<>>
    BY <1>4, LaidTop
  <2>4. Room(A, f, w)
    <3>1. Len(st) # 0
      BY <1>4, EmptySeq DEF Laid, IsStack
    <3> QED
      BY <3>1 DEF TopRoom, RoomAt, Last
  <2> HIDE DEF f, t
  <2>5. Filled(A, g, cur)
    BY <2>4 DEF Filled
  <2> HIDE DEF g, r, cur
  <2>6. Place(A, r, cur)
    BY <2>2, <2>3, <2>5 DEF Place
  <2>7. r.at \in Places /\ r.at # "accepted"
    BY <2>2 DEF Places
  <2> QED
    BY <1>2, <2>1, <2>2, <2>3, <2>6, <2>7 DEF Reads
<1> QED
  BY <1>3, <1>4

\* The closing bracket has been read, and the call returns.
LEMMA CloseKeeps ==
  ASSUME NEW A, A.most \in Nat, NEW q, IsParser(q), q.stack # <<>>, NEW x, Len(x) <= A.most, NEW cur,
         Laid(A, q.stack, x, cur),
         PaddedText(A, cur, IF InArray(q) THEN Array(Last(q.stack).items) ELSE Object(Last(q.stack).fields))
  PROVE  Reads(A, Close(q), x)
<1> DEFINE r == [q EXCEPT !.stack = Front(q.stack)]
           v == IF InArray(q) THEN Array(Last(q.stack).items) ELSE Object(Last(q.stack).fields)
<1>1. PICK w \in Seq(Nat) : Laid(A, Front(q.stack), x, w \o cur) /\ RoomAt(A, Front(q.stack), Len(Front(q.stack)), w)
  BY LaidPop
<1>2. IsParser(r) /\ r.stack = Front(q.stack)
  <2>1. Parser(r, q.at, Front(q.stack), q.lex, q.unit, q.isKey, q.value)
    BY ParserField
  <2> HIDE DEF r
  <2> QED
    BY <2>1, ParserParts
<1>3. Close(q) = Give(r, v)
  BY DEF Close
<1> HIDE DEF r
<1>4. Laid(A, r.stack, x, w \o cur) /\ TopRoom(A, r.stack, w)
  BY <1>1, <1>2 DEF TopRoom
<1>5. PaddedText(A, cur, v)
  OBVIOUS
<1> HIDE DEF v
<1>6. Reads(A, Give(r, v), x)
  BY <1>2, <1>4, <1>5, GiveKeeps
<1> QED
  BY <1>3, <1>6

-----------------------------------------------------------------------------
(***************************************************************************)
(* Each function of the parser keeps the invariant.                        *)
(***************************************************************************)

\* A parser at a place of the text satisfies the invariant, and so does one that has failed.
LEMMA PlaceReads ==
  ASSUME NEW A, NEW q, IsParser(q), NEW x, Len(x) <= A.most, NEW cur, Laid(A, q.stack, x, cur),
         q.at \in Places, Place(A, q, cur)
  PROVE  Reads(A, q, x)
<1>1. x \in Seq(Nat)
  BY DEF Laid
<1>2. q.at # "accepted"
  BY DEF Places
<1> QED
  BY <1>1, <1>2 DEF Reads

\* A parser that has failed promises nothing.
LEMMA FailedReads ==
  ASSUME NEW A, NEW q, IsParser(q), NEW x \in Seq(Nat), Len(x) <= A.most
  PROVE  Reads(A, Failed(q), x)
<1> DEFINE r == Failed(q)
<1>1. Parser(r, "failed", q.stack, q.lex, q.unit, q.isKey, q.value)
  BY ParserMoved, Zenon
<1> HIDE DEF r
<1>2. IsParser(r) /\ r.at = "failed"
  BY <1>1, ParserParts
<1>3. r.at \notin Places /\ r.at # "accepted"
  BY <1>2 DEF Places
<1>4. Reads(A, r, x)
  BY <1>2, <1>3 DEF Reads
<1> QED
  BY <1>4, Zenon DEF r

\* A value has its place in the innermost call, or in the document.
LEMMA RoomTop ==
  ASSUME NEW A, NEW st, IsStack(st), NEW s
  PROVE  /\ st = <<>> => (TopRoom(A, st, s) <=> s \in Blanks(A))
         /\ st # <<>> => (TopRoom(A, st, s) <=> Room(A, Last(st), s))
<1>1. (st = <<>> => Len(st) = 0) /\ (st # <<>> => Len(st) # 0)
  BY EmptySeq DEF IsStack
<1> QED
  BY <1>1 DEF TopRoom, RoomAt, Last

\* The quote that opens a string.
LEMMA StringOpens ==
  ASSUME NEW A, A.most \in Nat, NEW r, r.lex = <<>>, NEW cur \in Seq(Nat), Before(A, r, cur), Quote \in A.outside
  PROVE  InString(A, r, Append(cur, Quote), <<>>)
<1>1. <<>> \in Seq(Nat) /\ StringSoFar(A, <<>>, r.lex)
  BY StringBegins
<1>2. <<Quote>> \in Seq(Nat) /\ Append(cur, Quote) = cur \o <<Quote>>
  BY MarkBytes, ByteBehind
<1>3. <<>> \o <<>> = <<>> /\ <<Quote>> \o <<>> = <<Quote>>
  BY <1>1, <1>2, ConcatEmptySeq
<1>4. Append(cur, Quote) = cur \o (<<Quote>> \o (<<>> \o <<>>))
  BY <1>2, <1>3
<1> QED
  BY <1>1, <1>4 DEF InString

\* parse_value looks at the first byte of a value.
LEMMA ValueKeeps ==
  ASSUME NEW A, IsAlphabet(A), NEW q, IsParser(q), NEW x, NEW cur, Laid(A, q.stack, x, cur), Len(x) < A.most,
         TopRoom(A, q.stack, cur), NEW c \in A.outside
  PROVE  Reads(A, Value(q, c), Append(x, c))
<1> DEFINE x2 == Append(x, c) cur2 == Append(cur, c) st == q.stack
<1>1. c \in Nat /\ A.most \in Nat
  BY DEF IsAlphabet
<1>2. x \in Seq(Nat) /\ cur \in Seq(Nat) /\ IsStack(st)
  BY LaidShort DEF Laid
<1>3. x2 \in Seq(Nat) /\ Len(x2) <= A.most
  BY <1>1, <1>2, ByteBehind, Twofold
<1>4. Laid(A, st, x2, cur2)
  BY <1>1, LaidAppend
<1>5. cur2 = cur \o <<c>> /\ <<c>> \in Seq(A.outside) /\ <<c>> # <<>>
  <2>1. cur2 = cur \o <<c>>
    BY <1>1, <1>2, ByteBehind
  <2>2. <<c>> \in Seq(A.outside) /\ <<c>> # <<>>
    <3> DEFINE S == A.outside
    <3>1. c \in S
      OBVIOUS
    <3> HIDE DEF S
    <3>2. <<c>> \in Seq(S) /\ Len(<<c>>) = 1
      BY <3>1
    <3> QED
      BY <3>2, EmptySeq DEF S
  <2> QED
    BY <2>1, <2>2
<1>6. CASE c = Quote
  <2> DEFINE s == Collect(q, "string", <<>>) no == FALSE r == [s EXCEPT !.isKey = no]
  <2>1. Value(q, c) = r
    BY <1>6, Zenon DEF Value
  <2>2. Parser(s, "string", st, <<>>, q.unit, q.isKey, q.value)
    BY ParserMoved, Zenon
  <2>3. Parser(r, "string", st, <<>>, q.unit, no, q.value)
    <3> HIDE DEF s
    <3>1. /\ IsParser(s) /\ s.at = "string" /\ s.stack = st /\ s.lex = <<>> /\ s.unit = q.unit
          /\ s.value = q.value
      BY <2>2, ParserParts
    <3> QED
      BY <3>1, ParserField
  <2> HIDE DEF r, s, no
  <2>4. IsParser(r) /\ r.at = "string" /\ r.stack = st /\ r.lex = <<>> /\ r.isKey = no
    BY <2>3, ParserParts
  <2>5. InString(A, r, cur2, <<>>)
    <3>1. Before(A, r, cur)
      BY <2>4 DEF Before, no
    <3> QED
      BY <1>1, <1>2, <1>6, <2>4, <3>1, StringOpens
  <2> HIDE DEF x2, cur2
  <2>6. Place(A, r, cur2) /\ r.at \in Places
    BY <2>4, <2>5 DEF Place, Places
  <2>7. Reads(A, r, x2)
    BY <1>3, <1>4, <2>4, <2>6, PlaceReads
  <2> QED
    BY <2>1, <2>7 DEF x2
<1>7. ASSUME NEW f, Opened(A, f, <<c>>)
      PROVE  Reads(A, Call(q, f), x2)
  <2> DEFINE t == Append(st, f) r == Call(q, f)
  <2>1. Parser(r, "first", t, q.lex, q.unit, q.isKey, q.value)
    <3>1. r = [q EXCEPT !.at = "first", !.stack = t]
      BY Zenon DEF Call
    <3> HIDE DEF r, t
    <3>2. Parser([q EXCEPT !.at = "first", !.stack = t], "first", t, q.lex, q.unit, q.isKey, q.value)
      BY ParserMoved, Zenon
    <3> QED
      BY <3>1, <3>2
  <2>2. Laid(A, t, x2, <<c>>)
    BY <1>1, LaidPush DEF TopRoom
  <2>3. t # <<>> /\ Last(t) = f
    BY <1>2, StackAppend, SMTT(60) DEF Last
  <2> HIDE DEF r, t, x2
  <2>4. IsParser(r) /\ r.at = "first" /\ r.stack = t
    BY <2>1, ParserParts
  <2>5. Place(A, r, <<c>>) /\ r.at \in Places
    BY <1>7, <2>3, <2>4 DEF Place, Places
  <2>6. Reads(A, r, x2)
    BY <1>3, <2>2, <2>4, <2>5, PlaceReads
  <2> QED
    BY <2>6 DEF r
<1>8. CASE c = LBracket
  <2>1. Value(q, c) = Call(q, [items |-> <<>>])
    BY <1>8 DEF Value, LBracket, Quote
  <2>2. Opened(A, [items |-> <<>>], <<c>>)
    BY <1>8, OpenedBegins
  <2> QED
    BY <1>7, <2>1, <2>2
<1>9. CASE c = LBrace
  <2>1. Value(q, c) = Call(q, [fields |-> <<>>, key |-> <<>>])
    BY <1>9 DEF Value, LBrace, LBracket, Quote
  <2>2. Opened(A, [fields |-> <<>>, key |-> <<>>], <<c>>)
    BY <1>9, OpenedBegins
  <2> QED
    BY <1>7, <2>1, <2>2
<1>10. ASSUME NEW at \in {"number", "literal"}, at = "number" => NumberSoFar(A, <<c>>)
       PROVE  Reads(A, Collect(q, at, <<c>>), x2)
  <2> DEFINE r == Collect(q, at, <<c>>)
  <2>1. Parser(r, at, st, <<c>>, q.unit, q.isKey, q.value)
    BY ParserMoved, Zenon
  <2> HIDE DEF r
  <2>2. IsParser(r) /\ r.at = at /\ r.stack = st /\ r.lex = <<c>>
    BY <2>1, ParserParts
  <2>3. Scalar(A, r, cur2)
    <3>1. cur2 = cur \o r.lex /\ r.lex \in Seq(A.outside) /\ r.lex # <<>>
      BY <1>5, <2>2
    <3> HIDE DEF cur2
    <3> QED
      BY <1>2, <2>2, <3>1 DEF Scalar
  <2> HIDE DEF cur2, x2
  <2>4. Place(A, r, cur2) /\ r.at \in Places
    BY <1>10, <2>2, <2>3 DEF Place, Places
  <2>5. Reads(A, r, x2)
    BY <1>3, <1>4, <2>2, <2>4, PlaceReads
  <2> QED
    BY <2>5 DEF r
<1>11. CASE c \notin {Quote, LBracket, LBrace} /\ (c = Minus \/ c \in Digit)
  <2>1. Value(q, c) = Collect(q, "number", <<c>>)
    BY <1>11 DEF Value
  <2>2. NumberSoFar(A, <<c>>)
    BY <1>11, NumberBegins
  <2> QED
    BY <1>10, <2>1, <2>2
<1>12. CASE c \notin {Quote, LBracket, LBrace} /\ ~(c = Minus \/ c \in Digit) /\ \E l \in Literals : l[1][1] = c
  <2>1. Value(q, c) = Collect(q, "literal", <<c>>)
    <3> HIDE DEF cur2, x2
    <3> QED
      BY <1>12, Zenon DEF Value
  <2> QED
    BY <1>10, <2>1
<1>13. CASE c \notin {Quote, LBracket, LBrace} /\ ~(c = Minus \/ c \in Digit) /\ ~\E l \in Literals : l[1][1] = c
  <2>1. Value(q, c) = Failed(q)
    <3> HIDE DEF cur2, x2
    <3> QED
      BY <1>13, Zenon DEF Value
  <2> QED
    BY <1>3, <2>1, FailedReads
<1> QED
  BY <1>6, <1>8, <1>9, <1>11, <1>12, <1>13

\* The text with one more byte.
Longer(A, st, x, cur, c) ==
  /\ c \in Nat /\ A.most \in Nat /\ IsStack(st)
  /\ x \in Seq(Nat) /\ Append(x, c) \in Seq(Nat) /\ Len(Append(x, c)) <= A.most
  /\ cur \in Seq(Nat) /\ Append(cur, c) \in Seq(Nat) /\ Append(cur, c) = cur \o <<c>> /\ <<c>> \in Seq(Nat)
  /\ Len(Append(cur, c)) <= A.most /\ Len(cur) < A.most
  /\ Laid(A, st, Append(x, c), Append(cur, c))

\* A byte that is read is one more in the text and in its last part.
LEMMA OneMore ==
  ASSUME NEW A, IsAlphabet(A), NEW st, NEW x, NEW cur, Laid(A, st, x, cur), Len(x) < A.most,
         NEW c \in A.outside \cup A.inside
  PROVE  Longer(A, st, x, cur, c)
<1>1. c \in Nat /\ A.most \in Nat
  BY DEF IsAlphabet
<1>2. x \in Seq(Nat) /\ cur \in Seq(Nat) /\ IsStack(st) /\ Len(x) \in Nat /\ Len(cur) \in Nat /\ Len(cur) <= Len(x)
  <2>1. x \in Seq(Nat) /\ cur \in Seq(Nat) /\ Len(x) \in Nat /\ Len(cur) <= Len(x)
    BY LaidShort
  <2> QED
    BY <2>1, Twofold DEF Laid
<1>3. /\ Append(x, c) \in Seq(Nat) /\ Len(Append(x, c)) = Len(x) + 1
      /\ Append(cur, c) \in Seq(Nat) /\ Len(Append(cur, c)) = Len(cur) + 1 /\ Append(cur, c) = cur \o <<c>>
  BY <1>1, <1>2, ByteBehind
<1>4. Len(Append(x, c)) <= A.most /\ Len(Append(cur, c)) <= A.most /\ Len(cur) < A.most
  BY <1>1, <1>2, <1>3
<1>5. Laid(A, st, Append(x, c), Append(cur, c))
  BY <1>1, LaidAppend
<1>6. <<c>> \in Seq(Nat)
  BY <1>1
<1> QED
  BY <1>1, <1>2, <1>3, <1>4, <1>5, <1>6 DEF Longer

\* The quote before a key.
LEMMA KeyKeeps ==
  ASSUME NEW A, IsAlphabet(A), NEW q, IsParser(q), NEW x, NEW cur, Laid(A, q.stack, x, cur), Len(x) < A.most,
         q.stack # <<>>, KeyRoom(A, Last(q.stack), cur), NEW c \in A.outside
  PROVE  Reads(A, Key(q, c), Append(x, c))
<1> DEFINE st == q.stack x2 == Append(x, c) cur2 == Append(cur, c) f == Last(st)
<1>1. Longer(A, st, x, cur, c)
  BY OneMore
<1>2. CASE c = Quote
  <2> DEFINE s == Collect(q, "string", <<>>) yes == TRUE r == [s EXCEPT !.isKey = yes]
  <2>1. Key(q, c) = r
    BY <1>2, Zenon DEF Key
  <2>2. Parser(s, "string", st, <<>>, q.unit, q.isKey, q.value)
    BY ParserMoved, Zenon
  <2>3. Parser(r, "string", st, <<>>, q.unit, yes, q.value)
    <3> HIDE DEF s, yes
    <3>1. /\ IsParser(s) /\ s.at = "string" /\ s.stack = st /\ s.lex = <<>> /\ s.unit = q.unit
          /\ s.value = q.value
      BY <2>2, ParserParts
    <3> QED
      BY <3>1, ParserField
  <2> HIDE DEF r, s, yes
  <2>4. IsParser(r) /\ r.at = "string" /\ r.stack = st /\ r.lex = <<>> /\ r.isKey = yes
    BY <2>3, ParserParts
  <2>5. InString(A, r, cur2, <<>>)
    <3>1. Before(A, r, cur)
      BY <2>4 DEF Before, yes
    <3> QED
      BY <1>1, <1>2, <2>4, <3>1, StringOpens DEF Longer
  <2> HIDE DEF x2, cur2
  <2>6. Place(A, r, cur2) /\ r.at \in Places
    BY <2>4, <2>5 DEF Place, Places
  <2>7. Laid(A, r.stack, x2, cur2) /\ Len(x2) <= A.most
    BY <1>1, <2>4 DEF Longer, x2, cur2
  <2>8. Reads(A, r, x2)
    BY <2>4, <2>6, <2>7, PlaceReads
  <2> QED
    BY <2>1, <2>8 DEF x2
<1>3. CASE c # Quote
  <2>1. Key(q, c) = Failed(q)
    BY <1>3 DEF Key
  <2> QED
    BY <1>1, <2>1, FailedReads DEF Longer
<1> QED
  BY <1>2, <1>3

\* A blank between two parts of the document.
LEMMA BlankKeeps ==
  ASSUME NEW A, IsAlphabet(A), NEW q, NEW x, Reads(A, q, x), Len(x) < A.most,
         q.at \in {"value", "first", "key", "colon", "behind", "end"}, NEW c \in Padding(A)
  PROVE  Reads(A, q, Append(x, c))
<1> DEFINE st == q.stack f == Last(st)
<1>1. PICK cur : Laid(A, st, x, cur) /\ Place(A, q, cur)
  BY DEF Reads, Places
<1> DEFINE x2 == Append(x, c) cur2 == Append(cur, c)
<1>2. Longer(A, st, x, cur, c)
  BY <1>1, OneMore DEF Padding
<1>3. cur \in Seq(Nat) /\ A.most \in Nat /\ Len(cur) < A.most /\ IsStack(st) /\ Len(x2) <= A.most /\ Laid(A, st, x2, cur2)
  BY <1>2 DEF Longer
<1>4. ASSUME TopRoom(A, st, cur)
      PROVE  TopRoom(A, st, cur2)
  <2>1. CASE st = <<>>
    BY <1>3, <1>4, <2>1, RoomTop, BlankMore
  <2>2. CASE st # <<>>
    BY <1>3, <1>4, <2>2, RoomTop, RoomBlank
  <2> QED
    BY <2>1, <2>2
<1>5. Opened(A, f, cur) => Opened(A, f, cur2)
  BY RoomBlank
<1>6. KeyRoom(A, f, cur) => KeyRoom(A, f, cur2)
  BY RoomBlank
<1>7. Keyed(A, f, cur) => Keyed(A, f, cur2)
  BY <1>3, FilledBlank
<1>8. Filled(A, f, cur) => Filled(A, f, cur2)
  BY <1>3, FilledBlank
<1>9. PaddedText(A, cur, q.value) => PaddedText(A, cur2, q.value)
  BY <1>3, BlankAdded
<1> HIDE DEF cur2, x2
<1>10. Place(A, q, cur2)
  BY <1>1, <1>4, <1>5, <1>6, <1>7, <1>8, <1>9 DEF Place
<1>11. IsParser(q) /\ q.at \in Places
  BY DEF Reads, Places
<1>12. Reads(A, q, x2)
  BY <1>3, <1>10, <1>11, PlaceReads
<1> QED
  BY <1>12 DEF x2

\* The bracket or brace that ends the innermost call.
LEMMA CloserKeeps ==
  ASSUME NEW A, IsAlphabet(A), NEW q, IsParser(q), NEW x, NEW cur, Laid(A, q.stack, x, cur), Len(x) < A.most,
         q.stack # <<>>, Filled(A, Last(q.stack), cur) \/ Opened(A, Last(q.stack), cur),
         NEW c \in A.outside, c = Closer(q)
  PROVE  Reads(A, Close(q), Append(x, c))
<1> DEFINE st == q.stack f == Last(st) x2 == Append(x, c) cur2 == Append(cur, c)
           v == IF InArray(q) THEN Array(f.items) ELSE Object(f.fields)
<1>1. Longer(A, st, x, cur, c)
  BY OneMore
<1>2. A.most \in Nat /\ Len(cur) < A.most /\ Len(x2) <= A.most /\ Laid(A, st, x2, cur2)
  BY <1>1 DEF Longer
<1>3. ValueText(A, cur2, v)
  <2>1. CASE InArray(q)
    <3>1. c = RBracket /\ "items" \in DOMAIN f /\ v = Array(f.items)
      BY <2>1 DEF Closer, InArray
    <3> HIDE DEF f, v
    <3> QED
      BY <1>2, <3>1, CloseBehind DEF f
  <2>2. CASE ~InArray(q)
    <3>1. c = RBrace /\ "items" \notin DOMAIN f /\ v = Object(f.fields)
      BY <2>2 DEF Closer, InArray
    <3> HIDE DEF f, v
    <3> QED
      BY <1>2, <3>1, CloseBehind DEF f
  <2> QED
    BY <2>1, <2>2
<1>4. PaddedText(A, cur2, v)
  <2> HIDE DEF v, cur2
  <2> QED
    BY <1>2, <1>3, Unpadded
<1> QED
  BY <1>2, <1>4, CloseKeeps

\* A byte between two parts of the document.
LEMMA StructureKeeps ==
  ASSUME NEW A, IsAlphabet(A), NEW q, NEW x, Reads(A, q, x), Len(x) < A.most,
         q.at \in {"value", "first", "key", "colon", "behind", "end"}, NEW c \in A.outside
  PROVE  Reads(A, Structure(q, c), Append(x, c))
<1> DEFINE st == q.stack f == Last(st) x2 == Append(x, c)
<1>1. PICK cur : Laid(A, st, x, cur) /\ Place(A, q, cur)
  BY DEF Reads, Places
<1> DEFINE cur2 == Append(cur, c)
<1>2. Longer(A, st, x, cur, c)
  BY <1>1, OneMore
<1>3. /\ cur \in Seq(Nat) /\ A.most \in Nat /\ Len(cur) < A.most /\ IsStack(st) /\ x2 \in Seq(Nat)
      /\ Len(x2) <= A.most /\ Laid(A, st, x2, cur2) /\ IsParser(q)
  BY <1>2 DEF Longer, Reads
<1>4. Reads(A, Failed(q), x2)
  BY <1>3, FailedReads
<1>5. CASE c \in Blank
  <2>1. c \in Padding(A)
    BY <1>5 DEF Padding
  <2>2. Structure(q, c) = q
    BY <1>5 DEF Structure
  <2> QED
    BY <2>1, <2>2, BlankKeeps
<1>6. CASE c \notin Blank /\ q.at = "first"
  <2>1. st # <<>> /\ Opened(A, f, cur)
    BY <1>1, <1>6 DEF Place
  <2>2. CASE c = Closer(q)
    <3>1. Structure(q, c) = Close(q)
      BY <1>6, <2>2 DEF Structure
    <3> QED
      BY <1>1, <1>3, <2>1, <2>2, <3>1, CloserKeeps
  <2>3. CASE c # Closer(q) /\ InArray(q)
    <3>1. Structure(q, c) = Value(q, c)
      BY <1>6, <2>3 DEF Structure
    <3>2. Room(A, f, cur)
      BY <2>1, <2>3, OpenedRoom DEF InArray
    <3>3. TopRoom(A, st, cur)
      BY <1>3, <2>1, <3>2, RoomTop
    <3> QED
      BY <1>1, <1>3, <3>1, <3>3, ValueKeeps
  <2>4. CASE c # Closer(q) /\ ~InArray(q)
    <3>1. Structure(q, c) = Key(q, c)
      BY <1>6, <2>4 DEF Structure
    <3>2. KeyRoom(A, f, cur)
      BY <2>1, <2>4, OpenedRoom DEF InArray
    <3> QED
      BY <1>1, <1>3, <2>1, <3>1, <3>2, KeyKeeps
  <2> QED
    BY <2>2, <2>3, <2>4
<1>7. CASE c \notin Blank /\ q.at = "value"
  <2>1. Structure(q, c) = Value(q, c)
    BY <1>7 DEF Structure
  <2>2. TopRoom(A, st, cur)
    BY <1>1, <1>7 DEF Place
  <2> QED
    BY <1>1, <1>3, <2>1, <2>2, ValueKeeps
<1>8. CASE c \notin Blank /\ q.at = "key"
  <2>1. Structure(q, c) = Key(q, c)
    BY <1>8 DEF Structure
  <2>2. st # <<>> /\ KeyRoom(A, f, cur)
    BY <1>1, <1>8 DEF Place
  <2> QED
    BY <1>1, <1>3, <2>1, <2>2, KeyKeeps
\* What Goto(q, at) needs.
<1>9. ASSUME NEW at \in {"value", "key"}, at = "value" => TopRoom(A, st, cur2),
             at = "key" => st # <<>> /\ KeyRoom(A, f, cur2)
      PROVE  Reads(A, Goto(q, at), x2)
  <2> DEFINE r == Goto(q, at)
  <2>1. Parser(r, at, st, q.lex, q.unit, q.isKey, q.value)
    BY <1>3, ParserMoved, Zenon
  <2> HIDE DEF r, cur2, x2
  <2>2. IsParser(r) /\ r.at = at /\ r.stack = st
    BY <2>1, ParserParts
  <2>3. Place(A, r, cur2) /\ r.at \in Places
    BY <1>9, <2>2 DEF Place, Places
  <2>4. Laid(A, r.stack, x2, cur2)
    BY <1>3, <2>2
  <2>5. Reads(A, r, x2)
    BY <1>3, <2>2, <2>3, <2>4, PlaceReads
  <2> QED
    BY <2>5 DEF r
<1>10. CASE c \notin Blank /\ q.at = "colon"
  <2>1. CASE c = Colon
    <3>1. Structure(q, c) = Goto(q, "value")
      BY <1>10, <2>1 DEF Structure
    <3>2. st # <<>> /\ Keyed(A, f, cur)
      BY <1>1, <1>10 DEF Place
    <3>3. Room(A, f, cur2)
      BY <1>3, <2>1, <3>2, ColonBehind
    <3>4. TopRoom(A, st, cur2)
      BY <1>3, <3>2, <3>3, RoomTop
    <3> QED
      BY <1>9, <3>1, <3>4
  <2>2. CASE c # Colon
    <3>1. Structure(q, c) = Failed(q)
      BY <1>10, <2>2 DEF Structure
    <3> QED
      BY <1>4, <3>1
  <2> QED
    BY <2>1, <2>2
<1>11. CASE c \notin Blank /\ q.at = "end"
  <2>1. Structure(q, c) = Failed(q)
    BY <1>11 DEF Structure
  <2> QED
    BY <1>4, <2>1
<1>12. CASE c \notin Blank /\ q.at = "behind"
  <2>1. st # <<>> /\ Filled(A, f, cur)
    BY <1>1, <1>12 DEF Place
  <2>2. CASE c = Closer(q)
    <3>1. Structure(q, c) = Close(q)
      BY <1>12, <2>2 DEF Structure
    <3> QED
      BY <1>1, <1>3, <2>1, <2>2, <3>1, CloserKeeps
  <2>3. CASE c # Closer(q) /\ c = Comma
    <3>1. Structure(q, c) = Goto(q, IF InArray(q) THEN "value" ELSE "key")
      BY <1>12, <2>3 DEF Structure
    <3>2. /\ "items" \in DOMAIN f => Room(A, f, cur2)
          /\ "items" \notin DOMAIN f => KeyRoom(A, f, cur2)
      BY <1>3, <2>1, <2>3, CommaBehind
    <3>3. CASE InArray(q)
      <4>1. TopRoom(A, st, cur2)
        BY <1>3, <2>1, <3>2, <3>3, RoomTop DEF InArray
      <4> QED
        BY <1>9, <3>1, <3>3, <4>1
    <3>4. CASE ~InArray(q)
      <4>1. KeyRoom(A, f, cur2)
        BY <3>2, <3>4 DEF InArray
      <4> QED
        BY <1>9, <2>1, <3>1, <3>4, <4>1
    <3> QED
      BY <3>3, <3>4
  <2>4. CASE c # Closer(q) /\ c # Comma
    <3>1. Structure(q, c) = Failed(q)
      BY <1>12, <2>4 DEF Structure
    <3> QED
      BY <1>4, <3>1
  <2> QED
    BY <2>2, <2>3, <2>4
<1> QED
  BY <1>5, <1>6, <1>7, <1>8, <1>10, <1>11, <1>12

\* A number or a literal takes one more byte.
LEMMA ScalarGrows ==
  ASSUME NEW A, IsAlphabet(A), NEW q, NEW cur, IsStack(q.stack), Scalar(A, q, cur), NEW c \in A.outside,
         NEW r, r.stack = q.stack, r.lex = Append(q.lex, c)
  PROVE  Scalar(A, r, Append(cur, c))
<1> DEFINE lex == q.lex
<1>1. PICK w \in Seq(Nat) : TopRoom(A, q.stack, w) /\ cur = w \o lex
  BY DEF Scalar
<1>2. lex \in Seq(A.outside) /\ lex \in Seq(Nat) /\ c \in Nat
  BY SeqMonotonic DEF Scalar, IsAlphabet
<1>3. Append(lex, c) \in Seq(A.outside) /\ Append(lex, c) # <<>>
  <2> DEFINE S == A.outside
  <2>1. lex \in Seq(S) /\ c \in S
    BY <1>2
  <2> HIDE DEF S, lex
  <2>2. Append(lex, c) \in Seq(S) /\ Append(lex, c) # <<>>
    BY <2>1, AppendProperties
  <2> QED
    BY <2>2 DEF S
<1>4. Append(cur, c) = w \o Append(lex, c)
  BY <1>1, <1>2, AppendRight
<1> QED
  BY <1>1, <1>3, <1>4 DEF Scalar

\* A number ends before the byte that parse_number does not take.
LEMMA EndNumberKeeps ==
  ASSUME NEW A, IsAlphabet(A), NEW q, NEW x, Reads(A, q, x), q.at = "number", Readable(q.lex)
  PROVE  Reads(A, EndNumber(q), x) /\ EndNumber(q).at \in {"end", "behind"}
<1> DEFINE lex == q.lex v == NumberIn(lex)
<1>1. PICK cur : Laid(A, q.stack, x, cur) /\ Place(A, q, cur)
  BY DEF Reads, Places
<1>2. Scalar(A, q, cur) /\ NumberSoFar(A, lex)
  BY <1>1 DEF Place
<1>3. PICK w \in Seq(Nat) : TopRoom(A, q.stack, w) /\ cur = w \o lex
  BY <1>2 DEF Scalar
<1>4. lex \in Seq(Nat) /\ lex # <<>>
  BY <1>2, SeqMonotonic DEF Scalar, IsAlphabet
<1>5. A.most \in Nat /\ Len(x) <= A.most /\ IsParser(q)
  BY DEF Reads, IsAlphabet
<1>6. Len(lex) <= A.most
  <2>1. Len(cur) <= Len(x) /\ Len(x) \in Nat
    BY <1>1, LaidShort
  <2>2. Len(cur) = Len(w) + Len(lex) /\ Len(w) \in Nat /\ Len(lex) \in Nat
    BY <1>3, <1>4, Twofold
  <2> QED
    BY <1>5, <2>1, <2>2
<1>7. ValueText(A, lex, v)
  BY <1>2, <1>4, <1>5, <1>6, NumberMade
<1>8. PaddedText(A, lex, v)
  BY <1>5, <1>7, Unpadded
<1>9. EndNumber(q) = Give(q, v)
  BY DEF EndNumber
<1>10. Laid(A, q.stack, x, w \o lex)
  BY <1>1, <1>3
<1> HIDE DEF v, lex
<1> QED
  BY <1>3, <1>5, <1>8, <1>9, <1>10, GiveKeeps

\* A byte in a number, or behind it.
LEMMA NumberKeeps ==
  ASSUME NEW A, IsAlphabet(A), NEW q, NEW x, Reads(A, q, x), q.at = "number", Len(x) < A.most, NEW c \in A.outside
  PROVE  Reads(A, InNumber(q, c), Append(x, c))
<1> DEFINE lex == q.lex lex2 == Append(lex, c) x2 == Append(x, c)
<1>1. PICK cur : Laid(A, q.stack, x, cur) /\ Place(A, q, cur)
  BY DEF Reads, Places
<1> DEFINE cur2 == Append(cur, c)
<1>2. Longer(A, q.stack, x, cur, c)
  BY <1>1, OneMore
<1>3. /\ A.most \in Nat /\ IsStack(q.stack) /\ x2 \in Seq(Nat) /\ c \in Nat
      /\ Len(x2) <= A.most /\ Laid(A, q.stack, x2, cur2) /\ IsParser(q)
  BY <1>2 DEF Longer, Reads
<1>4. CASE Continues(lex, c)
  <2> DEFINE r == Collect(q, "number", lex2)
  <2>1. InNumber(q, c) = r
    BY <1>4, Zenon DEF InNumber
  <2>2. Parser(r, "number", q.stack, lex2, q.unit, q.isKey, q.value)
    BY <1>3, ParserMoved, Zenon
  <2> HIDE DEF r
  <2>3. IsParser(r) /\ r.at = "number" /\ r.stack = q.stack /\ r.lex = lex2
    <3> HIDE DEF lex2, x2, cur2
    <3> QED
      BY <2>2, ParserParts
  <2>4. Scalar(A, q, cur) /\ NumberSoFar(A, lex) /\ lex # <<>>
    BY <1>1 DEF Place, Scalar
  <2>5. Scalar(A, r, cur2)
    BY <1>3, <2>3, <2>4, ScalarGrows
  <2>6. NumberSoFar(A, lex2)
    BY <1>3, <1>4, <2>4, NumberContinues
  <2> HIDE DEF lex2, cur2, x2
  <2>7. Place(A, r, cur2) /\ r.at \in Places
    BY <2>3, <2>5, <2>6 DEF Place, Places
  <2>8. Laid(A, r.stack, x2, cur2)
    BY <1>3, <2>3
  <2>9. Reads(A, r, x2)
    BY <1>3, <2>3, <2>7, <2>8, PlaceReads
  <2> QED
    BY <2>1, <2>9 DEF x2
<1>5. CASE ~Continues(lex, c) /\ Readable(lex)
  <2> DEFINE r == EndNumber(q)
  <2>1. InNumber(q, c) = Structure(r, c)
    BY <1>5 DEF InNumber
  <2>2. Reads(A, r, x) /\ r.at \in {"end", "behind"}
    BY <1>5, EndNumberKeeps
  <2> HIDE DEF r
  <2>3. Reads(A, Structure(r, c), x2)
    BY <2>2, StructureKeeps
  <2> QED
    BY <2>1, <2>3
<1>6. CASE ~Continues(lex, c) /\ ~Readable(lex)
  <2>1. InNumber(q, c) = Failed(q)
    BY <1>6 DEF InNumber
  <2> QED
    BY <1>3, <2>1, FailedReads
<1> QED
  BY <1>4, <1>5, <1>6

\* The literals differ in their first bytes.
LEMMA LiteralsDiffer ==
  ASSUME NEW l \in Literals
  PROVE  /\ l[1] \in Seq(Nat) /\ Len(l[1]) \in Nat \ {0}
         /\ \A m \in Literals : m[1][1] = l[1][1] => m = l
<1>2. \A m \in Literals : m[1][1] = l[1][1] => m = l
  <2> DEFINE a == <<<<110, 117, 108, 108>>, Null>> b == <<<<116, 114, 117, 101>>, Boolean(TRUE)>>
             d == <<<<102, 97, 108, 115, 101>>, Boolean(FALSE)>>
  <2>1. Literals = {a, b, d}
    BY DEF Literals
  <2>2. a[1][1] = 110
    <3>1. a[1] = <<110, 117, 108, 108>>
      OBVIOUS
    <3> QED
      BY <3>1
  <2>3. b[1][1] = 116
    <3>1. b[1] = <<116, 114, 117, 101>>
      OBVIOUS
    <3> QED
      BY <3>1
  <2>4. d[1][1] = 102
    <3>1. d[1] = <<102, 97, 108, 115, 101>>
      OBVIOUS
    <3> QED
      BY <3>1
  <2> HIDE DEF a, b, d
  <2> QED
    BY <2>1, <2>2, <2>3, <2>4
<1>3. l[1] \in Seq(Nat) /\ Len(l[1]) \in Nat \ {0}
  <2>1. CASE l = <<<<110, 117, 108, 108>>, Null>>
    BY <2>1
  <2>2. CASE l = <<<<116, 114, 117, 101>>, Boolean(TRUE)>>
    BY <2>2
  <2>3. CASE l = <<<<102, 97, 108, 115, 101>>, Boolean(FALSE)>>
    BY <2>3
  <2> QED
    BY <2>1, <2>2, <2>3 DEF Literals
<1> QED
  BY <1>2, <1>3

\* One literal at most begins with the bytes read.
LEMMA OneLiteral ==
  ASSUME NEW l \in Literals
  PROVE  {m \in Literals : IsPrefix(l[1], m[1])} = {l}
<1>1. l[1] \in Seq(Nat) /\ Len(l[1]) \in Nat \ {0}
  BY LiteralsDiffer
<1>2. ASSUME NEW m \in Literals, IsPrefix(l[1], m[1])
      PROVE  m = l
  <2> DEFINE a == l[1] b == m[1] n == Len(a)
  <2>1. a \in Seq(Nat) /\ b \in Seq(Nat) /\ n \in Nat \ {0} /\ Len(b) \in Nat
    BY LiteralsDiffer
  <2>2. n <= Len(b) /\ SubSeq(a, 1, n) = SubSeq(b, 1, n)
    BY <1>2 DEF IsPrefix
  <2>3. SubSeq(a, 1, n)[1] = a[1] /\ SubSeq(b, 1, n)[1] = b[1]
    <3> HIDE DEF a, b, n
    <3>1. \A i \in 1..n : a[i] \in Nat /\ b[i] \in Nat
      BY <2>1, <2>2 DEF n
    <3> QED
      BY <2>1, <2>2, <3>1
  <2>4. b[1] = a[1]
    BY <2>2, <2>3
  <2> QED
    BY <2>4, LiteralsDiffer
<1>3. IsPrefix(l[1], l[1])
  BY <1>1 DEF IsPrefix
<1> QED
  BY <1>2, <1>3

\* A byte of null, true or false.
LEMMA LiteralKeeps ==
  ASSUME NEW A, IsAlphabet(A), NEW q, NEW x, Reads(A, q, x), q.at = "literal", Len(x) < A.most, NEW c \in A.outside
  PROVE  Reads(A, Literal(q, c), Append(x, c))
<1> DEFINE lex == q.lex lex2 == Append(lex, c) x2 == Append(x, c)
           ours == {l \in Literals : IsPrefix(lex2, l[1])}
<1>1. PICK cur : Laid(A, q.stack, x, cur) /\ Place(A, q, cur)
  BY DEF Reads, Places
<1> DEFINE cur2 == Append(cur, c)
<1>2. Longer(A, q.stack, x, cur, c)
  BY <1>1, OneMore
<1>3. /\ A.most \in Nat /\ IsStack(q.stack) /\ x2 \in Seq(Nat) /\ c \in Nat /\ Len(cur2) <= A.most
      /\ Len(x2) <= A.most /\ Laid(A, q.stack, x2, cur2) /\ IsParser(q)
  BY <1>2 DEF Longer, Reads
<1>4. Literal(q, c) = IF ours = {} THEN Failed(q)
                      ELSE IF \E l \in ours : l[1] = lex2 THEN Give(q, (CHOOSE l \in ours : TRUE)[2])
                      ELSE Collect(q, "literal", lex2)
  BY Zenon DEF Literal
<1> DEFINE r == Collect(q, "literal", lex2)
<1>5. Parser(r, "literal", q.stack, lex2, q.unit, q.isKey, q.value)
  <2> HIDE DEF lex2
  <2> QED
    BY <1>3, ParserMoved, Zenon
<1>6. IsParser(r) /\ r.at = "literal" /\ r.stack = q.stack /\ r.lex = lex2
  <2> HIDE DEF lex2, r, x2, ours, cur2
  <2> QED
    BY <1>5, ParserParts
<1> HIDE DEF r
<1>7. Scalar(A, r, cur2)
  <2>1. Scalar(A, q, cur)
    BY <1>1 DEF Place
  <2> HIDE DEF ours
  <2> QED
    BY <1>3, <1>6, <2>1, ScalarGrows
<1>8. Reads(A, r, x2)
  <2> HIDE DEF lex2, x2, ours, cur2
  <2>1. Place(A, r, cur2) /\ r.at \in Places
    BY <1>6, <1>7 DEF Place, Places
  <2>2. Laid(A, r.stack, x2, cur2)
    BY <1>3, <1>6
  <2> QED
    BY <1>3, <1>6, <2>1, <2>2, PlaceReads
<1>9. ASSUME NEW l \in Literals, l[1] = lex2
      PROVE  Reads(A, Give(q, l[2]), x2)
  <2>1. PICK w \in Seq(Nat) : TopRoom(A, q.stack, w) /\ cur2 = w \o lex2
    BY <1>6, <1>7 DEF Scalar
  <2>2. lex2 \in Seq(A.outside) /\ lex2 \in Seq(Nat)
    BY <1>6, <1>7, SeqMonotonic DEF Scalar, IsAlphabet
  <2> HIDE DEF lex2, x2, ours, cur2
  <2>3. \A i \in 1..Len(lex2) : lex2[i] \in A.outside
    BY <2>2
  <2>4. Len(lex2) <= A.most
    <3>1. Len(cur2) = Len(w) + Len(lex2) /\ Len(w) \in Nat /\ Len(lex2) \in Nat
      BY <2>1, <2>2, Twofold
    <3> QED
      BY <1>3, <3>1
  <2>5. ValueText(A, lex2, l[2])
    BY <1>3, <1>9, <2>3, <2>4, LiteralMade
  <2> DEFINE v == l[2]
  <2> HIDE DEF v
  <2>6. PaddedText(A, lex2, v)
    BY <1>3, <2>5, Unpadded DEF v
  <2>7. Laid(A, q.stack, x2, w \o lex2)
    BY <1>3, <2>1
  <2>8. Reads(A, Give(q, v), x2)
    BY <1>3, <2>1, <2>6, <2>7, GiveKeeps
  <2> QED
    BY <2>8 DEF v
<1>10. CASE ours = {}
  <2>1. Literal(q, c) = Failed(q)
    BY <1>4, <1>10
  <2> QED
    BY <1>3, <2>1, FailedReads
<1>11. CASE ours # {} /\ \E l \in ours : l[1] = lex2
  <2>1. PICK l \in ours : l[1] = lex2
    BY <1>11
  <2>2. l \in Literals /\ ours = {l}
    BY <2>1, OneLiteral
  <2>3. (CHOOSE m \in ours : TRUE) = l
    BY <2>2
  <2>4. Literal(q, c) = Give(q, l[2])
    <3> HIDE DEF ours
    <3> QED
      BY <1>4, <1>11, <2>3
  <2> QED
    BY <1>9, <2>1, <2>2, <2>4
<1>12. CASE ours # {} /\ ~\E l \in ours : l[1] = lex2
  <2>1. Literal(q, c) = r
    <3> HIDE DEF ours
    <3> QED
      BY <1>4, <1>12 DEF r
  <2> QED
    BY <1>8, <2>1
<1> QED
  BY <1>10, <1>11, <1>12

\* More of a string has been read.
LEMMA InStringGrows ==
  ASSUME NEW A, NEW q, NEW cur, NEW t \in Seq(Nat), InString(A, q, cur, t), NEW u \in Seq(Nat), IsStack(q.stack),
         NEW r, r.stack = q.stack, r.isKey = q.isKey, r.lex = q.lex
  PROVE  InString(A, r, cur \o u, t \o u)
<1>0. PICK w \in Seq(Nat) : \E s \in Seq(Nat) : /\ Before(A, q, w) /\ StringSoFar(A, s, q.lex)
                                                /\ cur = w \o (<<Quote>> \o (s \o t))
  BY DEF InString
<1>1. PICK s \in Seq(Nat) : /\ Before(A, q, w) /\ StringSoFar(A, s, q.lex)
                            /\ cur = w \o (<<Quote>> \o (s \o t))
  BY <1>0
<1> DEFINE e == <<Quote>>
<1>2. e \in Seq(Nat)
  BY MarkBytes
<1> HIDE DEF e
<1>3. (s \o t) \o u = s \o (t \o u) /\ s \o t \in Seq(Nat)
  BY Regrouped, Twofold
<1>4. (e \o (s \o t)) \o u = e \o ((s \o t) \o u) /\ e \o (s \o t) \in Seq(Nat)
  <2> DEFINE z == s \o t
  <2>1. z \in Seq(Nat)
    BY <1>3
  <2> HIDE DEF z
  <2>2. (e \o z) \o u = e \o (z \o u)
    BY <1>2, <2>1, Regrouped, ZenonT(60)
  <2>3. e \o z \in Seq(Nat)
    BY <1>2, <2>1, Twofold
  <2> QED
    BY <2>2, <2>3 DEF z
<1>5. (w \o (e \o (s \o t))) \o u = w \o ((e \o (s \o t)) \o u)
  BY <1>4, Regrouped
<1>6. cur \o u = w \o (e \o (s \o (t \o u)))
  <2>1. cur = w \o (e \o (s \o t))
    BY <1>1 DEF e
  <2> QED
    BY <2>1, <1>3, <1>4, <1>5
<1>7. Before(A, r, w) /\ StringSoFar(A, s, r.lex) /\ Quote \in A.outside
  BY <1>1 DEF Before, InString
<1>8. cur \o u = w \o (<<Quote>> \o (s \o (t \o u)))
  BY <1>6 DEF e
<1> QED
  BY <1>7, <1>8 DEF InString

\* A byte or an escape of a string is complete.
LEMMA PieceTaken ==
  ASSUME NEW A, A.most \in Nat, NEW q, NEW cur, NEW k \in {1, 2, 6}, NEW t \in Seq(Nat), NEW b \in Seq(Nat),
         Len(t) = k, <<t, b>> \in Pieces(A, k), InString(A, q, cur, t),
         NEW r, r.stack = q.stack, r.isKey = q.isKey, r.lex = q.lex \o b
  PROVE  InString(A, r, cur, <<>>)
<1>0. PICK w \in Seq(Nat) : \E s \in Seq(Nat) : /\ Before(A, q, w) /\ StringSoFar(A, s, q.lex)
                                                /\ cur = w \o (<<Quote>> \o (s \o t))
  BY DEF InString
<1>1. PICK s \in Seq(Nat) : /\ Before(A, q, w) /\ StringSoFar(A, s, q.lex)
                            /\ cur = w \o (<<Quote>> \o (s \o t))
  BY <1>0
<1> DEFINE s2 == s \o t
<1>2. s2 \in Seq(Nat) /\ s2 \o <<>> = s2
  BY Twofold, ConcatEmptySeq
<1>3. StringSoFar(A, s2, r.lex)
  BY <1>1, StringContinues
<1>4. cur = w \o (<<Quote>> \o (s2 \o <<>>))
  BY <1>1, <1>2
<1>5. Before(A, r, w) /\ Quote \in A.outside
  BY <1>1 DEF Before, InString
<1> HIDE DEF s2
<1> QED
  BY <1>2, <1>3, <1>4, <1>5 DEF InString

\* The closing quote.
LEMMA EndStringKeeps ==
  ASSUME NEW A, IsAlphabet(A), NEW q, IsParser(q), NEW x, NEW cur, Laid(A, q.stack, x, cur), Len(x) < A.most,
         InString(A, q, cur, <<>>), Quote \in A.inside
  PROVE  Reads(A, EndString(q), Append(x, Quote))
<1> DEFINE st == q.stack f == Last(st) lex == q.lex x2 == Append(x, Quote) cur2 == Append(cur, Quote) e == <<Quote>>
<1>1. Longer(A, st, x, cur, Quote)
  BY OneMore
<1>2. /\ A.most \in Nat /\ IsStack(st) /\ x2 \in Seq(Nat) /\ Len(cur2) <= A.most
      /\ Len(x2) <= A.most /\ Laid(A, st, x2, cur2) /\ cur2 = cur \o e /\ e \in Seq(Nat)
  BY <1>1 DEF Longer
<1>3. PICK w \in Seq(Nat) : \E s \in Seq(Nat) : /\ Before(A, q, w) /\ StringSoFar(A, s, lex)
                                                /\ cur = w \o (e \o (s \o <<>>))
  BY DEF InString
<1>4. PICK s \in Seq(Nat) : /\ Before(A, q, w) /\ StringSoFar(A, s, lex)
                            /\ cur = w \o (e \o (s \o <<>>))
  BY <1>3
<1>5. Quote \in A.outside
  BY DEF InString
<1> DEFINE y == e \o s \o e
<1>6. cur2 = w \o y /\ y \in Seq(Nat) /\ Len(y) = Len(s) + 2 /\ Len(s) \in Nat
  <2>0. Len(e) = 1
    OBVIOUS
  <2> HIDE DEF e, cur2, x2
  <2>1. s \o <<>> = s
    BY ConcatEmptySeq
  <2>2. e \o s \in Seq(Nat) /\ Len(e \o s) = Len(s) + 1 /\ Len(s) \in Nat
    <3>1. e \o s \in Seq(Nat) /\ Len(e \o s) = Len(e) + Len(s) /\ Len(s) \in Nat
      BY <1>2, Twofold
    <3> QED
      BY <2>0, <3>1
  <2>3. cur = w \o (e \o s)
    BY <1>4, <2>1
  <2>4. (w \o (e \o s)) \o e = w \o ((e \o s) \o e)
    BY <1>2, <2>2, Regrouped, ZenonT(60)
  <2>5. (e \o s) \o e \in Seq(Nat) /\ Len((e \o s) \o e) = Len(e \o s) + 1
    <3> DEFINE z == e \o s
    <3>1. z \in Seq(Nat)
      BY <2>2
    <3> HIDE DEF z
    <3>2. z \o e \in Seq(Nat) /\ Len(z \o e) = Len(z) + Len(e)
      BY <1>2, <3>1, Twofold
    <3> QED
      BY <2>0, <3>2 DEF z
  <2>6. cur2 = w \o y
    BY <1>2, <2>3, <2>4
  <2> QED
    BY <2>2, <2>5, <2>6
<1>7. QuotedText(A, y, lex)
  <2>1. Len(y) <= Len(cur2)
    <3> HIDE DEF y, cur2, e
    <3>1. Len(cur2) = Len(w) + Len(y) /\ Len(w) \in Nat /\ Len(y) \in Nat
      BY <1>6, Twofold
    <3> QED
      BY <3>1
  <2>2. Len(s) + 2 <= A.most
    <3>1. Len(cur2) \in Nat
      <4> HIDE DEF y, cur2, e
      <4> QED
        BY <1>6, Twofold
    <3> HIDE DEF y, cur2, e
    <3> QED
      BY <1>2, <1>6, <2>1, <3>1
  <2> QED
    BY <1>2, <1>4, <1>5, <2>2, StringEnds
<1> HIDE DEF y, cur2, x2, e
<1>8. CASE q.isKey
  <2> DEFINE g == [f EXCEPT !.key = lex] t == Append(Front(st), g)
             r == [q EXCEPT !.at = "colon", !.stack = t]
  <2>1. EndString(q) = r
    BY <1>8 DEF EndString
  <2>2. st # <<>> /\ KeyRoom(A, f, w)
    BY <1>4, <1>8 DEF Before
  <2>3. Keyed(A, g, cur2)
    BY <1>2, <1>6, <1>7, <2>2, KeyedBegins
  <2>4. Laid(A, t, x2, cur2) /\ Last(t) = g /\ t # <<>>
    BY <1>2, <2>2, LaidTop, Zenon
  <2> HIDE DEF t, g
  <2>5. Parser(r, "colon", t, q.lex, q.unit, q.isKey, q.value)
    BY ParserMoved, Zenon
  <2> HIDE DEF r
  <2>6. IsParser(r) /\ r.at = "colon" /\ r.stack = t
    BY <2>5, ParserParts
  <2>7. Place(A, r, cur2) /\ r.at \in Places
    BY <2>3, <2>4, <2>6 DEF Place, Places
  <2>8. Reads(A, r, x2)
    BY <1>2, <2>4, <2>6, <2>7, PlaceReads
  <2> QED
    BY <2>1, <2>8 DEF x2
<1>9. CASE ~q.isKey
  <2> DEFINE v == Text(lex)
  <2>1. EndString(q) = Give(q, v)
    BY <1>9 DEF EndString
  <2>2. TopRoom(A, st, w)
    BY <1>4, <1>9 DEF Before
  <2>3. ValueText(A, y, v)
    BY <1>2, <1>7, Unpadded
  <2>4. PaddedText(A, y, v)
    <3> HIDE DEF v
    <3> QED
      BY <1>2, <2>3, Unpadded
  <2> HIDE DEF v
  <2>5. Laid(A, st, x2, w \o y)
    BY <1>2, <1>6
  <2>6. Reads(A, Give(q, v), x2)
    BY <1>2, <2>2, <2>4, <2>5, GiveKeeps
  <2> QED
    BY <2>1, <2>6 DEF x2
<1> QED
  BY <1>8, <1>9

\* A byte of a string.
LEMMA StringKeeps ==
  ASSUME NEW A, IsAlphabet(A), NEW q, NEW x, Reads(A, q, x), q.at = "string", Len(x) < A.most, NEW c \in A.inside
  PROVE  Reads(A, String(q, c), Append(x, c))
<1> DEFINE lex == q.lex x2 == Append(x, c)
<1>1. PICK cur : Laid(A, q.stack, x, cur) /\ Place(A, q, cur)
  BY DEF Reads, Places
<1> DEFINE cur2 == Append(cur, c)
<1>2. Longer(A, q.stack, x, cur, c)
  BY <1>1, OneMore
<1>3. /\ A.most \in Nat /\ IsStack(q.stack) /\ x2 \in Seq(Nat) /\ c \in Nat /\ <<c>> \in Seq(Nat)
      /\ cur2 = cur \o <<c>> /\ Len(x2) <= A.most /\ Laid(A, q.stack, x2, cur2) /\ IsParser(q)
  BY <1>2 DEF Longer, Reads
<1>4. InString(A, q, cur, <<>>)
  BY <1>1 DEF Place
<1>5. ASSUME NEW r, r.stack = q.stack, r.isKey = q.isKey, r.lex = q.lex
      PROVE  InString(A, r, cur2, <<c>>)
  <2>1. <<>> \in Seq(Nat) /\ <<>> \o <<c>> = <<c>>
    BY <1>3, ConcatEmptySeq
  <2>2. InString(A, r, cur \o <<c>>, <<>> \o <<c>>)
    BY <1>3, <1>4, <1>5, <2>1, InStringGrows
  <2> QED
    BY <1>3, <2>1, <2>2
<1>6. CASE c = Quote
  <2>1. String(q, c) = EndString(q)
    BY <1>6 DEF String
  <2> QED
    BY <1>1, <1>3, <1>4, <1>6, <2>1, EndStringKeeps
<1>7. CASE c # Quote /\ c < 32
  <2>1. String(q, c) = Failed(q)
    BY <1>7 DEF String
  <2> QED
    BY <1>3, <2>1, FailedReads
<1>8. CASE c # Quote /\ ~(c < 32) /\ c = Backslash
  <2> DEFINE r == Goto(q, "escape")
  <2>1. String(q, c) = r
    BY <1>8 DEF String
  <2>2. Parser(r, "escape", q.stack, q.lex, q.unit, q.isKey, q.value)
    BY <1>3, ParserMoved, Zenon
  <2> HIDE DEF r, cur2, x2
  <2>3. IsParser(r) /\ r.at = "escape" /\ r.stack = q.stack /\ r.lex = q.lex /\ r.isKey = q.isKey
    BY <2>2, ParserParts
  <2>4. InString(A, r, cur2, <<Backslash>>) /\ Backslash \in A.inside
    BY <1>5, <1>8, <2>3
  <2>5. Place(A, r, cur2) /\ r.at \in Places
    BY <2>3, <2>4 DEF Place, Places
  <2>6. Laid(A, r.stack, x2, cur2)
    BY <1>3, <2>3
  <2>7. Reads(A, r, x2)
    BY <1>3, <2>3, <2>5, <2>6, PlaceReads
  <2> QED
    BY <2>1, <2>7 DEF x2
<1>9. CASE c # Quote /\ ~(c < 32) /\ c # Backslash
  <2> DEFINE lex2 == Append(lex, c) r == Collect(q, "string", lex2)
  <2>1. String(q, c) = r
    BY <1>9 DEF String
  <2>2. lex2 = lex \o <<c>>
    <3>1. lex \in Seq(Nat)
      BY <1>4 DEF InString, StringSoFar
    <3> QED
      BY <1>3, <3>1, ByteBehind
  <2>3. InString(A, q, cur2, <<c>>)
    BY <1>5
  <2>4. <<<<c>>, <<c>>>> \in Pieces(A, 1)
    BY <1>3, <1>9, PlainPiece
  <2> HIDE DEF lex2
  <2>5. Parser(r, "string", q.stack, lex2, q.unit, q.isKey, q.value)
    BY <1>3, ParserMoved, Zenon
  <2> HIDE DEF r, cur2, x2
  <2>6. IsParser(r) /\ r.at = "string" /\ r.stack = q.stack /\ r.lex = lex2 /\ r.isKey = q.isKey
    BY <2>5, ParserParts
  <2>7. InString(A, r, cur2, <<>>)
    <3> DEFINE a == <<c>>
    <3>1. Len(a) = 1
      OBVIOUS
    <3> HIDE DEF a
    <3>2. a \in Seq(Nat) /\ InString(A, q, cur2, a) /\ <<a, a>> \in Pieces(A, 1) /\ r.lex = q.lex \o a
      BY <1>3, <2>2, <2>3, <2>4, <2>6 DEF a
    <3> QED
      BY <1>3, <2>6, <3>1, <3>2, PieceTaken
  <2>8. Place(A, r, cur2) /\ r.at \in Places
    BY <2>6, <2>7 DEF Place, Places
  <2>9. Laid(A, r.stack, x2, cur2)
    BY <1>3, <2>6
  <2>10. Reads(A, r, x2)
    BY <1>3, <2>6, <2>8, <2>9, PlaceReads
  <2> QED
    BY <2>1, <2>10 DEF x2
<1> QED
  BY <1>6, <1>7, <1>8, <1>9

\* The byte behind a backslash.
LEMMA EscapeKeeps ==
  ASSUME NEW A, IsAlphabet(A), NEW q, NEW x, Reads(A, q, x), q.at = "escape", Len(x) < A.most, NEW c \in A.inside
  PROVE  Reads(A, Escape(q, c), Append(x, c))
<1> DEFINE lex == q.lex x2 == Append(x, c) t == <<Backslash, c>>
<1>1. PICK cur : Laid(A, q.stack, x, cur) /\ Place(A, q, cur)
  BY DEF Reads, Places
<1> DEFINE cur2 == Append(cur, c)
<1>2. Longer(A, q.stack, x, cur, c)
  BY <1>1, OneMore
<1>3. /\ A.most \in Nat /\ IsStack(q.stack) /\ x2 \in Seq(Nat) /\ c \in Nat /\ <<c>> \in Seq(Nat)
      /\ cur2 = cur \o <<c>> /\ Len(x2) <= A.most /\ Laid(A, q.stack, x2, cur2) /\ IsParser(q)
  BY <1>2 DEF Longer, Reads
<1>4. InString(A, q, cur, <<Backslash>>) /\ Backslash \in A.inside
  BY <1>1 DEF Place
<1>5. t \in Seq(Nat) /\ Len(t) = 2 /\ <<Backslash>> \o <<c>> = t /\ <<Backslash>> \in Seq(Nat)
  <2>1. Backslash \in Nat
    BY MarkBytes
  <2> DEFINE e == Backslash
  <2>2. e \in Nat /\ c \in Nat
    BY <1>3, <2>1
  <2> HIDE DEF e, cur2, x2
  <2>3. <<e, c>> \in Seq(Nat) /\ Len(<<e, c>>) = 2
    BY <2>2
  <2>4. <<e>> \in Seq(Nat)
    BY <2>2
  <2>5. <<e>> \o <<c>> = <<e, c>>
    <3>1. Append(<<e>>, c) = <<e>> \o <<c>>
      BY <2>2, <2>4, ByteBehind
    <3>2. Append(<<e>>, c) = <<e, c>>
      <4> DEFINE y == Append(<<e>>, c) z == <<e, c>>
      <4>1. y \in Seq(Nat) /\ Len(y) = Len(<<e>>) + 1 /\ y[Len(<<e>>) + 1] = c
            /\ \A i \in 1..Len(<<e>>) : y[i] = <<e>>[i]
        BY <2>2, <2>4, AppendProperties
      <4>2. Len(<<e>>) = 1 /\ <<e>>[1] = e
        OBVIOUS
      <4>3. z \in Seq(Nat) /\ Len(z) = 2 /\ z[1] = e /\ z[2] = c
        BY <2>2
      <4> HIDE DEF y, z
      <4>4. Len(y) = 2 /\ y[1] = e /\ y[2] = c
        BY <4>1, <4>2
      <4>5. \A i \in 1..Len(y) : y[i] = z[i]
        BY <4>3, <4>4
      <4>6. y = z
        BY <4>1, <4>3, <4>4, <4>5, SeqEqual
      <4> QED
        BY <4>6 DEF y, z
    <3> QED
      BY <3>1, <3>2
  <2> QED
    BY <2>3, <2>4, <2>5 DEF e
<1>6. ASSUME NEW r, r.stack = q.stack, r.isKey = q.isKey, r.lex = q.lex
      PROVE  InString(A, r, cur2, t)
  <2>1. InString(A, r, cur \o <<c>>, <<Backslash>> \o <<c>>)
    BY <1>3, <1>4, <1>5, <1>6, InStringGrows
  <2> QED
    BY <1>3, <1>5, <2>1
<1>7. CASE c = 117
  <2> DEFINE none == <<>> r == [q EXCEPT !.at = "unit", !.unit = none]
  <2>1. Escape(q, c) = r
    BY <1>7 DEF Escape
  <2> HIDE DEF cur2, x2
  <2>2. Parser(r, "unit", q.stack, q.lex, none, q.isKey, q.value)
    <3> HIDE DEF none
    <3> QED
      BY <1>3, ParserMoved, Zenon
  <2>3. IsParser(r) /\ r.at = "unit" /\ r.stack = q.stack /\ r.lex = q.lex /\ r.isKey = q.isKey /\ r.unit = none
    <3> HIDE DEF none, r
    <3> QED
      BY <2>2, ParserParts
  <2> HIDE DEF r
  <2>4. InString(A, r, cur2, <<Backslash, 117>> \o <<>>)
    <3>1. t \o <<>> = t
      BY <1>5, ConcatEmptySeq
    <3>2. InString(A, r, cur2, t)
      BY <1>6, <2>3
    <3> QED
      BY <1>7, <3>1, <3>2
  <2>5. <<>> \in Seq(HexByte(A)) /\ Len(<<>>) < 4 /\ r.unit = [i \in 1..Len(<<>>) |-> HexDigit(<<>>[i])]
    BY <2>3
  <2>6. \E h \in Seq(HexByte(A)) : /\ Len(h) < 4 /\ r.unit = [i \in 1..Len(h) |-> HexDigit(h[i])]
                                   /\ InString(A, r, cur2, <<Backslash, 117>> \o h)
    BY <2>4, <2>5
  <2>7. Place(A, r, cur2) /\ r.at \in Places
    BY <1>4, <1>7, <2>3, <2>6 DEF Place, Places
  <2>8. Laid(A, r.stack, x2, cur2)
    BY <1>3, <2>3
  <2>9. Reads(A, r, x2)
    BY <1>3, <2>3, <2>7, <2>8, PlaceReads
  <2> QED
    BY <2>1, <2>9 DEF x2
<1>8. CASE c # 117 /\ \E e \in Escapes : e[1] = c
  <2> DEFINE e == CHOOSE d \in Escapes : d[1] = c
             b == <<e[2]>> lex2 == Append(lex, e[2]) r == Collect(q, "string", lex2)
  <2>1. e \in Escapes /\ e[1] = c
    BY <1>8
  <2>2. Escape(q, c) = r
    BY <1>8 DEF Escape
  <2> HIDE DEF e
  <2>3. e[2] \in Nat
    BY <2>1 DEF Escapes
  <2>4. lex2 = lex \o b /\ b \in Seq(Nat)
    <3>1. lex \in Seq(Nat)
      BY <1>4 DEF InString, StringSoFar
    <3> QED
      BY <2>3, <3>1, ByteBehind
  <2>5. InString(A, q, cur2, t)
    BY <1>6
  <2>6. <<t, b>> \in Pieces(A, 2)
    <3>1. e[1] \in A.inside
      BY <2>1
    <3>2. <<<<Backslash, e[1]>>, <<e[2]>>>> \in Pieces(A, 2)
      BY <1>4, <2>1, <3>1, MarkPiece, Zenon
    <3> QED
      BY <2>1, <3>2
  <2> HIDE DEF lex2, b, t
  <2>7. Parser(r, "string", q.stack, lex2, q.unit, q.isKey, q.value)
    BY <1>3, ParserMoved, Zenon
  <2> HIDE DEF r, cur2, x2
  <2>8. IsParser(r) /\ r.at = "string" /\ r.stack = q.stack /\ r.lex = lex2 /\ r.isKey = q.isKey
    BY <2>7, ParserParts
  <2>9. InString(A, r, cur2, <<>>)
    BY <1>3, <1>5, <2>4, <2>5, <2>6, <2>8, PieceTaken
  <2>10. Place(A, r, cur2) /\ r.at \in Places
    BY <2>8, <2>9 DEF Place, Places
  <2>11. Laid(A, r.stack, x2, cur2)
    BY <1>3, <2>8
  <2>12. Reads(A, r, x2)
    BY <1>3, <2>8, <2>10, <2>11, PlaceReads
  <2> QED
    BY <2>2, <2>12 DEF x2
<1>9. CASE c # 117 /\ ~\E e \in Escapes : e[1] = c
  <2>1. Escape(q, c) = Failed(q)
    BY <1>9 DEF Escape
  <2> QED
    BY <1>3, <2>1, FailedReads
<1> QED
  BY <1>7, <1>8, <1>9

\* One more digit of a \u escape.
LEMMA UnitGrows ==
  ASSUME NEW A, NEW unit, NEW h \in Seq(HexByte(A)), unit = [i \in 1..Len(h) |-> HexDigit(h[i])],
         NEW c \in HexByte(A)
  PROVE  /\ Append(h, c) \in Seq(HexByte(A)) /\ Len(Append(h, c)) = Len(h) + 1 /\ Len(h) \in Nat
         /\ Append(unit, HexDigit(c)) = [i \in 1..(Len(h) + 1) |-> HexDigit(Append(h, c)[i])]
         /\ Len(Append(unit, HexDigit(c))) = Len(h) + 1
<1> DEFINE n == Len(h) h2 == Append(h, c) u == Append(unit, HexDigit(c)) d == HexDigit(c)
<1>1. n \in Nat /\ h2 \in Seq(HexByte(A)) /\ Len(h2) = n + 1 /\ h2[n + 1] = c /\ \A i \in 1..n : h2[i] = h[i]
  BY AppendProperties
<1>2. \A i \in 1..n : HexDigit(h[i]) \in -1..15
  <2>1. \A i \in 1..n : h[i] \in Nat
    BY DEF HexByte
  <2> QED
    BY <2>1, HexDigitRange
<1>3. unit \in Seq(Int) /\ Len(unit) = n /\ d \in Int
  <2>1. d \in -1..15
    BY HexDigitRange DEF HexByte
  <2> HIDE DEF n, d, h2, u
  <2>2. \A i \in 1..n : HexDigit(h[i]) \in Int
    <3> DEFINE v(i) == HexDigit(h[i])
    <3>1. \A i \in 1..n : v(i) \in -1..15
      BY <1>2
    <3> HIDE DEF v
    <3>2. \A i \in 1..n : v(i) \in Int
      <4> DEFINE R == -1..15
      <4>1. R \subseteq Int
        OBVIOUS
      <4>2. \A i \in 1..n : v(i) \in R
        BY <3>1
      <4> HIDE DEF R
      <4> QED
        BY <4>1, <4>2, Zenon
    <3> QED
      BY <3>2 DEF v
  <2>3. unit = [i \in 1..n |-> HexDigit(h[i])]
    BY DEF n
  <2>4. unit \in [1..n -> Int]
    BY <2>2, <2>3
  <2> QED
    BY <1>1, <2>1, <2>4
<1> HIDE DEF d
<1>4. u = Append(unit, d)
  BY DEF d
<1>5. u \in Seq(Int) /\ Len(u) = n + 1 /\ u[n + 1] = d /\ \A i \in 1..n : u[i] = unit[i]
  BY <1>3, <1>4, AppendProperties
<1> HIDE DEF u, h2, n
<1>6. \A i \in 1..(n + 1) : u[i] = HexDigit(h2[i])
  <2>1. \A i \in 1..n : u[i] = HexDigit(h2[i])
    <3>1. \A i \in 1..n : unit[i] = HexDigit(h[i])
      BY DEF n
    <3> QED
      BY <1>1, <1>5, <3>1
  <2>2. u[n + 1] = HexDigit(h2[n + 1])
    BY <1>1, <1>5 DEF d
  <2> QED
    BY <1>1, <2>1, <2>2
<1>7. u = [i \in 1..(n + 1) |-> HexDigit(h2[i])]
  <2>1. u = [i \in 1..(n + 1) |-> u[i]]
    BY <1>1, <1>5
  <2> QED
    BY <1>6, <2>1
<1> QED
  BY <1>1, <1>5, <1>7 DEF u, h2, n

\* A digit of a \u escape; the fourth completes it.
LEMMA UnitKeeps ==
  ASSUME NEW A, IsAlphabet(A), NEW q, NEW x, Reads(A, q, x), q.at = "unit", Len(x) < A.most, NEW c \in A.inside
  PROVE  Reads(A, Unit(q, c), Append(x, c))
<1> DEFINE lex == q.lex x2 == Append(x, c) u == <<Backslash, 117>> unit2 == Append(q.unit, HexDigit(c))
<1>1. PICK cur : Laid(A, q.stack, x, cur) /\ Place(A, q, cur)
  BY DEF Reads, Places
<1> DEFINE cur2 == Append(cur, c)
<1>2. Longer(A, q.stack, x, cur, c)
  BY <1>1, OneMore
<1>3. /\ A.most \in Nat /\ IsStack(q.stack) /\ x2 \in Seq(Nat) /\ c \in Nat /\ <<c>> \in Seq(Nat)
      /\ cur2 = cur \o <<c>> /\ Len(x2) <= A.most /\ Laid(A, q.stack, x2, cur2) /\ IsParser(q)
  BY <1>2 DEF Longer, Reads
<1>4. {Backslash, 117} \subseteq A.inside
  BY <1>1 DEF Place
<1>5. PICK h \in Seq(HexByte(A)) : /\ Len(h) < 4 /\ q.unit = [i \in 1..Len(h) |-> HexDigit(h[i])]
                                   /\ InString(A, q, cur, u \o h)
  BY <1>1 DEF Place
<1>6. CASE HexDigit(c) = -1
  <2>1. Unit(q, c) = Failed(q)
    BY <1>6 DEF Unit
  <2> QED
    BY <1>3, <2>1, FailedReads
<1>7. ASSUME HexDigit(c) # -1
      PROVE  Reads(A, Unit(q, c), x2)
  <2> DEFINE h2 == Append(h, c)
  <2>1. c \in HexByte(A)
    BY <1>3, <1>7 DEF HexByte
  <2>2. /\ h2 \in Seq(HexByte(A)) /\ Len(h2) = Len(h) + 1 /\ Len(h) \in Nat
        /\ unit2 = [i \in 1..(Len(h) + 1) |-> HexDigit(h2[i])] /\ Len(unit2) = Len(h) + 1
    BY <1>5, <2>1, UnitGrows
  <2>3. h \in Seq(Nat) /\ h2 \in Seq(Nat) /\ u \in Seq(Nat)
    <3>1. HexByte(A) \subseteq Nat
      BY DEF HexByte
    <3>2. u \in Seq(Nat)
      BY DEF Backslash
    <3> QED
      BY <2>2, <3>1, <3>2, SeqMonotonic
  <2> HIDE DEF u
  <2>4. ASSUME NEW r, r.stack = q.stack, r.isKey = q.isKey, r.lex = q.lex
        PROVE  InString(A, r, cur2, u \o h2)
    <3> DEFINE e == <<c>> z == u \o h
    <3>1. e \in Seq(Nat) /\ z \in Seq(Nat)
      BY <1>3, <2>3, Twofold
    <3>2. h2 = h \o e
      BY <1>3, <2>3, ByteBehind
    <3> HIDE DEF h2
    <3>3. z \o e = u \o h2
      <4> HIDE DEF e
      <4>1. (u \o h) \o e = u \o (h \o e)
        BY <2>3, <3>1, Regrouped
      <4> QED
        BY <3>2, <4>1
    <3>4. InString(A, q, cur, z) /\ cur2 = cur \o e
      BY <1>3, <1>5
    <3> HIDE DEF e, z
    <3>5. InString(A, r, cur \o e, z \o e)
      BY <1>3, <2>4, <3>1, <3>4, InStringGrows
    <3> QED
      BY <3>3, <3>4, <3>5
  <2> HIDE DEF h2, unit2, cur2, x2
  <2>5. Unit(q, c) = IF Len(unit2) < 4 THEN [q EXCEPT !.unit = unit2]
                     ELSE Collect(q, "string",
                            q.lex \o Utf8(FoldLeft(LAMBDA n, d : 16 * n + d, 0, unit2)))
    BY <1>7 DEF Unit, unit2
  <2>6. CASE Len(unit2) < 4
    <3> DEFINE r == [q EXCEPT !.unit = unit2]
    <3>1. Unit(q, c) = r
      BY <2>5, <2>6
    <3>2. Parser(r, q.at, q.stack, q.lex, unit2, q.isKey, q.value)
      BY <1>3, ParserField
    <3> HIDE DEF r
    <3>3. /\ IsParser(r) /\ r.at = "unit" /\ r.stack = q.stack /\ r.lex = q.lex /\ r.isKey = q.isKey
          /\ r.unit = unit2
      BY <3>2, ParserParts
    <3>4. InString(A, r, cur2, u \o h2)
      BY <2>4, <3>3
    <3>5. Len(h2) < 4 /\ r.unit = [i \in 1..Len(h2) |-> HexDigit(h2[i])]
      BY <2>2, <2>6, <3>3
    <3>6. Place(A, r, cur2) /\ r.at \in Places
      BY <1>4, <2>2, <3>3, <3>4, <3>5 DEF Place, Places, u
    <3>7. Laid(A, r.stack, x2, cur2)
      BY <1>3, <3>3
    <3>8. Reads(A, r, x2)
      BY <1>3, <3>3, <3>6, <3>7, PlaceReads
    <3> QED
      BY <3>1, <3>8 DEF x2
  <2>7. CASE ~(Len(unit2) < 4)
    <3> DEFINE b == Utf8(HexSum(h2)) lex2 == lex \o b r == Collect(q, "string", lex2) t == u \o h2
    <3>1. Len(h2) = 4
      BY <1>5, <2>2, <2>7
    <3>2. FoldLeft(LAMBDA n, d : 16 * n + d, 0, unit2) = HexSum(h2)
      <4>1. Len(h) + 1 = 4
        BY <2>2, <3>1
      <4>2. unit2 = [i \in 1..4 |-> HexDigit(h2[i])]
        BY <2>2, <4>1
      <4>3. DOMAIN unit2 = 1..4 /\ \A i \in 1..4 : unit2[i] = HexDigit(h2[i]) /\ h2[i] \in Nat
        <5> HIDE DEF b, lex2, r, t
        <5>1. DOMAIN unit2 = 1..4
          BY <4>2
        <5>2. \A i \in 1..4 : unit2[i] = HexDigit(h2[i])
          <6> DEFINE v(i) == HexDigit(h2[i])
          <6> HIDE DEF v
          <6>1. unit2 = [i \in 1..4 |-> v(i)]
            BY <4>2, Zenon DEF v
          <6>2. \A i \in 1..4 : unit2[i] = v(i)
            BY <6>1
          <6> QED
            BY <6>2 DEF v
        <5>3. \A i \in 1..4 : h2[i] \in Nat
          <6> DEFINE k == Len(h2)
          <6>1. \A i \in 1..k : h2[i] \in Nat
            BY <2>3
          <6>2. k = 4
            BY <3>1
          <6> HIDE DEF k
          <6> QED
            BY <6>1, <6>2, Zenon
        <5> QED
          BY <5>1, <5>2, <5>3
      <4> QED
        BY <4>3, UnitSum
    <3>3. Unit(q, c) = r
      BY <2>5, <2>7, <3>2
    <3>4. b \in Seq(Nat)
      BY <2>2, <3>1, HexSumNat, UnitBytes
    <3>5. <<t, b>> \in Pieces(A, 6)
      BY <1>4, <2>2, <3>1, UnitPiece DEF IsAlphabet, u
    <3>6. t \in Seq(Nat) /\ Len(t) = 6
      <4>1. Len(u) = 2
        BY DEF u
      <4>2. t \in Seq(Nat) /\ Len(t) = Len(u) + Len(h2)
        BY <2>3, Twofold
      <4> QED
        BY <3>1, <4>1, <4>2
    <3> HIDE DEF b, lex2
    <3>7. Parser(r, "string", q.stack, lex2, q.unit, q.isKey, q.value)
      BY <1>3, ParserMoved, Zenon
    <3> HIDE DEF r
    <3>8. IsParser(r) /\ r.at = "string" /\ r.stack = q.stack /\ r.lex = lex2 /\ r.isKey = q.isKey
      BY <3>7, ParserParts
    <3>9. InString(A, q, cur2, t)
      BY <2>4
    <3>10. r.lex = q.lex \o b
      BY <3>8 DEF lex2
    <3> HIDE DEF t
    <3>11. InString(A, r, cur2, <<>>)
      BY <1>3, <3>4, <3>5, <3>6, <3>8, <3>9, <3>10, PieceTaken
    <3>12. Place(A, r, cur2) /\ r.at \in Places
      BY <3>8, <3>11 DEF Place, Places
    <3>13. Laid(A, r.stack, x2, cur2)
      BY <1>3, <3>8
    <3>14. Reads(A, r, x2)
      BY <1>3, <3>8, <3>12, <3>13, PlaceReads
    <3> QED
      BY <3>3, <3>14 DEF x2
  <2> QED
    BY <2>6, <2>7
<1> QED
  BY <1>6, <1>7

-----------------------------------------------------------------------------
(***************************************************************************)
(* The reader as a whole.                                                  *)
(***************************************************************************)

\* A byte of the document.
LEMMA StepKeeps ==
  ASSUME NEW A, IsAlphabet(A), NEW q, NEW x, Reads(A, q, x), ~Stopped(q), Len(x) < A.most,
         NEW c \in IF q.at \in {"string", "escape", "unit"} THEN A.inside ELSE A.outside
  PROVE  Reads(A, StepOn(q, c), Append(x, c))
<1>1. q.at \in Places
  BY DEF Reads, Stopped
<1>2. CASE q.at = "literal"
  <2>1. StepOn(q, c) = Literal(q, c) /\ c \in A.outside
    BY <1>2 DEF StepOn
  <2> QED
    BY <1>2, <2>1, LiteralKeeps
<1>3. CASE q.at = "string"
  <2>1. StepOn(q, c) = String(q, c) /\ c \in A.inside
    BY <1>3 DEF StepOn
  <2> QED
    BY <1>3, <2>1, StringKeeps
<1>4. CASE q.at = "escape"
  <2>1. StepOn(q, c) = Escape(q, c) /\ c \in A.inside
    BY <1>4 DEF StepOn
  <2> QED
    BY <1>4, <2>1, EscapeKeeps
<1>5. CASE q.at = "unit"
  <2>1. StepOn(q, c) = Unit(q, c) /\ c \in A.inside
    BY <1>5 DEF StepOn
  <2> QED
    BY <1>5, <2>1, UnitKeeps
<1>6. CASE q.at = "number"
  <2>1. StepOn(q, c) = InNumber(q, c) /\ c \in A.outside
    BY <1>6 DEF StepOn
  <2> QED
    BY <1>6, <2>1, NumberKeeps
<1>7. CASE q.at \in {"value", "first", "key", "colon", "behind", "end"}
  <2>1. StepOn(q, c) = Structure(q, c) /\ c \in A.outside
    BY <1>7 DEF StepOn
  <2> QED
    BY <1>7, <2>1, StructureKeeps
<1> QED
  BY <1>1, <1>2, <1>3, <1>4, <1>5, <1>6, <1>7 DEF Places

\* The end of the document.
LEMMA AtEndKeeps ==
  ASSUME NEW A, IsAlphabet(A), NEW q, NEW x, Reads(A, q, x), ~Stopped(q)
  PROVE  Reads(A, AtEnd(q), x) /\ AtEnd(q).at \in {"accepted", "truncated"}
<1>1. ASSUME NEW r, Reads(A, r, x), r.at # "accepted"
      PROVE  LET s == Goto(r, IF r.at = "end" THEN "accepted" ELSE "truncated")
             IN  Reads(A, s, x) /\ s.at \in {"accepted", "truncated"}
  <2> DEFINE at == IF r.at = "end" THEN "accepted" ELSE "truncated" s == Goto(r, at)
  <2>1. IsParser(r) /\ x \in Seq(Nat) /\ Len(x) <= A.most
    BY <1>1, Zenon DEF Reads
  <2>2. Parser(s, at, r.stack, r.lex, r.unit, r.isKey, r.value)
    <3> HIDE DEF at
    <3> QED
      BY <2>1, ParserMoved, Zenon
  <2>3. IsParser(s) /\ s.at = at /\ s.value = r.value
    <3> HIDE DEF s, at
    <3> QED
      BY <2>2, ParserParts
  <2>4. at \in {"accepted", "truncated"} /\ at \notin Places
    BY DEF Places
  <2>5. ASSUME at = "accepted" PROVE PaddedText(A, x, r.value)
    <3>1. r.at = "end"
      BY <2>5
    <3>2. PICK cur : Laid(A, r.stack, x, cur) /\ Place(A, r, cur)
      BY <1>1, <3>1 DEF Reads, Places
    <3>3. r.stack = <<>> /\ PaddedText(A, cur, r.value)
      BY <3>1, <3>2 DEF Place
    <3>4. cur = x
      BY <3>2, <3>3, LaidShort
    <3> QED
      BY <3>3, <3>4
  <2> HIDE DEF s, at
  <2>6. Reads(A, s, x) /\ s.at \in {"accepted", "truncated"}
    BY <2>1, <2>3, <2>4, <2>5 DEF Reads
  <2> QED
    BY <2>6 DEF s, at
<1> DEFINE r == IF q.at = "number" THEN EndNumber(q) ELSE q
<1>2. Reads(A, r, x) /\ r.at # "accepted"
  <2>1. CASE q.at # "number"
    BY <2>1 DEF Stopped
  <2>2. CASE q.at = "number" /\ Readable(q.lex)
    BY <2>2, EndNumberKeeps
  <2>3. CASE q.at = "number" /\ ~Readable(q.lex)
    <3>1. r = Failed(q)
      BY <2>3 DEF EndNumber
    <3>2. IsParser(q) /\ x \in Seq(Nat) /\ Len(x) <= A.most
      BY DEF Reads
    <3> HIDE DEF r
    <3>3. Reads(A, r, x)
      BY <3>1, <3>2, FailedReads, Zenon
    <3>4. Parser(r, "failed", q.stack, q.lex, q.unit, q.isKey, q.value)
      BY <3>1, <3>2, ParserMoved, Zenon
    <3>5. r.at = "failed"
      BY <3>4, ParserParts
    <3> QED
      BY <3>3, <3>5
  <2> QED
    BY <2>1, <2>2, <2>3
<1>3. AtEnd(q) = Goto(r, IF r.at = "end" THEN "accepted" ELSE "truncated")
  BY DEF AtEnd
<1> HIDE DEF r
<1> QED
  BY <1>1, <1>2, <1>3

\* The start of the document.
LEMMA StartReads ==
  ASSUME NEW A, A.most \in Nat
  PROVE  Reads(A, Start, <<>>)
<1> DEFINE r == Start none == <<>>
<1>1. Parser(r, "value", none, none, none, FALSE, Null)
  BY DEF Parser, Start
<1>2. IsParser(r) /\ r.at = "value" /\ r.stack = none
  BY <1>1 DEF Start, IsParser
<1>3. none \in Seq(Nat) /\ Len(none) = 0
  OBVIOUS
<1>4. IsStack(none)
  BY <1>3 DEF IsStack
<1>5. Laid(A, none, none, none)
  <2> DEFINE cuts == [j \in 1..1 |-> 0]
  <2>1. DOMAIN cuts = 1..(Len(none) + 1) /\ cuts[1] = 0 /\ \A j \in 1..(Len(none) + 1) : cuts[j] \in 0..Len(none)
    BY <1>3
  <2>2. none = SubSeq(none, cuts[Len(none) + 1] + 1, Len(none))
    OBVIOUS
  <2>3. \A j \in 1..Len(none) : FALSE
    BY <1>3
  <2> HIDE DEF none, cuts
  <2>4. Cut(A, none, none, cuts, none)
    BY <2>1, <2>2, <2>3 DEF Cut
  <2> QED
    BY <1>3, <1>4, <2>4 DEF Laid
<1>6. TopRoom(A, none, none)
  BY <1>3 DEF TopRoom, RoomAt, Blanks
<1> HIDE DEF r, none
<1>7. Place(A, r, none) /\ r.at \in Places
  BY <1>2, <1>6 DEF Place, Places
<1>8. Laid(A, r.stack, none, none) /\ Len(none) <= A.most
  BY <1>2, <1>3, <1>5
<1>9. Reads(A, r, none)
  BY <1>2, <1>7, <1>8, PlaceReads
<1> QED
  BY <1>9 DEF r, none

JsonInv == alphabet \in Alphabets /\ Reads(alphabet, p, text)

\* What an alphabet offers are bytes.
LEMMA AlphabetBytes ==
  ASSUME alphabet \in Alphabets
  PROVE  IsAlphabet(alphabet)
<1>1. alphabet \in [outside : SUBSET (0..255), inside : SUBSET (0..255), most : Nat]
  BY JsonAssumption
<1>2. 0..255 \subseteq Nat
  OBVIOUS
<1> QED
  BY <1>1, <1>2 DEF IsAlphabet

\* The invariant of the reader.
THEOREM JsonInvariant == Spec => []JsonInv
<1>1. Init => JsonInv
  <2> SUFFICES ASSUME Init PROVE JsonInv
    OBVIOUS
  <2>1. alphabet \in Alphabets /\ p = Start /\ text = <<>>
    BY DEF Init, JsonInit
  <2>2. alphabet.most \in Nat
    BY <2>1, AlphabetBytes DEF IsAlphabet
  <2> QED
    BY <2>1, <2>2, StartReads DEF JsonInv
<1>2. JsonInv /\ [Next]_vars => JsonInv'
  <2> SUFFICES ASSUME JsonInv, [Next]_vars PROVE JsonInv'
    OBVIOUS
  <2>1. IsAlphabet(alphabet)
    BY AlphabetBytes DEF JsonInv
  <2>2. CASE ReadByte
    <3>1. /\ ~Stopped(p) /\ Len(text) < alphabet.most /\ alphabet' = alphabet
      BY <2>2 DEF ReadByte
    <3>2. PICK c \in Offered : p' = StepOn(p, c) /\ text' = Append(text, c)
      BY <2>2 DEF ReadByte
    <3>3. c \in IF p.at \in {"string", "escape", "unit"} THEN alphabet.inside ELSE alphabet.outside
      BY <3>2 DEF Offered
    <3>4. Reads(alphabet, StepOn(p, c), Append(text, c))
      BY <2>1, <3>1, <3>3, StepKeeps DEF JsonInv
    <3> QED
      BY <3>1, <3>2, <3>4 DEF JsonInv
  <2>3. CASE EndOfText
    <3>1. ~Stopped(p) /\ p' = AtEnd(p) /\ text' = text /\ alphabet' = alphabet
      BY <2>3 DEF EndOfText
    <3>2. Reads(alphabet, AtEnd(p), text)
      BY <2>1, <3>1, AtEndKeeps DEF JsonInv
    <3> QED
      BY <3>1, <3>2 DEF JsonInv
  <2>4. CASE UNCHANGED jsonVars
    <3>1. p' = p /\ text' = text /\ alphabet' = alphabet
      BY <2>4 DEF jsonVars
    <3> QED
      BY <3>1 DEF JsonInv
  <2>5. CASE Next
    BY <2>2, <2>3, <2>4, <2>5 DEF Next, Receive, PassError, DecodeNative, RefuseStatus, ReadJson, JsonNext
  <2>6. CASE UNCHANGED vars
    BY <2>4, <2>6 DEF vars
  <2> QED
    BY <2>5, <2>6
<1> QED
  BY <1>1, <1>2, PTL DEF Spec

\* What the reader accepts is a JSON document.
THEOREM ReaderSound == Spec => []ReadsOnlyJson
<1>1. JsonInv => ReadsOnlyJson
  <2> SUFFICES ASSUME JsonInv, Accepted(p)
               PROVE  <<text, p.value>> \in LenientJson[alphabet]
    BY DEF ReadsOnlyJson
  <2> DEFINE A == alphabet x == text v == p.value n == Len(x)
  <2>1. A \in Alphabets /\ PaddedText(A, x, v)
    BY DEF JsonInv, Accepted, Reads
  <2>2. LenientJson[A] = Table(A, FALSE)
    BY <2>1 DEF LenientJson
  <2>3. Table(A, FALSE) = UNION {Levels(A)[k].padded : k \in 1..A.most}
    BY DEF Table, Levels, Tables
  <2>4. n \in 1..A.most /\ <<x, v>> \in Levels(A)[n].padded
    BY <2>1 DEF PaddedText, IsText
  <2> HIDE DEF A, x, v, n
  <2>5. <<x, v>> \in Table(A, FALSE)
    BY <2>3, <2>4
  <2> QED
    BY <2>2, <2>5 DEF A, x, v
<1> QED
  BY <1>1, JsonInvariant, PTL

-----------------------------------------------------------------------------
(***************************************************************************)
(* That the reader refuses no JSON document.  Runs(q, x, r) says that the  *)
(* parser q becomes r by reading the text x.                               *)
(***************************************************************************)

Runs(q, x, r) == \E f : /\ f[0] = q /\ f[Len(x)] = r
                        /\ \A i \in 1..Len(x) : f[i] = StepOn(f[i - 1], x[i])

\* Without a byte the parser stays what it is.
LEMMA RunsNothing ==
  ASSUME NEW q
  PROVE  Runs(q, <<>>, q)
<1> DEFINE f == [i \in 0..0 |-> q] x == <<>>
<1>1. f[0] = q /\ Len(x) = 0 /\ \A i \in 1..Len(x) : f[i] = StepOn(f[i - 1], x[i])
  OBVIOUS
<1> HIDE DEF f, x
<1>2. Runs(q, x, q)
  BY <1>1 DEF Runs
<1> QED
  BY <1>2 DEF x

\* One text after the other.
LEMMA RunsOn ==
  ASSUME NEW x \in Seq(Nat), NEW y \in Seq(Nat), NEW q, NEW r, NEW s, Runs(q, x, r), Runs(r, y, s)
  PROVE  Runs(q, x \o y, s)
<1> DEFINE m == Len(x) n == Len(y) z == x \o y
<1>1. /\ m \in Nat /\ n \in Nat /\ Len(z) = m + n
      /\ \A i \in 1..(m + n) : z[i] = IF i <= m THEN x[i] ELSE y[i - m]
  BY ConcatProperties
<1>2. PICK f : f[0] = q /\ f[m] = r /\ \A i \in 1..m : f[i] = StepOn(f[i - 1], x[i])
  BY DEF Runs
<1>3. PICK g : g[0] = r /\ g[n] = s /\ \A i \in 1..n : g[i] = StepOn(g[i - 1], y[i])
  BY DEF Runs
<1> DEFINE h == [i \in 0..(m + n) |-> IF i <= m THEN f[i] ELSE g[i - m]]
<1> HIDE DEF m, n, z
<1>4. h[0] = q
  BY <1>1, <1>2
<1>5. h[m + n] = s
  <2>1. CASE n = 0
    BY <1>1, <1>2, <1>3, <2>1
  <2>2. CASE n # 0
    <3>1. m + n \in 0..(m + n) /\ ~(m + n <= m) /\ (m + n) - m = n
      BY <1>1, <2>2
    <3> QED
      BY <1>3, <3>1
  <2> QED
    BY <2>1, <2>2
<1>6. ASSUME NEW i \in 1..(m + n) PROVE h[i] = StepOn(h[i - 1], z[i])
  <2>1. i \in 0..(m + n) /\ i - 1 \in 0..(m + n)
    BY <1>1
  <2>2. CASE i <= m
    <3>1. i \in 1..m /\ i - 1 <= m
      BY <1>1, <2>2
    <3>2. h[i] = f[i] /\ h[i - 1] = f[i - 1] /\ z[i] = x[i]
      BY <1>1, <2>1, <2>2, <3>1
    <3> QED
      BY <1>2, <3>1, <3>2
  <2>3. CASE ~(i <= m)
    <3> DEFINE j == i - m
    <3>1. j \in 1..n /\ j - 1 = (i - 1) - m
      BY <1>1, <2>3
    <3>2. h[i] = g[j] /\ z[i] = y[j]
      BY <1>1, <2>1, <2>3
    <3>3. h[i - 1] = g[j - 1]
      <4>1. CASE i - 1 = m
        <5>1. i - 1 <= m /\ j - 1 = 0
          BY <1>1, <4>1
        <5> QED
          BY <1>2, <1>3, <2>1, <4>1, <5>1
      <4>2. CASE i - 1 # m
        <5>1. ~(i - 1 <= m)
          BY <1>1, <2>3, <4>2
        <5> QED
          BY <2>1, <3>1, <5>1
      <4> QED
        BY <4>1, <4>2
    <3> HIDE DEF j, h
    <3> QED
      BY <1>3, <3>1, <3>2, <3>3
  <2> QED
    BY <2>2, <2>3
<1> HIDE DEF h
<1>7. Runs(q, z, s)
  BY <1>1, <1>4, <1>5, <1>6 DEF Runs
<1> QED
  BY <1>7 DEF z

\* The first byte, and then the others.
LEMMA RunsByte ==
  ASSUME NEW c \in Nat, NEW q, NEW r, NEW y \in Seq(Nat), Runs(StepOn(q, c), y, r)
  PROVE  Runs(q, <<c>>, StepOn(q, c)) /\ Runs(q, <<c>> \o y, r)
<1> DEFINE x == <<c>> f == [i \in 0..1 |-> IF i = 0 THEN q ELSE StepOn(q, c)]
<1>1. x \in Seq(Nat) /\ Len(x) = 1 /\ x[1] = c
  OBVIOUS
<1>2. f[0] = q /\ f[1] = StepOn(q, c)
  OBVIOUS
<1> HIDE DEF x, f
<1>3. \A i \in 1..1 : f[i] = StepOn(f[i - 1], x[i])
  BY <1>1, <1>2
<1>4. Runs(q, x, StepOn(q, c))
  BY <1>1, <1>2, <1>3 DEF Runs
<1>5. Runs(q, x \o y, r)
  BY <1>1, <1>4, RunsOn
<1> QED
  BY <1>4, <1>5 DEF x

\* A byte behind a text.
LEMMA RunsMore ==
  ASSUME NEW c \in Nat, NEW q, NEW r, NEW x \in Seq(Nat), Runs(q, x, r)
  PROVE  Runs(q, Append(x, c), StepOn(r, c))
<1> DEFINE y == <<c>> s == StepOn(r, c)
<1>1. y \in Seq(Nat) /\ Append(x, c) = x \o y
  BY AppendIsConcat
<1>2. Runs(s, <<>>, s) /\ <<>> \in Seq(Nat)
  BY RunsNothing
<1>3. Runs(r, y, s)
  BY <1>2, RunsByte
<1> HIDE DEF y, s
<1>4. Runs(q, x \o y, s)
  BY <1>1, <1>3, RunsOn
<1> QED
  BY <1>1, <1>4 DEF s

\* A text in a loop: no byte of it changes the parser.
LEMMA RunsStill ==
  ASSUME NEW q, NEW x \in Seq(Nat), \A i \in 1..Len(x) : StepOn(q, x[i]) = q
  PROVE  Runs(q, x, q)
<1> DEFINE f == [i \in 0..Len(x) |-> q]
<1>1. Len(x) \in Nat
  OBVIOUS
<1>2. f[0] = q /\ f[Len(x)] = q /\ \A i \in 1..Len(x) : f[i] = q /\ f[i - 1] = q
  BY <1>1
<1> HIDE DEF f
<1> QED
  BY <1>2 DEF Runs

\* The text decides what the parser becomes.
LEMMA RunsSame ==
  ASSUME NEW q, NEW x \in Seq(Nat), NEW r, NEW s, Runs(q, x, r), Runs(q, x, s)
  PROVE  r = s
<1> DEFINE n == Len(x)
<1>1. n \in Nat
  OBVIOUS
<1>2. PICK f : f[0] = q /\ f[n] = r /\ \A i \in 1..n : f[i] = StepOn(f[i - 1], x[i])
  BY DEF Runs
<1>3. PICK g : g[0] = q /\ g[n] = s /\ \A i \in 1..n : g[i] = StepOn(g[i - 1], x[i])
  BY DEF Runs
<1> HIDE DEF n
<1> DEFINE T == {i \in 0..n : f[i] # g[i]}
<1> SUFFICES ASSUME T # {} PROVE FALSE
  <2>1. n \in 0..n
    BY <1>1
  <2>2. n \notin T => f[n] = g[n]
    BY <2>1
  <2> QED
    BY <1>2, <1>3, <2>2
<1>4. PICK i \in T : \A j \in T : i <= j
  <2>1. T \subseteq Nat
    OBVIOUS
  <2> HIDE DEF T
  <2> QED
    BY <2>1, LeastNatural
<1>5. i \in 0..n /\ f[i] # g[i]
  OBVIOUS
<1>6. i # 0
  BY <1>2, <1>3, <1>5
<1>7. i \in 1..n /\ i - 1 \in 0..n /\ ~(i <= i - 1)
  BY <1>1, <1>5, <1>6
<1>8. f[i - 1] = g[i - 1]
  BY <1>4, <1>7
<1> QED
  BY <1>2, <1>3, <1>5, <1>7, <1>8

-----------------------------------------------------------------------------
(***************************************************************************)
(* Where the reader is when it reads a value or a key next, and when one   *)
(* has been read.  The calls in progress are compared by kind only.        *)
(***************************************************************************)

\* The same calls are in progress: of parse_array and of parse_object in the same order.
SameCalls(s, t) ==
  /\ IsStack(s) /\ IsStack(t) /\ Len(s) = Len(t)
  /\ \A i \in 1..Len(s) : "items" \in DOMAIN s[i] <=> "items" \in DOMAIN t[i]
Sound(q) == IsParser(q) /\ IsStack(q.stack)
\* The parser reads a value next, or a key.
AtValue(q) == Sound(q) /\ (q.at = "value" \/ (q.at = "first" /\ q.stack # <<>> /\ InArray(q)))
AtKey(q) == Sound(q) /\ q.stack # <<>> /\ ~InArray(q) /\ q.at \in {"key", "first"}
\* A value has been read, with the calls st in progress; the end of a number may be open.
Settled(r, st) == Sound(r) /\ SameCalls(r.stack, st) /\ r.at = IF st = <<>> THEN "end" ELSE "behind"
Behind(r, st) ==
  \/ Settled(r, st)
  \/ /\ Sound(r) /\ SameCalls(r.stack, st) /\ r.at = "number"
     /\ r.lex \in Seq(Nat) /\ r.lex # <<>> /\ Readable(r.lex)

\* A stack of calls compares with itself, and with one that compares with a third.
LEMMA CallsCompare ==
  ASSUME NEW s, NEW t, NEW u
  PROVE  /\ IsStack(s) => SameCalls(s, s)
         /\ SameCalls(s, t) => SameCalls(t, s)
         /\ SameCalls(s, t) /\ SameCalls(t, u) => SameCalls(s, u)
BY Zenon DEF SameCalls

\* The innermost of the same calls, and the other ones.
LEMMA CallsTop ==
  ASSUME NEW s, NEW t, SameCalls(s, t)
  PROVE  /\ s = <<>> <=> t = <<>>
         /\ s # <<>> => /\ "items" \in DOMAIN Last(s) <=> "items" \in DOMAIN Last(t)
                        /\ SameCalls(Front(s), Front(t))
<1> DEFINE n == Len(s) k == n - 1
<1>1. IsStack(s) /\ IsStack(t) /\ Len(t) = n /\ n \in Nat
  BY DEF SameCalls, IsStack
<1>2. (s = <<>> <=> n = 0) /\ (t = <<>> <=> n = 0)
  BY <1>1, EmptySeq DEF IsStack
<1>3. ASSUME s # <<>>
      PROVE  /\ "items" \in DOMAIN Last(s) <=> "items" \in DOMAIN Last(t)
             /\ SameCalls(Front(s), Front(t))
  <2>1. n \in 1..n /\ t # <<>> /\ \A j \in 1..k : j \in 1..n
    BY <1>1, <1>2, <1>3
  <2>2. "items" \in DOMAIN s[n] <=> "items" \in DOMAIN t[n]
    BY <2>1, Zenon DEF SameCalls
  <2>3. IsStack(Front(s)) /\ Len(Front(s)) = k /\ \A j \in 1..k : Front(s)[j] = s[j]
    BY <1>1, <1>3, StackFront
  <2>4. IsStack(Front(t)) /\ Len(Front(t)) = k /\ \A j \in 1..k : Front(t)[j] = t[j]
    BY <1>1, <2>1, StackFront
  <2>5. ASSUME NEW j \in 1..k
        PROVE  "items" \in DOMAIN Front(s)[j] <=> "items" \in DOMAIN Front(t)[j]
    <3>1. "items" \in DOMAIN s[j] <=> "items" \in DOMAIN t[j]
      BY <2>1, Zenon DEF SameCalls
    <3> QED
      BY <2>3, <2>4, <3>1
  <2> HIDE DEF k
  <2>6. SameCalls(Front(s), Front(t))
    BY <2>3, <2>4, <2>5 DEF SameCalls
  <2> QED
    BY <1>1, <2>2, <2>6 DEF Last
<1> QED
  BY <1>2, <1>3

\* The innermost call goes on, and an inner one comes and goes.
LEMMA CallsChanged ==
  ASSUME NEW s, IsStack(s), NEW f
  PROVE  /\ s # <<>> /\ ("items" \in DOMAIN f <=> "items" \in DOMAIN Last(s)) => SameCalls(Append(Front(s), f), s)
         /\ IsStack(Append(s, f)) /\ Append(s, f) # <<>> /\ Last(Append(s, f)) = f
         /\ SameCalls(Front(Append(s, f)), s)
<1> DEFINE t == Append(s, f) n == Len(s)
<1>1. n \in Nat
  BY DEF IsStack
<1>2. IsStack(t) /\ Len(t) = n + 1 /\ t[n + 1] = f /\ t # <<>> /\ \A j \in 1..n : t[j] = s[j]
  BY StackAppend
<1> HIDE DEF t
<1>3. IsStack(Front(t)) /\ Len(Front(t)) = n /\ \A j \in 1..n : Front(t)[j] = s[j]
  <2>1. IsStack(Front(t)) /\ Len(Front(t)) = (n + 1) - 1 /\ \A j \in 1..((n + 1) - 1) : Front(t)[j] = t[j]
    BY <1>2, StackFront
  <2>2. (n + 1) - 1 = n
    BY <1>1
  <2> QED
    BY <1>2, <2>1, <2>2
<1>4. SameCalls(Front(t), s)
  BY <1>3 DEF SameCalls
<1>5. ASSUME s # <<>>, "items" \in DOMAIN f <=> "items" \in DOMAIN Last(s)
      PROVE  SameCalls(Append(Front(s), f), s)
  <2> DEFINE u == Front(s) v == Append(u, f)
  <2>1. IsStack(u) /\ Len(u) = n - 1 /\ n \in Nat \ {0} /\ \A j \in 1..(n - 1) : u[j] = s[j]
    BY <1>5, StackFront
  <2> HIDE DEF u
  <2>2. IsStack(v) /\ Len(v) = (n - 1) + 1 /\ v[(n - 1) + 1] = f /\ \A j \in 1..(n - 1) : v[j] = u[j]
    BY <2>1, StackAppend
  <2>3. Len(v) = n /\ v[n] = f /\ Last(s) = s[n] /\ IsStack(v)
    BY <2>1, <2>2 DEF Last
  <2> HIDE DEF v
  <2>4. ASSUME NEW j \in 1..n PROVE "items" \in DOMAIN v[j] <=> "items" \in DOMAIN s[j]
    <3>1. CASE j = n
      BY <1>5, <2>3, <3>1
    <3>2. CASE j # n
      <4>1. j \in 1..(n - 1)
        BY <2>1, <3>2
      <4> QED
        BY <2>1, <2>2, <4>1
    <3> QED
      BY <3>1, <3>2
  <2>5. SameCalls(v, s)
    BY <2>3, <2>4 DEF SameCalls
  <2> QED
    BY <2>5 DEF u, v
<1> QED
  BY <1>1, <1>2, <1>4, <1>5 DEF t, Last

\* A value is returned to the innermost call.
LEMMA GiveSettles ==
  ASSUME NEW q, Sound(q), NEW st, SameCalls(q.stack, st), NEW v
  PROVE  Settled(Give(q, v), st)
<1>1. q.stack = <<>> <=> st = <<>>
  BY CallsTop, Zenon
<1>2. CASE q.stack = <<>>
  <2> DEFINE r == [q EXCEPT !.at = "end", !.value = v]
  <2>1. Give(q, v) = r
    BY <1>2 DEF Give
  <2>2. Parser(r, "end", q.stack, q.lex, q.unit, q.isKey, v)
    BY ParserMoved, Zenon DEF Sound
  <2> HIDE DEF r
  <2>3. IsParser(r) /\ r.at = "end" /\ r.stack = q.stack
    BY <2>2, ParserParts
  <2> QED
    BY <1>1, <1>2, <2>1, <2>3 DEF Settled, Sound
<1>3. CASE q.stack # <<>>
  <2> DEFINE f == With(Last(q.stack), v) t == Append(Front(q.stack), f)
             r == [q EXCEPT !.at = "behind", !.stack = t]
  <2>1. Give(q, v) = r
    BY <1>3 DEF Give, With, InArray
  <2>2. "items" \in DOMAIN f <=> "items" \in DOMAIN Last(q.stack)
    BY DEF With
  <2> HIDE DEF f
  <2>3. SameCalls(t, q.stack)
    BY <1>3, <2>2, CallsChanged, Zenon DEF Sound
  <2> HIDE DEF t
  <2>4. Parser(r, "behind", t, q.lex, q.unit, q.isKey, q.value)
    BY ParserMoved, Zenon DEF Sound
  <2> HIDE DEF r
  <2>5. IsParser(r) /\ r.at = "behind" /\ r.stack = t
    BY <2>4, ParserParts
  <2>6. SameCalls(t, st) /\ IsStack(t)
    BY <2>3, CallsCompare DEF SameCalls
  <2> QED
    BY <1>1, <1>3, <2>1, <2>5, <2>6 DEF Settled, Sound
<1> QED
  BY <1>2, <1>3

\* The innermost call returns.
LEMMA CloseSettles ==
  ASSUME NEW q, Sound(q), q.stack # <<>>, NEW st, SameCalls(Front(q.stack), st)
  PROVE  Settled(Close(q), st)
<1> DEFINE t == Front(q.stack) r == [q EXCEPT !.stack = t]
           v == IF InArray(q) THEN Array(Last(q.stack).items) ELSE Object(Last(q.stack).fields)
<1>1. Close(q) = Give(r, v)
  BY DEF Close
<1>2. SameCalls(t, st) /\ IsStack(t)
  BY DEF SameCalls
<1> HIDE DEF t, v
<1>3. Parser(r, q.at, t, q.lex, q.unit, q.isKey, q.value)
  BY ParserField DEF Sound
<1> HIDE DEF r
<1>4. Sound(r) /\ SameCalls(r.stack, st)
  <2>1. IsParser(r) /\ r.stack = t
    BY <1>3, ParserParts
  <2> QED
    BY <1>2, <2>1 DEF Sound
<1>5. Settled(Give(r, v), st)
  BY <1>4, GiveSettles
<1> QED
  BY <1>1, <1>5

\* The bytes that no number goes on with.
LEMMA NumberStops ==
  ASSUME NEW lex \in Seq(Nat), NEW c \in Blank \cup {Comma, RBracket, RBrace}, lex # <<>>
  PROVE  ~Continues(lex, c)
BY DEF Continues, Blank, Comma, RBracket, RBrace, Digit, Dot, ExponentMark, Plus, Minus

\* A byte behind a value ends a number that is still open.
LEMMA BehindStep ==
  ASSUME NEW r, NEW st, Behind(r, st), NEW c \in Blank \cup {Comma, RBracket, RBrace}
  PROVE  \E s : Settled(s, st) /\ StepOn(r, c) = Structure(s, c)
<1>1. CASE Settled(r, st)
  <2>1. r.at \in {"end", "behind"}
    BY <1>1 DEF Settled
  <2>2. StepOn(r, c) = Structure(r, c)
    BY <2>1 DEF StepOn
  <2> QED
    BY <1>1, <2>2
<1>2. CASE /\ Sound(r) /\ SameCalls(r.stack, st) /\ r.at = "number"
           /\ r.lex \in Seq(Nat) /\ r.lex # <<>> /\ Readable(r.lex)
  <2> DEFINE v == NumberIn(r.lex)
  <2>1. StepOn(r, c) = InNumber(r, c)
    BY <1>2 DEF StepOn
  <2>2. ~Continues(r.lex, c)
    BY <1>2, NumberStops
  <2>3. StepOn(r, c) = Structure(Give(r, v), c)
    BY <1>2, <2>1, <2>2 DEF InNumber, EndNumber
  <2> HIDE DEF v
  <2>4. Settled(Give(r, v), st)
    BY <1>2, GiveSettles
  <2> QED
    BY <2>3, <2>4
<1> QED
  BY <1>1, <1>2 DEF Behind

\* Behind a value, a blank changes nothing that matters.
LEMMA BehindBlank ==
  ASSUME NEW r, NEW st, Behind(r, st), NEW b \in Blank
  PROVE  Behind(StepOn(r, b), st)
<1>1. PICK s : Settled(s, st) /\ StepOn(r, b) = Structure(s, b)
  BY BehindStep
<1>2. Structure(s, b) = s
  BY DEF Structure
<1> QED
  BY <1>1, <1>2 DEF Behind

\* The bytes with a meaning are no blanks.
LEMMA MarksApart ==
  /\ {Comma, Colon, Quote, LBracket, RBracket, LBrace, RBrace} \cap Blank = {}
  /\ Comma # RBracket /\ Comma # RBrace
BY DEF Blank, Comma, Colon, Quote, LBracket, RBracket, LBrace, RBrace

\* Behind a value, the closing bracket ends the innermost call.
LEMMA BehindCloser ==
  ASSUME NEW r, NEW st, st # <<>>, Behind(r, st),
         NEW c, c = IF "items" \in DOMAIN Last(st) THEN RBracket ELSE RBrace
  PROVE  Settled(StepOn(r, c), Front(st))
<1>1. PICK s : Settled(s, st) /\ StepOn(r, c) = Structure(s, c)
  BY BehindStep
<1>2. s.at = "behind" /\ Sound(s) /\ SameCalls(s.stack, st)
  BY <1>1 DEF Settled
<1>3. /\ s.stack # <<>> /\ SameCalls(Front(s.stack), Front(st))
      /\ "items" \in DOMAIN Last(s.stack) <=> "items" \in DOMAIN Last(st)
  BY <1>2, CallsTop
<1>4. c = Closer(s) /\ c \notin Blank
  BY <1>3, MarksApart DEF Closer, InArray
<1>5. Structure(s, c) = Close(s)
  BY <1>2, <1>4 DEF Structure
<1> QED
  BY <1>1, <1>2, <1>3, <1>5, CloseSettles

\* Behind a value, a comma leads to the next value or key of the innermost call.
LEMMA BehindComma ==
  ASSUME NEW r, NEW st, st # <<>>, Behind(r, st)
  PROVE  /\ "items" \in DOMAIN Last(st) => AtValue(StepOn(r, Comma))
         /\ "items" \notin DOMAIN Last(st) => AtKey(StepOn(r, Comma))
         /\ SameCalls(StepOn(r, Comma).stack, st)
<1>1. PICK s : Settled(s, st) /\ StepOn(r, Comma) = Structure(s, Comma)
  BY BehindStep
<1>2. s.at = "behind" /\ Sound(s) /\ SameCalls(s.stack, st)
  BY <1>1 DEF Settled
<1>3. s.stack # <<>> /\ ("items" \in DOMAIN Last(s.stack) <=> "items" \in DOMAIN Last(st))
  BY <1>2, CallsTop
<1> DEFINE at == IF InArray(s) THEN "value" ELSE "key" u == Goto(s, at)
<1>4. Structure(s, Comma) = u
  BY <1>2, MarksApart DEF Structure, Closer
<1>5. at = IF "items" \in DOMAIN Last(st) THEN "value" ELSE "key"
  BY <1>3 DEF InArray
<1> HIDE DEF at
<1>6. Parser(u, at, s.stack, s.lex, s.unit, s.isKey, s.value)
  BY <1>2, ParserMoved, Zenon DEF Sound
<1> HIDE DEF u
<1>7. IsParser(u) /\ u.at = at /\ u.stack = s.stack
  BY <1>6, ParserParts
<1>8. Sound(u) /\ SameCalls(u.stack, st) /\ (InArray(u) <=> "items" \in DOMAIN Last(st)) /\ u.stack # <<>>
  BY <1>2, <1>3, <1>7 DEF Sound, InArray
<1> QED
  BY <1>1, <1>4, <1>5, <1>7, <1>8 DEF AtValue, AtKey

-----------------------------------------------------------------------------
(***************************************************************************)
(* What the reader does with the parts of a document: a value with blanks, *)
(* a pair, members, elements, arrays and objects.                          *)
(***************************************************************************)

\* What the reader does with a text: it reads a value, a key, the members of an object and
\* the elements of an array, wherever one can be.
AtColon(r, st) == Sound(r) /\ SameCalls(r.stack, st) /\ r.at = "colon"
ReadsValue(x) == x \in Seq(Nat) /\ \A q : AtValue(q) => \E r : Runs(q, x, r) /\ Behind(r, q.stack)
ReadsKey(x) == x \in Seq(Nat) /\ \A q : AtKey(q) => \E r : Runs(q, x, r) /\ AtColon(r, q.stack)
ReadsMembers(x) == x \in Seq(Nat) /\ \A q : AtKey(q) => \E r : Runs(q, x, r) /\ Behind(r, q.stack)
ReadsElements(x) ==
  x \in Seq(Nat) /\ \A q : AtValue(q) /\ q.stack # <<>> /\ InArray(q) => \E r : Runs(q, x, r) /\ Behind(r, q.stack)

\* Only the kinds of the calls matter.
LEMMA BehindSame ==
  ASSUME NEW r, NEW s, NEW t, SameCalls(s, t)
  PROVE  /\ Behind(r, s) => Behind(r, t)
         /\ Settled(r, s) => Settled(r, t)
<1>1. s = <<>> <=> t = <<>>
  BY CallsTop
<1>2. SameCalls(r.stack, s) => SameCalls(r.stack, t)
  BY CallsCompare
<1>3. Settled(r, s) => Settled(r, t)
  BY <1>1, <1>2 DEF Settled
<1> QED
  BY <1>2, <1>3 DEF Behind

\* Before a value and before a key, a blank changes nothing.
LEMMA BlankBefore ==
  ASSUME NEW q, NEW b \in Blank, AtValue(q) \/ AtKey(q) \/ q.at = "colon"
  PROVE  StepOn(q, b) = q
<1>1. q.at \in {"value", "first", "key", "colon"}
  BY DEF AtValue, AtKey
<1>2. StepOn(q, b) = Structure(q, b)
  BY <1>1 DEF StepOn
<1> QED
  BY <1>2 DEF Structure

\* A value with a blank on one side.
LEMMA ValueBlank ==
  ASSUME NEW x, ReadsValue(x), NEW b \in Blank
  PROVE  ReadsValue(<<b>> \o x) /\ ReadsValue(Append(x, b))
<1>1. x \in Seq(Nat) /\ b \in Nat
  BY DEF ReadsValue, Blank
<1>2. <<b>> \o x \in Seq(Nat) /\ Append(x, b) \in Seq(Nat)
  BY <1>1, Lengthened
<1>3. ASSUME NEW q, AtValue(q)
      PROVE  /\ \E r : Runs(q, <<b>> \o x, r) /\ Behind(r, q.stack)
             /\ \E r : Runs(q, Append(x, b), r) /\ Behind(r, q.stack)
  <2>1. PICK r : Runs(q, x, r) /\ Behind(r, q.stack)
    BY <1>3 DEF ReadsValue
  <2>2. StepOn(q, b) = q
    BY <1>3, BlankBefore
  <2>3. Runs(q, <<b>> \o x, r)
    BY <1>1, <2>1, <2>2, RunsByte
  <2>4. Runs(q, Append(x, b), StepOn(r, b)) /\ Behind(StepOn(r, b), q.stack)
    BY <1>1, <2>1, RunsMore, BehindBlank
  <2> QED
    BY <2>1, <2>3, <2>4
<1> QED
  BY <1>2, <1>3 DEF ReadsValue

\* A key with a blank on one side.
LEMMA KeyBlank ==
  ASSUME NEW x, ReadsKey(x), NEW b \in Blank
  PROVE  ReadsKey(<<b>> \o x) /\ ReadsKey(Append(x, b))
<1>1. x \in Seq(Nat) /\ b \in Nat
  BY DEF ReadsKey, Blank
<1>2. <<b>> \o x \in Seq(Nat) /\ Append(x, b) \in Seq(Nat)
  BY <1>1, Lengthened
<1>3. ASSUME NEW q, AtKey(q)
      PROVE  /\ \E r : Runs(q, <<b>> \o x, r) /\ AtColon(r, q.stack)
             /\ \E r : Runs(q, Append(x, b), r) /\ AtColon(r, q.stack)
  <2>1. PICK r : Runs(q, x, r) /\ AtColon(r, q.stack)
    BY <1>3 DEF ReadsKey
  <2>2. StepOn(q, b) = q
    BY <1>3, BlankBefore
  <2>3. Runs(q, <<b>> \o x, r)
    BY <1>1, <2>1, <2>2, RunsByte
  <2>4. StepOn(r, b) = r
    BY <2>1, BlankBefore DEF AtColon
  <2>5. Runs(q, Append(x, b), r)
    BY <1>1, <2>1, <2>4, RunsMore
  <2> QED
    BY <2>1, <2>3, <2>5
<1> QED
  BY <1>2, <1>3 DEF ReadsKey

\* Two texts and the byte between them.
LEMMA RunsBetween ==
  ASSUME NEW x \in Seq(Nat), NEW c \in Nat, NEW y \in Seq(Nat), NEW q, NEW r, NEW s,
         Runs(q, x, r), Runs(StepOn(r, c), y, s)
  PROVE  x \o <<c>> \o y \in Seq(Nat) /\ Runs(q, x \o <<c>> \o y, s)
<1> DEFINE w == <<c>> u == StepOn(r, c)
<1>1. w \in Seq(Nat) /\ x \o w = Append(x, c)
  BY AppendIsConcat
<1>2. Runs(q, Append(x, c), u)
  BY RunsMore
<1> HIDE DEF w, u
<1>3. x \o w \in Seq(Nat) /\ Runs(q, x \o w, u)
  BY <1>1, <1>2, ConcatProperties
<1>4. (x \o w) \o y \in Seq(Nat) /\ Runs(q, (x \o w) \o y, s)
  BY <1>3, RunsOn, ConcatProperties DEF u
<1> QED
  BY <1>4 DEF w

\* The bytes of the structure are bytes.
LEMMA MarksAre == {Comma, Colon, Quote, LBracket, RBracket, LBrace, RBrace, Backslash, Minus, Dot, Plus} \subseteq Nat
BY DEF Comma, Colon, Quote, LBracket, RBracket, LBrace, RBrace, Backslash, Minus, Dot, Plus

\* A key, a colon and a value.
LEMMA PairReads ==
  ASSUME NEW x, NEW y, ReadsKey(x), ReadsValue(y)
  PROVE  ReadsMembers(x \o <<Colon>> \o y)
<1>1. x \in Seq(Nat) /\ y \in Seq(Nat) /\ Colon \in Nat
  BY MarksAre DEF ReadsKey, ReadsValue
<1>2. ASSUME NEW q, AtKey(q)
      PROVE  \E r : Runs(q, x \o <<Colon>> \o y, r) /\ Behind(r, q.stack)
  <2>1. PICK r : Runs(q, x, r) /\ AtColon(r, q.stack)
    BY <1>2 DEF ReadsKey
  <2> DEFINE u == Goto(r, "value")
  <2>2. StepOn(r, Colon) = u
    <3>1. StepOn(r, Colon) = Structure(r, Colon)
      BY <2>1 DEF StepOn, AtColon
    <3>2. Colon \notin Blank
      BY MarksApart, Zenon
    <3> QED
      BY <2>1, <3>1, <3>2 DEF Structure, AtColon
  <2>3. Parser(u, "value", r.stack, r.lex, r.unit, r.isKey, r.value)
    BY <2>1, ParserMoved, Zenon DEF AtColon, Sound
  <2> HIDE DEF u
  <2>4. IsParser(u) /\ u.at = "value" /\ u.stack = r.stack
    BY <2>3, ParserParts
  <2>5. AtValue(u) /\ SameCalls(u.stack, q.stack)
    BY <2>1, <2>4 DEF AtColon, AtValue, Sound
  <2>6. PICK s : Runs(u, y, s) /\ Behind(s, u.stack)
    BY <2>5 DEF ReadsValue
  <2>7. Behind(s, q.stack)
    BY <2>5, <2>6, BehindSame
  <2>8. Runs(q, x \o <<Colon>> \o y, s)
    BY <1>1, <2>1, <2>2, <2>6, RunsBetween
  <2> QED
    BY <2>7, <2>8
<1>3. x \o <<Colon>> \o y \in Seq(Nat)
  BY <1>1, Joined
<1> QED
  BY <1>2, <1>3 DEF ReadsMembers

\* More members behind a comma.
LEMMA MembersRead ==
  ASSUME NEW x, NEW y, ReadsMembers(x), ReadsMembers(y)
  PROVE  ReadsMembers(x \o <<Comma>> \o y)
<1>1. x \in Seq(Nat) /\ y \in Seq(Nat) /\ Comma \in Nat
  BY MarksAre DEF ReadsMembers
<1>2. ASSUME NEW q, AtKey(q)
      PROVE  \E r : Runs(q, x \o <<Comma>> \o y, r) /\ Behind(r, q.stack)
  <2>1. PICK r : Runs(q, x, r) /\ Behind(r, q.stack)
    BY <1>2 DEF ReadsMembers
  <2> DEFINE u == StepOn(r, Comma)
  <2>2. q.stack # <<>> /\ "items" \notin DOMAIN Last(q.stack)
    BY <1>2 DEF AtKey, InArray
  <2>3. AtKey(u) /\ SameCalls(u.stack, q.stack)
    BY <2>1, <2>2, BehindComma
  <2>4. PICK s : Runs(u, y, s) /\ Behind(s, u.stack)
    BY <2>3 DEF ReadsMembers
  <2>5. Behind(s, q.stack)
    BY <2>3, <2>4, BehindSame
  <2>6. Runs(q, x \o <<Comma>> \o y, s)
    BY <1>1, <2>1, <2>4, RunsBetween
  <2> QED
    BY <2>5, <2>6
<1>3. x \o <<Comma>> \o y \in Seq(Nat)
  BY <1>1, Joined
<1> QED
  BY <1>2, <1>3 DEF ReadsMembers

\* A value is an element, and more of them come behind a comma.
LEMMA ElementsRead ==
  ASSUME NEW x, NEW y, ReadsValue(y)
  PROVE  ReadsElements(y) /\ (ReadsElements(x) => ReadsElements(x \o <<Comma>> \o y))
<1>1. y \in Seq(Nat) /\ Comma \in Nat
  BY MarksAre DEF ReadsValue
<1>2. ReadsElements(y)
  BY DEF ReadsElements, ReadsValue
<1>3. ASSUME ReadsElements(x), NEW q, AtValue(q), q.stack # <<>>, InArray(q)
      PROVE  \E r : Runs(q, x \o <<Comma>> \o y, r) /\ Behind(r, q.stack)
  <2>1. PICK r : Runs(q, x, r) /\ Behind(r, q.stack)
    BY <1>3 DEF ReadsElements
  <2> DEFINE u == StepOn(r, Comma)
  <2>2. "items" \in DOMAIN Last(q.stack)
    BY <1>3 DEF InArray
  <2>3. AtValue(u) /\ SameCalls(u.stack, q.stack)
    BY <1>3, <2>1, <2>2, BehindComma
  <2>4. PICK s : Runs(u, y, s) /\ Behind(s, u.stack)
    BY <2>3 DEF ReadsValue
  <2>5. Behind(s, q.stack)
    BY <2>3, <2>4, BehindSame
  <2>6. x \in Seq(Nat)
    BY <1>3 DEF ReadsElements
  <2>7. Runs(q, x \o <<Comma>> \o y, s)
    BY <1>1, <2>1, <2>4, <2>6, RunsBetween
  <2> QED
    BY <2>5, <2>7
<1>4. ReadsElements(x) => x \o <<Comma>> \o y \in Seq(Nat)
  BY <1>1, Joined DEF ReadsElements
<1> QED
  BY <1>2, <1>3, <1>4 DEF ReadsElements

\* The first byte of a value.
LEMMA ValueStarts ==
  ASSUME NEW q, AtValue(q), NEW c, c \notin Blank, c # RBracket
  PROVE  StepOn(q, c) = Value(q, c)
<1>1. StepOn(q, c) = Structure(q, c)
  BY DEF StepOn, AtValue
<1>2. q.at = "first" => InArray(q) /\ c # Closer(q)
  BY DEF AtValue, Closer
<1> QED
  BY <1>1, <1>2 DEF Structure, AtValue

\* An opening bracket begins a call.
LEMMA CallBegins ==
  ASSUME NEW q, AtValue(q), NEW c \in {LBracket, LBrace}
  PROVE  LET u == StepOn(q, c)
         IN  /\ Sound(u) /\ u.at = "first" /\ u.stack # <<>> /\ SameCalls(Front(u.stack), q.stack)
             /\ InArray(u) <=> c = LBracket
<1> DEFINE f == IF c = LBracket THEN [items |-> <<>>] ELSE [fields |-> <<>>, key |-> <<>>]
           t == Append(q.stack, f)
           u == [q EXCEPT !.at = "first", !.stack = t]
<1>1. c \notin Blank /\ c # RBracket /\ c # Quote /\ (c = LBracket \/ (c = LBrace /\ c # LBracket))
  BY DEF Blank, LBracket, LBrace, RBracket, Quote
<1>2. StepOn(q, c) = u
  BY <1>1, ValueStarts DEF Value, Call
<1>3. "items" \in DOMAIN f <=> c = LBracket
  <2>1. DOMAIN [items |-> <<>>] = {"items"} /\ DOMAIN [fields |-> <<>>, key |-> <<>>] = {"fields", "key"}
    OBVIOUS
  <2> QED
    BY <2>1
<1> HIDE DEF f
<1>4. IsStack(t) /\ t # <<>> /\ Last(t) = f /\ SameCalls(Front(t), q.stack)
  BY CallsChanged, Zenon DEF AtValue, Sound
<1> HIDE DEF t
<1>5. Parser(u, "first", t, q.lex, q.unit, q.isKey, q.value)
  BY ParserMoved, Zenon DEF AtValue, Sound
<1> HIDE DEF u
<1>6. IsParser(u) /\ u.at = "first" /\ u.stack = t
  BY <1>5, ParserParts
<1> QED
  BY <1>2, <1>3, <1>4, <1>6 DEF Sound, InArray

\* An array: nothing but blanks, or elements, between the brackets.
LEMMA ArrayReads ==
  ASSUME NEW x, ReadsElements(x) \/ x \in Seq(Blank)
  PROVE  ReadsValue(<<LBracket>> \o x \o <<RBracket>>)
<1>1. x \in Seq(Nat) /\ LBracket \in Nat /\ RBracket \in Nat
  <2>1. Blank \subseteq Nat
    BY DEF Blank
  <2>2. x \in Seq(Blank) => x \in Seq(Nat)
    BY <2>1, SeqMonotonic
  <2>3. ReadsElements(x) => x \in Seq(Nat)
    BY DEF ReadsElements
  <2> QED
    BY <2>2, <2>3, MarksAre
<1> DEFINE z == <<LBracket>> \o x \o <<RBracket>>
<1>2. z \in Seq(Nat)
  BY <1>1, Bracketed
<1>3. ASSUME NEW q, AtValue(q)
      PROVE  \E r : Runs(q, z, r) /\ Behind(r, q.stack)
  <2> DEFINE u == StepOn(q, LBracket)
  <2>1. Sound(u) /\ u.at = "first" /\ u.stack # <<>> /\ SameCalls(Front(u.stack), q.stack) /\ InArray(u)
    BY <1>3, CallBegins
  <2> HIDE DEF u
  <2>2. AtValue(u)
    BY <2>1 DEF AtValue
  <2>3. \E r : Runs(u, x, r) /\ Settled(StepOn(r, RBracket), q.stack)
    <3>1. CASE ReadsElements(x)
      <4>1. PICK r : Runs(u, x, r) /\ Behind(r, u.stack)
        BY <2>1, <2>2, <3>1 DEF ReadsElements
      <4>2. Settled(StepOn(r, RBracket), Front(u.stack))
        BY <2>1, <4>1, BehindCloser DEF InArray
      <4> QED
        BY <2>1, <4>1, <4>2, BehindSame
    <3>2. CASE x \in Seq(Blank)
      <4>1. \A i \in 1..Len(x) : StepOn(u, x[i]) = u
        <5>1. \A i \in 1..Len(x) : x[i] \in Blank
          BY <3>2
        <5> QED
          BY <2>2, <5>1, BlankBefore
      <4>2. Runs(u, x, u)
        BY <1>1, <4>1, RunsStill
      <4>3. StepOn(u, RBracket) = Close(u)
        BY <2>1, MarksApart DEF StepOn, Structure, Closer
      <4>4. Settled(Close(u), q.stack)
        BY <2>1, CloseSettles
      <4> QED
        BY <4>2, <4>3, <4>4
    <3> QED
      BY <3>1, <3>2
  <2>4. PICK r : Runs(u, x, r) /\ Settled(StepOn(r, RBracket), q.stack)
    BY <2>3
  <2>5. Runs(q, <<LBracket>> \o x, r)
    BY <1>1, <2>4, RunsByte DEF u
  <2> DEFINE y == <<LBracket>> \o x
  <2>6. y \in Seq(Nat)
    BY <1>1, Lengthened
  <2> HIDE DEF y
  <2>7. y \o <<RBracket>> = Append(y, RBracket)
    BY <1>1, <2>6, AppendIsConcat
  <2>8. Runs(q, y \o <<RBracket>>, StepOn(r, RBracket))
    BY <1>1, <2>5, <2>6, <2>7, RunsMore DEF y
  <2> QED
    BY <2>4, <2>8 DEF y, Behind
<1> HIDE DEF z
<1>4. ReadsValue(z)
  BY <1>2, <1>3 DEF ReadsValue
<1> QED
  BY <1>4 DEF z

\* An object: nothing but blanks, or members, between the braces.
LEMMA ObjectReads ==
  ASSUME NEW x, ReadsMembers(x) \/ x \in Seq(Blank)
  PROVE  ReadsValue(<<LBrace>> \o x \o <<RBrace>>)
<1>1. x \in Seq(Nat) /\ LBrace \in Nat /\ RBrace \in Nat
  <2>1. Blank \subseteq Nat
    BY DEF Blank
  <2>2. x \in Seq(Blank) => x \in Seq(Nat)
    BY <2>1, SeqMonotonic
  <2>3. ReadsMembers(x) => x \in Seq(Nat)
    BY DEF ReadsMembers
  <2> QED
    BY <2>2, <2>3, MarksAre
<1> DEFINE z == <<LBrace>> \o x \o <<RBrace>>
<1>2. z \in Seq(Nat)
  BY <1>1, Bracketed
<1>3. ASSUME NEW q, AtValue(q)
      PROVE  \E r : Runs(q, z, r) /\ Behind(r, q.stack)
  <2> DEFINE u == StepOn(q, LBrace)
  <2>1. Sound(u) /\ u.at = "first" /\ u.stack # <<>> /\ SameCalls(Front(u.stack), q.stack) /\ ~InArray(u)
    <3>1. LBrace # LBracket
      BY DEF LBrace, LBracket
    <3> QED
      BY <1>3, <3>1, CallBegins
  <2> HIDE DEF u
  <2>2. AtKey(u)
    BY <2>1 DEF AtKey
  <2>3. \E r : Runs(u, x, r) /\ Settled(StepOn(r, RBrace), q.stack)
    <3>1. CASE ReadsMembers(x)
      <4>1. PICK r : Runs(u, x, r) /\ Behind(r, u.stack)
        BY <2>2, <3>1 DEF ReadsMembers
      <4>2. Settled(StepOn(r, RBrace), Front(u.stack))
        BY <2>1, <4>1, BehindCloser DEF InArray
      <4> QED
        BY <2>1, <4>1, <4>2, BehindSame
    <3>2. CASE x \in Seq(Blank)
      <4>1. \A i \in 1..Len(x) : StepOn(u, x[i]) = u
        <5>1. \A i \in 1..Len(x) : x[i] \in Blank
          BY <3>2
        <5> QED
          BY <2>2, <5>1, BlankBefore
      <4>2. Runs(u, x, u)
        BY <1>1, <4>1, RunsStill
      <4>3. StepOn(u, RBrace) = Close(u)
        BY <2>1, MarksApart DEF StepOn, Structure, Closer
      <4>4. Settled(Close(u), q.stack)
        BY <2>1, CloseSettles
      <4> QED
        BY <4>2, <4>3, <4>4
    <3> QED
      BY <3>1, <3>2
  <2>4. PICK r : Runs(u, x, r) /\ Settled(StepOn(r, RBrace), q.stack)
    BY <2>3
  <2>5. Runs(q, <<LBrace>> \o x, r)
    BY <1>1, <2>4, RunsByte DEF u
  <2> DEFINE y == <<LBrace>> \o x
  <2>6. y \in Seq(Nat)
    BY <1>1, Lengthened
  <2> HIDE DEF y
  <2>7. y \o <<RBrace>> = Append(y, RBrace)
    BY <1>1, <2>6, AppendIsConcat
  <2>8. Runs(q, y \o <<RBrace>>, StepOn(r, RBrace))
    BY <1>1, <2>5, <2>6, <2>7, RunsMore DEF y
  <2> QED
    BY <2>4, <2>8 DEF y, Behind
<1> HIDE DEF z
<1>4. ReadsValue(z)
  BY <1>2, <1>3 DEF ReadsValue
<1> QED
  BY <1>4 DEF z

-----------------------------------------------------------------------------
(***************************************************************************)
(* Literals.                                                               *)
(***************************************************************************)

\* The first bytes of a text, and one more of them.
LEMMA PrefixGrows ==
  ASSUME NEW x \in Seq(Nat), NEW i \in Nat, i < Len(x)
  PROVE  /\ SubSeq(x, 1, i) \in Seq(Nat) /\ Len(SubSeq(x, 1, i)) = i
         /\ \A j \in 1..i : SubSeq(x, 1, i)[j] = x[j]
         /\ Append(SubSeq(x, 1, i), x[i + 1]) = SubSeq(x, 1, i + 1)
<1> DEFINE n == Len(x) k == i + 1 s == SubSeq(x, 1, i) t == SubSeq(x, 1, k)
<1>1. n \in Nat /\ k \in 1..n /\ i <= n /\ \A j \in 1..n : x[j] \in Nat
  OBVIOUS
<1>2. /\ s \in Seq(Nat) /\ Len(s) = i /\ \A j \in 1..i : s[j] = x[j]
      /\ t \in Seq(Nat) /\ Len(t) = k /\ \A j \in 1..k : t[j] = x[j]
  <2>1. ASSUME NEW m \in Nat, m <= n
        PROVE  SubSeq(x, 1, m) \in Seq(Nat) /\ Len(SubSeq(x, 1, m)) = m /\ \A j \in 1..m : SubSeq(x, 1, m)[j] = x[j]
    <3>1. 1 \in Int /\ m \in Int /\ \A j \in 1..m : x[j] \in Nat
      BY <1>1, <2>1
    <3>2. /\ SubSeq(x, 1, m) \in Seq(Nat) /\ Len(SubSeq(x, 1, m)) = IF 1 <= m THEN m - 1 + 1 ELSE 0
          /\ \A j \in 1..(m - 1 + 1) : SubSeq(x, 1, m)[j] = x[1 + j - 1]
      BY <3>1, SubSeqProperties
    <3> DEFINE w == SubSeq(x, 1, m)
    <3>3. /\ w \in Seq(Nat) /\ Len(w) = IF 1 <= m THEN m - 1 + 1 ELSE 0
          /\ \A j \in 1..(m - 1 + 1) : w[j] = x[1 + j - 1]
      BY <3>2
    <3> HIDE DEF w
    <3>4. m - 1 + 1 = m /\ \A j \in 1..m : 1 + j - 1 = j
      OBVIOUS
    <3>5. Len(w) = m /\ \A j \in 1..m : w[j] = x[j]
      BY <3>3, <3>4
    <3> QED
      BY <3>3, <3>5 DEF w
  <2>2. k \in Nat /\ k <= n
    BY <1>1
  <2> HIDE DEF k, n
  <2> QED
    BY <1>1, <2>1, <2>2
<1>3. x[k] \in Nat
  BY <1>1
<1> HIDE DEF s, t
<1> DEFINE u == Append(s, x[k])
<1>4. u \in Seq(Nat) /\ Len(u) = k /\ u[k] = x[k] /\ \A j \in 1..i : u[j] = s[j]
  <2>1. Len(u) = Len(s) + 1 /\ u[Len(s) + 1] = x[k] /\ u \in Seq(Nat) /\ \A j \in 1..Len(s) : u[j] = s[j]
    BY <1>2, <1>3, AppendProperties
  <2> QED
    BY <1>2, <2>1
<1> HIDE DEF u
<1>5. \A j \in 1..k : u[j] = t[j]
  <2>1. \A j \in 1..k : j = k \/ j \in 1..i
    OBVIOUS
  <2>2. k \in 1..k
    BY <1>1
  <2> QED
    BY <1>2, <1>4, <2>1, <2>2
<1>6. u = t
  BY <1>2, <1>4, <1>5, SeqEqual
<1> QED
  BY <1>2, <1>6 DEF s, t, u

\* The first bytes of a literal tell it from the others.
LEMMA LiteralBegun ==
  ASSUME NEW l \in Literals, NEW i \in 1..Len(l[1])
  PROVE  {m \in Literals : IsPrefix(SubSeq(l[1], 1, i), m[1])} = {l}
<1> DEFINE a == l[1] n == Len(a) s == SubSeq(a, 1, i)
<1>1. a \in Seq(Nat) /\ n \in Nat \ {0} /\ i \in Nat \ {0} /\ i <= n
  BY LiteralsDiffer
<1>2. s \in Seq(Nat) /\ Len(s) = i /\ s[1] = a[1] /\ SubSeq(s, 1, i) = s
  <2>1. s \in Seq(Nat) /\ Len(s) = i /\ s[1] = a[1]
    <3> HIDE DEF a
    <3> QED
      BY <1>1
  <2> HIDE DEF s
  <2>2. SubSeq(s, 1, Len(s)) = s
    BY <2>1, SubSeqFull
  <2> QED
    BY <2>1, <2>2
<1> HIDE DEF s
<1>3. ASSUME NEW m \in Literals, IsPrefix(s, m[1]) PROVE m = l
  <2> DEFINE b == m[1]
  <2>1. b \in Seq(Nat) /\ Len(b) \in Nat
    BY LiteralsDiffer
  <2>2. i <= Len(b) /\ s = SubSeq(b, 1, i)
    BY <1>2, <1>3 DEF IsPrefix
  <2>3. SubSeq(b, 1, i)[1] = b[1]
    <3> HIDE DEF b
    <3> QED
      BY <1>1, <2>1, <2>2
  <2>4. b[1] = a[1]
    BY <1>2, <2>2, <2>3
  <2> QED
    BY <2>4, LiteralsDiffer
<1>4. IsPrefix(s, a)
  <2>1. s = SubSeq(a, 1, i)
    BY DEF s
  <2> QED
    BY <1>1, <1>2, <2>1 DEF IsPrefix
<1>5. {m \in Literals : IsPrefix(s, m[1])} = {l}
  BY <1>3, <1>4
<1> QED
  BY <1>5 DEF s

\* The bytes that literals begin with.
LEMMA LiteralFirst ==
  ASSUME NEW l \in Literals
  PROVE  /\ l[1][1] \in {110, 116, 102} /\ Len(l[1]) \in {4, 5} /\ l = <<l[1], l[2]>>
         /\ \A c \in {110, 116, 102} : c \notin Blank \cup Digit \cup {Quote, LBracket, LBrace, Minus, RBracket}
<1>1. \A c \in {110, 116, 102} : c \notin Blank \cup Digit \cup {Quote, LBracket, LBrace, Minus, RBracket}
  BY DEF Blank, Digit, Quote, LBracket, LBrace, Minus, RBracket
<1>2. CASE l = <<<<110, 117, 108, 108>>, Null>>
  BY <1>1, <1>2
<1>3. CASE l = <<<<116, 114, 117, 101>>, Boolean(TRUE)>>
  BY <1>1, <1>3
<1>4. CASE l = <<<<102, 97, 108, 115, 101>>, Boolean(FALSE)>>
  BY <1>1, <1>4
<1> QED
  BY <1>2, <1>3, <1>4 DEF Literals

\* null, true and false are read.
LEMMA LiteralReads ==
  ASSUME NEW l \in Literals
  PROVE  ReadsValue(l[1])
<1> DEFINE x == l[1] n == Len(x)
<1>1. x \in Seq(Nat) /\ n \in {4, 5}
  BY LiteralsDiffer, LiteralFirst
<1>2. ASSUME NEW q, AtValue(q)
      PROVE  \E r : Runs(q, x, r) /\ Behind(r, q.stack)
  <2> DEFINE mid(i) == Collect(q, "literal", SubSeq(x, 1, i))
             last == Give(mid(n - 1), l[2])
             f == [i \in 0..n |-> IF i = 0 THEN q ELSE IF i < n THEN mid(i) ELSE last]
  <2>1. ASSUME NEW i \in Nat
        PROVE  /\ Sound(mid(i)) /\ mid(i).at = "literal" /\ mid(i).stack = q.stack /\ mid(i).lex = SubSeq(x, 1, i)
               /\ \A lex : Collect(mid(i), "literal", lex) = Collect(q, "literal", lex)
    <3> DEFINE s == SubSeq(x, 1, i) u == mid(i)
    <3>1. \A lex : Collect(u, "literal", lex) = Collect(q, "literal", lex)
      BY Zenon DEF Collect, AtValue, Sound, IsParser
    <3> HIDE DEF s
    <3>2. u = Collect(q, "literal", s)
      BY DEF s
    <3> HIDE DEF u
    <3>3. Parser(u, "literal", q.stack, s, q.unit, q.isKey, q.value)
      BY <1>2, <3>2, ParserMoved, Zenon DEF AtValue, Sound
    <3>4. IsParser(u) /\ u.at = "literal" /\ u.stack = q.stack /\ u.lex = s
      BY <3>3, ParserParts
    <3> QED
      BY <1>2, <3>1, <3>4 DEF u, s, AtValue, Sound
  <2> HIDE DEF mid
  <2>2. StepOn(q, x[1]) = mid(1)
    <3> DEFINE c == x[1]
    <3>1. /\ c \notin Blank /\ c # RBracket /\ c \notin Digit
          /\ c # Quote /\ c # LBracket /\ c # LBrace /\ c # Minus
      BY LiteralFirst
    <3>2. \E m \in Literals : m[1][1] = c
      OBVIOUS
    <3> HIDE DEF c
    <3>3. StepOn(q, c) = Collect(q, "literal", <<c>>)
      BY <1>2, <3>1, <3>2, ValueStarts DEF Value
    <3>4. SubSeq(x, 1, 1) = <<c>>
      <4> DEFINE s == SubSeq(x, 1, 1) t == <<c>>
      <4>1. s \in Seq(Nat) /\ Len(s) = 1 /\ s[1] = x[1]
        <5> HIDE DEF x
        <5> QED
          BY <1>1
      <4>2. t \in Seq(Nat) /\ Len(t) = 1 /\ t[1] = x[1]
        <5>1. c \in Nat
          BY <1>1 DEF c
        <5> QED
          BY <5>1 DEF c
      <4> HIDE DEF s, t
      <4>3. s = t
        BY <4>1, <4>2, SeqEqual
      <4> QED
        BY <4>3 DEF s, t
    <3> QED
      BY <3>3, <3>4 DEF mid, c
  <2>3. ASSUME NEW i \in 1..(n - 1)
        PROVE  StepOn(mid(i), x[i + 1]) = IF i + 1 < n THEN mid(i + 1) ELSE last
    <3> DEFINE u == mid(i) c == x[i + 1] lex == SubSeq(x, 1, i + 1)
               ours == {m \in Literals : IsPrefix(lex, m[1])}
    <3>1. i \in Nat /\ i < n /\ i + 1 \in 1..n
      BY <1>1
    <3>2. Append(u.lex, c) = lex
      BY <1>1, <2>1, <3>1, PrefixGrows
    <3>3. ours = {l}
      BY <3>1, LiteralBegun
    <3>4. u.at = "literal"
      BY <2>1, <3>1
    <3>5. StepOn(u, c) = Literal(u, c)
      BY <3>4 DEF StepOn
    <3>6. Literal(u, c) = IF ours = {} THEN Failed(u)
                          ELSE IF \E m \in ours : m[1] = lex THEN Give(u, (CHOOSE m \in ours : TRUE)[2])
                          ELSE Collect(u, "literal", lex)
      BY <3>2 DEF Literal
    <3>7. (\E m \in ours : m[1] = lex) <=> x = lex
      BY <3>3
    <3>8. x = lex <=> i + 1 = n
      <4>1. Len(lex) = i + 1
        <5> HIDE DEF x
        <5> QED
          BY <1>1, <3>1
      <4>2. i + 1 = n => lex = x
        BY <1>1, SubSeqFull
      <4> QED
        BY <4>1, <4>2
    <3>9. (CHOOSE m \in ours : TRUE) = l /\ ours # {}
      BY <3>3
    <3>10. Collect(u, "literal", lex) = mid(i + 1)
      BY <2>1, <3>1 DEF mid
    <3> HIDE DEF ours, lex, c, u
    <3>11. StepOn(u, c) = IF x = lex THEN Give(u, l[2]) ELSE Collect(u, "literal", lex)
      BY <3>5, <3>6, <3>7, <3>9
    <3>12. CASE i + 1 = n
      <4>1. StepOn(u, c) = Give(u, l[2]) /\ i = n - 1 /\ ~(i + 1 < n)
        BY <1>1, <3>1, <3>8, <3>11, <3>12
      <4> QED
        BY <4>1 DEF u, c
    <3>13. CASE i + 1 # n
      <4>1. StepOn(u, c) = mid(i + 1) /\ i + 1 < n
        BY <1>1, <3>1, <3>8, <3>10, <3>11, <3>13
      <4> QED
        BY <4>1 DEF u, c
    <3> QED
      BY <3>12, <3>13
  <2>4. f[0] = q /\ f[n] = last
    <3> HIDE DEF last, n
    <3>1. n \in 0..n /\ 0 \in 0..n /\ n # 0 /\ ~(n < n)
      BY <1>1
    <3> QED
      BY <3>1
  <2>5. \A i \in 1..n : f[i] = StepOn(f[i - 1], x[i])
    <3> SUFFICES ASSUME NEW i \in 1..n PROVE f[i] = StepOn(f[i - 1], x[i])
      OBVIOUS
    <3> HIDE DEF last, n
    <3>1. i \in 0..n /\ i - 1 \in 0..n /\ n \in {4, 5} /\ (i - 1) + 1 = i /\ i # 0
      BY <1>1 DEF n
    <3>2. CASE i = 1
      <4>1. f[1] = mid(1) /\ f[i - 1] = q
        BY <3>1, <3>2
      <4> QED
        BY <2>2, <3>2, <4>1
    <3>3. CASE i # 1
      <4>1. i - 1 \in 1..(n - 1) /\ i - 1 # 0 /\ i - 1 < n
        BY <3>1, <3>3
      <4>2. f[i - 1] = mid(i - 1)
        BY <3>1, <4>1
      <4>3. f[i] = IF i < n THEN mid(i) ELSE last
        BY <3>1
      <4>4. StepOn(mid(i - 1), x[i]) = IF i < n THEN mid(i) ELSE last
        BY <2>3, <3>1, <4>1
      <4> HIDE DEF f
      <4> QED
        BY <4>2, <4>3, <4>4
    <3> QED
      BY <3>2, <3>3
  <2> HIDE DEF f
  <2>6. Runs(q, x, last)
    BY <2>4, <2>5 DEF Runs
  <2>7. Settled(last, q.stack)
    <3>1. n - 1 \in Nat
      <4> HIDE DEF n
      <4> QED
        BY <1>1
    <3>2. Sound(mid(n - 1)) /\ mid(n - 1).stack = q.stack
      BY <2>1, <3>1
    <3>3. SameCalls(q.stack, q.stack)
      BY <1>2, CallsCompare DEF AtValue, Sound
    <3> QED
      BY <3>2, <3>3, GiveSettles
  <2> QED
    BY <2>6, <2>7 DEF Behind
<1> QED
  BY <1>1, <1>2 DEF ReadsValue

-----------------------------------------------------------------------------
(***************************************************************************)
(* The inside of strings, and strings in quotes.                           *)
(***************************************************************************)

\* Inside of a string.
InText(r, st, isKey) == Sound(r) /\ r.at = "string" /\ r.stack = st /\ r.isKey = isKey
ReadsInside(x) ==
  x \in Seq(Nat) /\ \A q : Sound(q) /\ q.at = "string" => \E r : Runs(q, x, r) /\ InText(r, q.stack, q.isKey)

\* A text that is taken into the string.
LEMMA TextCollected ==
  ASSUME NEW q, Sound(q), NEW lex
  PROVE  InText(Collect(q, "string", lex), q.stack, q.isKey)
<1> DEFINE u == Collect(q, "string", lex)
<1>1. Parser(u, "string", q.stack, lex, q.unit, q.isKey, q.value)
  BY ParserMoved, Zenon DEF Sound
<1> HIDE DEF u
<1>2. IsParser(u) /\ u.at = "string" /\ u.stack = q.stack /\ u.isKey = q.isKey
  BY <1>1, ParserParts
<1> QED
  BY <1>2, Zenon DEF InText, Sound, u

\* Nothing, and one part of a string behind another.
LEMMA InsideJoined ==
  ASSUME NEW x, NEW y
  PROVE  ReadsInside(<<>>) /\ (ReadsInside(x) /\ ReadsInside(y) => ReadsInside(x \o y))
<1>1. ReadsInside(<<>>)
  <2>1. <<>> \in Seq(Nat)
    OBVIOUS
  <2> QED
    BY <2>1, RunsNothing DEF ReadsInside, InText
<1>2. ASSUME ReadsInside(x), ReadsInside(y) PROVE ReadsInside(x \o y)
  <2>1. x \in Seq(Nat) /\ y \in Seq(Nat) /\ x \o y \in Seq(Nat)
    BY <1>2, ConcatProperties DEF ReadsInside
  <2>2. ASSUME NEW q, Sound(q), q.at = "string"
        PROVE  \E r : Runs(q, x \o y, r) /\ InText(r, q.stack, q.isKey)
    <3>1. PICK r : Runs(q, x, r) /\ InText(r, q.stack, q.isKey)
      BY <1>2, <2>2 DEF ReadsInside
    <3>2. Sound(r) /\ r.at = "string" /\ r.stack = q.stack /\ r.isKey = q.isKey
      BY <3>1 DEF InText
    <3>3. PICK s : Runs(r, y, s) /\ InText(s, r.stack, r.isKey)
      BY <1>2, <3>2 DEF ReadsInside
    <3>4. Runs(q, x \o y, s)
      BY <2>1, <3>1, <3>3, RunsOn
    <3> QED
      BY <3>2, <3>3, <3>4
  <2> QED
    BY <2>1, <2>2 DEF ReadsInside
<1> QED
  BY <1>1, <1>2

\* A byte that stands for itself.
LEMMA PlainReads ==
  ASSUME NEW c \in Nat, c >= 32, c \notin {Quote, Backslash}
  PROVE  ReadsInside(<<c>>)
<1>1. ASSUME NEW q, Sound(q), q.at = "string"
      PROVE  \E r : Runs(q, <<c>>, r) /\ InText(r, q.stack, q.isKey)
  <2> DEFINE u == Collect(q, "string", Append(q.lex, c))
  <2>1. StepOn(q, c) = u
    BY <1>1 DEF StepOn, String
  <2>2. Runs(u, <<>>, u) /\ <<>> \in Seq(Nat)
    BY RunsNothing
  <2>3. InText(u, q.stack, q.isKey)
    BY <1>1, TextCollected
  <2> HIDE DEF u
  <2>4. Runs(q, <<c>>, u)
    BY <2>1, <2>2, RunsByte, Zenon
  <2> QED
    BY <2>3, <2>4
<1>2. <<c>> \in Seq(Nat)
  OBVIOUS
<1> QED
  BY <1>1, <1>2 DEF ReadsInside

\* The backslash.
LEMMA EscapeBegins ==
  ASSUME NEW q, Sound(q), q.at = "string"
  PROVE  LET u == StepOn(q, Backslash)
         IN  Sound(u) /\ u.at = "escape" /\ u.stack = q.stack /\ u.isKey = q.isKey
<1> DEFINE u == Goto(q, "escape")
<1>1. StepOn(q, Backslash) = u
  BY DEF StepOn, String, Quote, Backslash
<1>2. Parser(u, "escape", q.stack, q.lex, q.unit, q.isKey, q.value)
  BY ParserMoved, Zenon DEF Sound
<1> HIDE DEF u
<1>3. IsParser(u) /\ u.at = "escape" /\ u.stack = q.stack /\ u.isKey = q.isKey
  BY <1>2, ParserParts
<1> QED
  BY <1>1, <1>3 DEF Sound

\* An escape of one letter.
LEMMA MarkReads ==
  ASSUME NEW e \in Escapes
  PROVE  ReadsInside(<<Backslash, e[1]>>)
<1> DEFINE c == e[1]
<1>1. c \in Nat /\ c # 117 /\ Backslash \in Nat
  BY DEF Escapes, Backslash
<1>2. <<Backslash, c>> = Append(<<Backslash>>, c) /\ <<Backslash>> \in Seq(Nat) /\ <<Backslash, c>> \in Seq(Nat)
  BY <1>1
<1>3. ASSUME NEW q, Sound(q), q.at = "string"
      PROVE  \E r : Runs(q, <<Backslash, c>>, r) /\ InText(r, q.stack, q.isKey)
  <2> DEFINE u == StepOn(q, Backslash)
             lex == Append(u.lex, (CHOOSE d \in Escapes : d[1] = c)[2])
  <2>1. Sound(u) /\ u.at = "escape" /\ u.stack = q.stack /\ u.isKey = q.isKey
    BY <1>3, EscapeBegins
  <2>2. Runs(u, <<>>, u) /\ <<>> \in Seq(Nat)
    BY RunsNothing
  <2>3. Runs(q, <<Backslash>>, u)
    BY <1>1, <2>2, RunsByte
  <2> HIDE DEF u
  <2>4. StepOn(u, c) = Collect(u, "string", lex)
    <3>1. \E d \in Escapes : d[1] = c
      OBVIOUS
    <3> HIDE DEF c
    <3> QED
      BY <1>1, <2>1, <3>1 DEF StepOn, Escape
  <2>5. InText(Collect(u, "string", lex), u.stack, u.isKey)
    BY <2>1, TextCollected
  <2> HIDE DEF lex, c
  <2>6. Runs(q, Append(<<Backslash>>, c), StepOn(u, c))
    BY <1>1, <1>2, <2>3, RunsMore
  <2> QED
    BY <1>2, <2>1, <2>4, <2>5, <2>6
<1> QED
  BY <1>2, <1>3 DEF ReadsInside

\* A text of six bytes.
LEMMA RunsSix ==
  ASSUME NEW q, NEW x \in Seq(Nat), Len(x) = 6, NEW a, NEW b, NEW c, NEW d, NEW e, NEW r,
         a = StepOn(q, x[1]), b = StepOn(a, x[2]), c = StepOn(b, x[3]),
         d = StepOn(c, x[4]), e = StepOn(d, x[5]), r = StepOn(e, x[6])
  PROVE  Runs(q, x, r)
<1> DEFINE f == [i \in 0..6 |-> IF i = 0 THEN q ELSE IF i = 1 THEN a ELSE IF i = 2 THEN b
                    ELSE IF i = 3 THEN c ELSE IF i = 4 THEN d ELSE IF i = 5 THEN e ELSE r]
<1>1. f[0] = q /\ f[1] = a /\ f[2] = b /\ f[3] = c /\ f[4] = d /\ f[5] = e /\ f[6] = r
  OBVIOUS
<1> HIDE DEF f
<1>2. ASSUME NEW i \in 1..6 PROVE f[i] = StepOn(f[i - 1], x[i])
  <2>1. i \in {1, 2, 3, 4, 5, 6}
    OBVIOUS
  <2>2. 1 - 1 = 0 /\ 2 - 1 = 1 /\ 3 - 1 = 2 /\ 4 - 1 = 3 /\ 5 - 1 = 4 /\ 6 - 1 = 5
    OBVIOUS
  <2> QED
    BY <1>1, <2>1, <2>2
<1> QED
  BY <1>1, <1>2 DEF Runs

\* A parser that has read k digits of a code unit.
InUnit(u, q, k) ==
  /\ Sound(u) /\ u.at = "unit" /\ u.stack = q.stack /\ u.isKey = q.isKey
  /\ u.unit \in Seq(Int) /\ Len(u.unit) = k

\* One more digit of a code unit.
LEMMA UnitStep ==
  ASSUME NEW u, NEW q, NEW k \in 0..3, InUnit(u, q, k), NEW c \in Nat, HexDigit(c) # -1
  PROVE  /\ k < 3 => InUnit(StepOn(u, c), q, k + 1)
         /\ k = 3 => InText(StepOn(u, c), q.stack, q.isKey)
<1> DEFINE d == HexDigit(c) unit == Append(u.unit, d)
<1>1. unit \in Seq(Int) /\ Len(unit) = k + 1
  <2>1. d \in Int
    <3> DEFINE S == -1..15
    <3>1. d \in S /\ S \subseteq Int
      BY HexDigitRange
    <3> HIDE DEF S, d
    <3> QED
      BY <3>1
  <2> HIDE DEF d
  <2> QED
    BY <2>1, AppendProperties DEF InUnit
<1>2. StepOn(u, c) = Unit(u, c)
  BY DEF StepOn, InUnit
<1> HIDE DEF unit
<1>3. CASE k < 3
  <2> DEFINE v == [u EXCEPT !.unit = unit]
  <2>1. StepOn(u, c) = v
    <3>1. Len(unit) < 4
      BY <1>1, <1>3
    <3>2. Unit(u, c) = IF HexDigit(c) = -1 THEN Failed(u)
                       ELSE IF Len(unit) < 4 THEN [u EXCEPT !.unit = unit]
                       ELSE Collect(u, "string", u.lex \o Utf8(FoldLeft(LAMBDA n, i : 16 * n + i, 0, unit)))
      BY DEF Unit, unit
    <3> HIDE DEF d
    <3> QED
      BY <1>2, <3>1, <3>2
  <2>2. Parser(v, u.at, u.stack, u.lex, unit, u.isKey, u.value)
    BY ParserField DEF InUnit, Sound
  <2> HIDE DEF v
  <2>3. IsParser(v) /\ v.at = u.at /\ v.stack = u.stack /\ v.isKey = u.isKey /\ v.unit = unit
    BY <2>2, ParserParts
  <2> QED
    BY <1>1, <1>3, <2>1, <2>3 DEF InUnit, Sound
<1>4. CASE k = 3
  <2> DEFINE lex == u.lex \o Utf8(FoldLeft(LAMBDA n, i : 16 * n + i, 0, unit))
  <2>1. ~(Len(unit) < 4)
    BY <1>1, <1>4
  <2>2. StepOn(u, c) = Collect(u, "string", lex)
    BY <1>2, <2>1 DEF Unit, unit
  <2> HIDE DEF lex
  <2>3. InText(Collect(u, "string", lex), u.stack, u.isKey)
    BY TextCollected DEF InUnit
  <2> QED
    BY <1>4, <2>2, <2>3 DEF InUnit
<1> QED
  BY <1>3, <1>4

FourDigits(h) == h \in Seq(Nat) /\ Len(h) = 4 /\ \A i \in 1..4 : HexDigit(h[i]) # -1

\* An escape of four hexadecimal digits.
LEMMA UnitReads ==
  ASSUME NEW h, FourDigits(h)
  PROVE  ReadsInside(<<Backslash, 117>> \o h)
<1> DEFINE w == <<Backslash, 117>> x == w \o h
<1>1. Len(w) = 2 /\ w[1] = Backslash /\ w[2] = 117
  BY DEF Backslash
<1>2. w \in Seq(Nat)
  BY DEF Backslash
<1> HIDE DEF w
<1>3. h \in Seq(Nat)
  BY DEF FourDigits
<1>4. Len(h) = 4
  BY DEF FourDigits
<1>5. x \in Seq(Nat) /\ Len(x) = 6 /\ x[1] = Backslash /\ x[2] = 117
      /\ x[3] = h[1] /\ x[4] = h[2] /\ x[5] = h[3] /\ x[6] = h[4]
  <2> DEFINE m == Len(w) n == Len(h)
  <2>0. /\ x \in Seq(Nat) /\ Len(x) = m + n
        /\ \A i \in 1..(m + n) : x[i] = IF i <= m THEN w[i] ELSE h[i - m]
    BY <1>3, <1>2, ConcatProperties
  <2>1. /\ x \in Seq(Nat) /\ Len(x) = 2 + 4
        /\ \A i \in 1..(2 + 4) : x[i] = IF i <= 2 THEN w[i] ELSE h[i - 2]
    <3>1. m = 2 /\ n = 4
      BY <1>4, <1>1
    <3> HIDE DEF m, n, x
    <3> QED
      BY <2>0, <3>1
  <2> HIDE DEF x
  <2>2. x[1] = w[1] /\ x[2] = w[2] /\ x[3] = h[3 - 2] /\ x[4] = h[4 - 2] /\ x[5] = h[5 - 2] /\ x[6] = h[6 - 2]
    BY <2>1
  <2> QED
    BY <1>1, <2>1, <2>2
<1>6. h[1] \in Nat /\ h[2] \in Nat /\ h[3] \in Nat /\ h[4] \in Nat
      /\ HexDigit(h[1]) # -1 /\ HexDigit(h[2]) # -1 /\ HexDigit(h[3]) # -1 /\ HexDigit(h[4]) # -1
  <2>1. \A i \in 1..4 : h[i] \in Nat /\ HexDigit(h[i]) # -1
    <3>1. \A i \in 1..Len(h) : h[i] \in Nat
      BY <1>3
    <3> QED
      BY <1>4, <3>1 DEF FourDigits
  <2>2. 1 \in 1..4 /\ 2 \in 1..4 /\ 3 \in 1..4 /\ 4 \in 1..4
    OBVIOUS
  <2> QED
    BY <2>1, <2>2, Zenon
<1> HIDE DEF x
<1>7. ASSUME NEW q, Sound(q), q.at = "string"
      PROVE  \E r : Runs(q, x, r) /\ InText(r, q.stack, q.isKey)
  <2> DEFINE a == StepOn(q, x[1]) b == StepOn(a, x[2]) c == StepOn(b, x[3])
             d == StepOn(c, x[4]) e == StepOn(d, x[5]) r == StepOn(e, x[6])
  <2>1. Sound(a) /\ a.at = "escape" /\ a.stack = q.stack /\ a.isKey = q.isKey
    BY <1>5, <1>7, EscapeBegins
  <2> HIDE DEF a
  <2>2. InUnit(b, q, 0)
    <3> DEFINE t == <<>> u == [a EXCEPT !.at = "unit", !.unit = t]
    <3>1. b = u
      BY <1>5, <2>1 DEF StepOn, Escape
    <3>2. t \in Seq(Int) /\ Len(t) = 0
      OBVIOUS
    <3> HIDE DEF t
    <3>3. Parser(u, "unit", a.stack, a.lex, t, a.isKey, a.value)
      BY <2>1, ParserMoved, Zenon DEF Sound
    <3> HIDE DEF u, b
    <3>4. IsParser(u) /\ u.at = "unit" /\ u.stack = a.stack /\ u.isKey = a.isKey /\ u.unit = t
      BY <3>3, ParserParts
    <3> QED
      BY <2>1, <3>1, <3>2, <3>4 DEF InUnit, Sound
  <2> HIDE DEF b
  <2>3. InUnit(c, q, 1)
    BY <1>5, <1>6, <2>2, UnitStep
  <2> HIDE DEF c
  <2>4. InUnit(d, q, 2)
    BY <1>5, <1>6, <2>3, UnitStep
  <2> HIDE DEF d
  <2>5. InUnit(e, q, 3)
    BY <1>5, <1>6, <2>4, UnitStep
  <2> HIDE DEF e
  <2>6. InText(r, q.stack, q.isKey)
    BY <1>5, <1>6, <2>5, UnitStep
  <2> HIDE DEF r
  <2>7. Runs(q, x, r)
    BY <1>5, RunsSix DEF a, b, c, d, e, r
  <2> QED
    BY <2>6, <2>7
<1>8. ReadsInside(x)
  BY <1>5, <1>7 DEF ReadsInside
<1> QED
  BY <1>8 DEF x, w

\* The parts that the inside of a string is made of.
LEMMA PieceReads ==
  ASSUME NEW A, IsAlphabet(A), NEW k \in {1, 2, 6}, NEW r \in Pieces(A, k)
  PROVE  ReadsInside(r[1])
<1>1. CASE k = 1
  <2>1. PICK c \in A.inside : c >= 32 /\ c \notin {Quote, Backslash} /\ r = <<<<c>>, <<c>>>>
    BY <1>1 DEF Pieces, Plain
  <2>2. c \in Nat /\ r[1] = <<c>>
    BY <2>1 DEF IsAlphabet
  <2> QED
    BY <2>1, <2>2, PlainReads
<1>2. CASE k = 2
  <2>1. PICK e \in Escapes : r = <<<<Backslash, e[1]>>, <<e[2]>>>>
    BY <1>2 DEF Pieces, Marks
  <2>2. r[1] = <<Backslash, e[1]>>
    BY <2>1
  <2> QED
    BY <2>2, MarkReads
<1>3. CASE k = 6
  <2> DEFINE H == {c \in A.inside : HexDigit(c) # -1}
             S == IF {Backslash, 117} \subseteq A.inside THEN TupleOf(H, 4) ELSE {}
  <2>1. Units(A) = {<<<<Backslash, 117>> \o g, Utf8(HexSum(g))>> : g \in S}
    BY DEF Units, HexSum
  <2>2. r \in Units(A)
    BY <1>3 DEF Pieces
  <2>3. S \subseteq [1..4 -> H] /\ H \subseteq Nat
    BY DEF TupleOf, IsAlphabet
  <2> HIDE DEF S
  <2>4. PICK g \in S : r = <<<<Backslash, 117>> \o g, Utf8(HexSum(g))>>
    BY <2>1, <2>2
  <2>5. g \in Seq(Nat) /\ Len(g) = 4 /\ \A i \in 1..4 : HexDigit(g[i]) # -1
    <3>1. g \in [1..4 -> H] /\ \A i \in 1..4 : g[i] \in H
      BY <2>3
    <3>2. \A i \in 1..4 : HexDigit(g[i]) # -1
      BY <3>1
    <3>3. g \in [1..4 -> Nat]
      BY <2>3, <3>1
    <3>4. g \in Seq(Nat) /\ Len(g) = 4
      <4> DEFINE n == 4
      <4>1. n \in Nat /\ g \in [1..n -> Nat]
        BY <3>3
      <4> HIDE DEF n
      <4>2. g \in Seq(Nat) /\ Len(g) = n
        BY <4>1
      <4> QED
        BY <4>2 DEF n
    <3> QED
      BY <3>2, <3>4
  <2>6. r[1] = <<Backslash, 117>> \o g
    BY <2>4
  <2>7. FourDigits(g)
    BY <2>5 DEF FourDigits
  <2> QED
    BY <2>6, <2>7, UnitReads
<1> QED
  BY <1>1, <1>2, <1>3

\* The insides of strings are read.
LEMMA InsideReads ==
  ASSUME NEW A, IsAlphabet(A), NEW n \in 1..A.most, NEW r \in Insides(A)[n]
  PROVE  ReadsInside(r[1])
<1> DEFINE Good(k) == \A z \in Insides(A)[k] : ReadsInside(z[1])
           T == {k \in 1..A.most : ~Good(k)}
<1> HIDE DEF Good
<1>1. SUFFICES ASSUME T # {} PROVE FALSE
  <2>1. n \notin T
    BY <1>1
  <2> QED
    BY <2>1 DEF Good
<1>2. PICK m \in T : \A k \in T : m <= k
  <2>1. T \subseteq Nat
    OBVIOUS
  <2> HIDE DEF T
  <2> QED
    BY <1>1, <2>1, LeastNatural
<1>3. m \in 1..A.most /\ ~Good(m) /\ A.most \in Nat
  BY DEF IsAlphabet
<1>4. \A k \in 1..(m - 1) : Good(k)
  <2>1. \A k \in 1..(m - 1) : k \in 1..A.most /\ ~(m <= k)
    BY <1>3
  <2> QED
    BY <1>2, <2>1
<1>5. PICK t : /\ \A j \in 1..(m - 1) : t[j] = Insides(A)[j]
               /\ Insides(A)[m] = StringLevel(A, t, m)
  BY <1>3, InsideAt
<1> DEFINE of(k) == IF k < 0 THEN {} ELSE IF k = 0 THEN {<<<<>>, <<>>>>} ELSE t[k]
           put(S, k) == {<<z[1][1] \o z[2][1], z[1][2] \o z[2][2]>> : z \in S \X of(m - k)}
<1>6. StringLevel(A, t, m) = UNION {put(Plain(A), 1), put(Marks(A), 2), put(Units(A), 6)}
  BY DEF StringLevel
<1>7. ASSUME NEW k \in {1, 2, 6}, NEW z \in of(m - k) PROVE ReadsInside(z[1])
  <2>1. CASE m - k = 0
    <3>1. z = <<<<>>, <<>>>>
      BY <1>7, <2>1
    <3>2. z[1] = <<>>
      BY <3>1
    <3> QED
      BY <3>2, InsideJoined
  <2>2. CASE m - k # 0
    <3>1. ~(m - k < 0)
      BY <1>7
    <3>2. m - k \in 1..(m - 1)
      BY <1>3, <2>2, <3>1
    <3>3. z \in Insides(A)[m - k]
      BY <1>5, <1>7, <2>2, <3>1, <3>2
    <3> QED
      BY <1>4, <3>2, <3>3 DEF Good
  <2> QED
    BY <2>1, <2>2
<1> HIDE DEF of
<1>8. ASSUME NEW k \in {1, 2, 6}, NEW z \in put(Pieces(A, k), k) PROVE ReadsInside(z[1])
  <2>1. PICK y \in Pieces(A, k) \X of(m - k) : z = <<y[1][1] \o y[2][1], y[1][2] \o y[2][2]>>
    BY <1>8
  <2>2. y[1] \in Pieces(A, k) /\ y[2] \in of(m - k) /\ z[1] = y[1][1] \o y[2][1]
    BY <2>1
  <2>3. ReadsInside(y[1][1]) /\ ReadsInside(y[2][1])
    BY <1>7, <2>2, PieceReads
  <2> QED
    BY <2>2, <2>3, InsideJoined
<1> HIDE DEF put
<1>9. Pieces(A, 1) = Plain(A) /\ Pieces(A, 2) = Marks(A) /\ Pieces(A, 6) = Units(A)
  BY DEF Pieces
<1>10. \A z \in Insides(A)[m] : ReadsInside(z[1])
  BY <1>5, <1>6, <1>8, <1>9
<1> QED
  BY <1>3, <1>10 DEF Good

\* The quote that begins a string.
LEMMA StringBegun ==
  ASSUME NEW q, Sound(q), NEW isKey
  PROVE  InText([Collect(q, "string", <<>>) EXCEPT !.isKey = isKey], q.stack, isKey)
<1> DEFINE e == <<>> u == Collect(q, "string", e) v == [u EXCEPT !.isKey = isKey]
<1> HIDE DEF e
<1>1. Parser(u, "string", q.stack, e, q.unit, q.isKey, q.value)
  BY ParserMoved, Zenon DEF Sound
<1> HIDE DEF u
<1>2. IsParser(u) /\ u.at = "string" /\ u.stack = q.stack
  BY <1>1, ParserParts
<1>3. Parser(v, u.at, u.stack, u.lex, u.unit, isKey, u.value)
  BY <1>2, ParserField
<1> HIDE DEF v
<1>4. IsParser(v) /\ v.at = u.at /\ v.stack = u.stack /\ v.isKey = isKey
  BY <1>3, ParserParts
<1>5. InText(v, q.stack, isKey)
  BY <1>2, <1>4 DEF InText, Sound
<1> QED
  BY <1>5, Zenon DEF v, u, e

\* The quote that ends a string which is a key.
LEMMA KeyEnds ==
  ASSUME NEW r, Sound(r), r.at = "string", r.isKey = TRUE, r.stack # <<>>
  PROVE  AtColon(StepOn(r, Quote), r.stack)
<1> DEFINE f == [Last(r.stack) EXCEPT !.key = r.lex] t == Append(Front(r.stack), f)
           u == [r EXCEPT !.at = "colon", !.stack = t]
<1>1. StepOn(r, Quote) = u
  BY DEF StepOn, String, EndString
<1>2. "items" \in DOMAIN f <=> "items" \in DOMAIN Last(r.stack)
  OBVIOUS
<1> HIDE DEF f
<1>3. SameCalls(t, r.stack)
  BY <1>2, CallsChanged, Zenon DEF Sound
<1> HIDE DEF t
<1>4. Parser(u, "colon", t, r.lex, r.unit, r.isKey, r.value)
  BY ParserMoved, Zenon DEF Sound
<1> HIDE DEF u
<1>5. IsParser(u) /\ u.at = "colon" /\ u.stack = t
  BY <1>4, ParserParts
<1> QED
  BY <1>1, <1>3, <1>5 DEF AtColon, Sound, SameCalls

\* The quote that ends a string which is a value.
LEMMA TextEnds ==
  ASSUME NEW r, Sound(r), r.at = "string", r.isKey = FALSE
  PROVE  Settled(StepOn(r, Quote), r.stack)
<1>1. StepOn(r, Quote) = Give(r, Text(r.lex))
  BY DEF StepOn, String, EndString
<1>2. SameCalls(r.stack, r.stack)
  BY CallsCompare DEF Sound
<1> QED
  BY <1>1, <1>2, GiveSettles

\* A string in quotes is read as a key and as a value.
LEMMA QuotesRead ==
  ASSUME NEW x, ReadsInside(x)
  PROVE  ReadsKey(<<Quote>> \o x \o <<Quote>>) /\ ReadsValue(<<Quote>> \o x \o <<Quote>>)
<1> DEFINE z == <<Quote>> \o x \o <<Quote>>
<1>1. x \in Seq(Nat) /\ Quote \in Nat
  BY MarksAre DEF ReadsInside
<1>2. z \in Seq(Nat)
  BY <1>1, Bracketed
<1>3. ASSUME NEW q, Sound(q), NEW isKey \in BOOLEAN,
             StepOn(q, Quote) = [Collect(q, "string", <<>>) EXCEPT !.isKey = isKey]
      PROVE  \E r : Runs(q, z, StepOn(r, Quote)) /\ InText(r, q.stack, isKey)
  <2> DEFINE u == StepOn(q, Quote) y == <<Quote>> \o x
  <2>1. InText(u, q.stack, isKey)
    BY <1>3, StringBegun
  <2> HIDE DEF u
  <2>2. Sound(u) /\ u.at = "string" /\ u.stack = q.stack /\ u.isKey = isKey
    BY <2>1 DEF InText
  <2>3. PICK r : Runs(u, x, r) /\ InText(r, u.stack, u.isKey)
    BY <2>2 DEF ReadsInside
  <2>4. Runs(q, y, r)
    BY <1>1, <2>3, RunsByte DEF u
  <2>5. y \in Seq(Nat)
    BY <1>1, Lengthened
  <2> HIDE DEF y
  <2>6. y \o <<Quote>> = Append(y, Quote)
    BY <1>1, <2>5, AppendIsConcat
  <2>7. Runs(q, y \o <<Quote>>, StepOn(r, Quote))
    BY <1>1, <2>4, <2>5, <2>6, RunsMore
  <2> QED
    BY <2>2, <2>3, <2>7 DEF y
<1> HIDE DEF z
<1>4. ASSUME NEW q, AtKey(q)
      PROVE  \E r : Runs(q, z, r) /\ AtColon(r, q.stack)
  <2>1. StepOn(q, Quote) = [Collect(q, "string", <<>>) EXCEPT !.isKey = TRUE]
    <3>1. StepOn(q, Quote) = Structure(q, Quote)
      BY <1>4 DEF StepOn, AtKey
    <3>2. Quote \notin Blank /\ Quote # RBrace
      BY MarksApart DEF Quote, RBrace
    <3>3. Closer(q) = RBrace
      BY <1>4 DEF Closer, AtKey
    <3>4. Structure(q, Quote) = Key(q, Quote)
      BY <1>4, <3>2, <3>3 DEF Structure, AtKey
    <3> QED
      BY <3>1, <3>4 DEF Key
  <2>2. PICK r : Runs(q, z, StepOn(r, Quote)) /\ InText(r, q.stack, TRUE)
    BY <1>3, <1>4, <2>1 DEF AtKey
  <2>3. AtColon(StepOn(r, Quote), q.stack)
    BY <1>4, <2>2, KeyEnds DEF InText, AtKey
  <2> QED
    BY <2>2, <2>3
<1>5. ASSUME NEW q, AtValue(q)
      PROVE  \E r : Runs(q, z, r) /\ Behind(r, q.stack)
  <2>1. StepOn(q, Quote) = [Collect(q, "string", <<>>) EXCEPT !.isKey = FALSE]
    <3>1. Quote \notin Blank /\ Quote # RBracket
      BY MarksApart DEF Quote, RBracket
    <3> QED
      BY <1>5, <3>1, ValueStarts DEF Value
  <2>2. PICK r : Runs(q, z, StepOn(r, Quote)) /\ InText(r, q.stack, FALSE)
    BY <1>3, <1>5, <2>1 DEF AtValue
  <2>3. Settled(StepOn(r, Quote), q.stack)
    BY <2>2, TextEnds DEF InText
  <2> QED
    BY <2>2, <2>3 DEF Behind
<1>6. ReadsKey(z) /\ ReadsValue(z)
  BY <1>2, <1>4, <1>5 DEF ReadsKey, ReadsValue
<1> QED
  BY <1>6 DEF z

\* The strings of the grammar are read as keys and as values.
LEMMA QuotedReads ==
  ASSUME NEW A, IsAlphabet(A), NEW n \in 1..A.most, NEW r \in Quoted(A)[n]
  PROVE  ReadsKey(r[1]) /\ ReadsValue(r[1])
<1> DEFINE T(j) == {<<<<Quote>> \o s[1] \o <<Quote>>, s[2]>> :
              s \in IF {Quote} \cap A.outside \cap A.inside = {} THEN {}
                    ELSE IF j = 2 THEN {<<<<>>, <<>>>>} ELSE At(Insides(A), j - 2)}
<1>1. Quoted(A) = [j \in 1..A.most |-> T(j)]
  BY DEF Quoted, Insides
<1>2. r \in T(n)
  <2> HIDE DEF T
  <2> QED
    BY <1>1
<1>3. PICK s \in IF n = 2 THEN {<<<<>>, <<>>>>} ELSE At(Insides(A), n - 2) :
        r = <<<<Quote>> \o s[1] \o <<Quote>>, s[2]>>
  BY <1>2
<1>4. ReadsInside(s[1])
  <2>1. CASE n = 2
    <3>1. s = <<<<>>, <<>>>>
      BY <2>1
    <3>2. s[1] = <<>>
      BY <3>1
    <3> QED
      BY <3>2, InsideJoined
  <2>2. CASE n # 2
    <3>1. n - 2 \in DOMAIN Insides(A) /\ s \in Insides(A)[n - 2]
      BY <2>2 DEF At
    <3>2. DOMAIN Insides(A) = 1..A.most
      BY InsideAt DEF IsAlphabet
    <3> QED
      BY <3>1, <3>2, InsideReads
  <2> QED
    BY <2>1, <2>2
<1>5. r[1] = <<Quote>> \o s[1] \o <<Quote>>
  BY <1>3
<1> QED
  BY <1>4, <1>5, QuotesRead

-----------------------------------------------------------------------------
(***************************************************************************)
(* Numbers: parse_number collects them byte by byte (Accrues).             *)
(***************************************************************************)

\* A text that parse_number collects byte by byte.
Accrues(x) ==
  /\ x \in Seq(Nat) /\ x # <<>> /\ (x[1] = Minus \/ x[1] \in Digit)
  /\ \A i \in 1..(Len(x) - 1) : Continues(SubSeq(x, 1, i), x[i + 1])

\* The first byte of a number.
LEMMA AccruesFirst ==
  ASSUME NEW c, c = Minus \/ c \in Digit
  PROVE  Accrues(<<c>>)
<1> DEFINE x == <<c>>
<1>1. c \in Nat
  BY DEF Minus, Digit
<1>2. x \in Seq(Nat) /\ x # <<>> /\ x[1] = c /\ Len(x) = 1
  BY <1>1
<1> HIDE DEF x
<1>3. Accrues(x)
  BY <1>2 DEF Accrues
<1> QED
  BY <1>3 DEF x

\* The first bytes of a text are those of a text that it begins with.
LEMMA PrefixKept ==
  ASSUME NEW x \in Seq(Nat), NEW s \in Seq(Nat), NEW i \in 1..Len(x)
  PROVE  SubSeq(x \o s, 1, i) = SubSeq(x, 1, i) /\ (x \o s)[i] = x[i]
<1> DEFINE m == Len(x) n == Len(s) z == x \o s u == SubSeq(z, 1, i) v == SubSeq(x, 1, i)
<1>1. /\ z \in Seq(Nat) /\ Len(z) = m + n /\ m \in Nat /\ n \in Nat
      /\ \A j \in 1..(m + n) : z[j] = IF j <= m THEN x[j] ELSE s[j - m]
  BY ConcatProperties
<1> HIDE DEF z
<1>2. ASSUME NEW y \in Seq(Nat), i <= Len(y)
      PROVE  SubSeq(y, 1, i) \in Seq(Nat) /\ Len(SubSeq(y, 1, i)) = i /\ \A j \in 1..i : SubSeq(y, 1, i)[j] = y[j]
  <2>1. 1 \in Int /\ i \in Int /\ \A j \in 1..i : y[j] \in Nat
    BY <1>2
  <2>2. /\ SubSeq(y, 1, i) \in Seq(Nat) /\ Len(SubSeq(y, 1, i)) = IF 1 <= i THEN i - 1 + 1 ELSE 0
        /\ \A j \in 1..(i - 1 + 1) : SubSeq(y, 1, i)[j] = y[1 + j - 1]
    BY <2>1, SubSeqProperties, SMTT(60)
  <2> DEFINE w == SubSeq(y, 1, i)
  <2>3. /\ w \in Seq(Nat) /\ Len(w) = IF 1 <= i THEN i - 1 + 1 ELSE 0
        /\ \A j \in 1..(i - 1 + 1) : w[j] = y[1 + j - 1]
    BY <2>2
  <2> HIDE DEF w
  <2>4. i - 1 + 1 = i /\ 1 <= i /\ \A j \in 1..i : 1 + j - 1 = j
    OBVIOUS
  <2>5. Len(w) = i /\ \A j \in 1..i : w[j] = y[j]
    BY <2>3, <2>4
  <2> QED
    BY <2>3, <2>5 DEF w
<1>3. i <= Len(x) /\ i <= Len(z) /\ \A j \in 1..i : z[j] = x[j]
  <2>1. i \in 1..m
    OBVIOUS
  <2> HIDE DEF m, n
  <2>2. i <= m /\ i <= m + n /\ \A j \in 1..i : j \in 1..(m + n) /\ j <= m
    BY <1>1, <2>1
  <2> QED
    BY <1>1, <2>2 DEF m
<1>4. /\ u \in Seq(Nat) /\ Len(u) = i /\ \A j \in 1..i : u[j] = z[j]
      /\ v \in Seq(Nat) /\ Len(v) = i /\ \A j \in 1..i : v[j] = x[j]
  BY <1>1, <1>2, <1>3
<1> HIDE DEF u, v
<1>5. \A j \in 1..i : u[j] = v[j]
  BY <1>3, <1>4
<1>6. u = v
  BY <1>4, <1>5, SeqEqual
<1>7. z[i] = x[i]
  <2>1. i \in 1..i
    OBVIOUS
  <2> QED
    BY <1>3, <2>1
<1> QED
  BY <1>6, <1>7 DEF u, v, z

\* One more byte that parse_number takes.
LEMMA AccruesMore ==
  ASSUME NEW x, Accrues(x), NEW c \in Nat, Continues(x, c)
  PROVE  Accrues(x \o <<c>>)
<1> DEFINE w == <<c>> z == x \o w n == Len(x)
<1>1. x \in Seq(Nat) /\ x # <<>> /\ n \in Nat \ {0}
  BY EmptySeq DEF Accrues
<1>2. w \in Seq(Nat) /\ z = Append(x, c)
  BY <1>1, AppendIsConcat
<1>3. z \in Seq(Nat) /\ Len(z) = n + 1 /\ z[n + 1] = c
  BY <1>1, <1>2, AppendProperties
<1> HIDE DEF w
<1>4. \A i \in 1..n : SubSeq(z, 1, i) = SubSeq(x, 1, i) /\ z[i] = x[i]
  BY <1>1, <1>2, PrefixKept
<1> HIDE DEF z
<1>5. SubSeq(x, 1, n) = x
  BY <1>1, SubSeqFull
<1> HIDE DEF n
<1>6. ASSUME NEW i \in 1..n PROVE Continues(SubSeq(z, 1, i), z[i + 1])
  <2>1. CASE i = n
    BY <1>3, <1>4, <1>5, <2>1
  <2>2. CASE i # n
    <3>1. i \in 1..(n - 1) /\ i + 1 \in 1..n
      BY <1>1, <2>2
    <3>2. Continues(SubSeq(x, 1, i), x[i + 1])
      BY <3>1 DEF Accrues, n
    <3> QED
      BY <1>4, <3>1, <3>2
  <2> QED
    BY <2>1, <2>2
<1>7. Len(z) - 1 = n /\ z # <<>> /\ z[1] = x[1]
  <2>1. 1 \in 1..n /\ (n + 1) - 1 = n
    BY <1>1
  <2> QED
    BY <1>1, <1>3, <1>4, <2>1, EmptySeq
<1>8. Accrues(z)
  BY <1>3, <1>6, <1>7 DEF Accrues
<1> QED
  BY <1>8 DEF z, w

\* Digits, at the start of a number or behind one that has begun.
LEMMA AccruesDigits ==
  ASSUME NEW x, x = <<>> \/ Accrues(x), NEW s \in Seq(Digit), s # <<>>
  PROVE  Accrues(x \o s) /\ Last(x \o s) \in Digit
<1> DEFINE z == x \o s m == Len(x) n == Len(s)
<1>1. x \in Seq(Nat) /\ m \in Nat /\ (m = 0 <=> x = <<>>)
  <2>1. CASE x = <<>>
    BY <2>1
  <2>2. CASE Accrues(x)
    <3>1. x \in Seq(Nat)
      BY <2>2 DEF Accrues
    <3> QED
      BY <3>1, EmptySeq
  <2> QED
    BY <2>1, <2>2
<1>2. s \in Seq(Nat) /\ n \in Nat \ {0} /\ \A i \in 1..n : s[i] \in Digit
  <2>1. Digit \subseteq Nat
    BY DEF Digit
  <2>2. s \in Seq(Nat)
    BY <2>1, SeqMonotonic
  <2>3. \A i \in 1..n : s[i] \in Digit
    OBVIOUS
  <2> QED
    BY <2>2, <2>3, EmptySeq
<1>3. /\ z \in Seq(Nat) /\ Len(z) = m + n
      /\ \A i \in 1..(m + n) : z[i] = IF i <= m THEN x[i] ELSE s[i - m]
  BY <1>1, <1>2, ConcatProperties
<1>4. \A i \in 1..m : SubSeq(z, 1, i) = SubSeq(x, 1, i) /\ z[i] = x[i]
  BY <1>1, <1>2, PrefixKept
<1> HIDE DEF z, m, n
<1>5. ASSUME NEW i \in 1..(m + n), i > m PROVE z[i] \in Digit
  <2>1. ~(i <= m) /\ i - m \in 1..n
    BY <1>1, <1>2, <1>5
  <2> QED
    BY <1>2, <1>3, <2>1
<1>6. ASSUME NEW i \in 1..(m + n - 1) PROVE Continues(SubSeq(z, 1, i), z[i + 1])
  <2>1. CASE i + 1 <= m
    <3>1. i \in 1..(m - 1) /\ i + 1 \in 1..m /\ i \in 1..m /\ x # <<>>
      BY <1>1, <2>1
    <3>2. Continues(SubSeq(x, 1, i), x[i + 1])
      BY <3>1 DEF Accrues, m
    <3> QED
      BY <1>4, <3>1, <3>2
  <2>2. CASE ~(i + 1 <= m)
    <3>1. i + 1 \in 1..(m + n) /\ i + 1 > m
      BY <1>1, <1>2, <2>2
    <3>2. z[i + 1] \in Digit
      BY <1>5, <3>1
    <3> QED
      BY <3>2 DEF Continues
  <2> QED
    BY <2>1, <2>2
<1>7. z # <<>> /\ (z[1] = Minus \/ z[1] \in Digit)
  <2>1. m + n # 0 /\ 1 \in 1..(m + n)
    BY <1>1, <1>2
  <2>2. CASE m = 0
    BY <1>3, <1>5, <2>1, <2>2, EmptySeq
  <2>3. CASE m # 0
    <3>1. 1 \in 1..m /\ x # <<>>
      BY <1>1, <2>3
    <3> QED
      BY <1>3, <1>4, <2>1, <3>1, EmptySeq DEF Accrues
  <2> QED
    BY <2>2, <2>3
<1>8. Last(z) \in Digit
  <2>1. m + n \in 1..(m + n) /\ m + n > m
    BY <1>1, <1>2
  <2> QED
    BY <1>3, <1>5, <2>1 DEF Last
<1>9. Accrues(z)
  <2>1. Len(z) - 1 = m + n - 1
    BY <1>1, <1>2, <1>3
  <2> QED
    BY <1>3, <1>6, <1>7, <2>1 DEF Accrues
<1> QED
  BY <1>8, <1>9 DEF z

\* A number that has been collected in full.
LEMMA NumberCollected ==
  ASSUME NEW x, Accrues(x), Readable(x)
  PROVE  ReadsValue(x)
<1> DEFINE n == Len(x)
<1>1. x \in Seq(Nat) /\ x # <<>> /\ n \in Nat \ {0}
  BY EmptySeq DEF Accrues
<1>2. ASSUME NEW q, AtValue(q)
      PROVE  \E r : Runs(q, x, r) /\ Behind(r, q.stack)
  <2> DEFINE mid(i) == Collect(q, "number", SubSeq(x, 1, i))
             f == [i \in 0..n |-> IF i = 0 THEN q ELSE mid(i)]
  <2>1. ASSUME NEW i \in Nat
        PROVE  /\ Sound(mid(i)) /\ mid(i).at = "number" /\ mid(i).stack = q.stack /\ mid(i).lex = SubSeq(x, 1, i)
               /\ \A lex : Collect(mid(i), "number", lex) = Collect(q, "number", lex)
    <3> DEFINE s == SubSeq(x, 1, i) u == mid(i)
    <3>1. \A lex : Collect(u, "number", lex) = Collect(q, "number", lex)
      BY Zenon DEF Collect, AtValue, Sound, IsParser
    <3> HIDE DEF s
    <3>2. u = Collect(q, "number", s)
      BY DEF s
    <3> HIDE DEF u
    <3>3. Parser(u, "number", q.stack, s, q.unit, q.isKey, q.value)
      BY <1>2, <3>2, ParserMoved, Zenon DEF AtValue, Sound
    <3>4. IsParser(u) /\ u.at = "number" /\ u.stack = q.stack /\ u.lex = s
      BY <3>3, ParserParts
    <3> QED
      BY <1>2, <3>1, <3>4 DEF u, s, AtValue, Sound
  <2>2. StepOn(q, x[1]) = mid(1)
    <3> DEFINE c == x[1]
    <3>1. c = Minus \/ c \in Digit
      BY DEF Accrues
    <3>2. c \in Nat /\ c \notin Blank /\ c # RBracket /\ c # Quote /\ c # LBracket /\ c # LBrace
      BY <3>1 DEF Blank, Digit, Quote, LBracket, LBrace, Minus, RBracket
    <3>3. <<c>> = SubSeq(x, 1, 1)
      <4> DEFINE s == SubSeq(x, 1, 1) t == <<c>>
      <4>1. s \in Seq(Nat) /\ Len(s) = 1 /\ s[1] = x[1]
        BY <1>1
      <4>2. t \in Seq(Nat) /\ Len(t) = 1 /\ t[1] = c
        BY <3>2
      <4> HIDE DEF s, t
      <4>3. s = t
        BY <4>1, <4>2, SeqEqual
      <4> QED
        BY <4>3 DEF s, t
    <3> HIDE DEF c
    <3>4. StepOn(q, c) = Collect(q, "number", <<c>>)
      BY <1>2, <3>1, <3>2, ValueStarts DEF Value
    <3> QED
      BY <3>3, <3>4 DEF c
  <2> HIDE DEF mid
  <2>3. ASSUME NEW i \in 1..(n - 1)
        PROVE  StepOn(mid(i), x[i + 1]) = mid(i + 1)
    <3> DEFINE u == mid(i) c == x[i + 1]
    <3>1. i \in Nat /\ i < n
      BY <1>1
    <3>2. Append(SubSeq(x, 1, i), c) = SubSeq(x, 1, i + 1)
      BY <1>1, <3>1, PrefixGrows
    <3>3. Continues(SubSeq(x, 1, i), c)
      BY DEF Accrues
    <3>4. /\ u.at = "number" /\ u.lex = SubSeq(x, 1, i)
          /\ \A lex : Collect(u, "number", lex) = Collect(q, "number", lex)
      BY <2>1, <3>1
    <3> HIDE DEF u, c
    <3>5. StepOn(u, c) = Collect(u, "number", Append(u.lex, c))
      BY <3>3, <3>4 DEF StepOn, InNumber
    <3> QED
      BY <3>2, <3>4, <3>5 DEF u, c, mid
  <2>4. f[0] = q /\ f[n] = mid(n)
    <3> HIDE DEF n
    <3>1. n \in 0..n /\ 0 \in 0..n /\ n # 0
      BY <1>1
    <3> QED
      BY <3>1
  <2>5. \A i \in 1..n : f[i] = StepOn(f[i - 1], x[i])
    <3> SUFFICES ASSUME NEW i \in 1..n PROVE f[i] = StepOn(f[i - 1], x[i])
      OBVIOUS
    <3> HIDE DEF n
    <3>1. i \in 0..n /\ i - 1 \in 0..n /\ (i - 1) + 1 = i /\ i # 0
      BY <1>1
    <3>2. CASE i = 1
      <4>1. f[1] = mid(1) /\ f[i - 1] = q
        BY <3>1, <3>2
      <4> QED
        BY <2>2, <3>2, <4>1
    <3>3. CASE i # 1
      <4>1. i - 1 \in 1..(n - 1) /\ i - 1 # 0
        BY <1>1, <3>1, <3>3
      <4>2. f[i - 1] = mid(i - 1) /\ f[i] = mid(i)
        BY <3>1, <4>1
      <4>3. StepOn(mid(i - 1), x[i]) = mid(i)
        BY <2>3, <3>1, <4>1
      <4> HIDE DEF f
      <4> QED
        BY <4>2, <4>3
    <3> QED
      BY <3>2, <3>3
  <2> HIDE DEF f
  <2> DEFINE last == mid(n)
  <2>6. Runs(q, x, last)
    BY <2>4, <2>5 DEF Runs
  <2>7. Sound(last) /\ last.at = "number" /\ last.stack = q.stack /\ last.lex = x
    <3>1. SubSeq(x, 1, n) = x /\ n \in Nat
      BY <1>1, SubSeqFull
    <3> QED
      BY <2>1, <3>1
  <2> HIDE DEF last
  <2>8. SameCalls(q.stack, q.stack)
    BY <1>2, CallsCompare DEF AtValue, Sound
  <2>9. Behind(last, q.stack)
    BY <1>1, <2>7, <2>8 DEF Behind
  <2> QED
    BY <2>6, <2>9
<1> QED
  BY <1>1, <1>2 DEF ReadsValue

\* Behind the first byte of a kind lies the last byte of the text, if it is of another kind.
LEMMA LastAfter ==
  ASSUME NEW x \in Seq(Nat), x # <<>>, NEW B, Has(x, B), Last(x) \notin B, NEW D, Last(x) \in D
  PROVE  Has(After(x, B), D)
<1> DEFINE n == Len(x)
<1>1. n \in Nat \ {0} /\ DOMAIN x = 1..n
  BY EmptySeq
<1>2. PICK i \in 1..n : x[i] \in B /\ UpTo(x, B) = SubSeq(x, 1, i - 1)
  BY <1>1, UpToBefore
<1>3. i # n /\ i < n
  <2>1. x[i] # x[n]
    BY <1>2 DEF Last
  <2> HIDE DEF n
  <2>2. i # n
    BY <2>1
  <2> QED
    BY <1>1, <1>2, <2>2
<1>4. Len(SubSeq(x, 1, i - 1)) = i - 1
  BY <1>1, <1>2
<1> DEFINE f == i + 1 y == SubSeq(x, f, n) k == n - f + 1
<1>5. After(x, B) = y
  <2>1. (i - 1) + 2 = i + 1
    BY <1>3
  <2> QED
    BY <1>2, <1>4, <2>1 DEF After
<1>6. f \in Int /\ n \in Int /\ f >= 1 /\ f <= n /\ k \in Nat \ {0} /\ f + k - 1 = n /\ k \in 1..k
  <2> HIDE DEF n
  <2> QED
    BY <1>1, <1>2, <1>3
<1>7. \A j \in f..n : x[j] \in Nat
  <2>1. f..n \subseteq 1..n
    BY <1>6
  <2>2. \A j \in 1..n : x[j] \in Nat
    OBVIOUS
  <2> HIDE DEF f, n
  <2> QED
    BY <2>1, <2>2
<1> HIDE DEF f, n
<1>8. /\ y \in Seq(Nat) /\ Len(y) = (IF f <= n THEN n - f + 1 ELSE 0)
      /\ \A j \in 1..(n - f + 1) : y[j] = x[f + j - 1]
  BY <1>6, <1>7, SubSeqProperties
<1> HIDE DEF y
<1>9. DOMAIN y = 1..k /\ y[k] = x[n]
  <2>1. Len(y) = k
    BY <1>6, <1>8
  <2>2. y[k] = x[f + k - 1]
    BY <1>6, <1>8
  <2> QED
    BY <1>6, <1>8, <2>1, <2>2
<1>10. k \in DOMAIN y /\ y[k] \in D
  BY <1>6, <1>9 DEF Last, n
<1> QED
  BY <1>5, <1>10 DEF Has

\* A text of two sets is one of the first and one of the second.
LEMMA BothParts ==
  ASSUME NEW S, NEW T, NEW x \in Both(S, T)
  PROVE  \E y \in S, z \in T : x = y \o z
<1>1. PICK w \in S \X T : x = w[1] \o w[2]
  BY DEF Both
<1>2. w[1] \in S /\ w[2] \in T
  OBVIOUS
<1> QED
  BY <1>1, <1>2

\* Digits of a grammar's number.
LEMMA DigitsGiven ==
  ASSUME NEW A, NEW n \in Nat, n # 0, NEW s \in DigitTexts(A, n)
  PROVE  s \in Seq(Digit) /\ s # <<>>
<1>1. s \in [1..n -> Digit]
  BY DEF DigitTexts, TupleOf
<1>2. s \in Seq(Digit) /\ Len(s) = n
  BY <1>1
<1> QED
  BY <1>2, EmptySeq

\* Digits have no byte that is not a digit.
LEMMA DigitsOnly ==
  ASSUME NEW s \in Seq(Digit), NEW B, B \cap Digit = {}
  PROVE  s \in Seq(Nat) /\ ~Has(s, B)
<1>1. Digit \subseteq Nat
  BY DEF Digit
<1>2. s \in Seq(Nat)
  BY <1>1, SeqMonotonic
<1>3. \A i \in DOMAIN s : s[i] \in Digit
  OBVIOUS
<1> QED
  BY <1>2, <1>3 DEF Has

\* The fraction of a number of the grammar.
LEMMA FractionParts ==
  ASSUME NEW A, NEW n \in Nat, NEW c \in Fraction(A, TRUE, n)
  PROVE  c = <<>> \/ \E s \in Seq(Digit) : s # <<>> /\ c = <<Dot>> \o s
<1>1. CASE n = 0
  BY <1>1 DEF Fraction
<1>2. CASE n # 0
  <2>1. c \in Both(One(A, {Dot}), IF n = 1 THEN {} ELSE DigitTexts(A, n - 1))
    BY <1>2 DEF Fraction
  <2>2. PICK y \in One(A, {Dot}), s \in IF n = 1 THEN {} ELSE DigitTexts(A, n - 1) : c = y \o s
    BY <2>1, BothParts
  <2>3. n # 1 /\ s \in DigitTexts(A, n - 1)
    BY <2>2
  <2>4. n - 1 \in Nat /\ n - 1 # 0
    BY <1>2, <2>3
  <2>5. s \in Seq(Digit) /\ s # <<>>
    BY <2>3, <2>4, DigitsGiven
  <2>6. y = <<Dot>>
    BY <2>2 DEF One
  <2> QED
    BY <2>2, <2>5, <2>6
<1> QED
  BY <1>1, <1>2

\* Nothing, or a mark, a sign that may be missing, and digits.
IsExponent(d) ==
  \/ d = <<>>
  \/ \E s \in Seq(Digit), m \in ExponentMark :
       s # <<>> /\ (d = <<m>> \o s \/ \E g \in {Plus, Minus} : d = (<<m>> \o <<g>>) \o s)

\* The exponent of a number of the grammar.
LEMMA ExponentParts ==
  ASSUME NEW A, NEW n \in Nat, NEW d \in Exponent(A, n)
  PROVE  IsExponent(d)
<1> DEFINE marks == One(A, ExponentMark)
           signs == One(A, {Plus, Minus})
           near == IF n = 1 THEN {} ELSE DigitTexts(A, n - 1)
           far == IF n < 3 THEN {} ELSE DigitTexts(A, n - 2)
<1>1. CASE n = 0
  BY <1>1 DEF Exponent, IsExponent
<1>2. CASE n # 0 /\ d \in Both(marks, near)
  <2>1. PICK y \in marks, s \in near : d = y \o s
    BY <1>2, BothParts
  <2>2. n # 1 /\ s \in DigitTexts(A, n - 1)
    BY <2>1
  <2>3. n - 1 \in Nat /\ n - 1 # 0
    BY <1>2, <2>2
  <2>4. s \in Seq(Digit) /\ s # <<>>
    BY <2>2, <2>3, DigitsGiven
  <2>5. PICK m \in ExponentMark : y = <<m>>
    BY <2>1 DEF One
  <2> QED
    BY <2>1, <2>4, <2>5 DEF IsExponent
<1>3. CASE n # 0 /\ d \in Both(Both(marks, signs), far)
  <2>1. PICK y \in Both(marks, signs), s \in far : d = y \o s
    BY <1>3, BothParts
  <2>2. ~(n < 3) /\ s \in DigitTexts(A, n - 2)
    BY <2>1
  <2>3. n - 2 \in Nat /\ n - 2 # 0
    BY <2>2
  <2>4. s \in Seq(Digit) /\ s # <<>>
    BY <2>2, <2>3, DigitsGiven
  <2>5. PICK u \in marks, v \in signs : y = u \o v
    BY <2>1, BothParts
  <2>6. PICK m \in ExponentMark : u = <<m>>
    BY <2>5 DEF One
  <2>7. PICK g \in {Plus, Minus} : v = <<g>>
    BY <2>5 DEF One
  <2>8. d = (<<m>> \o <<g>>) \o s
    BY <2>1, <2>5, <2>6, <2>7
  <2> QED
    BY <2>4, <2>8 DEF IsExponent
<1> QED
  BY <1>1, <1>2, <1>3 DEF Exponent

\* The first part of a number, up to its fraction, is collected.
LEMMA WholeAccrues ==
  ASSUME NEW a, a = <<>> \/ a = <<Minus>>, NEW b \in Seq(Digit), b # <<>>
  PROVE  /\ a \o b \in Seq(Nat) /\ Accrues(a \o b) /\ Last(a \o b) \in Digit
         /\ ~Has(a \o b, {Dot} \cup ExponentMark)
<1> DEFINE B == {Dot} \cup ExponentMark
<1>1. Minus \in Nat /\ Minus \notin B /\ B \cap Digit = {}
  BY DEF Minus, Dot, ExponentMark, Digit
<1> HIDE DEF B
<1>2. a \in Seq(Nat) /\ ~Has(a, B) /\ (a = <<>> \/ Accrues(a))
  <2>1. CASE a = <<>>
    BY <2>1 DEF Has
  <2>2. CASE a = <<Minus>>
    BY <1>1, <2>2, SingleByte, AccruesFirst
  <2> QED
    BY <2>1, <2>2
<1>3. b \in Seq(Nat) /\ ~Has(b, B)
  BY <1>1, DigitsOnly
<1>4. Accrues(a \o b) /\ Last(a \o b) \in Digit
  BY <1>2, AccruesDigits
<1>5. ~Has(a \o b, B)
  BY <1>2, <1>3, HasConcat
<1>6. a \o b \in Seq(Nat)
  BY <1>4 DEF Accrues
<1> QED
  BY <1>4, <1>5, <1>6 DEF B

\* So is a fraction behind it.
LEMMA FractionAccrues ==
  ASSUME NEW x \in Seq(Nat), Accrues(x), Last(x) \in Digit, ~Has(x, {Dot} \cup ExponentMark), NEW c,
         c = <<>> \/ \E s \in Seq(Digit) : s # <<>> /\ c = <<Dot>> \o s
  PROVE  /\ c \in Seq(Nat) /\ x \o c \in Seq(Nat) /\ Accrues(x \o c) /\ Last(x \o c) \in Digit
         /\ ~Has(x \o c, ExponentMark)
<1>1. ~Has(x, ExponentMark)
  BY DEF Has
<1>2. CASE c = <<>>
  <2>1. x \o c = x /\ c \in Seq(Nat)
    BY <1>2
  <2> QED
    BY <1>1, <2>1
<1>3. ASSUME NEW s \in Seq(Digit), s # <<>>, c = <<Dot>> \o s
      PROVE  /\ c \in Seq(Nat) /\ x \o c \in Seq(Nat) /\ Accrues(x \o c) /\ Last(x \o c) \in Digit
             /\ ~Has(x \o c, ExponentMark)
  <2> DEFINE d == <<Dot>>
  <2>1. Dot \in Nat /\ Dot \notin ExponentMark /\ ExponentMark \cap Digit = {}
    BY DEF Dot, ExponentMark, Digit
  <2>2. d \in Seq(Nat) /\ ~Has(d, ExponentMark)
    BY <2>1, SingleByte
  <2>3. s \in Seq(Nat) /\ ~Has(s, ExponentMark)
    BY <2>1, DigitsOnly
  <2>4. Continues(x, Dot)
    BY DEF Continues
  <2>5. Accrues(x \o d)
    BY <2>1, <2>4, AccruesMore
  <2> HIDE DEF d
  <2>6. c = d \o s
    BY <1>3 DEF d
  <2>7. (x \o d) \o s = x \o c
    BY <2>2, <2>3, <2>6, Regrouped
  <2>8. Accrues((x \o d) \o s) /\ Last((x \o d) \o s) \in Digit
    BY <1>3, <2>5, AccruesDigits
  <2>9. c \in Seq(Nat) /\ ~Has(c, ExponentMark)
    BY <2>2, <2>3, <2>6, HasConcat, ConcatProperties
  <2>10. ~Has(x \o c, ExponentMark)
    BY <1>1, <2>9, HasConcat
  <2>11. x \o c \in Seq(Nat)
    BY <2>9, ConcatProperties
  <2> QED
    BY <2>7, <2>8, <2>9, <2>10, <2>11
<1> QED
  BY <1>2, <1>3

\* And an exponent.
LEMMA ExponentAccrues ==
  ASSUME NEW x \in Seq(Nat), Accrues(x), Last(x) \in Digit, ~Has(x, ExponentMark), NEW d,
         IsExponent(d)
  PROVE  d \in Seq(Nat) /\ Accrues(x \o d) /\ Last(x \o d) \in Digit
<1>1. CASE d = <<>>
  <2>1. x \o d = x /\ d \in Seq(Nat)
    BY <1>1
  <2> QED
    BY <2>1
<1>2. ASSUME NEW s \in Seq(Digit), NEW m \in ExponentMark, s # <<>>,
             d = <<m>> \o s \/ \E g \in {Plus, Minus} : d = (<<m>> \o <<g>>) \o s
      PROVE  d \in Seq(Nat) /\ Accrues(x \o d) /\ Last(x \o d) \in Digit
  <2> DEFINE u == <<m>>
  <2>1. m \in Nat
    BY DEF ExponentMark
  <2>2. u \in Seq(Nat)
    BY <2>1
  <2>3. s \in Seq(Nat)
    <3>1. {} \cap Digit = {}
      OBVIOUS
    <3> QED
      BY <3>1, DigitsOnly
  <2>4. Continues(x, m)
    BY DEF Continues
  <2>5. Accrues(x \o u)
    BY <2>1, <2>4, AccruesMore
  <2>6. Last(x \o u) = m
    <3>1. u # <<>> /\ Last(u) = m
      BY <2>1 DEF Last
    <3> HIDE DEF u
    <3> QED
      BY <2>2, <3>1, LastConcat
  <2> HIDE DEF u
  <2>7. x \o u \in Seq(Nat)
    BY <2>2, ConcatProperties
  <2>8. CASE d = u \o s
    <3>1. (x \o u) \o s = x \o d
      BY <2>2, <2>3, <2>8, Regrouped
    <3>2. Accrues((x \o u) \o s) /\ Last((x \o u) \o s) \in Digit
      BY <1>2, <2>5, AccruesDigits
    <3>3. d \in Seq(Nat)
      BY <2>2, <2>3, <2>8, ConcatProperties
    <3> QED
      BY <3>1, <3>2, <3>3
  <2>9. ASSUME NEW g \in {Plus, Minus}, d = (u \o <<g>>) \o s
        PROVE  d \in Seq(Nat) /\ Accrues(x \o d) /\ Last(x \o d) \in Digit
    <3> DEFINE v == <<g>>
    <3>1. g \in Nat
      BY DEF Plus, Minus
    <3>2. v \in Seq(Nat)
      BY <3>1
    <3>3. Continues(x \o u, g)
      BY <2>6 DEF Continues
    <3>4. Accrues((x \o u) \o v)
      BY <2>5, <3>1, <3>3, AccruesMore
    <3> HIDE DEF v
    <3>5. d = (u \o v) \o s
      BY <2>9 DEF v
    <3>6. u \o v \in Seq(Nat) /\ (x \o u) \o v \in Seq(Nat)
      BY <2>2, <2>7, <3>2, ConcatProperties
    <3>7. (x \o u) \o v = x \o (u \o v)
      BY <2>2, <3>2, Regrouped
    <3>8. (x \o (u \o v)) \o s = x \o d
      BY <2>3, <3>5, <3>6, Regrouped
    <3>9. Accrues((x \o (u \o v)) \o s) /\ Last((x \o (u \o v)) \o s) \in Digit
      BY <1>2, <3>4, <3>7, AccruesDigits
    <3>10. d \in Seq(Nat)
      BY <2>3, <3>5, <3>6, ConcatProperties
    <3> QED
      BY <3>8, <3>9, <3>10
  <2>10. d = u \o s \/ \E g \in {Plus, Minus} : d = (u \o <<g>>) \o s
    BY <1>2 DEF u
  <2> QED
    BY <2>8, <2>9, <2>10
<1> QED
  BY <1>1, <1>2 DEF IsExponent

\* Every number of the grammar is read.
LEMMA NumberReads ==
  ASSUME NEW A, NEW n \in Nat, NEW x \in NumberTexts(A, TRUE, n)
  PROVE  ReadsValue(x)
<1> DEFINE parts == {t \in (0..1) \X (0..n) \X (0..n) : t[1] + t[2] + t[3] <= n}
           part(t) == Both(Both(Signs(A, t[1]), Whole(A, TRUE, t[2])),
                           Both(Fraction(A, TRUE, t[3]), Exponent(A, n - t[1] - t[2] - t[3])))
<1>1. x \in UNION {part(t) : t \in parts} /\ Has(UpTo(x, ExponentMark), Digit) /\ InRange(NumberIn(x))
  BY DEF NumberTexts
<1>2. PICK t \in parts : x \in part(t)
  BY <1>1
<1> DEFINE k == n - t[1] - t[2] - t[3]
           signs == Signs(A, t[1])
           wholes == Whole(A, TRUE, t[2])
           fractions == Fraction(A, TRUE, t[3])
           exponents == Exponent(A, k)
           lefts == Both(signs, wholes)
           rights == Both(fractions, exponents)
<1>3. t[1] \in 0..1 /\ t[2] \in Nat /\ t[3] \in Nat /\ k \in Nat
  BY <1>2
<1>4. x \in Both(lefts, rights)
  BY <1>2
<1> HIDE DEF k, lefts, rights
<1>5. PICK y \in lefts, z \in rights : x = y \o z
  BY <1>4, BothParts
<1>6. /\ \A v \in lefts : \E a \in signs, b \in wholes : v = a \o b
      /\ \A v \in rights : \E c \in fractions, d \in exponents : v = c \o d
  <2> HIDE DEF signs, wholes, fractions, exponents
  <2>1. ASSUME NEW v \in lefts PROVE \E a \in signs, b \in wholes : v = a \o b
    <3>1. v \in Both(signs, wholes)
      BY DEF lefts
    <3> QED
      BY <3>1, BothParts
  <2>2. ASSUME NEW v \in rights PROVE \E c \in fractions, d \in exponents : v = c \o d
    <3>1. v \in Both(fractions, exponents)
      BY DEF rights
    <3> QED
      BY <3>1, BothParts
  <2> QED
    BY <2>1, <2>2
<1> HIDE DEF signs, wholes, fractions, exponents
<1>7. PICK a \in signs, b \in wholes : y = a \o b
  BY <1>6
<1>8. PICK c \in fractions, d \in exponents : z = c \o d
  BY <1>6
<1>9. a = <<>> \/ a = <<Minus>>
  BY <1>7 DEF Signs, One, signs
<1>10. b \in Seq(Digit) /\ b # <<>>
  <2>1. t[2] # 0 /\ b \in DigitTexts(A, t[2])
    BY <1>3, <1>7 DEF Whole, wholes
  <2> QED
    BY <1>3, <2>1, DigitsGiven
<1>11. y \in Seq(Nat) /\ Accrues(y) /\ Last(y) \in Digit /\ ~Has(y, {Dot} \cup ExponentMark)
  BY <1>9, <1>10, <1>7, WholeAccrues
<1>12. c = <<>> \/ \E s \in Seq(Digit) : s # <<>> /\ c = <<Dot>> \o s
  BY <1>3, FractionParts DEF fractions
<1> DEFINE w == y \o c
<1>13. c \in Seq(Nat) /\ w \in Seq(Nat) /\ Accrues(w) /\ Last(w) \in Digit /\ ~Has(w, ExponentMark)
  BY <1>11, <1>12, FractionAccrues
<1>14. IsExponent(d)
  BY <1>3, ExponentParts DEF exponents
<1>15. d \in Seq(Nat) /\ Accrues(w \o d) /\ Last(w \o d) \in Digit
  BY <1>13, <1>14, ExponentAccrues
<1>16. x = w \o d
  BY <1>5, <1>11, <1>13, <1>15, <1>8, Regrouped
<1>17. Accrues(x) /\ x \in Seq(Nat) /\ x # <<>> /\ Last(x) \in Digit
  BY <1>15, <1>16 DEF Accrues
<1>18. Has(x, ExponentMark) => Has(After(x, ExponentMark), Digit)
  <2>1. Digit \cap ExponentMark = {}
    BY DEF Digit, ExponentMark
  <2>2. Last(x) \notin ExponentMark
    BY <1>17, <2>1
  <2> QED
    BY <1>17, <2>2, LastAfter
<1>19. Readable(x)
  BY <1>1, <1>18 DEF Readable
<1> QED
  BY <1>17, <1>19, NumberCollected

-----------------------------------------------------------------------------
(***************************************************************************)
(* The levels of the table, and so every document of the grammar.          *)
(***************************************************************************)

\* What a level of the table holds is read as what it is.
LevelReads(L) ==
  /\ \A r \in L.value : ReadsValue(r[1])
  /\ \A r \in L.padded : ReadsValue(r[1])
  /\ \A r \in L.key : ReadsKey(r[1])
  /\ \A r \in L.pair : ReadsMembers(r[1])
  /\ \A r \in L.elements : ReadsElements(r[1])
  /\ \A r \in L.members : ReadsMembers(r[1])

\* The padding of a value that stands alone in brackets is blanks.
LEMMA BlanksAre ==
  ASSUME NEW A, NEW n \in Nat, NEW x \in IF n >= 2 THEN TupleOf(Padding(A), n - 2) ELSE {}
  PROVE  x \in Seq(Blank)
<1>1. n >= 2 /\ x \in TupleOf(Padding(A), n - 2)
  OBVIOUS
<1>2. n - 2 \in Nat /\ Padding(A) \subseteq Blank
  BY <1>1 DEF Padding
<1>3. x \in [1..(n - 2) -> Padding(A)]
  BY <1>1 DEF TupleOf
<1>4. x \in Seq(Padding(A))
  BY <1>2, <1>3
<1> QED
  BY <1>2, <1>4, SeqMonotonic

\* Every value of a level is read, if what is in its brackets is.
LEMMA ValueMade ==
  ASSUME NEW A, IsAlphabet(A), NEW n \in 1..A.most, NEW inner, LevelReads(inner),
         NEW r \in ValueLevel(A, TRUE, Quoted(A), inner, n)
  PROVE  ReadsValue(r[1])
<1> DEFINE blanks == IF n >= 2 THEN TupleOf(Padding(A), n - 2) ELSE {}
           words == {l \in Literals : Len(l[1]) = n /\ \A j \in 1..n : l[1][j] \in A.outside}
           numbers == {<<d, NumberIn(d)>> : d \in NumberTexts(A, TRUE, n)}
           texts == {<<s[1], Text(s[2])>> : s \in Quoted(A)[n]}
           arrays == {<<b, Array(<<>>)>> : b \in blanks} \cup {<<e[1], Array(e[2])>> : e \in inner.elements}
           objects == {<<b, Object(<<>>)>> : b \in blanks} \cup {<<m[1], Object(m[2])>> : m \in inner.members}
<1>1. n \in Nat
  BY DEF IsAlphabet
<1>2. r \in UNION {words, numbers, texts, Wrapped(A, LBracket, RBracket, arrays), Wrapped(A, LBrace, RBrace, objects)}
  BY DEF ValueLevel
<1>3. \A b \in blanks : b \in Seq(Blank)
  BY <1>1, BlanksAre
<1>4. CASE r \in words
  BY <1>4, LiteralReads
<1>5. CASE r \in numbers
  <2>1. PICK d \in NumberTexts(A, TRUE, n) : r = <<d, NumberIn(d)>>
    BY <1>5
  <2>2. r[1] = d
    BY <2>1
  <2> QED
    BY <1>1, <2>2, NumberReads
<1>6. CASE r \in texts
  <2>1. PICK s \in Quoted(A)[n] : r = <<s[1], Text(s[2])>>
    BY <1>6
  <2>2. r[1] = s[1]
    BY <2>1
  <2>3. ReadsValue(s[1])
    BY QuotedReads
  <2> QED
    BY <2>2, <2>3
<1> HIDE DEF blanks
<1>7. ASSUME NEW s \in arrays PROVE ReadsElements(s[1]) \/ s[1] \in Seq(Blank)
  <2>1. CASE s \in {<<b, Array(<<>>)>> : b \in blanks}
    <3>1. PICK b \in blanks : s = <<b, Array(<<>>)>>
      BY <2>1
    <3>2. s[1] = b
      BY <3>1
    <3> QED
      BY <1>3, <3>2
  <2>2. CASE s \in {<<e[1], Array(e[2])>> : e \in inner.elements}
    <3>1. PICK e \in inner.elements : s = <<e[1], Array(e[2])>>
      BY <2>2
    <3>2. s[1] = e[1]
      BY <3>1
    <3> QED
      BY <3>2 DEF LevelReads
  <2> QED
    BY <2>1, <2>2
<1>8. ASSUME NEW s \in objects PROVE ReadsMembers(s[1]) \/ s[1] \in Seq(Blank)
  <2>1. CASE s \in {<<b, Object(<<>>)>> : b \in blanks}
    <3>1. PICK b \in blanks : s = <<b, Object(<<>>)>>
      BY <2>1
    <3>2. s[1] = b
      BY <3>1
    <3> QED
      BY <1>3, <3>2
  <2>2. CASE s \in {<<m[1], Object(m[2])>> : m \in inner.members}
    <3>1. PICK m \in inner.members : s = <<m[1], Object(m[2])>>
      BY <2>2
    <3>2. s[1] = m[1]
      BY <3>1
    <3> QED
      BY <3>2 DEF LevelReads
  <2> QED
    BY <2>1, <2>2
<1> HIDE DEF arrays, objects, words, numbers, texts
<1>9. CASE r \in Wrapped(A, LBracket, RBracket, arrays)
  <2>1. PICK s \in arrays : r = <<<<LBracket>> \o s[1] \o <<RBracket>>, s[2]>>
    BY <1>9 DEF Wrapped
  <2>2. r[1] = <<LBracket>> \o s[1] \o <<RBracket>>
    BY <2>1
  <2> QED
    BY <1>7, <2>2, ArrayReads
<1>10. CASE r \in Wrapped(A, LBrace, RBrace, objects)
  <2>1. PICK s \in objects : r = <<<<LBrace>> \o s[1] \o <<RBrace>>, s[2]>>
    BY <1>10 DEF Wrapped
  <2>2. r[1] = <<LBrace>> \o s[1] \o <<RBrace>>
    BY <2>1
  <2> QED
    BY <1>8, <2>2, ObjectReads
<1> QED
  BY <1>2, <1>4, <1>5, <1>6, <1>9, <1>10

\* So is what has a blank more on one side.
LEMMA PaddedMade ==
  ASSUME NEW A, NEW own, NEW shorter
  PROVE  /\ (\A r \in own \cup shorter : ReadsValue(r[1])) => \A r \in Padded(A, own, shorter) : ReadsValue(r[1])
         /\ (\A r \in own \cup shorter : ReadsKey(r[1])) => \A r \in Padded(A, own, shorter) : ReadsKey(r[1])
<1>1. ASSUME NEW r \in Padded(A, own, shorter)
      PROVE  \/ r \in own
             \/ \E s \in shorter, b \in Blank : r[1] = <<b>> \o s[1] \/ r[1] = Append(s[1], b)
  <2> DEFINE before(b, x) == <<b>> \o x
             left == {<<before(b, s[1]), s[2]>> : b \in Padding(A), s \in shorter}
             right == {<<Append(s[1], b), s[2]>> : b \in Padding(A), s \in shorter}
  <2>1. r \in UNION {own, left, right}
    BY DEF Padded
  <2> HIDE DEF before
  <2>2. CASE r \in left
    <3>1. PICK b \in Padding(A), s \in shorter : r = <<before(b, s[1]), s[2]>>
      BY <2>2
    <3>2. r[1] = before(b, s[1]) /\ b \in Blank
      BY <3>1 DEF Padding
    <3> QED
      BY <3>2 DEF before
  <2>3. CASE r \in right
    <3>1. PICK b \in Padding(A), s \in shorter : r = <<Append(s[1], b), s[2]>>
      BY <2>3
    <3>2. r[1] = Append(s[1], b) /\ b \in Blank
      BY <3>1 DEF Padding
    <3> QED
      BY <3>2
  <2> HIDE DEF left, right
  <2> QED
    BY <2>1, <2>2, <2>3
<1>2. ASSUME \A r \in own \cup shorter : ReadsValue(r[1]), NEW r \in Padded(A, own, shorter)
      PROVE  ReadsValue(r[1])
  <2>1. CASE r \in own
    BY <1>2, <2>1
  <2>2. ASSUME NEW s \in shorter, NEW b \in Blank, r[1] = <<b>> \o s[1] \/ r[1] = Append(s[1], b)
        PROVE  ReadsValue(r[1])
    <3>1. ReadsValue(s[1])
      BY <1>2
    <3>2. ReadsValue(<<b>> \o s[1]) /\ ReadsValue(Append(s[1], b))
      BY <3>1, ValueBlank
    <3> QED
      BY <2>2, <3>2
  <2> QED
    BY <1>1, <2>1, <2>2
<1>3. ASSUME \A r \in own \cup shorter : ReadsKey(r[1]), NEW r \in Padded(A, own, shorter)
      PROVE  ReadsKey(r[1])
  <2>1. CASE r \in own
    BY <1>3, <2>1
  <2>2. ASSUME NEW s \in shorter, NEW b \in Blank, r[1] = <<b>> \o s[1] \/ r[1] = Append(s[1], b)
        PROVE  ReadsKey(r[1])
    <3>1. ReadsKey(s[1])
      BY <1>3
    <3>2. ReadsKey(<<b>> \o s[1]) /\ ReadsKey(Append(s[1], b))
      BY <3>1, KeyBlank
    <3> QED
      BY <2>2, <3>2
  <2> QED
    BY <1>1, <2>1, <2>2
<1> QED
  BY <1>2, <1>3

\* A level is read if those below it are.
LEMMA LevelMade ==
  ASSUME NEW A, IsAlphabet(A), NEW n \in 1..A.most, NEW t, \A k \in DOMAIN t : LevelReads(t[k])
  PROVE  LevelReads(JsonLevel(A, TRUE, Quoted(A), t, n))
<1> DEFINE Q == Quoted(A) before(k) == IF k \in DOMAIN t THEN t[k] ELSE NoLevel
           J == JsonLevel(A, TRUE, Q, t, n)
<1>1. \A r \in Q[n] : ReadsKey(r[1])
  BY QuotedReads
<1>2. ASSUME NEW k PROVE LevelReads(before(k))
  <2>1. LevelReads(NoLevel)
    BY DEF LevelReads, NoLevel
  <2> QED
    BY <2>1
<1> HIDE DEF Q
<1>3. J.value = ValueLevel(A, TRUE, Q, before(n - 2), n)
  BY DEF JsonLevel, NoLevel
<1>4. J.padded = Padded(A, J.value, before(n - 1).padded)
  BY DEF JsonLevel, NoLevel
<1>5. J.key = Padded(A, Q[n], before(n - 1).key)
  BY DEF JsonLevel, NoLevel
<1>6. J.pair = Glued(A, n, Colon, LAMBDA k : before(k).key, LAMBDA k : before(k).padded,
                    LAMBDA key, v : <<key, v>>)
  BY DEF JsonLevel, NoLevel
<1>7. J.elements = {<<e[1], <<e[2]>>>> : e \in J.padded} \cup
       Glued(A, n, Comma, LAMBDA k : before(k).elements, LAMBDA k : before(k).padded, Append)
  BY DEF JsonLevel, NoLevel
<1>8. J.members = {<<q[1], Assigned(<<>>, q[2][1], q[2][2])>> : q \in J.pair} \cup
       Glued(A, n, Comma, LAMBDA k : before(k).members, LAMBDA k : before(k).pair,
             LAMBDA m, q : Assigned(m, q[1], q[2]))
  BY DEF JsonLevel, NoLevel
<1> HIDE DEF before, J
<1>9. \A r \in J.value : ReadsValue(r[1])
  <2>1. ASSUME NEW r \in J.value PROVE ReadsValue(r[1])
    <3> DEFINE inner == before(n - 2)
    <3>1. LevelReads(inner) /\ r \in ValueLevel(A, TRUE, Quoted(A), inner, n)
      BY <1>2, <1>3 DEF Q
    <3> HIDE DEF inner
    <3> QED
      BY <3>1, ValueMade
  <2> QED
    BY <2>1
<1>10. \A r \in J.padded : ReadsValue(r[1])
  <2>1. \A r \in before(n - 1).padded : ReadsValue(r[1])
    BY <1>2 DEF LevelReads
  <2> QED
    BY <1>4, <1>9, <2>1, PaddedMade
<1>11. \A r \in J.key : ReadsKey(r[1])
  <2>1. \A r \in before(n - 1).key : ReadsKey(r[1])
    BY <1>2 DEF LevelReads
  <2> QED
    BY <1>1, <1>5, <2>1, PaddedMade
<1>12. ASSUME NEW r \in J.pair PROVE ReadsMembers(r[1])
  <2> DEFINE part(k) == {<<z[1][1] \o <<Colon>> \o z[2][1], <<z[1][2], z[2][2]>>>> :
                          z \in before(k).key \X before(n - 1 - k).padded}
  <2>1. r \in UNION {part(k) : k \in IF Colon \in A.outside THEN 1..(n - 2) ELSE {}}
    BY <1>6 DEF Glued
  <2>2. PICK k : r \in part(k)
    BY <2>1
  <2>3. PICK z \in before(k).key \X before(n - 1 - k).padded :
          r = <<z[1][1] \o <<Colon>> \o z[2][1], <<z[1][2], z[2][2]>>>>
    BY <2>2
  <2>4. z[1] \in before(k).key /\ z[2] \in before(n - 1 - k).padded /\ r[1] = z[1][1] \o <<Colon>> \o z[2][1]
    BY <2>3
  <2>5. ReadsKey(z[1][1]) /\ ReadsValue(z[2][1])
    BY <1>2, <2>4 DEF LevelReads
  <2>6. ReadsMembers(z[1][1] \o <<Colon>> \o z[2][1])
    BY <2>5, PairReads
  <2> QED
    BY <2>4, <2>6
<1>13. ASSUME NEW r \in J.elements PROVE ReadsElements(r[1])
  <2>1. CASE r \in {<<e[1], <<e[2]>>>> : e \in J.padded}
    <3>1. PICK e \in J.padded : r = <<e[1], <<e[2]>>>>
      BY <2>1
    <3>2. r[1] = e[1]
      BY <3>1
    <3> QED
      BY <1>10, <3>2, ElementsRead
  <2>2. CASE r \notin {<<e[1], <<e[2]>>>> : e \in J.padded}
    <3> DEFINE part(k) == {<<z[1][1] \o <<Comma>> \o z[2][1], Append(z[1][2], z[2][2])>> :
                            z \in before(k).elements \X before(n - 1 - k).padded}
    <3>1. r \in Glued(A, n, Comma, LAMBDA k : before(k).elements, LAMBDA k : before(k).padded, Append)
      BY <1>7, <2>2
    <3>2. r \in UNION {part(k) : k \in IF Comma \in A.outside THEN 1..(n - 2) ELSE {}}
      BY <3>1 DEF Glued
    <3>3. PICK k : r \in part(k)
      BY <3>2
    <3>4. PICK z \in before(k).elements \X before(n - 1 - k).padded :
            r = <<z[1][1] \o <<Comma>> \o z[2][1], Append(z[1][2], z[2][2])>>
      BY <3>3
    <3>5. z[1] \in before(k).elements /\ z[2] \in before(n - 1 - k).padded /\ r[1] = z[1][1] \o <<Comma>> \o z[2][1]
      BY <3>4
    <3>6. ReadsElements(z[1][1]) /\ ReadsValue(z[2][1])
      BY <1>2, <3>5 DEF LevelReads
    <3>7. ReadsElements(z[1][1] \o <<Comma>> \o z[2][1])
      BY <3>6, ElementsRead
    <3> QED
      BY <3>5, <3>7
  <2> QED
    BY <2>1, <2>2
<1>14. ASSUME NEW r \in J.members PROVE ReadsMembers(r[1])
  <2>1. CASE r \in {<<q[1], Assigned(<<>>, q[2][1], q[2][2])>> : q \in J.pair}
    <3>1. PICK q \in J.pair : r = <<q[1], Assigned(<<>>, q[2][1], q[2][2])>>
      BY <2>1
    <3>2. r[1] = q[1]
      BY <3>1
    <3> QED
      BY <1>12, <3>2
  <2>2. CASE r \notin {<<q[1], Assigned(<<>>, q[2][1], q[2][2])>> : q \in J.pair}
    <3> DEFINE part(k) == {<<z[1][1] \o <<Comma>> \o z[2][1], Assigned(z[1][2], z[2][2][1], z[2][2][2])>> :
                            z \in before(k).members \X before(n - 1 - k).pair}
    <3>1. r \in Glued(A, n, Comma, LAMBDA k : before(k).members, LAMBDA k : before(k).pair,
                      LAMBDA m, q : Assigned(m, q[1], q[2]))
      BY <1>8, <2>2
    <3>2. r \in UNION {part(k) : k \in IF Comma \in A.outside THEN 1..(n - 2) ELSE {}}
      BY <3>1 DEF Glued
    <3>3. PICK k : r \in part(k)
      BY <3>2
    <3>4. PICK z \in before(k).members \X before(n - 1 - k).pair :
            r = <<z[1][1] \o <<Comma>> \o z[2][1], Assigned(z[1][2], z[2][2][1], z[2][2][2])>>
      BY <3>3
    <3>5. z[1] \in before(k).members /\ z[2] \in before(n - 1 - k).pair /\ r[1] = z[1][1] \o <<Comma>> \o z[2][1]
      BY <3>4
    <3>6. ReadsMembers(z[1][1]) /\ ReadsMembers(z[2][1])
      BY <1>2, <3>5 DEF LevelReads
    <3>7. ReadsMembers(z[1][1] \o <<Comma>> \o z[2][1])
      BY <3>6, MembersRead
    <3> QED
      BY <3>5, <3>7
  <2> QED
    BY <2>1, <2>2
<1>15. LevelReads(J)
  BY <1>9, <1>10, <1>11, <1>12, <1>13, <1>14 DEF LevelReads
<1> QED
  BY <1>15 DEF J, Q

\* Every document of the grammar is read as a value.
LEMMA DocumentReads ==
  ASSUME NEW A, IsAlphabet(A), NEW r \in Table(A, TRUE)
  PROVE  ReadsValue(r[1])
<1> DEFINE L == Tables(A, TRUE)
<1>1. A.most \in Nat
  BY DEF IsAlphabet
<1>2. ASSUME NEW n \in 1..A.most
      PROVE  \E t : /\ DOMAIN t = 1..(n - 1)
                    /\ \A j \in 1..(n - 1) : t[j] = L[j]
                    /\ L[n] = JsonLevel(A, TRUE, Quoted(A), t, n)
  BY <1>1, LevelAt
<1>3. Table(A, TRUE) = UNION {L[k].padded : k \in 1..A.most}
  BY DEF Table, Tables
<1> HIDE DEF L
<1> DEFINE bad == {k \in 1..A.most : ~LevelReads(L[k])}
<1>4. bad = {}
  <2>1. SUFFICES ASSUME bad # {} PROVE FALSE
    OBVIOUS
  <2>2. bad \subseteq 1..A.most /\ bad \subseteq Nat /\ \A k \in 1..A.most : k \notin bad => LevelReads(L[k])
    <3>1. 1..A.most \subseteq Nat
      OBVIOUS
    <3>2. bad \subseteq 1..A.most
      OBVIOUS
    <3> QED
      BY <3>1, <3>2
  <2>3. PICK n \in bad : \A m \in bad : n <= m
    BY <2>1, <2>2, LeastNatural
  <2>4. n \in 1..A.most /\ ~LevelReads(L[n])
    OBVIOUS
  <2>5. PICK t : /\ DOMAIN t = 1..(n - 1)
                 /\ \A j \in 1..(n - 1) : t[j] = L[j]
                 /\ L[n] = JsonLevel(A, TRUE, Quoted(A), t, n)
    BY <1>2, <2>4
  <2>6. ASSUME NEW k \in DOMAIN t PROVE LevelReads(t[k])
    <3>1. k \in 1..A.most /\ k < n /\ k \in 1..(n - 1)
      BY <1>1, <2>4, <2>5
    <3>2. k \notin bad
      <4> HIDE DEF bad
      <4>1. ~(n <= k)
        BY <1>1, <2>4, <3>1
      <4> QED
        BY <2>3, <4>1
    <3> QED
      BY <2>2, <2>5, <3>1, <3>2
  <2> QED
    BY <2>4, <2>5, <2>6, LevelMade
<1>5. PICK k \in 1..A.most : r \in L[k].padded
  BY <1>3
<1> QED
  BY <1>4, <1>5 DEF LevelReads

-----------------------------------------------------------------------------
(***************************************************************************)
(* The end of a document, and what the reader refuses.                     *)
(***************************************************************************)

\* A text that begins with another one goes on behind it.
LEMMA PrefixSplit ==
  ASSUME NEW x \in Seq(Nat), NEW y \in Prefixes(x)
  PROVE  y \in Seq(Nat) /\ \E z \in Seq(Nat) : x = y \o z
<1>1. PICK l \in 0..Len(x) : y = SubSeq(x, 1, l)
  BY DEF Prefixes
<1> DEFINE n == Len(x) z == SubSeq(x, l + 1, n) w == y \o z k == n - l
<1>2. n \in Nat /\ l \in 0..n /\ \A i \in 1..n : x[i] \in Nat
  OBVIOUS
<1> HIDE DEF n
<1>3. y \in Seq(Nat) /\ Len(y) = l /\ \A j \in 1..l : y[j] = x[j]
  <2>1. 1 \in Int /\ l \in Int /\ \A j \in 1..l : x[j] \in Nat
    BY <1>2
  <2>2. /\ y \in Seq(Nat) /\ Len(y) = IF 1 <= l THEN l - 1 + 1 ELSE 0
        /\ \A j \in 1..(l - 1 + 1) : y[j] = x[1 + j - 1]
    BY <1>1, <2>1, SubSeqProperties
  <2>3. l - 1 + 1 = l /\ (~(1 <= l) => l = 0) /\ \A j \in 1..l : 1 + j - 1 = j
    BY <1>2
  <2> QED
    BY <2>2, <2>3
<1>4. z \in Seq(Nat) /\ Len(z) = k /\ k \in Nat /\ \A j \in 1..k : z[j] = x[l + j]
  <2>1. l + 1 \in Int /\ n \in Int /\ \A j \in (l + 1)..n : x[j] \in Nat
    BY <1>2
  <2>2. /\ z \in Seq(Nat) /\ Len(z) = IF l + 1 <= n THEN n - (l + 1) + 1 ELSE 0
        /\ \A j \in 1..(n - (l + 1) + 1) : z[j] = x[(l + 1) + j - 1]
    BY <2>1, SubSeqProperties
  <2> HIDE DEF z
  <2>3. /\ n - (l + 1) + 1 = k /\ k \in Nat /\ (~(l + 1 <= n) => k = 0)
        /\ \A j \in 1..k : (l + 1) + j - 1 = l + j
    BY <1>2
  <2> HIDE DEF k
  <2> QED
    BY <2>2, <2>3
<1> HIDE DEF z
<1>5. w \in Seq(Nat) /\ Len(w) = l + k /\ \A i \in 1..(l + k) : w[i] = IF i <= l THEN y[i] ELSE z[i - l]
  <2>1. /\ w \in Seq(Nat) /\ Len(w) = Len(y) + Len(z)
        /\ \A i \in 1..Len(y) + Len(z) : w[i] = IF i <= Len(y) THEN y[i] ELSE z[i - Len(y)]
    BY <1>3, <1>4, ConcatProperties
  <2>2. Len(y) = l /\ Len(z) = k
    BY <1>3, <1>4
  <2> HIDE DEF w, k
  <2> QED
    BY <2>1, <2>2
<1>6. Len(w) = n
  BY <1>2, <1>5
<1>7. \A i \in 1..n : w[i] = x[i]
  <2>1. ASSUME NEW i \in 1..n PROVE w[i] = x[i]
    <3> HIDE DEF w
    <3>1. CASE i <= l
      <4>1. i \in 1..l /\ i \in 1..(l + k)
        BY <1>2, <3>1
      <4> QED
        BY <1>3, <1>5, <3>1, <4>1
    <3>2. CASE ~(i <= l)
      <4>1. i - l \in 1..k /\ i \in 1..(l + k) /\ l + (i - l) = i
        BY <1>2, <3>2
      <4> QED
        BY <1>4, <1>5, <3>2, <4>1
    <3> QED
      BY <3>1, <3>2
  <2> QED
    BY <2>1
<1>8. x = w
  <2> HIDE DEF w
  <2> QED
    BY <1>5, <1>6, <1>7, SeqEqual DEF n
<1> QED
  BY <1>3, <1>4, <1>8

\* The document is complete when the reader is behind a value of its own.
LEMMA EndAccepts ==
  ASSUME NEW q, Behind(q, <<>>)
  PROVE  q.at \notin {"failed", "truncated"} /\ AtEnd(q).at = "accepted"
<1> DEFINE none == <<>> r == IF q.at = "number" THEN EndNumber(q) ELSE q
<1>1. Settled(r, none)
  <2>1. CASE Settled(q, none)
    <3>1. q.at # "number"
      BY <2>1 DEF Settled
    <3> QED
      BY <2>1, <3>1
  <2>2. CASE ~Settled(q, none)
    <3>1. Sound(q) /\ SameCalls(q.stack, none) /\ q.at = "number" /\ Readable(q.lex)
      BY <2>2 DEF Behind
    <3>2. r = Give(q, NumberIn(q.lex))
      BY <3>1 DEF EndNumber
    <3> QED
      BY <3>1, <3>2, GiveSettles
  <2> QED
    BY <2>1, <2>2
<1>2. q.at \notin {"failed", "truncated"}
  BY DEF Behind, Settled
<1> HIDE DEF r
<1>3. IsParser(r) /\ r.at = "end"
  BY <1>1 DEF Settled, Sound
<1>4. AtEnd(q) = Goto(r, "accepted")
  BY <1>3 DEF AtEnd, r
<1> DEFINE at == "accepted" s == Goto(r, at)
<1>5. s.at = at
  <2> HIDE DEF at
  <2>1. Parser(s, at, r.stack, r.lex, r.unit, r.isKey, r.value)
    BY <1>3, ParserMoved, Zenon
  <2> HIDE DEF s
  <2> QED
    BY <2>1, ParserParts, Zenon
<1> QED
  BY <1>2, <1>4, <1>5

\* A document is read to its end.
LEMMA DocumentEnds ==
  ASSUME NEW A, IsAlphabet(A), NEW r \in Table(A, TRUE)
  PROVE  /\ r[1] \in Seq(Nat)
         /\ \E s : Runs(Start, r[1], s) /\ s.at \notin {"failed", "truncated"} /\ AtEnd(s).at = "accepted"
<1> DEFINE none == <<>> q == Start
<1>1. Parser(q, "value", none, none, none, FALSE, Null)
  BY DEF Parser, Start
<1>2. none \in Seq(Nat) /\ Len(none) = 0
  OBVIOUS
<1>3. IsStack(none)
  BY <1>2 DEF IsStack
<1>4. q.stack = none
  BY DEF Start
<1> HIDE DEF none, q
<1>5. IsParser(q) /\ q.at = "value"
  BY <1>1, ParserParts
<1>6. AtValue(q)
  BY <1>3, <1>4, <1>5 DEF AtValue, Sound
<1>7. r[1] \in Seq(Nat) /\ \E s : Runs(q, r[1], s) /\ Behind(s, q.stack)
  BY <1>6, DocumentReads DEF ReadsValue
<1>8. PICK s : Runs(q, r[1], s) /\ Behind(s, none)
  BY <1>4, <1>7
<1>9. s.at \notin {"failed", "truncated"} /\ AtEnd(s).at = "accepted"
  BY <1>8, EndAccepts DEF none
<1> QED
  BY <1>7, <1>8, <1>9 DEF q

\* The reader is what reading the text makes of it, and the end of the text.
RunInv ==
  \/ Runs(Start, text, p)
  \/ p.at \in {"accepted", "truncated"} /\ \E q : Runs(Start, text, q) /\ p = AtEnd(q)

\* So it stays.
THEOREM RunInvariant == Spec => []RunInv
<1>1. Init => RunInv
  <2> SUFFICES ASSUME Init PROVE RunInv
    OBVIOUS
  <2>1. p = Start /\ text = <<>>
    BY DEF Init, JsonInit
  <2> QED
    BY <2>1, RunsNothing DEF RunInv
<1>2. JsonInv /\ RunInv /\ [Next]_vars => RunInv'
  <2> SUFFICES ASSUME JsonInv, RunInv, [Next]_vars PROVE RunInv'
    OBVIOUS
  <2>1. IsAlphabet(alphabet) /\ Reads(alphabet, p, text) /\ text \in Seq(Nat)
    BY AlphabetBytes DEF JsonInv, Reads
  <2>2. ~Stopped(p) => Runs(Start, text, p)
    BY DEF RunInv, Stopped
  <2>3. CASE ReadByte
    <3>1. PICK c \in Offered : p' = StepOn(p, c) /\ text' = Append(text, c)
      BY <2>3 DEF ReadByte
    <3>2. ~Stopped(p) /\ Len(text) < alphabet.most
      BY <2>3 DEF ReadByte
    <3>3. c \in IF p.at \in {"string", "escape", "unit"} THEN alphabet.inside ELSE alphabet.outside
      BY <3>1 DEF Offered
    <3>4. c \in Nat
      BY <2>1, <3>3 DEF IsAlphabet
    <3>5. Runs(Start, Append(text, c), StepOn(p, c))
      BY <2>1, <2>2, <3>2, <3>4, RunsMore
    <3> QED
      BY <3>1, <3>5 DEF RunInv
  <2>4. CASE EndOfText
    <3>1. ~Stopped(p) /\ p' = AtEnd(p) /\ text' = text
      BY <2>4 DEF EndOfText
    <3>2. AtEnd(p).at \in {"accepted", "truncated"}
      BY <2>1, <3>1, AtEndKeeps
    <3> QED
      BY <2>2, <3>1, <3>2 DEF RunInv
  <2>5. CASE UNCHANGED jsonVars
    <3>1. p' = p /\ text' = text
      BY <2>5 DEF jsonVars
    <3> QED
      BY <3>1 DEF RunInv
  <2>6. CASE Next
    BY <2>3, <2>4, <2>5, <2>6 DEF Next, Receive, PassError, DecodeNative, RefuseStatus, ReadJson, JsonNext
  <2>7. CASE UNCHANGED vars
    BY <2>5, <2>7 DEF vars
  <2> QED
    BY <2>6, <2>7
<1> QED
  BY <1>1, <1>2, JsonInvariant, PTL DEF Spec

\* The reader refuses no JSON document.
THEOREM ReaderComplete == Spec => []ReadsAllJson
<1>1. JsonInv /\ RunInv => ReadsAllJson
  <2> SUFFICES ASSUME JsonInv, RunInv PROVE ReadsAllJson
    OBVIOUS
  <2>1. alphabet \in Alphabets /\ IsAlphabet(alphabet) /\ text \in Seq(Nat)
    BY AlphabetBytes DEF JsonInv, Reads
  <2>2. StrictJson[alphabet] = Table(alphabet, TRUE)
    BY <2>1 DEF StrictJson
  <2>3. StrictPrefixes[alphabet] = UNION {Prefixes(r[1]) : r \in Table(alphabet, TRUE)}
    BY <2>1, <2>2 DEF StrictPrefixes
  <2>4. ASSUME p.at = "failed", text \in StrictPrefixes[alphabet] PROVE FALSE
    <3>1. PICK r \in Table(alphabet, TRUE) : text \in Prefixes(r[1])
      BY <2>3, <2>4
    <3>2. PICK s : r[1] \in Seq(Nat) /\ Runs(Start, r[1], s) /\ s.at # "failed"
      BY <2>1, DocumentEnds
    <3>3. PICK z \in Seq(Nat) : r[1] = text \o z
      BY <3>1, <3>2, PrefixSplit
    <3>4. Runs(Start, text, p)
      BY <2>4 DEF RunInv
    <3>5. \A c : StepOn(p, c) = p
      BY <2>4 DEF StepOn
    <3>6. Runs(p, z, p)
      BY <3>5, RunsStill
    <3>7. Runs(Start, r[1], p)
      BY <2>1, <3>3, <3>4, <3>6, RunsOn
    <3>8. s = p
      BY <3>2, <3>7, RunsSame
    <3> QED
      BY <2>4, <3>2, <3>8
  <2>5. ASSUME p.at = "truncated", NEW r \in Table(alphabet, TRUE), r[1] = text PROVE FALSE
    <3>1. PICK s : Runs(Start, text, s) /\ s.at # "truncated" /\ AtEnd(s).at = "accepted"
      BY <2>1, <2>5, DocumentEnds
    <3>2. PICK q : Runs(Start, text, q) /\ (p = q \/ p = AtEnd(q))
      BY DEF RunInv
    <3>3. s = q
      BY <2>1, <3>1, <3>2, RunsSame
    <3> QED
      BY <2>5, <3>1, <3>2, <3>3
  <2> QED
    BY <2>2, <2>4, <2>5 DEF ReadsAllJson
<1> QED
  BY <1>1, JsonInvariant, RunInvariant, PTL
=============================================================================
