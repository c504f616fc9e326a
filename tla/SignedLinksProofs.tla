------------------------- MODULE SignedLinksProofs -------------------------
(***************************************************************************)
(* Proofs about presigned links: a link is accepted for what it was made   *)
(* for, and for nothing else.                                              *)
(*                                                                         *)
(* LinkInv says that the link of a behaviour is one that presign made, at  *)
(* some time.  LinkMade turns that into what the service will see in it    *)
(* (LinkShape): the query comes back from the service's reading of it as   *)
(* presign wrote it, with each parameter of the signature once (Carries),  *)
(* and the path and the headers do.  LinkCompared reduces the service's    *)
(* decision to a comparison of what it read with what was signed, which    *)
(* LinkAcceptedWith, HeaderChanged, TargetChanged and LifeOver decide.     *)
(***************************************************************************)
EXTENDS SignedCallsProofs

-----------------------------------------------------------------------------
(***************************************************************************)
(* The elements of a finite set in an order: the k-th is the one with k - 1 *)
(* elements below it.                                                      *)
(***************************************************************************)
Under(S, R, s) == {t \in S : <<t, s>> \in R}

IsOrder(S, R) ==
  /\ \A a \in S : <<a, a>> \notin R
  /\ \A a, b, c \in S : <<a, b>> \in R /\ <<b, c>> \in R => <<a, c>> \in R
  /\ \A a, b \in S : a = b \/ <<a, b>> \in R \/ <<b, a>> \in R

IsRanking(at, S, R) ==
  /\ at \in [1..Cardinality(S) -> S]
  /\ \A k \in 1..Cardinality(S) : Cardinality(Under(S, R, at[k])) = k - 1
  /\ \A k \in 1..Cardinality(S), s \in S : Cardinality(Under(S, R, s)) = k - 1 => s = at[k]
  /\ \A s \in S : \E k \in 1..Cardinality(S) : at[k] = s
  /\ \A k, l \in 1..Cardinality(S) : k < l => <<at[k], at[l]>> \in R

LEMMA RanksRise ==
  ASSUME NEW S, IsFiniteSet(S), NEW R, IsOrder(S, R), NEW a \in S, NEW b \in S, <<a, b>> \in R
  PROVE  Cardinality(Under(S, R, a)) < Cardinality(Under(S, R, b))
<1> DEFINE A == Under(S, R, a)
           B == Under(S, R, b)
<1>1. A \in SUBSET S /\ B \in SUBSET S /\ a \notin A /\ A \cup {a} \in SUBSET B
  BY DEF Under, IsOrder
<1> HIDE DEF A, B
<1>2. IsFiniteSet(A) /\ IsFiniteSet(B)
  BY <1>1, FS_Subset
<1>3. IsFiniteSet(A \cup {a}) /\ Cardinality(A \cup {a}) = Cardinality(A) + 1
  BY <1>1, <1>2, FS_AddElement
<1>4. Cardinality(A \cup {a}) <= Cardinality(B)
  BY <1>1, <1>2, FS_Subset
<1>5. Cardinality(A) \in Nat /\ Cardinality(B) \in Nat
  BY <1>2, FS_CardinalityType
<1>6. Cardinality(A) < Cardinality(B)
  BY <1>3, <1>4, <1>5
<1> QED
  BY <1>6 DEF A, B

LEMMA Ranked ==
  ASSUME NEW S, IsFiniteSet(S), NEW R, IsOrder(S, R)
  PROVE  \E at : IsRanking(at, S, R)
<1> DEFINE n == Cardinality(S)
           Rank(s) == Cardinality(Under(S, R, s)) + 1
           rank == [s \in S |-> Rank(s)]
           at == [k \in 1..n |-> CHOOSE s \in S : rank[s] = k]
<1>1. n \in Nat
  BY FS_CardinalityType
<1>2. ASSUME NEW s \in S PROVE Rank(s) \in 1..n /\ Cardinality(Under(S, R, s)) \in Nat
  <2> DEFINE B == Under(S, R, s)
             T == S \ {s}
  <2>1. B \in SUBSET T
    BY DEF Under, IsOrder
  <2> HIDE DEF B
  <2>2. IsFiniteSet(T) /\ Cardinality(T) = n - 1
    BY FS_RemoveElement
  <2> HIDE DEF T
  <2>3. IsFiniteSet(B) /\ Cardinality(B) <= n - 1
    BY <2>1, <2>2, FS_Subset
  <2>4. Cardinality(B) \in Nat
    BY <2>3, FS_CardinalityType
  <2>5. Cardinality(B) + 1 \in 1..n
    BY <1>1, <2>3, <2>4
  <2> QED
    BY <2>4, <2>5 DEF B
<1>3. \A a, b \in S : <<a, b>> \in R => Rank(a) < Rank(b)
  <2> SUFFICES ASSUME NEW a \in S, NEW b \in S, <<a, b>> \in R PROVE Rank(a) < Rank(b)
    OBVIOUS
  <2>1. Cardinality(Under(S, R, a)) < Cardinality(Under(S, R, b))
    BY RanksRise
  <2>2. Cardinality(Under(S, R, a)) \in Nat /\ Cardinality(Under(S, R, b)) \in Nat
    BY <1>2
  <2> QED
    BY <2>1, <2>2
<1> HIDE DEF n
<1>4. rank \in [S -> 1..n] /\ \A s \in S : rank[s] = Rank(s)
  BY <1>2
<1>5. \A s \in S, k \in 1..n : Cardinality(Under(S, R, s)) = k - 1 <=> rank[s] = k
  <2> SUFFICES ASSUME NEW s \in S, NEW k \in 1..n
               PROVE  Cardinality(Under(S, R, s)) = k - 1 <=> rank[s] = k
    OBVIOUS
  <2> QED
    BY <1>1, <1>2, <1>4
<1>6. \A a, b \in S : <<a, b>> \in R => rank[a] < rank[b]
  BY <1>3, <1>4
<1> HIDE DEF Rank, rank
<1>7. \A a, b \in S : rank[a] = rank[b] => a = b
  <2> SUFFICES ASSUME NEW a \in S, NEW b \in S, rank[a] = rank[b], a # b PROVE FALSE
    OBVIOUS
  <2>1. <<a, b>> \in R \/ <<b, a>> \in R
    BY DEF IsOrder
  <2>2. rank[a] \in 1..n /\ rank[b] \in 1..n
    BY <1>4
  <2> QED
    BY <1>1, <1>6, <2>1, <2>2
<1>8. \A k \in 1..n : \E s \in S : rank[s] = k
  <2>1. rank \in Injection(S, 1..n)
    BY <1>4, <1>7 DEF Injection, IsInjective
  <2>2. IsFiniteSet(1..n) /\ Cardinality(1..n) = n
    BY <1>1, FS_Interval
  <2>3. rank \in Surjection(S, 1..n)
    BY <2>1, <2>2, FS_Injection DEF n
  <2> QED
    BY <2>3 DEF Surjection
<1>9. \A k \in 1..n : at[k] \in S /\ rank[at[k]] = k
  BY <1>8
<1>10. at \in [1..n -> S]
  BY <1>9
<1> HIDE DEF at
<1>11. \A s \in S : \E k \in 1..n : at[k] = s
  BY <1>4, <1>7, <1>9
<1>12. \A k, l \in 1..n : k < l => <<at[k], at[l]>> \in R
  <2> SUFFICES ASSUME NEW k \in 1..n, NEW l \in 1..n, k < l PROVE <<at[k], at[l]>> \in R
    OBVIOUS
  <2>1. at[k] \in S /\ at[l] \in S /\ rank[at[k]] = k /\ rank[at[l]] = l
    BY <1>9
  <2>2. at[k] # at[l]
    BY <1>1, <2>1
  <2>3. ~(<<at[l], at[k]>> \in R)
    BY <1>1, <1>6, <2>1
  <2> QED
    BY <2>1, <2>2, <2>3 DEF IsOrder
<1>13. \A k \in 1..n, s \in S : Cardinality(Under(S, R, s)) = k - 1 => s = at[k]
  BY <1>5, <1>7, <1>9
<1>14. \A k \in 1..n : Cardinality(Under(S, R, at[k])) = k - 1
  BY <1>5, <1>9
<1> QED
  BY <1>10, <1>11, <1>12, <1>13, <1>14 DEF IsRanking, n

-----------------------------------------------------------------------------
(***************************************************************************)
(* Texts in the order of their bytes.                                      *)
(***************************************************************************)
Letter(s, i) == IF i \in 1..Len(s) THEN s[i] + 1 ELSE 0

FirstAt(s, t, i) ==
  /\ i \in Nat \ {0}
  /\ \A j \in 1..i - 1 : Letter(s, j) = Letter(t, j)
  /\ Letter(s, i) < Letter(t, i)

LEMMA SameStart ==
  ASSUME NEW s \in Seq(Nat), NEW t \in Seq(Nat), NEW n \in Nat, n <= Len(s), n <= Len(t)
  PROVE  SubSeq(s, 1, n) = SubSeq(t, 1, n) <=> \A j \in 1..n : s[j] = t[j]
<1> DEFINE u == SubSeq(s, 1, n)
           v == SubSeq(t, 1, n)
<1>1. \A j \in 1..n : s[j] \in Nat /\ t[j] \in Nat
  BY LenProperties, ElementOfSeq
<1>2. /\ u \in Seq(Nat) /\ Len(u) = IF 1 <= n THEN n - 1 + 1 ELSE 0
      /\ \A i \in 1..n - 1 + 1 : u[i] = s[1 + i - 1]
  BY <1>1, SubSeqProperties
<1>3. /\ v \in Seq(Nat) /\ Len(v) = IF 1 <= n THEN n - 1 + 1 ELSE 0
      /\ \A i \in 1..n - 1 + 1 : v[i] = t[1 + i - 1]
  BY <1>1, SubSeqProperties
<1> HIDE DEF u, v
<1>4. \A i \in 1..n : i \in 1..n - 1 + 1 /\ 1 + i - 1 = i
  OBVIOUS
<1>5. Len(u) = n /\ Len(v) = n /\ \A j \in 1..n : u[j] = s[j] /\ v[j] = t[j]
  BY <1>2, <1>3, <1>4
<1>6. u = v <=> \A j \in 1..n : s[j] = t[j]
  BY <1>2, <1>3, <1>5, SeqEqual
<1> QED
  BY <1>6 DEF u, v

LEMMA LetterIs ==
  ASSUME NEW s \in Seq(Nat), NEW i \in Nat \ {0}
  PROVE  /\ Letter(s, i) \in Nat
         /\ i <= Len(s) => i \in 1..Len(s) /\ Letter(s, i) = s[i] + 1 /\ s[i] \in Nat
         /\ Len(s) < i => Letter(s, i) = 0
<1>1. Len(s) \in Nat /\ \A j \in 1..Len(s) : s[j] \in Nat
  BY LenProperties, ElementOfSeq
<1> QED
  BY <1>1 DEF Letter

LEMMA BelowIs ==
  ASSUME NEW s \in Seq(Nat), NEW t \in Seq(Nat)
  PROVE  Below(s, t) <=> \E i \in Nat : FirstAt(s, t, i)
<1> DEFINE m == Len(s)
           n == Len(t)
<1>1. /\ m \in Nat /\ n \in Nat /\ DOMAIN s = 1..m /\ DOMAIN t = 1..n
      /\ \A i \in Nat \ {0} :
           /\ Letter(s, i) \in Nat /\ Letter(t, i) \in Nat
           /\ i <= m => Letter(s, i) = s[i] + 1 /\ s[i] \in Nat
           /\ i <= n => Letter(t, i) = t[i] + 1 /\ t[i] \in Nat
           /\ m < i => Letter(s, i) = 0
           /\ n < i => Letter(t, i) = 0
  BY LenProperties, LetterIs
<1>2. ASSUME IsStrictPrefix(s, t) PROVE \E i \in Nat : FirstAt(s, t, i)
  <2>1. m <= n /\ s # t /\ SubSeq(s, 1, m) = SubSeq(t, 1, m)
    BY <1>2 DEF IsStrictPrefix, IsPrefix
  <2> HIDE DEF m, n
  <2>2. \A j \in 1..m : s[j] = t[j]
    BY <1>1, <2>1, SameStart DEF m, n
  <2>3. m # n
    <3> SUFFICES ASSUME m = n PROVE FALSE
      OBVIOUS
    <3> QED
      BY <1>1, <2>1, <2>2, SeqEqual DEF m, n
  <2>4. m + 1 \in Nat /\ m + 1 <= n /\ m < m + 1 /\ m + 1 - 1 = m
    BY <1>1, <2>1, <2>3
  <2>5. Letter(s, m + 1) < Letter(t, m + 1)
    BY <1>1, <2>4
  <2>6. \A j \in 1..m : Letter(s, j) = Letter(t, j)
    <3> SUFFICES ASSUME NEW j \in 1..m PROVE Letter(s, j) = Letter(t, j)
      OBVIOUS
    <3>1. j \in Nat \ {0} /\ j <= m /\ j <= n
      BY <1>1, <2>1
    <3>2. s[j] = t[j]
      BY <2>2
    <3> QED
      BY <3>1, <3>2, LetterIs DEF m, n
  <2>7. FirstAt(s, t, m + 1)
    BY <1>1, <2>4, <2>5, <2>6 DEF FirstAt
  <2> QED
    BY <2>4, <2>7
<1>3. ASSUME NEW i \in DOMAIN s \cap DOMAIN t, SubSeq(s, 1, i - 1) = SubSeq(t, 1, i - 1), s[i] < t[i]
      PROVE  FirstAt(s, t, i)
  <2>1. i \in Nat \ {0} /\ i <= m /\ i <= n /\ i - 1 \in Nat /\ i - 1 <= m /\ i - 1 <= n
    BY <1>1
  <2>2. \A j \in 1..i - 1 : s[j] = t[j]
    BY <1>1, <1>3, <2>1, SameStart
  <2> HIDE DEF m, n
  <2>3. \A j \in 1..i - 1 : Letter(s, j) = Letter(t, j)
    <3> SUFFICES ASSUME NEW j \in 1..i - 1 PROVE Letter(s, j) = Letter(t, j)
      OBVIOUS
    <3>1. j \in Nat \ {0} /\ j <= m /\ j <= n
      BY <1>1, <2>1
    <3>2. s[j] = t[j]
      BY <2>2
    <3> QED
      BY <3>1, <3>2, LetterIs DEF m, n
  <2>4. Letter(s, i) < Letter(t, i)
    BY <1>1, <1>3, <2>1
  <2> QED
    BY <2>1, <2>3, <2>4 DEF FirstAt
<1>4. ASSUME NEW i \in Nat, FirstAt(s, t, i) PROVE Below(s, t)
  <2>1. /\ i \in Nat \ {0} /\ Letter(s, i) < Letter(t, i)
        /\ \A j \in 1..i - 1 : Letter(s, j) = Letter(t, j)
    BY <1>4 DEF FirstAt
  <2>2. i <= n
    <3>1. n < i => Letter(t, i) = 0
      BY <2>1, LetterIs
    <3>2. Letter(s, i) \in Nat /\ n \in Nat
      BY <1>1, <2>1
    <3> HIDE DEF m, n
    <3> QED
      BY <2>1, <3>1, <3>2
  <2>3. i - 1 <= m
    <3> SUFFICES ASSUME m < i - 1 PROVE FALSE
      BY <1>1, <2>1
    <3> HIDE DEF m, n
    <3>1. i - 1 \in 1..i - 1 /\ i - 1 \in Nat \ {0} /\ i - 1 <= n
      BY <1>1, <2>1, <2>2
    <3>2. Letter(s, i - 1) = Letter(t, i - 1)
      BY <2>1, <3>1
    <3>3. Letter(s, i - 1) = 0 /\ Letter(t, i - 1) = t[i - 1] + 1 /\ t[i - 1] \in Nat
      BY <1>1, <3>1
    <3> QED
      BY <3>2, <3>3
  <2>4. \A j \in 1..i - 1 : s[j] = t[j]
    <3> SUFFICES ASSUME NEW j \in 1..i - 1 PROVE s[j] = t[j]
      OBVIOUS
    <3> HIDE DEF m, n
    <3>1. j \in Nat \ {0} /\ j <= m /\ j <= n
      BY <1>1, <2>1, <2>2, <2>3
    <3>2. Letter(s, j) = s[j] + 1 /\ s[j] \in Nat /\ Letter(t, j) = t[j] + 1 /\ t[j] \in Nat
      BY <1>1, <3>1
    <3> QED
      BY <2>1, <3>2, SMTT(60)
  <2>5. i - 1 \in Nat /\ SubSeq(s, 1, i - 1) = SubSeq(t, 1, i - 1)
    BY <1>1, <2>1, <2>2, <2>3, <2>4, SameStart
  <2>6. CASE i <= m
    <3>1. i \in DOMAIN s \cap DOMAIN t /\ s[i] < t[i]
      BY <1>1, <2>1, <2>2, <2>6
    <3> QED
      BY <2>5, <3>1 DEF Below
  <2>7. CASE m < i
    <3>1. i - 1 = m /\ m <= n /\ m # n
      <4>1. m \in Nat /\ n \in Nat /\ i \in Nat
        BY <1>1
      <4> HIDE DEF m, n
      <4> QED
        BY <2>2, <2>3, <2>7, <4>1
    <3>2. IsStrictPrefix(s, t)
      BY <2>5, <3>1 DEF IsStrictPrefix, IsPrefix
    <3> QED
      BY <3>2 DEF Below
  <2> QED
    BY <1>1, <2>1, <2>6, <2>7
<1>5. ASSUME Below(s, t) PROVE \E i \in Nat : FirstAt(s, t, i)
  <2>1. CASE IsStrictPrefix(s, t)
    BY <1>2, <2>1
  <2>2. CASE \E i \in DOMAIN s \cap DOMAIN t :
               SubSeq(s, 1, i - 1) = SubSeq(t, 1, i - 1) /\ s[i] < t[i]
    <3>1. PICK i \in DOMAIN s \cap DOMAIN t :
                 SubSeq(s, 1, i - 1) = SubSeq(t, 1, i - 1) /\ s[i] < t[i]
      BY <2>2
    <3>2. FirstAt(s, t, i)
      BY <1>3, <3>1
    <3> QED
      BY <1>1, <3>2
  <2> QED
    BY <1>5, <2>1, <2>2 DEF Below
<1> QED
  BY <1>4, <1>5

LEMMA BelowOrders ==
  /\ \A s \in Seq(Nat) : ~Below(s, s)
  /\ \A s, t, u \in Seq(Nat) : Below(s, t) /\ Below(t, u) => Below(s, u)
  /\ \A s, t \in Seq(Nat) : s = t \/ Below(s, t) \/ Below(t, s)
<1>1. ASSUME NEW s \in Seq(Nat) PROVE ~Below(s, s)
  <2> SUFFICES ASSUME NEW i \in Nat, FirstAt(s, s, i) PROVE FALSE
    BY BelowIs
  <2>1. i \in Nat \ {0} /\ Letter(s, i) < Letter(s, i)
    BY DEF FirstAt
  <2> QED
    BY <2>1, LetterIs
<1>2. ASSUME NEW s \in Seq(Nat), NEW t \in Seq(Nat), NEW u \in Seq(Nat), Below(s, t), Below(t, u)
      PROVE  Below(s, u)
  <2>1. PICK i \in Nat : FirstAt(s, t, i)
    BY <1>2, BelowIs
  <2>2. PICK j \in Nat : FirstAt(t, u, j)
    BY <1>2, BelowIs
  <2>3. \A k \in Nat \ {0} : Letter(s, k) \in Nat /\ Letter(t, k) \in Nat /\ Letter(u, k) \in Nat
    BY LetterIs
  <2>4. /\ i \in Nat \ {0} /\ Letter(s, i) < Letter(t, i)
        /\ \A l \in 1..i - 1 : Letter(s, l) = Letter(t, l)
        /\ j \in Nat \ {0} /\ Letter(t, j) < Letter(u, j)
        /\ \A l \in 1..j - 1 : Letter(t, l) = Letter(u, l)
    BY <2>1, <2>2 DEF FirstAt
  <2>5. FirstAt(s, u, i) \/ FirstAt(s, u, j)
    <3>1. CASE i < j
      <4>1. Letter(t, i) = Letter(u, i)
        BY <2>4, <3>1
      <4>2. \A l \in 1..i - 1 : Letter(s, l) = Letter(u, l)
        BY <2>4, <3>1
      <4> QED
        BY <2>4, <4>1, <4>2 DEF FirstAt
    <3>2. CASE j < i
      <4>1. Letter(s, j) = Letter(t, j)
        BY <2>4, <3>2
      <4>2. \A l \in 1..j - 1 : Letter(s, l) = Letter(u, l)
        BY <2>4, <3>2
      <4> QED
        BY <2>4, <4>1, <4>2 DEF FirstAt
    <3>3. CASE i = j
      <4>1. \A l \in 1..i - 1 : Letter(s, l) = Letter(u, l)
        BY <2>4, <3>3
      <4>2. Letter(s, i) < Letter(u, i)
        BY <2>3, <2>4, <3>3
      <4> QED
        BY <2>4, <4>1, <4>2 DEF FirstAt
    <3> QED
      BY <2>4, <3>1, <3>2, <3>3
  <2> QED
    BY <2>5, BelowIs
<1>3. ASSUME NEW s \in Seq(Nat), NEW t \in Seq(Nat), s # t PROVE Below(s, t) \/ Below(t, s)
  <2> DEFINE D == {i \in Nat \ {0} : Letter(s, i) # Letter(t, i)}
             m == Len(s)
             n == Len(t)
  <2>1. m \in Nat /\ n \in Nat
    BY LenProperties
  <2>2. D # {}
    <3> SUFFICES ASSUME \A i \in Nat \ {0} : Letter(s, i) = Letter(t, i) PROVE FALSE
      BY Zenon
    <3>1. ~(m < n)
      <4> SUFFICES ASSUME m < n PROVE FALSE
        OBVIOUS
      <4>1. n \in Nat \ {0} /\ n <= n
        BY <2>1
      <4>2. Letter(s, n) = 0 /\ Letter(t, n) = t[n] + 1 /\ t[n] \in Nat
        BY <4>1, LetterIs
      <4> QED
        BY <4>1, <4>2
    <3>2. ~(n < m)
      <4> SUFFICES ASSUME n < m PROVE FALSE
        OBVIOUS
      <4>1. m \in Nat \ {0} /\ m <= m
        BY <2>1
      <4>2. Letter(t, m) = 0 /\ Letter(s, m) = s[m] + 1 /\ s[m] \in Nat
        BY <4>1, LetterIs
      <4> QED
        BY <4>1, <4>2
    <3>3. m = n
      BY <2>1, <3>1, <3>2
    <3>4. ASSUME NEW i \in 1..Len(s) PROVE s[i] = t[i]
      <4>1. i \in Nat \ {0} /\ i <= Len(s) /\ i <= Len(t)
        BY <2>1, <3>3
      <4>2. /\ Letter(s, i) = s[i] + 1 /\ s[i] \in Nat /\ Letter(t, i) = t[i] + 1 /\ t[i] \in Nat
            /\ Letter(s, i) = Letter(t, i)
        BY <4>1, LetterIs
      <4> QED
        BY <4>2
    <3> QED
      BY <1>3, <3>3, <3>4, SeqEqual
  <2> HIDE DEF D
  <2>3. PICK i \in D : \A j \in D : i <= j
    <3>1. D \subseteq Nat
      BY DEF D
    <3> QED
      BY <2>2, <3>1, LeastNatural
  <2>4. i \in Nat \ {0} /\ Letter(s, i) # Letter(t, i)
    BY DEF D
  <2>5. \A j \in 1..i - 1 : Letter(s, j) = Letter(t, j)
    <3> SUFFICES ASSUME NEW j \in 1..i - 1, Letter(s, j) # Letter(t, j) PROVE FALSE
      OBVIOUS
    <3>1. j \in Nat \ {0} /\ j < i
      BY <2>4
    <3>2. j \in D
      BY <3>1 DEF D
    <3> QED
      BY <2>3, <2>4, <3>1, <3>2
  <2>6. Letter(s, i) \in Nat /\ Letter(t, i) \in Nat
    BY <2>4, LetterIs
  <2>7. FirstAt(s, t, i) \/ FirstAt(t, s, i)
    BY <2>4, <2>5, <2>6 DEF FirstAt
  <2> QED
    BY <2>4, <2>7, BelowIs
<1> QED
  BY <1>1, <1>2, <1>3

-----------------------------------------------------------------------------
(***************************************************************************)
(* The names of a set in order, and the parameters of a query in order.    *)
(***************************************************************************)

\* The texts of a finite set in order are those texts.
LEMMA OrderedLists ==
  ASSUME NEW texts \in SUBSET Seq(Nat), IsFiniteSet(texts)
  PROVE  /\ Ordered(texts) \in Seq(texts) /\ Len(Ordered(texts)) = Cardinality(texts)
         /\ \A s \in texts : \E k \in 1..Cardinality(texts) : Ordered(texts)[k] = s
<1> DEFINE R == {p \in texts \X texts : Below(p[1], p[2])}
           n == Cardinality(texts)
           Kth(k) == CHOOSE s \in texts : Cardinality({t \in texts : Below(t, s)}) = k - 1
<1>1. \A s, t \in texts : <<s, t>> \in R <=> Below(s, t)
  OBVIOUS
<1>2. \A s \in texts : {t \in texts : Below(t, s)} = Under(texts, R, s)
  BY <1>1 DEF Under
<1> HIDE DEF R
<1>3. IsOrder(texts, R)
  BY <1>1, BelowOrders DEF IsOrder
<1>4. PICK at : IsRanking(at, texts, R)
  BY <1>3, Ranked
<1>5. n \in Nat
  BY FS_CardinalityType
<1> HIDE DEF n
<1>6. ASSUME NEW k \in 1..n PROVE Kth(k) = at[k]
  <2>1. at[k] \in texts /\ Cardinality({t \in texts : Below(t, at[k])}) = k - 1
    BY <1>2, <1>4 DEF IsRanking, n
  <2>2. \A s \in texts : Cardinality({t \in texts : Below(t, s)}) = k - 1 => s = at[k]
    BY <1>2, <1>4 DEF IsRanking, n
  <2> QED
    BY <2>1, <2>2
<1>7. Ordered(texts) = [k \in 1..n |-> Kth(k)]
  BY Zenon DEF Ordered, n
<1> HIDE DEF Kth
<1>8. /\ at \in [1..n -> texts]
      /\ \A s \in texts : \E k \in 1..n : at[k] = s
  BY <1>4 DEF IsRanking, n
<1>9. Ordered(texts) = at
  BY <1>6, <1>7, <1>8
<1>10. at \in Seq(texts) /\ Len(at) = n
  BY <1>5, <1>8, FunctionIsSeq
<1> QED
  BY <1>8, <1>9, <1>10 DEF n

Parameters == Seq(Nat) \X Seq(Nat)

LEMMA ParameterOrders ==
  /\ \A p \in Parameters : ~ParameterBelow(p, p)
  /\ \A p, q, r \in Parameters : ParameterBelow(p, q) /\ ParameterBelow(q, r) => ParameterBelow(p, r)
  /\ \A p, q \in Parameters : p = q \/ ParameterBelow(p, q) \/ ParameterBelow(q, p)
<1>1. \A p \in Parameters : p[1] \in Seq(Nat) /\ p[2] \in Seq(Nat) /\ p = <<p[1], p[2]>>
  BY PairParts DEF Parameters
<1>2. ASSUME NEW p \in Parameters PROVE ~ParameterBelow(p, p)
  BY <1>1, BelowOrders DEF ParameterBelow
<1>3. ASSUME NEW p \in Parameters, NEW q \in Parameters, NEW r \in Parameters,
             ParameterBelow(p, q), ParameterBelow(q, r)
      PROVE  ParameterBelow(p, r)
  <2>1. \A s, t, u \in Seq(Nat) : Below(s, t) /\ Below(t, u) => Below(s, u)
    BY BelowOrders
  <2>2. \A s, t \in Seq(Nat) : Below(s, t) /\ Below(t, s) => FALSE
    BY BelowOrders
  <2> QED
    BY <1>1, <1>3, <2>1, <2>2 DEF ParameterBelow
<1>4. ASSUME NEW p \in Parameters, NEW q \in Parameters, p # q
      PROVE  ParameterBelow(p, q) \/ ParameterBelow(q, p)
  <2>1. p[1] # q[1] \/ p[2] # q[2]
    BY <1>1, <1>4
  <2> QED
    BY <1>1, <2>1, BelowOrders DEF ParameterBelow
<1> QED
  BY <1>2, <1>3, <1>4

InOrderAlready(q) ==
  \A i, j \in 1..Len(q) : i < j => ParameterBelow(q[i], q[j]) \/ q[i] = q[j]

\* The parameters in order are the parameters.
LEMMA InOrderSorts ==
  ASSUME NEW ps \in Seq(Parameters)
  PROVE  \E at \in [1..Len(ps) -> 1..Len(ps)] :
           /\ InOrder(ps) = [k \in 1..Len(ps) |-> ps[at[k]]]
           /\ \A j \in 1..Len(ps) : \E k \in 1..Len(ps) : at[k] = j
           /\ InOrder(ps) \in Seq(Parameters) /\ Len(InOrder(ps)) = Len(ps)
           /\ InOrderAlready(InOrder(ps))
<1> DEFINE n == Len(ps)
           S == 1..n
           R == {p \in S \X S : Before(ps, p[1], p[2])}
           Which(k) == CHOOSE j \in S : Cardinality({i \in S : Before(ps, i, j)}) = k - 1
<1>1. n \in Nat /\ DOMAIN ps = S /\ \A i \in S : ps[i] \in Parameters
  BY LenProperties, ElementOfSeq
<1>2. \A i, j \in S : <<i, j>> \in R <=> Before(ps, i, j)
  OBVIOUS
<1>3. \A j \in S : {i \in S : Before(ps, i, j)} = Under(S, R, j)
  BY <1>2 DEF Under
<1>4. InOrder(ps) = [k \in S |-> ps[Which(k)]]
  <2> DEFINE D == DOMAIN ps
             Index(k) == CHOOSE j \in D : Cardinality({i \in D : Before(ps, i, j)}) = k - 1
  <2>1. InOrder(ps) = [k \in D |-> ps[Index(k)]]
    BY Zenon DEF InOrder
  <2>2. D = S
    BY <1>1
  <2> HIDE DEF D, S
  <2>3. \A k \in S : Index(k) = Which(k)
    BY <2>2, Zenon
  <2> HIDE DEF Index, Which
  <2> QED
    BY <2>1, <2>2, <2>3
<1> HIDE DEF R
<1>5. IsFiniteSet(S) /\ Cardinality(S) = n
  <2>1. n \in Nat
    BY <1>1
  <2> HIDE DEF n
  <2>2. IsFiniteSet(1..n) /\ Cardinality(1..n) = IF 1 > n THEN 0 ELSE n - 1 + 1
    BY <2>1, FS_Interval
  <2> QED
    BY <2>1, <2>2
<1>6. IsOrder(S, R)
  <2>1. \A i \in S : i \in Nat
    BY <1>1
  <2> HIDE DEF S, n
  <2>2. ASSUME NEW i \in S PROVE <<i, i>> \notin R
    BY <1>1, <1>2, <2>1, ParameterOrders DEF Before
  <2>3. ASSUME NEW i \in S, NEW j \in S, NEW k \in S, <<i, j>> \in R, <<j, k>> \in R
        PROVE  <<i, k>> \in R
    <3>1. /\ ps[i] \in Parameters /\ ps[j] \in Parameters /\ ps[k] \in Parameters
          /\ i \in Nat /\ j \in Nat /\ k \in Nat
      BY <1>1, <2>1
    <3>2. Before(ps, i, j) /\ Before(ps, j, k)
      BY <1>2, <2>3
    <3>3. Before(ps, i, k)
      BY <3>1, <3>2, ParameterOrders DEF Before
    <3> QED
      BY <1>2, <3>3
  <2>4. ASSUME NEW i \in S, NEW j \in S, i # j PROVE <<i, j>> \in R \/ <<j, i>> \in R
    <3>1. ps[i] \in Parameters /\ ps[j] \in Parameters /\ (i < j \/ j < i)
      BY <1>1, <2>1, <2>4
    <3>2. Before(ps, i, j) \/ Before(ps, j, i)
      BY <3>1, ParameterOrders DEF Before
    <3> QED
      BY <1>2, <3>2
  <2> QED
    BY <2>2, <2>3, <2>4 DEF IsOrder
<1>7. PICK at : IsRanking(at, S, R)
  BY <1>5, <1>6, Ranked
<1>8. /\ at \in [S -> S]
      /\ \A k \in S : Cardinality(Under(S, R, at[k])) = k - 1
      /\ \A k \in S, j \in S : Cardinality(Under(S, R, j)) = k - 1 => j = at[k]
      /\ \A j \in S : \E k \in S : at[k] = j
      /\ \A k, l \in S : k < l => <<at[k], at[l]>> \in R
  BY <1>5, <1>7 DEF IsRanking
<1> HIDE DEF S
<1>9. ASSUME NEW k \in S PROVE Which(k) = at[k]
  <2>1. at[k] \in S /\ Cardinality({i \in S : Before(ps, i, at[k])}) = k - 1
    BY <1>3, <1>8
  <2>2. \A j \in S : Cardinality({i \in S : Before(ps, i, j)}) = k - 1 => j = at[k]
    BY <1>3, <1>8
  <2> QED
    BY <2>1, <2>2
<1> HIDE DEF Which
<1>10. InOrder(ps) = [k \in S |-> ps[at[k]]]
  BY <1>4, <1>9
<1> DEFINE q == [k \in S |-> ps[at[k]]]
<1>11. q \in [S -> Parameters] /\ \A k \in S : q[k] = ps[at[k]]
  BY <1>1, <1>8
<1> HIDE DEF q
<1>12. q \in Seq(Parameters) /\ Len(q) = n
  BY <1>1, <1>11, FunctionIsSeq DEF S
<1>13. InOrderAlready(q)
  <2> SUFFICES ASSUME NEW i \in S, NEW j \in S, i < j PROVE ParameterBelow(q[i], q[j]) \/ q[i] = q[j]
    BY <1>12 DEF InOrderAlready, S
  <2>1. at[i] \in S /\ at[j] \in S /\ Before(ps, at[i], at[j])
    BY <1>2, <1>8
  <2> QED
    BY <1>11, <2>1 DEF Before
<1> QED
  BY <1>8, <1>10, <1>12, <1>13 DEF q, S

LEMMA InOrderStays ==
  ASSUME NEW ps \in Seq(Parameters), InOrderAlready(ps)
  PROVE  InOrder(ps) = ps
<1> DEFINE n == Len(ps)
           Which(k) == CHOOSE j \in 1..n : Cardinality({i \in 1..n : Before(ps, i, j)}) = k - 1
<1>1. n \in Nat /\ DOMAIN ps = 1..n /\ (\A i \in 1..n : ps[i] \in Parameters) /\ ps \in [1..n -> Parameters]
  BY LenProperties, ElementOfSeq
<1>2. InOrder(ps) = [k \in 1..n |-> ps[Which(k)]]
  <2> DEFINE D == DOMAIN ps
             Index(k) == CHOOSE j \in D : Cardinality({i \in D : Before(ps, i, j)}) = k - 1
  <2>1. InOrder(ps) = [k \in D |-> ps[Index(k)]]
    BY Zenon DEF InOrder
  <2>2. D = 1..n
    BY <1>1
  <2> HIDE DEF D, n
  <2>3. \A k \in 1..n : Index(k) = Which(k)
    BY <2>2, Zenon
  <2> HIDE DEF Index, Which
  <2> QED
    BY <2>1, <2>2, <2>3
<1>3. \A i, j \in 1..n : i < j => ParameterBelow(ps[i], ps[j]) \/ ps[i] = ps[j]
  BY DEF InOrderAlready
<1> HIDE DEF n
<1>4. ASSUME NEW i \in 1..n, NEW j \in 1..n PROVE Before(ps, i, j) <=> i < j
  <2>1. i < j \/ j < i \/ i = j
    BY <1>1
  <2>2. ps[i] \in Parameters /\ ps[j] \in Parameters
    BY <1>1
  <2>3. i < j => ~(j < i) /\ i # j
    BY <1>1
  <2>4. ~ParameterBelow(ps[i], ps[i])
    BY <2>2, ParameterOrders
  <2>5. ParameterBelow(ps[j], ps[i]) => ~ParameterBelow(ps[i], ps[j])
    BY <2>2, ParameterOrders
  <2>6. CASE i < j
    BY <1>3, <2>6 DEF Before
  <2>7. CASE j < i
    <3>1. ~(i < j)
      BY <1>1, <2>7
    <3>2. ParameterBelow(ps[j], ps[i]) \/ ps[j] = ps[i]
      BY <1>3, <2>7
    <3> QED
      BY <2>4, <2>5, <3>1, <3>2 DEF Before
  <2>8. CASE i = j
    BY <1>1, <2>4, <2>8 DEF Before
  <2> QED
    BY <2>1, <2>6, <2>7, <2>8
<1>5. ASSUME NEW j \in 1..n PROVE Cardinality({i \in 1..n : Before(ps, i, j)}) = j - 1
  <2>1. {i \in 1..n : Before(ps, i, j)} = {i \in 1..n : i < j}
    BY <1>4
  <2>2. {i \in 1..n : i < j} = 1..j - 1
    BY <1>1
  <2>3. Cardinality(1..j - 1) = j - 1
    <3>1. j - 1 \in Int /\ 1 \in Int
      BY <1>1
    <3>2. Cardinality(1..j - 1) = IF 1 > j - 1 THEN 0 ELSE (j - 1) - 1 + 1
      BY <3>1, FS_Interval
    <3> QED
      BY <1>1, <3>2
  <2> QED
    BY <2>1, <2>2, <2>3
<1>6. ASSUME NEW k \in 1..n PROVE Which(k) = k
  <2>1. \A j \in 1..n : Cardinality({i \in 1..n : Before(ps, i, j)}) = k - 1 => j = k
    BY <1>1, <1>5
  <2>2. Cardinality({i \in 1..n : Before(ps, i, k)}) = k - 1
    BY <1>5
  <2> QED
    BY <2>1, <2>2
<1> HIDE DEF Which
<1>7. InOrder(ps) = [k \in 1..n |-> ps[k]]
  BY <1>2, <1>6
<1> QED
  BY <1>1, <1>7

-----------------------------------------------------------------------------
(***************************************************************************)
(* A query in canonical form: the service reads the parameters in it, and  *)
(* its own canonical form of it is the query itself.                       *)
(***************************************************************************)
EncodedPair(p) == <<PercentEncode(p[1], {}), PercentEncode(p[2], {})>>

LEMMA EncodedPairs ==
  ASSUME NEW r \in Seq(Parameters)
  PROVE  /\ Encoded(r) \in Seq(Parameters) /\ Len(Encoded(r)) = Len(r)
         /\ \A k \in 1..Len(r) : Encoded(r)[k] = EncodedPair(r[k])
<1> DEFINE n == Len(r)
           e == Encoded(r)
<1>1. n \in Nat /\ DOMAIN r = 1..n /\ \A k \in 1..n : r[k] \in Parameters
  BY LenProperties, ElementOfSeq
<1>2. ASSUME NEW k \in 1..n PROVE EncodedPair(r[k]) \in Parameters
  <2>1. r[k][1] \in Seq(Nat) /\ r[k][2] \in Seq(Nat)
    BY <1>1, PairParts DEF Parameters
  <2>2. PercentEncode(r[k][1], {}) \in Seq(Nat) /\ PercentEncode(r[k][2], {}) \in Seq(Nat)
    BY <2>1, EncodedType
  <2> QED
    BY <2>2 DEF EncodedPair, Parameters
<1>3. e = [k \in DOMAIN r |-> EncodedPair(r[k])]
  BY Zenon DEF Encoded, EncodedPair
<1> HIDE DEF e, n
<1>4. e \in [1..n -> Parameters] /\ \A k \in 1..n : e[k] = EncodedPair(r[k])
  BY <1>1, <1>2, <1>3
<1>5. e \in Seq(Parameters) /\ Len(e) = n
  BY <1>1, <1>4, FunctionIsSeq
<1> QED
  BY <1>4, <1>5 DEF e, n

\* One pair between separators, as it is joined.
PairText(p) == p[1] \o <<Equals>> \o p[2]

LEMMA PairReads ==
  ASSUME NEW p \in Parameters
  PROVE  /\ PairText(EncodedPair(p)) \in Seq(Nat) /\ PairText(EncodedPair(p)) # <<>>
         /\ FreeOf(PairText(EncodedPair(p)), Ampersand)
         /\ Cut(PairText(EncodedPair(p)), Equals) = EncodedPair(p)
         /\ Decoded(EncodedPair(p)[1]) = p[1] /\ Decoded(EncodedPair(p)[2]) = p[2]
<1> DEFINE u == PercentEncode(p[1], {})
           v == PercentEncode(p[2], {})
           s == <<Equals>>
           w == s \o v
<1>1. p[1] \in Seq(Nat) /\ p[2] \in Seq(Nat)
  BY PairParts DEF Parameters
<1>2. Decoded(u) = p[1] /\ Decoded(v) = p[2]
  BY <1>1, DecodedEncoded
<1>3. /\ u \in Seq(Nat) /\ FreeOf(u, Ampersand) /\ FreeOf(u, Equals)
      /\ v \in Seq(Nat) /\ FreeOf(v, Ampersand)
  BY <1>1, EncodedPlain, SeparatorsNotPlain
<1>4. s \in Seq(Nat) /\ FreeOf(s, Ampersand) /\ Len(s) = 1
  BY SeparatorsNotPlain, Literals, FreeOne
<1>5. EncodedPair(p) = <<u, v>>
  BY DEF EncodedPair
<1> HIDE DEF u, v
<1>6. PairText(EncodedPair(p)) = (u \o s) \o v
  BY <1>5 DEF PairText
<1>7. Cut(u \o w, Equals) = <<u, v>>
  BY <1>3, SeparatorsNotPlain, CutAt
<1> HIDE DEF s
<1>8. (u \o s) \o v = u \o w
  BY <1>3, <1>4, ConcatAssociative
<1>9. w \in Seq(Nat) /\ FreeOf(w, Ampersand) /\ Len(w) = 1 + Len(v)
  BY <1>3, <1>4, ConcatProperties, FreeConcat, ZenonT(60)
<1> HIDE DEF w
<1>10. u \o w \in Seq(Nat) /\ FreeOf(u \o w, Ampersand) /\ Len(u \o w) = Len(u) + Len(w)
  BY <1>3, <1>9, ConcatProperties, FreeConcat
<1>11. u \o w # <<>>
  <2>1. Len(u) \in Nat /\ Len(v) \in Nat
    BY <1>3, LenProperties
  <2>2. Len(u \o w) # 0
    BY <1>9, <1>10, <2>1
  <2> QED
    BY <2>2, EmptySeq
<1>12. PairText(EncodedPair(p)) = u \o w
  BY <1>6, <1>8, Zenon
<1>13. EncodedPair(p)[1] = u /\ EncodedPair(p)[2] = v
  BY <1>5
<1> QED
  BY <1>2, <1>5, <1>7, <1>10, <1>11, <1>12, <1>13, Zenon

\* What a query of encoded pairs is read as.
LEMMA PairsRead ==
  ASSUME NEW r \in Seq(Parameters), r # <<>>
  PROVE  /\ Pairs(Encoded(r)) \in Seq(Nat) /\ Pairs(Encoded(r)) # <<>>
         /\ Received(Pairs(Encoded(r))) = r
<1> DEFINE n == Len(r)
           e == Encoded(r)
           texts == [k \in DOMAIN e |-> PairText(e[k])]
           query == Join(texts, Ampersand)
<1>1. /\ n \in Nat /\ n >= 1 /\ DOMAIN r = 1..n /\ r \in [1..n -> Parameters]
      /\ \A k \in 1..n : r[k] \in Parameters
  BY LenProperties, ElementOfSeq, EmptySeq
<1>2. Pairs(e) = query
  BY Zenon DEF Pairs, PairText
<1>3. DOMAIN e = 1..n /\ \A k \in 1..n : e[k] = EncodedPair(r[k])
  BY EncodedPairs, LenProperties
<1> HIDE DEF e, n
<1>4. texts = [k \in 1..n |-> PairText(EncodedPair(r[k]))]
  BY <1>3
<1>5. \A k \in 1..n : texts[k] = PairText(EncodedPair(r[k]))
  BY <1>4
<1>6. ASSUME NEW k \in 1..n
      PROVE  /\ texts[k] \in Seq(Nat) /\ texts[k] # <<>> /\ FreeOf(texts[k], Ampersand)
             /\ Cut(texts[k], Equals) = EncodedPair(r[k])
             /\ Decoded(EncodedPair(r[k])[1]) = r[k][1] /\ Decoded(EncodedPair(r[k])[2]) = r[k][2]
  BY <1>1, <1>5, PairReads
<1> HIDE DEF texts
<1>7. texts \in Seq(Seq(Nat)) /\ Len(texts) = n /\ DOMAIN texts = 1..n
  <2>1. texts \in [1..n -> Seq(Nat)]
    BY <1>4, <1>5, <1>6
  <2> QED
    BY <1>1, <2>1, FunctionIsSeq
<1>8. query \in Seq(Nat) /\ Split(query, Ampersand) = texts
  <2>1. texts # <<>>
    BY <1>1, <1>7, EmptySeq
  <2>2. \A k \in 1..Len(texts) : FreeOf(texts[k], Ampersand)
    BY <1>6, <1>7
  <2> QED
    BY <1>7, <2>1, <2>2, SplitJoin, SeparatorsNotPlain
<1> HIDE DEF query
<1>9. query # <<>>
  <2> SUFFICES ASSUME query = <<>> PROVE FALSE
    OBVIOUS
  <2>1. <<>> \in Seq(Nat) /\ FreeOf(<<>>, Ampersand)
    BY EmptySeq DEF FreeOf
  <2>2. Split(<<>>, Ampersand) = <<<<>>>>
    BY <2>1, SplitFree
  <2>3. texts[1] = <<>>
    BY <1>8, <2>2
  <2> QED
    BY <1>1, <1>6, <2>3
<1>10. Received(query) = [k \in 1..n |-> <<Decoded(Cut(texts[k], Equals)[1]), Decoded(Cut(texts[k], Equals)[2])>>]
  BY <1>7, <1>8, <1>9, Zenon DEF Received
<1>11. ASSUME NEW k \in 1..n
       PROVE  <<Decoded(Cut(texts[k], Equals)[1]), Decoded(Cut(texts[k], Equals)[2])>> = r[k]
  <2>1. r[k] = <<r[k][1], r[k][2]>>
    BY <1>1, PairParts DEF Parameters
  <2> QED
    BY <1>6, <2>1, Zenon
<1>12. Received(query) = [k \in 1..n |-> r[k]]
  BY <1>10, <1>11
<1>13. r = [k \in 1..n |-> r[k]]
  BY <1>1
<1> QED
  BY <1>2, <1>8, <1>9, <1>12, <1>13, Zenon DEF e

\* The order a canonical query puts the parameters in.
Rearranged(r, at) == [k \in 1..Len(r) |-> r[at[k]]]

Rearranges(at, n) == at \in [1..n -> 1..n] /\ \A j \in 1..n : \E k \in 1..n : at[k] = j

LEMMA RearrangedType ==
  ASSUME NEW r \in Seq(Parameters), NEW at, Rearranges(at, Len(r))
  PROVE  /\ Rearranged(r, at) \in Seq(Parameters) /\ Len(Rearranged(r, at)) = Len(r)
         /\ \A k \in 1..Len(r) : at[k] \in 1..Len(r) /\ Rearranged(r, at)[k] = r[at[k]]
<1> DEFINE n == Len(r)
           q == Rearranged(r, at)
<1>1. n \in Nat /\ \A k \in 1..n : r[k] \in Parameters
  BY LenProperties, ElementOfSeq
<1>2. \A k \in 1..n : at[k] \in 1..n
  BY DEF Rearranges
<1>3. q = [k \in 1..n |-> r[at[k]]]
  BY DEF Rearranged
<1> HIDE DEF n, q
<1>4. q \in [1..n -> Parameters] /\ \A k \in 1..n : q[k] = r[at[k]]
  BY <1>1, <1>2, <1>3
<1>5. q \in Seq(Parameters) /\ Len(q) = n
  BY <1>1, <1>4, FunctionIsSeq
<1> QED
  BY <1>2, <1>4, <1>5 DEF n, q

LEMMA CanonicalQueryReads ==
  ASSUME NEW r \in Seq(Parameters), r # <<>>
  PROVE  \E at :
           /\ Rearranges(at, Len(r))
           /\ CanonicalQuery(Encoded(r)) \in Seq(Nat)
           /\ Received(CanonicalQuery(Encoded(r))) = Rearranged(r, at)
           /\ ServiceQuery(CanonicalQuery(Encoded(r))) = CanonicalQuery(Encoded(r))
<1> DEFINE n == Len(r)
           e == Encoded(r)
           q == InOrder(e)
<1>1. /\ e \in Seq(Parameters) /\ Len(e) = n /\ \A k \in 1..n : e[k] = EncodedPair(r[k])
      /\ n \in Nat /\ n # 0
  BY EncodedPairs, LenProperties, EmptySeq
<1> HIDE DEF e
<1>2. PICK at \in [1..n -> 1..n] :
        /\ q = [k \in 1..n |-> e[at[k]]]
        /\ \A j \in 1..n : \E k \in 1..n : at[k] = j
        /\ q \in Seq(Parameters) /\ Len(q) = n /\ InOrderAlready(q)
  <2>1. \E f \in [1..Len(e) -> 1..Len(e)] :
          /\ InOrder(e) = [k \in 1..Len(e) |-> e[f[k]]]
          /\ \A j \in 1..Len(e) : \E k \in 1..Len(e) : f[k] = j
          /\ InOrder(e) \in Seq(Parameters) /\ Len(InOrder(e)) = Len(e)
          /\ InOrderAlready(InOrder(e))
    BY <1>1, InOrderSorts
  <2>2. Len(e) = n
    BY <1>1
  <2> HIDE DEF n
  <2> QED
    BY <2>1, <2>2, Zenon
<1> DEFINE s == Rearranged(r, at)
<1>3. Rearranges(at, n)
  BY <1>2 DEF Rearranges
<1>4. /\ s \in Seq(Parameters) /\ Len(s) = n
      /\ \A k \in 1..n : at[k] \in 1..n /\ s[k] = r[at[k]]
  BY <1>3, RearrangedType
<1> HIDE DEF q, s, n
<1>5. q = Encoded(s)
  <2>1. Encoded(s) \in Seq(Parameters) /\ Len(Encoded(s)) = n /\ \A k \in 1..n : Encoded(s)[k] = EncodedPair(s[k])
    BY <1>4, EncodedPairs
  <2>2. ASSUME NEW k \in 1..n PROVE q[k] = Encoded(s)[k]
    <3>1. at[k] \in 1..n /\ s[k] = r[at[k]]
      BY <1>4
    <3>2. q[k] = e[at[k]]
      BY <1>2
    <3>3. e[at[k]] = EncodedPair(r[at[k]]) /\ Encoded(s)[k] = EncodedPair(s[k])
      BY <1>1, <2>1, <3>1
    <3> QED
      BY <3>1, <3>2, <3>3, Zenon
  <2> QED
    BY <1>2, <2>1, <2>2, SeqEqual
<1>6. s # <<>>
  BY <1>1, <1>4, EmptySeq
<1>7. CanonicalQuery(e) = Pairs(Encoded(s))
  BY <1>5 DEF CanonicalQuery, q
<1>8. Pairs(Encoded(s)) \in Seq(Nat) /\ Received(Pairs(Encoded(s))) = s
  BY <1>4, <1>6, PairsRead
<1>9. InOrder(q) = q
  BY <1>2, InOrderStays
<1>10. ServiceQuery(Pairs(Encoded(s))) = Pairs(Encoded(s))
  <2>1. ServiceQuery(Pairs(Encoded(s))) = Pairs(InOrder(Encoded(s)))
    BY <1>8, Zenon DEF ServiceQuery
  <2> QED
    BY <1>5, <1>9, <2>1, Zenon
<1> QED
  BY <1>3, <1>7, <1>8, <1>10, Zenon DEF e, s, n

-----------------------------------------------------------------------------
(***************************************************************************)
(* The values of a parameter of a query.                                   *)
(***************************************************************************)
ValuesOf(ps, word) == {ps[k][2] : k \in {j \in DOMAIN ps : ps[j][1] = Parameter(word)}}

Given(ps, word) == \E k \in DOMAIN ps : ps[k][1] = Parameter(word)

LEMMA ValueIs ==
  ASSUME NEW ps, NEW word, NEW v
  PROVE  v \in ValuesOf(ps, word) <=> \E k \in DOMAIN ps : ps[k][1] = Parameter(word) /\ ps[k][2] = v
BY DEF ValuesOf

\* Their order does not matter.
LEMMA ValuesRearranged ==
  ASSUME NEW r \in Seq(Parameters), NEW at, Rearranges(at, Len(r)), NEW word
  PROVE  ValuesOf(Rearranged(r, at), word) = ValuesOf(r, word)
<1> DEFINE n == Len(r)
           q == Rearranged(r, at)
<1>1. /\ DOMAIN r = 1..n /\ DOMAIN q = 1..n
      /\ \A k \in 1..n : at[k] \in 1..n /\ q[k] = r[at[k]]
  BY RearrangedType, LenProperties
<1>2. \A j \in 1..n : \E k \in 1..n : at[k] = j
  BY DEF Rearranges
<1> HIDE DEF n, q
<1>3. ASSUME NEW v \in ValuesOf(q, word) PROVE v \in ValuesOf(r, word)
  <2>0. \E k \in DOMAIN q : q[k][1] = Parameter(word) /\ q[k][2] = v
    BY <1>3 DEF ValuesOf
  <2>1. PICK k \in 1..n : q[k][1] = Parameter(word) /\ q[k][2] = v
    BY <1>1, <2>0
  <2>2. at[k] \in DOMAIN r /\ r[at[k]][1] = Parameter(word) /\ r[at[k]][2] = v
    BY <1>1, <2>1
  <2> QED
    BY <2>2, ValueIs
<1>4. ASSUME NEW v \in ValuesOf(r, word) PROVE v \in ValuesOf(q, word)
  <2>0. \E j \in DOMAIN r : r[j][1] = Parameter(word) /\ r[j][2] = v
    BY <1>4 DEF ValuesOf
  <2>1. PICK j \in 1..n : r[j][1] = Parameter(word) /\ r[j][2] = v
    BY <1>1, <2>0
  <2>2. PICK k \in 1..n : at[k] = j
    BY <1>2
  <2>3. k \in DOMAIN q /\ q[k][1] = Parameter(word) /\ q[k][2] = v
    BY <1>1, <2>1, <2>2
  <2> QED
    BY <2>3, ValueIs
<1> QED
  BY <1>3, <1>4 DEF q

\* What stands behind parameters of other names.
LEMMA ValuesBehind ==
  ASSUME NEW u \in Seq(Parameters), NEW v \in Seq(Parameters), NEW word, ~Given(u, word)
  PROVE  ValuesOf(u \o v, word) = ValuesOf(v, word)
<1> DEFINE t == u \o v
           m == Len(u)
           n == Len(v)
<1>1. /\ m \in Nat /\ n \in Nat /\ Len(t) = m + n /\ t \in Seq(Parameters)
      /\ \A i \in 1..m + n : t[i] = IF i <= m THEN u[i] ELSE v[i - m]
  BY ConcatProperties, LenProperties
<1>2. DOMAIN t = 1..m + n /\ DOMAIN u = 1..m /\ DOMAIN v = 1..n
  BY <1>1, LenProperties
<1> HIDE DEF t, m, n
<1>3. ASSUME NEW x \in ValuesOf(t, word) PROVE x \in ValuesOf(v, word)
  <2>0. \E k \in DOMAIN t : t[k][1] = Parameter(word) /\ t[k][2] = x
    BY <1>3 DEF ValuesOf
  <2>1. PICK k \in 1..m + n : t[k][1] = Parameter(word) /\ t[k][2] = x
    BY <1>2, <2>0
  <2>2. ~(k <= m)
    <3> SUFFICES ASSUME k <= m PROVE FALSE
      OBVIOUS
    <3>1. k \in DOMAIN u /\ t[k] = u[k]
      BY <1>1, <1>2
    <3> QED
      BY <2>1, <3>1 DEF Given
  <2>3. k - m \in DOMAIN v /\ t[k] = v[k - m]
    BY <1>1, <1>2, <2>2
  <2>4. v[k - m][1] = Parameter(word) /\ v[k - m][2] = x
    BY <2>1, <2>3
  <2> QED
    BY <2>3, <2>4, ValueIs
<1>4. ASSUME NEW x \in ValuesOf(v, word) PROVE x \in ValuesOf(t, word)
  <2>0. \E k \in DOMAIN v : v[k][1] = Parameter(word) /\ v[k][2] = x
    BY <1>4 DEF ValuesOf
  <2>1. PICK k \in 1..n : v[k][1] = Parameter(word) /\ v[k][2] = x
    BY <1>2, <2>0
  <2>2. m + k \in 1..m + n /\ ~(m + k <= m) /\ (m + k) - m = k
    BY <1>1
  <2>3. t[m + k] = v[k]
    BY <1>1, <2>2
  <2>4. m + k \in DOMAIN t /\ t[m + k][1] = Parameter(word) /\ t[m + k][2] = x
    BY <1>2, <2>1, <2>2, <2>3
  <2> QED
    BY <2>4, ValueIs
<1> QED
  BY <1>3, <1>4 DEF t

LEMMA EncodedConcat ==
  ASSUME NEW u \in Seq(Parameters), NEW v \in Seq(Parameters)
  PROVE  Encoded(u \o v) = Encoded(u) \o Encoded(v)
<1> DEFINE t == u \o v
           m == Len(u)
           n == Len(v)
           eu == Encoded(u)
           ev == Encoded(v)
           et == Encoded(t)
           c == eu \o ev
<1>1. /\ m \in Nat /\ n \in Nat /\ Len(t) = m + n /\ t \in Seq(Parameters)
      /\ \A i \in 1..m + n : t[i] = IF i <= m THEN u[i] ELSE v[i - m]
  BY ConcatProperties, LenProperties
<1>2. /\ eu \in Seq(Parameters) /\ Len(eu) = m /\ \A k \in 1..m : eu[k] = EncodedPair(u[k])
      /\ ev \in Seq(Parameters) /\ Len(ev) = n /\ \A k \in 1..n : ev[k] = EncodedPair(v[k])
  BY EncodedPairs
<1> HIDE DEF t
<1>3. et \in Seq(Parameters) /\ Len(et) = m + n /\ \A k \in 1..m + n : et[k] = EncodedPair(t[k])
  BY <1>1, EncodedPairs
<1> HIDE DEF eu, ev, et, m, n
<1>4. /\ c \in Seq(Parameters) /\ Len(c) = m + n
      /\ \A i \in 1..m + n : c[i] = IF i <= m THEN eu[i] ELSE ev[i - m]
  <2>1. /\ c \in Seq(Parameters) /\ Len(c) = Len(eu) + Len(ev)
        /\ \A i \in 1..Len(eu) + Len(ev) : c[i] = IF i <= Len(eu) THEN eu[i] ELSE ev[i - Len(eu)]
    BY <1>2, ConcatProperties
  <2> HIDE DEF c
  <2> QED
    BY <1>2, <2>1
<1> HIDE DEF c
<1>5. ASSUME NEW i \in 1..m + n PROVE et[i] = c[i]
  <2>1. CASE i <= m
    <3>1. i \in 1..m
      BY <1>1, <2>1
    <3>2. t[i] = u[i] /\ c[i] = eu[i]
      BY <1>1, <1>4, <2>1
    <3> QED
      BY <1>2, <1>3, <3>1, <3>2
  <2>2. CASE ~(i <= m)
    <3>1. i - m \in 1..n
      BY <1>1, <2>2
    <3>2. t[i] = v[i - m] /\ c[i] = ev[i - m]
      BY <1>1, <1>4, <2>2
    <3> QED
      BY <1>2, <1>3, <3>1, <3>2
  <2> QED
    BY <2>1, <2>2
<1>6. et = c
  BY <1>3, <1>4, <1>5, SeqEqual
<1> QED
  BY <1>6 DEF et, c, eu, ev, t

\* A query that is read is a sequence of parameters, one for each segment.
LEMMA ReceivedType ==
  ASSUME NEW query \in Seq(Nat)
  PROVE  /\ Received(query) \in Seq(Parameters)
         /\ query # <<>> => Len(Received(query)) = Len(Split(query, Ampersand))
<1>1. CASE query = <<>>
  BY <1>1, EmptySeq DEF Received
<1>2. CASE query # <<>>
  <2> DEFINE segments == Split(query, Ampersand)
             n == Len(segments)
             pair(k) == <<Decoded(Cut(segments[k], Equals)[1]), Decoded(Cut(segments[k], Equals)[2])>>
  <2>1. Received(query) = [k \in DOMAIN segments |-> pair(k)]
    BY <1>2, Zenon DEF Received
  <2>2. segments \in Seq(Seq(Nat))
    BY JoinSplit, SeparatorsNotPlain DEF SplitShape
  <2> HIDE DEF segments
  <2>3. n \in Nat /\ DOMAIN segments = 1..n /\ \A k \in 1..n : segments[k] \in Seq(Nat)
    BY <2>2, LenProperties, ElementOfSeq
  <2>4. ASSUME NEW k \in 1..n PROVE pair(k) \in Parameters
    <3>1. Cut(segments[k], Equals)[1] \in Seq(Nat) /\ Cut(segments[k], Equals)[2] \in Seq(Nat)
      <4>1. segments[k] \in Seq(Nat) /\ <<>> \in Seq(Nat) /\ Equals \in Nat
        BY <2>3, EmptySeq, SeparatorsNotPlain
      <4>2. ASSUME NEW x \in Seq(Nat) PROVE Cut(x, Equals)[1] \in Seq(Nat) /\ Cut(x, Equals)[2] \in Seq(Nat)
        <5>1. CASE Cut(x, Equals) = <<x, <<>>>>
          BY <4>1, <5>1
        <5>2. CASE \E u, v \in Seq(Nat) : x = u \o (<<Equals>> \o v) /\ Cut(x, Equals) = <<u, v>>
          BY <5>2
        <5> QED
          BY <4>1, <5>1, <5>2, CutSides
      <4> QED
        BY <4>1, <4>2
    <3>2. Decoded(Cut(segments[k], Equals)[1]) \in Seq(Nat) /\ Decoded(Cut(segments[k], Equals)[2]) \in Seq(Nat)
      BY <3>1, DecodedType
    <3> QED
      BY <3>2 DEF Parameters
  <2> HIDE DEF n, pair
  <2>5. [k \in 1..n |-> pair(k)] \in [1..n -> Parameters]
    BY <2>4
  <2>6. [k \in 1..n |-> pair(k)] \in Seq(Parameters) /\ Len([k \in 1..n |-> pair(k)]) = n
    BY <2>3, <2>5, FunctionIsSeq
  <2>7. Received(query) = [k \in 1..n |-> pair(k)]
    BY <2>1, <2>3
  <2> QED
    BY <2>6, <2>7 DEF n, segments
<1> QED
  BY <1>1, <1>2

-----------------------------------------------------------------------------
(***************************************************************************)
(* The parameters that presign appends, as they are meant.                 *)
(***************************************************************************)
AuthFirst(signer, at, expires, names) ==
  <<<<Parameter("algorithm"), Algorithm>>,
    <<Parameter("credential"), signer.id \o <<Slash>> \o Scope(at, signer)>>,
    <<Parameter("date"), AmzDate(at)>>,
    <<Parameter("expires"), <<3000 + expires>>>>,
    <<Parameter("signed_headers"), Join(Ordered(names), 59)>>>>

AuthLast(signer) ==
  IF signer.token = <<>> THEN <<>> ELSE <<<<Parameter("security_token"), signer.token>>>>

AuthMeant(signer, at, expires, names) == AuthFirst(signer, at, expires, names) \o AuthLast(signer)

LEMMA ParameterNames ==
  /\ Parameter("algorithm") = <<88, Amz, 401>> /\ Parameter("credential") = <<88, Amz, 404>>
  /\ Parameter("date") = <<88, Amz, 405>> /\ Parameter("expires") = <<88, Amz, 406>>
  /\ Parameter("signed_headers") = <<88, Amz, 409>> /\ Parameter("security_token") = <<88, Amz, 407>>
BY DEF Parameter, Names

LEMMA ReservedNames ==
  /\ Header("expires") = <<120, Amz, 406>> /\ Header("credential") = <<120, Amz, 404>>
  /\ Header("signed_headers") = <<120, Amz, 409>>
BY DEF Header, Names

\* A word stands in a query as it is.
LEMMA WordEncoded ==
  ASSUME NEW w \in Nat, w > 255
  PROVE  /\ <<w>> \in Seq(Nat) /\ PercentEncode(<<w>>, {}) = <<w>>
         /\ <<88, Amz, w>> \in Seq(Nat) /\ PercentEncode(<<88, Amz, w>>, {}) = <<88, Amz, w>>
         /\ LowerCase(<<88, Amz, w>>) = <<120, Amz, w>>
<1>1. <<w>> \in Seq(Nat) /\ <<88, Amz, w>> \in Seq(Nat)
  BY Literals DEF Amz
<1>2. /\ DOMAIN <<w>> = {1} /\ <<w>>[1] = w /\ DOMAIN <<88, Amz, w>> = 1..3
      /\ <<88, Amz, w>>[1] = 88 /\ <<88, Amz, w>>[2] = 300 /\ <<88, Amz, w>>[3] = w
  BY DEF Amz
<1>3. Unreserved(w) /\ Unreserved(88) /\ Unreserved(300)
  BY DEF Unreserved, Upper
<1>4. \A i \in DOMAIN <<w>> : Unreserved(<<w>>[i])
  BY <1>2, <1>3
<1>5. \A i \in DOMAIN <<88, Amz, w>> : Unreserved(<<88, Amz, w>>[i])
  BY <1>2, <1>3
<1>6. PercentEncode(<<w>>, {}) = <<w>> /\ PercentEncode(<<88, Amz, w>>, {}) = <<88, Amz, w>>
  BY <1>1, <1>4, <1>5, NameEncoded
<1>7. 88 \in Upper /\ 300 \notin Upper /\ w \notin Upper
  BY DEF Upper
<1>8. LowerCase(<<88, Amz, w>>) = [i \in 1..3 |-> <<120, Amz, w>>[i]]
  <2>1. LowerCase(<<88, Amz, w>>)
          = [i \in 1..3 |-> IF <<88, Amz, w>>[i] \in Upper THEN <<88, Amz, w>>[i] + 32 ELSE <<88, Amz, w>>[i]]
    BY <1>2 DEF LowerCase
  <2>2. \A i \in 1..3 : (IF <<88, Amz, w>>[i] \in Upper THEN <<88, Amz, w>>[i] + 32 ELSE <<88, Amz, w>>[i])
                        = <<120, Amz, w>>[i]
    BY <1>2, <1>7 DEF Amz
  <2> QED
    BY <2>1, <2>2
<1>9. <<120, Amz, w>> = [i \in 1..3 |-> <<120, Amz, w>>[i]]
  OBVIOUS
<1> QED
  BY <1>1, <1>6, <1>8, <1>9

LEMMA ParameterForm ==
  ASSUME NEW w \in Nat, w > 255, NEW p, p = <<88, Amz, w>>, NEW h, h = <<120, Amz, w>>
  PROVE  p \in Seq(Nat) /\ PercentEncode(p, {}) = p /\ LowerCase(p) = h
BY WordEncoded, ZenonT(60)

LEMMA ParametersEncoded ==
  \A word \in {"algorithm", "credential", "date", "expires", "signed_headers", "security_token"} :
    /\ Parameter(word) \in Seq(Nat) /\ PercentEncode(Parameter(word), {}) = Parameter(word)
    /\ LowerCase(Parameter(word)) = Header(word)
<1> DEFINE Fine(p, h) == p \in Seq(Nat) /\ PercentEncode(p, {}) = p /\ LowerCase(p) = h
           Known(word, w) == Parameter(word) = <<88, Amz, w>> /\ Header(word) = <<120, Amz, w>>
<1>1. \A w \in {401, 404, 405, 406, 407, 409} : w \in Nat /\ w > 255
  OBVIOUS
<1>2. ASSUME NEW word, NEW w \in {401, 404, 405, 406, 407, 409}, Known(word, w)
      PROVE  Fine(Parameter(word), Header(word))
  <2> DEFINE p == Parameter(word)
             h == Header(word)
  <2>1. p = <<88, Amz, w>> /\ h = <<120, Amz, w>> /\ w \in Nat /\ w > 255
    BY <1>1, <1>2
  <2> HIDE DEF p, h
  <2>2. p \in Seq(Nat) /\ PercentEncode(p, {}) = p /\ LowerCase(p) = h
    BY <2>1, ParameterForm, ZenonT(60)
  <2> QED
    BY <2>2 DEF p, h
<1>3. Header("algorithm") = <<120, Amz, 401>>
  BY DEF Header, Names
<1>4. /\ Known("algorithm", 401) /\ Known("credential", 404) /\ Known("date", 405)
      /\ Known("expires", 406) /\ Known("security_token", 407) /\ Known("signed_headers", 409)
  BY <1>3, ParameterNames, ReservedNames, HeaderNames
<1> HIDE DEF Fine, Known
<1>5. /\ Fine(Parameter("algorithm"), Header("algorithm"))
      /\ Fine(Parameter("credential"), Header("credential"))
      /\ Fine(Parameter("date"), Header("date"))
      /\ Fine(Parameter("expires"), Header("expires"))
      /\ Fine(Parameter("security_token"), Header("security_token"))
      /\ Fine(Parameter("signed_headers"), Header("signed_headers"))
  BY <1>2, <1>4
<1>6. \A word \in {"algorithm", "credential", "date", "expires", "signed_headers", "security_token"} :
        Fine(Parameter(word), Header(word))
  BY <1>5
<1> QED
  BY <1>6 DEF Fine

LEMMA FiveEncoded ==
  ASSUME NEW p \in Parameters, NEW q \in Parameters, NEW r \in Parameters, NEW s \in Parameters,
         NEW t \in Parameters
  PROVE  /\ <<p, q, r, s, t>> \in Seq(Parameters)
         /\ Encoded(<<p, q, r, s, t>>)
              = <<EncodedPair(p), EncodedPair(q), EncodedPair(r), EncodedPair(s), EncodedPair(t)>>
<1> DEFINE f == <<p, q, r, s, t>>
           e == <<EncodedPair(p), EncodedPair(q), EncodedPair(r), EncodedPair(s), EncodedPair(t)>>
<1>1. /\ f \in Seq(Parameters) /\ Len(f) = 5 /\ f[1] = p /\ f[2] = q /\ f[3] = r /\ f[4] = s /\ f[5] = t
  OBVIOUS
<1>2. /\ Len(e) = 5 /\ e[1] = EncodedPair(p) /\ e[2] = EncodedPair(q)
      /\ e[3] = EncodedPair(r) /\ e[4] = EncodedPair(s) /\ e[5] = EncodedPair(t) /\ e = [k \in 1..5 |-> e[k]]
  OBVIOUS
<1> HIDE DEF f, e
<1>3. Encoded(f) \in Seq(Parameters) /\ Len(Encoded(f)) = 5 /\ \A k \in 1..5 : Encoded(f)[k] = EncodedPair(f[k])
  BY <1>1, EncodedPairs
<1>4. \A k \in 1..5 : Encoded(f)[k] = e[k]
  <2>1. \A k \in 1..5 : k = 1 \/ k = 2 \/ k = 3 \/ k = 4 \/ k = 5
    OBVIOUS
  <2> QED
    BY <1>1, <1>2, <1>3, <2>1
<1>5. Encoded(f) = [k \in 1..5 |-> Encoded(f)[k]]
  BY <1>3, LenProperties
<1>6. Encoded(f) = e
  BY <1>2, <1>4, <1>5
<1> QED
  BY <1>1, <1>6 DEF f, e

LEMMA ScopeType ==
  ASSUME NEW at \in Nat, NEW service \in Seq(Nat)
  PROVE  Scope(at, Signer(service)) \in Seq(Nat) /\ AmzDate(at) \in Seq(Nat)
<1> DEFINE day == <<2000 + ((at \div Second) \div Day)>>
           parts == <<day, Account.region, service, <<Request4>>>>
<1>1. at \div Second \in Nat
  BY TimeAssumption
<1>2. (at \div Second) \div Day \in Nat
  BY <1>1, TimeAssumption
<1>3. 2000 + ((at \div Second) \div Day) \in Nat /\ 1000 + (at \div Second) \in Nat /\ Request4 \in Nat
  BY <1>1, <1>2 DEF Request4
<1>4. day \in Seq(Nat) /\ AmzDate(at) \in Seq(Nat) /\ <<Request4>> \in Seq(Nat) /\ Account.region \in Seq(Nat)
  BY <1>3, Literals, TokenAssumption DEF AmzDate
<1>5. Scope(at, Signer(service)) = Join(parts, Slash)
  BY DEF Scope, DateStamp, Signer
<1> HIDE DEF day
<1>6. parts \in Seq(Seq(Nat)) /\ parts # <<>>
  BY <1>4
<1> HIDE DEF parts
<1>7. Join(parts, Slash) \in Seq(Nat)
  <2>1. PICK p : Joining(p, parts, Slash, Nat)
    BY <1>6, JoinPieces, SeparatorsNotPlain
  <2>2. Len(parts) \in 1..Len(parts)
    BY <1>6, EmptySeq
  <2> QED
    BY <2>1, <2>2 DEF Joining
<1> QED
  BY <1>4, <1>5, <1>7

\* The names that a link signs, in the text that says which they are.
SignableNames(names) ==
  /\ names \in SUBSET Seq(Nat) /\ IsFiniteSet(names) /\ names # {}
  /\ \A n \in names : FreeOf(n, 59)

LEMMA NamesRead ==
  ASSUME NEW names, SignableNames(names)
  PROVE  /\ Join(Ordered(names), 59) \in Seq(Nat)
         /\ ToSet(Split(Join(Ordered(names), 59), 59)) = names
<1> DEFINE o == Ordered(names)
           n == Cardinality(names)
<1>1. /\ o \in Seq(names) /\ Len(o) = n /\ \A s \in names : \E k \in 1..n : o[k] = s
  BY OrderedLists DEF SignableNames
<1>2. n \in Nat /\ n # 0
  BY FS_CardinalityType, FS_EmptySet DEF SignableNames
<1> HIDE DEF o, n
<1>3. DOMAIN o = 1..n /\ \A k \in 1..n : o[k] \in names
  BY <1>1, LenProperties, ElementOfSeq
<1>4. o \in Seq(Seq(Nat)) /\ o # <<>>
  <2>1. o \in Seq(Seq(Nat))
    BY <1>1, SeqMonotonic DEF SignableNames
  <2> QED
    BY <1>1, <1>2, <2>1, EmptySeq
<1>5. \A k \in 1..Len(o) : FreeOf(o[k], 59)
  BY <1>1, <1>3 DEF SignableNames
<1>6. Join(o, 59) \in Seq(Nat) /\ Split(Join(o, 59), 59) = o
  BY <1>4, <1>5, SplitJoin, ZenonT(60)
<1>7. ToSet(o) = names
  BY <1>1, <1>3 DEF ToSet
<1> QED
  BY <1>6, <1>7 DEF o

\* What a link asks for, and what is asked of its parts.
LinkTexts(signer, at, expires, names) ==
  /\ signer.id \in Seq(Nat) /\ signer.token \in Seq(Nat)
  /\ Scope(at, signer) \in Seq(Nat) /\ AmzDate(at) \in Seq(Nat)
  /\ expires \in Nat /\ SignableNames(names)

LEMMA AuthEncoded ==
  ASSUME NEW signer, NEW at, NEW expires, NEW names, LinkTexts(signer, at, expires, names)
  PROVE  /\ AuthFirst(signer, at, expires, names) \in Seq(Parameters)
         /\ AuthLast(signer) \in Seq(Parameters)
         /\ AuthParameters(signer, at, expires, names) = Encoded(AuthMeant(signer, at, expires, names))
<1> DEFINE credential == signer.id \o <<Slash>> \o Scope(at, signer)
           text == Join(Ordered(names), 59)
           date == AmzDate(at)
           token == signer.token
           life == <<3000 + expires>>
           first == AuthFirst(signer, at, expires, names)
           last == AuthLast(signer)
           p == <<Parameter("algorithm"), Algorithm>>
           q == <<Parameter("credential"), credential>>
           r == <<Parameter("date"), date>>
           s == <<Parameter("expires"), life>>
           t == <<Parameter("signed_headers"), text>>
           u == <<Parameter("security_token"), token>>
<1>1. /\ text \in Seq(Nat) /\ date \in Seq(Nat) /\ token \in Seq(Nat)
      /\ 3000 + expires \in Nat /\ 3000 + expires > 255
  BY NamesRead DEF LinkTexts
<1>2. credential \in Seq(Nat)
  <2> DEFINE i == signer.id
             c == Scope(at, signer)
  <2>1. i \in Seq(Nat) /\ c \in Seq(Nat) /\ <<Slash>> \in Seq(Nat)
    BY Literals, SeparatorsNotPlain DEF LinkTexts
  <2> HIDE DEF i, c
  <2>2. i \o <<Slash>> \in Seq(Nat)
    BY <2>1, ConcatProperties
  <2>3. (i \o <<Slash>>) \o c \in Seq(Nat)
    BY <2>1, <2>2, ConcatProperties
  <2> QED
    BY <2>3 DEF i, c
<1>3. Algorithm \in Seq(Nat) /\ life \in Seq(Nat) /\ PercentEncode(life, {}) = life
  <2>1. Algorithm \in Seq(Nat)
    BY Literals DEF Algorithm
  <2> DEFINE w == 3000 + expires
  <2>2. w \in Nat /\ w > 255
    BY <1>1
  <2> HIDE DEF w
  <2>3. <<w>> \in Seq(Nat) /\ PercentEncode(<<w>>, {}) = <<w>>
    BY <2>2, WordEncoded, ZenonT(60)
  <2> QED
    BY <2>1, <2>3 DEF w
<1>4. /\ Parameter("algorithm") \in Seq(Nat) /\ Parameter("credential") \in Seq(Nat)
      /\ Parameter("date") \in Seq(Nat) /\ Parameter("expires") \in Seq(Nat)
      /\ Parameter("signed_headers") \in Seq(Nat) /\ Parameter("security_token") \in Seq(Nat)
      /\ PercentEncode(Parameter("algorithm"), {}) = Parameter("algorithm")
      /\ PercentEncode(Parameter("credential"), {}) = Parameter("credential")
      /\ PercentEncode(Parameter("date"), {}) = Parameter("date")
      /\ PercentEncode(Parameter("expires"), {}) = Parameter("expires")
      /\ PercentEncode(Parameter("signed_headers"), {}) = Parameter("signed_headers")
      /\ PercentEncode(Parameter("security_token"), {}) = Parameter("security_token")
  BY ParametersEncoded
<1>5. AuthParameters(signer, at, expires, names)
        = <<<<Parameter("algorithm"), PercentEncode(Algorithm, {})>>,
            <<Parameter("credential"), PercentEncode(credential, {})>>,
            <<Parameter("date"), PercentEncode(date, {})>>,
            <<Parameter("expires"), life>>,
            <<Parameter("signed_headers"), PercentEncode(text, {})>>>>
          \o IF token = <<>> THEN <<>> ELSE <<<<Parameter("security_token"), PercentEncode(token, {})>>>>
  BY Zenon DEF AuthParameters
<1>6. first = <<p, q, r, s, t>> /\ last = IF token = <<>> THEN <<>> ELSE <<u>>
  BY DEF AuthFirst, AuthLast
<1> HIDE DEF credential, text, date, token, life, first, last
<1>7. /\ p \in Parameters /\ q \in Parameters /\ r \in Parameters /\ s \in Parameters
      /\ t \in Parameters /\ u \in Parameters
  BY <1>1, <1>2, <1>3, <1>4 DEF Parameters
<1>8. /\ EncodedPair(p) = <<Parameter("algorithm"), PercentEncode(Algorithm, {})>>
      /\ EncodedPair(q) = <<Parameter("credential"), PercentEncode(credential, {})>>
      /\ EncodedPair(r) = <<Parameter("date"), PercentEncode(date, {})>>
      /\ EncodedPair(s) = <<Parameter("expires"), life>>
      /\ EncodedPair(t) = <<Parameter("signed_headers"), PercentEncode(text, {})>>
      /\ EncodedPair(u) = <<Parameter("security_token"), PercentEncode(token, {})>>
  BY <1>3, <1>4 DEF EncodedPair
<1> HIDE DEF p, q, r, s, t, u
<1>9. /\ first \in Seq(Parameters)
      /\ Encoded(first) = <<EncodedPair(p), EncodedPair(q), EncodedPair(r), EncodedPair(s), EncodedPair(t)>>
  BY <1>6, <1>7, FiveEncoded
<1>10. /\ last \in Seq(Parameters)
       /\ Encoded(last) = IF token = <<>> THEN <<>> ELSE <<EncodedPair(u)>>
  <2>1. CASE token = <<>>
    <3>1. Encoded(<<>>) = <<>> /\ last = <<>>
      BY <1>6, <2>1 DEF Encoded
    <3> QED
      BY <2>1, <3>1, EmptySeq
  <2>2. CASE token # <<>>
    <3>1. last = <<u>> /\ last \in Seq(Parameters) /\ Len(last) = 1 /\ last[1] = u
      BY <1>6, <1>7, <2>2
    <3>2. Encoded(last) \in Seq(Parameters) /\ Len(Encoded(last)) = 1 /\ Encoded(last)[1] = EncodedPair(u)
      <4>1. /\ Encoded(last) \in Seq(Parameters) /\ Len(Encoded(last)) = Len(last)
            /\ \A k \in 1..Len(last) : Encoded(last)[k] = EncodedPair(last[k])
        BY <3>1, EncodedPairs
      <4>2. 1 \in 1..Len(last)
        BY <3>1
      <4> QED
        BY <3>1, <4>1, <4>2
    <3>3. Encoded(last) = <<EncodedPair(u)>>
      BY <3>2
    <3> QED
      BY <2>2, <3>1, <3>3
  <2> QED
    BY <2>1, <2>2
<1>11. Encoded(first \o last) = Encoded(first) \o Encoded(last)
  BY <1>9, <1>10, EncodedConcat
<1>12. AuthMeant(signer, at, expires, names) = first \o last
  BY DEF AuthMeant, first, last
<1>13. AuthParameters(signer, at, expires, names) = Encoded(first) \o Encoded(last)
  BY <1>5, <1>8, <1>9, <1>10, Zenon
<1> QED
  BY <1>9, <1>10, <1>11, <1>12, <1>13, Zenon DEF first, last

\* And what each of them is.
Carries(ps, signer, at, expires, names) ==
  /\ ValuesOf(ps, "date") = {AmzDate(at)}
  /\ ValuesOf(ps, "expires") = {<<3000 + expires>>}
  /\ ValuesOf(ps, "credential") = {signer.id \o <<Slash>> \o Scope(at, signer)}
  /\ ValuesOf(ps, "signed_headers") = {Join(Ordered(names), 59)}
  /\ signer.token # <<>> => ValuesOf(ps, "security_token") = {signer.token}

LEMMA CarriesToo ==
  ASSUME NEW ps, NEW qs, NEW signer, NEW at, NEW expires, NEW names,
         Carries(ps, signer, at, expires, names),
         \A word \in {"date", "expires", "credential", "signed_headers", "security_token"} :
           ValuesOf(qs, word) = ValuesOf(ps, word)
  PROVE  Carries(qs, signer, at, expires, names)
<1>1. /\ ValuesOf(qs, "date") = ValuesOf(ps, "date")
      /\ ValuesOf(qs, "expires") = ValuesOf(ps, "expires")
      /\ ValuesOf(qs, "credential") = ValuesOf(ps, "credential")
      /\ ValuesOf(qs, "signed_headers") = ValuesOf(ps, "signed_headers")
      /\ ValuesOf(qs, "security_token") = ValuesOf(ps, "security_token")
  BY Zenon
<1>2. ValuesOf(qs, "date") = {AmzDate(at)}
  BY <1>1 DEF Carries
<1>3. ValuesOf(qs, "expires") = {<<3000 + expires>>}
  BY <1>1 DEF Carries
<1>4. ValuesOf(qs, "credential") = {signer.id \o <<Slash>> \o Scope(at, signer)}
  BY <1>1, SMTT(60) DEF Carries
<1>5. ValuesOf(qs, "signed_headers") = {Join(Ordered(names), 59)}
  BY <1>1 DEF Carries
<1>6. signer.token # <<>> => ValuesOf(qs, "security_token") = {signer.token}
  BY <1>1 DEF Carries
<1> QED
  BY <1>2, <1>3, <1>4, <1>5, <1>6, SMTT(60) DEF Carries

LEMMA AuthValues ==
  ASSUME NEW signer, NEW at, NEW expires, NEW names, LinkTexts(signer, at, expires, names)
  PROVE  /\ AuthMeant(signer, at, expires, names) \in Seq(Parameters)
         /\ AuthMeant(signer, at, expires, names) # <<>>
         /\ Carries(AuthMeant(signer, at, expires, names), signer, at, expires, names)
<1> DEFINE credential == signer.id \o <<Slash>> \o Scope(at, signer)
           text == Join(Ordered(names), 59)
           date == AmzDate(at)
           token == signer.token
           life == <<3000 + expires>>
           first == AuthFirst(signer, at, expires, names)
           last == AuthLast(signer)
           meant == first \o last
<1>1. first \in Seq(Parameters) /\ last \in Seq(Parameters)
  BY AuthEncoded
<1>2. /\ first = <<<<Parameter("algorithm"), Algorithm>>, <<Parameter("credential"), credential>>,
                   <<Parameter("date"), date>>, <<Parameter("expires"), life>>,
                   <<Parameter("signed_headers"), text>>>>
      /\ last = IF token = <<>> THEN <<>> ELSE <<<<Parameter("security_token"), token>>>>
      /\ AuthMeant(signer, at, expires, names) = meant
  BY DEF AuthFirst, AuthLast, AuthMeant
<1> HIDE DEF credential, text, date, token, life, first, last
<1>3. /\ Len(first) = 5
      /\ first[1][1] = Parameter("algorithm") /\ first[2][1] = Parameter("credential")
      /\ first[2][2] = credential
      /\ first[3][1] = Parameter("date") /\ first[3][2] = date
      /\ first[4][1] = Parameter("expires") /\ first[4][2] = life
      /\ first[5][1] = Parameter("signed_headers") /\ first[5][2] = text
  BY <1>2
<1>4. /\ Len(last) = IF token = <<>> THEN 0 ELSE 1
      /\ token # <<>> => last[1][1] = Parameter("security_token") /\ last[1][2] = token
  BY <1>2
<1>5. /\ meant \in Seq(Parameters) /\ Len(meant) = 5 + Len(last)
      /\ \A i \in 1..5 + Len(last) : meant[i] = IF i <= 5 THEN first[i] ELSE last[i - 5]
  <2>1. /\ meant \in Seq(Parameters) /\ Len(meant) = Len(first) + Len(last)
        /\ \A i \in 1..Len(first) + Len(last) :
             meant[i] = IF i <= Len(first) THEN first[i] ELSE last[i - Len(first)]
    BY <1>1, ConcatProperties
  <2>2. Len(first) = 5
    BY <1>3
  <2> HIDE DEF meant
  <2> QED
    BY <2>1, <2>2
<1> HIDE DEF meant
<1>6. DOMAIN meant = IF token = <<>> THEN 1..5 ELSE 1..6
  BY <1>4, <1>5, LenProperties
<1>7. /\ meant[1] = first[1] /\ meant[2] = first[2] /\ meant[3] = first[3] /\ meant[4] = first[4]
      /\ meant[5] = first[5] /\ (token # <<>> => meant[6] = last[1])
  BY <1>4, <1>5
<1>8. \A k \in DOMAIN meant : k \in {1, 2, 3, 4, 5} \/ (k = 6 /\ token # <<>>)
  <2>1. \A k \in 1..5 : k \in {1, 2, 3, 4, 5}
    OBVIOUS
  <2>2. \A k \in 1..6 : k \in 1..5 \/ k = 6
    OBVIOUS
  <2> QED
    BY <1>6, <2>1, <2>2
<1>9. {1, 2, 3, 4, 5} \subseteq DOMAIN meant /\ (token # <<>> => 6 \in DOMAIN meant)
  BY <1>6
<1>10. \A x \in {401, 404, 405, 406, 407, 409}, y \in {401, 404, 405, 406, 407, 409} :
         <<88, Amz, x>> = <<88, Amz, y>> => x = y
  OBVIOUS
<1>11. /\ meant[1][1] = <<88, Amz, 401>> /\ meant[2][1] = <<88, Amz, 404>> /\ meant[3][1] = <<88, Amz, 405>>
       /\ meant[4][1] = <<88, Amz, 406>> /\ meant[5][1] = <<88, Amz, 409>>
       /\ token # <<>> => meant[6][1] = <<88, Amz, 407>>
  BY <1>3, <1>4, <1>7, ParameterNames
<1> DEFINE At(x) == {j \in DOMAIN meant : meant[j][1] = <<88, Amz, x>>}
<1>12. /\ At(404) = {2} /\ At(405) = {3} /\ At(406) = {4} /\ At(409) = {5}
       /\ token # <<>> => At(407) = {6}
  <2> DEFINE N(k) == meant[k][1]
  <2>1. /\ N(1) = <<88, Amz, 401>> /\ N(2) = <<88, Amz, 404>> /\ N(3) = <<88, Amz, 405>>
        /\ N(4) = <<88, Amz, 406>> /\ N(5) = <<88, Amz, 409>>
        /\ token # <<>> => N(6) = <<88, Amz, 407>>
    BY <1>11
  <2>2. \A x : At(x) = {j \in DOMAIN meant : N(j) = <<88, Amz, x>>}
    OBVIOUS
  <2> HIDE DEF N, At
  <2>3. ASSUME NEW k \in DOMAIN meant
        PROVE  /\ (N(k) = <<88, Amz, 404>> <=> k = 2) /\ (N(k) = <<88, Amz, 405>> <=> k = 3)
               /\ (N(k) = <<88, Amz, 406>> <=> k = 4) /\ (N(k) = <<88, Amz, 409>> <=> k = 5)
               /\ (N(k) = <<88, Amz, 407>> => k = 6)
    <3>1. CASE k = 1
      BY <2>1, <3>1, <1>10
    <3>2. CASE k = 2
      BY <2>1, <3>2, <1>10
    <3>3. CASE k = 3
      BY <2>1, <3>3, <1>10
    <3>4. CASE k = 4
      BY <2>1, <3>4, <1>10
    <3>5. CASE k = 5
      BY <2>1, <3>5, <1>10
    <3>6. CASE k = 6 /\ token # <<>>
      BY <2>1, <3>6, <1>10
    <3> QED
      BY <1>8, <3>1, <3>2, <3>3, <3>4, <3>5, <3>6
  <2> QED
    BY <1>9, <2>1, <2>2, <2>3
<1>13. /\ ValuesOf(meant, "credential") = {meant[k][2] : k \in At(404)}
       /\ ValuesOf(meant, "date") = {meant[k][2] : k \in At(405)}
       /\ ValuesOf(meant, "expires") = {meant[k][2] : k \in At(406)}
       /\ ValuesOf(meant, "signed_headers") = {meant[k][2] : k \in At(409)}
       /\ ValuesOf(meant, "security_token") = {meant[k][2] : k \in At(407)}
  BY ParameterNames, ZenonT(60) DEF ValuesOf
<1> HIDE DEF At
<1>14. \A k : {meant[j][2] : j \in {k}} = {meant[k][2]}
  OBVIOUS
<1>15. /\ ValuesOf(meant, "credential") = {credential} /\ ValuesOf(meant, "date") = {date}
       /\ ValuesOf(meant, "expires") = {life} /\ ValuesOf(meant, "signed_headers") = {text}
       /\ token # <<>> => ValuesOf(meant, "security_token") = {token}
  BY <1>3, <1>4, <1>7, <1>12, <1>13, <1>14
<1>16. meant # <<>>
  BY <1>6
<1>17. Carries(meant, signer, at, expires, names)
  <2>1. ValuesOf(meant, "date") = {AmzDate(at)}
    BY <1>15 DEF date
  <2>2. ValuesOf(meant, "expires") = {<<3000 + expires>>}
    BY <1>15 DEF life
  <2>3. ValuesOf(meant, "credential") = {signer.id \o <<Slash>> \o Scope(at, signer)}
    BY <1>15 DEF credential
  <2>4. ValuesOf(meant, "signed_headers") = {Join(Ordered(names), 59)}
    BY <1>15 DEF text
  <2>5. signer.token # <<>> => ValuesOf(meant, "security_token") = {signer.token}
    BY <1>15 DEF token
  <2> QED
    BY <2>1, <2>2, <2>3, <2>4, <2>5 DEF Carries
<1>18. AuthMeant(signer, at, expires, names) = meant
  BY <1>2
<1> QED
  BY <1>5, <1>16, <1>17, <1>18

-----------------------------------------------------------------------------
(***************************************************************************)
(* The query of a link.                                                    *)
(***************************************************************************)

\* Nothing of the target's own query has the name of a parameter that is appended.
LEMMA NoneGiven ==
  ASSUME NEW query \in Seq(Nat), EscapesNeeded(query),
         ~ \E k \in DOMAIN ParseExistingQuery(query) : IsReserved(ParseExistingQuery(query)[k][1]),
         NEW word \in {"date", "expires", "credential", "signed_headers", "security_token"}
  PROVE  ~Given(Received(query), word)
<1> DEFINE r == Received(query)
           e == Encoded(r)
<1>1. r \in Seq(Parameters) /\ ParseExistingQuery(query) = e
  BY ReceivedType, QueryRecoded
<1> HIDE DEF r
<1>2. /\ DOMAIN e = DOMAIN r /\ \A k \in DOMAIN r : e[k] = EncodedPair(r[k])
  BY <1>1, EncodedPairs, LenProperties
<1> HIDE DEF e
<1> SUFFICES ASSUME NEW k \in DOMAIN r, r[k][1] = Parameter(word) PROVE FALSE
  BY DEF Given, r
<1>3. e[k][1] = PercentEncode(Parameter(word), {})
  BY <1>2 DEF EncodedPair
<1>4. PercentEncode(Parameter(word), {}) = Parameter(word) /\ LowerCase(Parameter(word)) = Header(word)
  BY ParametersEncoded
<1>5. word \in Reserved
  BY DEF Reserved
<1>6. IsReserved(e[k][1])
  BY <1>3, <1>4, <1>5, Zenon DEF IsReserved
<1> QED
  BY <1>1, <1>2, <1>6

LinkQuery(query, signer, at, expires, names) ==
  CanonicalQuery(ParseExistingQuery(query) \o AuthParameters(signer, at, expires, names))

\* The service reads what presign appended, and nothing else of those names; and
\* it signs the query as it is.
LEMMA LinkQueryReads ==
  ASSUME NEW signer, NEW at, NEW expires, NEW names, LinkTexts(signer, at, expires, names),
         NEW query \in Seq(Nat), EscapesNeeded(query),
         ~ \E k \in DOMAIN ParseExistingQuery(query) : IsReserved(ParseExistingQuery(query)[k][1]),
         NEW whole, whole = LinkQuery(query, signer, at, expires, names)
  PROVE  /\ whole \in Seq(Nat) /\ Received(whole) \in Seq(Parameters) /\ Received(whole) # <<>>
         /\ ServiceQuery(whole) = whole
         /\ Carries(Received(whole), signer, at, expires, names)
<1> DEFINE given == Received(query)
           meant == AuthMeant(signer, at, expires, names)
           both == given \o meant
           Words == {"date", "expires", "credential", "signed_headers", "security_token"}
<1>1. /\ given \in Seq(Parameters) /\ ParseExistingQuery(query) = Encoded(given)
      /\ AuthParameters(signer, at, expires, names) = Encoded(meant)
  BY ReceivedType, QueryRecoded, AuthEncoded
<1>2. meant \in Seq(Parameters) /\ meant # <<>> /\ Carries(meant, signer, at, expires, names)
  BY AuthValues
<1>3. \A word \in Words : ~Given(given, word)
  BY NoneGiven
<1>4. whole = CanonicalQuery(Encoded(given) \o Encoded(meant))
  BY <1>1, Zenon DEF LinkQuery
<1> HIDE DEF given, meant, Words
<1>5. whole = CanonicalQuery(Encoded(both))
  <2>1. Encoded(both) = Encoded(given) \o Encoded(meant)
    BY <1>1, <1>2, EncodedConcat
  <2> QED
    BY <1>4, <2>1, Zenon
<1>6. both \in Seq(Parameters) /\ both # <<>> /\ Len(both) \in Nat /\ Len(both) # 0
  <2>1. /\ both \in Seq(Parameters) /\ Len(both) = Len(given) + Len(meant)
        /\ Len(given) \in Nat /\ Len(meant) \in Nat /\ Len(meant) # 0
    BY <1>1, <1>2, ConcatProperties, LenProperties, EmptySeq
  <2> HIDE DEF both
  <2>2. Len(both) \in Nat /\ Len(both) # 0
    BY <2>1
  <2> QED
    BY <2>1, <2>2, EmptySeq
<1>7. \A word \in Words : ValuesOf(both, word) = ValuesOf(meant, word)
  BY <1>1, <1>2, <1>3, ValuesBehind
<1> HIDE DEF both
<1>8. PICK f :
        /\ Rearranges(f, Len(both))
        /\ CanonicalQuery(Encoded(both)) \in Seq(Nat)
        /\ Received(CanonicalQuery(Encoded(both))) = Rearranged(both, f)
        /\ ServiceQuery(CanonicalQuery(Encoded(both))) = CanonicalQuery(Encoded(both))
  BY <1>6, CanonicalQueryReads
<1>9. /\ whole \in Seq(Nat) /\ Received(whole) = Rearranged(both, f) /\ ServiceQuery(whole) = whole
  BY <1>5, <1>8, Zenon
<1>10. Received(whole) \in Seq(Parameters) /\ Received(whole) # <<>>
  <2>1. Rearranged(both, f) \in Seq(Parameters) /\ Len(Rearranged(both, f)) = Len(both)
    BY <1>6, <1>8, RearrangedType
  <2>2. Rearranged(both, f) # <<>>
    BY <1>6, <2>1, EmptySeq
  <2> QED
    BY <1>9, <2>1, <2>2, Zenon
<1>11. \A word \in Words : ValuesOf(Received(whole), word) = ValuesOf(meant, word)
  <2>1. \A word : ValuesOf(Rearranged(both, f), word) = ValuesOf(both, word)
    BY <1>6, <1>8, ValuesRearranged
  <2> QED
    BY <1>7, <1>9, <2>1, Zenon
<1>12. Carries(Received(whole), signer, at, expires, names)
  BY <1>2, <1>11, CarriesToo DEF Words
<1> QED
  BY <1>9, <1>10, <1>12

\* One more parameter in front is one more to read.
LEMMA SplitBehind ==
  ASSUME NEW S, NEW sep \in S, NEW u \in Seq(S), FreeOf(u, sep)
  PROVE  \A w \in Seq(S) : Split(u \o (<<sep>> \o w), sep) = <<u>> \o Split(w, sep)
<1> DEFINE T == {w \in Seq(S) : Split(u \o (<<sep>> \o w), sep) = <<u>> \o Split(w, sep)}
           s == <<sep>>
<1>0. s \in Seq(S)
  OBVIOUS
<1>1. ASSUME NEW w \in Seq(S), FreeOf(w, sep) PROVE w \in T
  <2>1. Split(u, sep) = <<u>> /\ Split(w, sep) = <<w>>
    BY <1>1, SplitFree
  <2>2. Split(u \o (<<sep>> \o w), sep) = Split(u, sep) \o <<w>>
    BY <1>1, SplitAppend
  <2> QED
    BY <2>1, <2>2
<1>2. ASSUME NEW w \in Seq(S), NEW v \in Seq(S), w \in T, FreeOf(v, sep) PROVE w \o (s \o v) \in T
  <2> DEFINE p == s \o w
             q == s \o v
  <2>1. p \in Seq(S) /\ q \in Seq(S)
    BY <1>0, ConcatProperties
  <2>2. Split(w \o q, sep) = Split(w, sep) \o <<v>>
    BY <1>2, SplitAppend
  <2>3. /\ Split((u \o p) \o q, sep) = Split(u \o p, sep) \o <<v>>
        /\ u \o p \in Seq(S) /\ w \o q \in Seq(S)
    <3>1. u \o p \in Seq(S) /\ w \o q \in Seq(S)
      BY <2>1, ConcatProperties
    <3> QED
      BY <1>2, <3>1, SplitAppend
  <2>4. (u \o p) \o q = u \o (s \o (w \o q))
    <3>0. Associates(S)
      BY Associative, Zenon
    <3> HIDE DEF s, p, q
    <3>1. (u \o p) \o q = u \o (p \o q)
      BY <2>1, <3>0, ZenonT(60) DEF Associates
    <3>2. (s \o w) \o q = s \o (w \o q)
      BY <1>0, <2>1, <3>0 DEF Associates
    <3> QED
      BY <3>1, <3>2 DEF p
  <2>5. Split(u \o p, sep) = <<u>> \o Split(w, sep)
    BY <1>2
  <2>6. (<<u>> \o Split(w, sep)) \o <<v>> = <<u>> \o (Split(w, sep) \o <<v>>)
    <3>1. Split(w, sep) \in Seq(Seq(S))
      BY JoinSplit DEF SplitShape
    <3>2. <<u>> \in Seq(Seq(S)) /\ <<v>> \in Seq(Seq(S))
      OBVIOUS
    <3> QED
      BY <3>1, <3>2, ConcatAssociative
  <2>7. Split(u \o (s \o (w \o q)), sep) = <<u>> \o Split(w \o q, sep)
    <3> HIDE DEF s, p, q
    <3> QED
      BY <2>2, <2>3, <2>4, <2>5, <2>6
  <2> QED
    BY <2>3, <2>7
<1> HIDE DEF T
<1>3. Seq(S) \subseteq T
  BY <1>1, <1>2, PieceInduction
<1> QED
  BY <1>3 DEF T


LEMMA TwoBytes ==
  ASSUME NEW b \in Nat, NEW c \in Nat
  PROVE  <<b>> \o <<c>> = <<b, c>>
<1> DEFINE u == <<b>>
           v == <<c>>
           t == <<b, c>>
           w == u \o v
<1>1. /\ u \in Seq(Nat) /\ v \in Seq(Nat) /\ t \in Seq(Nat)
      /\ Len(u) = 1 /\ Len(v) = 1 /\ Len(t) = 2
      /\ u[1] = b /\ v[1] = c /\ t[1] = b /\ t[2] = c
  OBVIOUS
<1> HIDE DEF u, v, t
<1>2. Concatenated(w, u, v)
  BY <1>1, BytesOf
<1> HIDE DEF w
<1>3. w \in Seq(Nat) /\ Len(w) = 2 /\ w[1] = b /\ w[2] = c
  BY <1>1, <1>2 DEF Concatenated
<1>4. \A i \in 1..2 : w[i] = t[i]
  BY <1>1, <1>3
<1>5. w = t
  BY <1>1, <1>3, <1>4, SeqEqual
<1> QED
  BY <1>5 DEF w, u, v, t

LEMMA QueryLonger ==
  ASSUME NEW query \in Seq(Nat), query # <<>>
  PROVE  ServiceQuery(<<318, Ampersand>> \o query) # query
<1> DEFINE word == <<318>>
           s == <<Ampersand>>
           longer == word \o (s \o query)
<1>1. /\ word \in Seq(Nat) /\ FreeOf(word, Ampersand) /\ s \in Seq(Nat) /\ Ampersand \in Nat
      /\ word \o s = <<318, Ampersand>> /\ Len(word) = 1
  <2>1. word \in Seq(Nat) /\ Len(word) = 1 /\ word[1] = 318
    OBVIOUS
  <2>2. s \in Seq(Nat) /\ Ampersand \in Nat /\ Ampersand # 318
    BY DEF Ampersand
  <2>3. word \o s = <<318, Ampersand>>
    BY <2>2, TwoBytes
  <2> HIDE DEF word, s
  <2>4. FreeOf(word, Ampersand)
    BY <2>1, <2>2 DEF FreeOf
  <2> QED
    BY <2>1, <2>2, <2>3, <2>4
<1>2. <<318, Ampersand>> \o query = longer
  <2>1. Associates(Nat)
    BY Associative, Zenon
  <2> HIDE DEF word, s
  <2>2. (word \o s) \o query = word \o (s \o query)
    BY <1>1, <2>1, ZenonT(60) DEF Associates
  <2> QED
    BY <1>1, <2>2, Zenon
<1>3. longer \in Seq(Nat) /\ longer # <<>>
  <2> HIDE DEF word, s
  <2> DEFINE v == s \o query
  <2>1. v \in Seq(Nat)
    BY <1>1, ConcatProperties
  <2> HIDE DEF v
  <2>2. word \o v \in Seq(Nat) /\ Len(word \o v) = Len(word) + Len(v) /\ Len(v) \in Nat
    BY <1>1, <2>1, Bytes
  <2>3. longer \in Seq(Nat) /\ Len(longer) = 1 + Len(v)
    BY <1>1, <2>2 DEF v
  <2> HIDE DEF longer
  <2> QED
    BY <2>2, <2>3, EmptySeq
<1>4. Split(longer, Ampersand) = <<word>> \o Split(query, Ampersand)
  <2> HIDE DEF word
  <2>1. \A w \in Seq(Nat) : Split(word \o (<<Ampersand>> \o w), Ampersand) = <<word>> \o Split(w, Ampersand)
    BY <1>1, SplitBehind, ZenonT(60)
  <2> QED
    BY <2>1
<1> HIDE DEF word, s, longer
<1>5. /\ Len(Split(longer, Ampersand)) = 1 + Len(Split(query, Ampersand))
      /\ Len(Split(query, Ampersand)) \in Nat
  <2> DEFINE h == <<word>>
             g == Split(query, Ampersand)
  <2>1. g \in Seq(Seq(Nat))
    BY <1>1, JoinSplit DEF SplitShape
  <2>2. h \in Seq(Seq(Nat)) /\ Len(h) = 1
    BY <1>1, Literals
  <2> HIDE DEF h, g
  <2>3. Len(h \o g) = 1 + Len(g) /\ Len(g) \in Nat
    BY <2>1, <2>2, ConcatProperties, LenProperties, ZenonT(60)
  <2> QED
    BY <1>4, <2>3 DEF h, g
<1> DEFINE r == Received(longer)
<1>6. /\ r \in Seq(Parameters) /\ Len(r) = 1 + Len(Received(query)) /\ Len(Received(query)) \in Nat
      /\ r # <<>>
  <2>1. r \in Seq(Parameters) /\ Len(r) = Len(Split(longer, Ampersand))
    BY <1>3, ReceivedType
  <2>2. Len(Received(query)) = Len(Split(query, Ampersand))
    BY ReceivedType
  <2> HIDE DEF r
  <2> QED
    BY <1>5, <2>1, <2>2, EmptySeq
<1>7. ServiceQuery(longer) = CanonicalQuery(Encoded(r))
  BY Zenon DEF ServiceQuery, CanonicalQuery
<1> HIDE DEF r
<1>8. PICK f :
        /\ Rearranges(f, Len(r))
        /\ Received(CanonicalQuery(Encoded(r))) = Rearranged(r, f)
  BY <1>6, CanonicalQueryReads
<1>9. Len(Received(ServiceQuery(longer))) = Len(r)
  <2>1. Len(Rearranged(r, f)) = Len(r)
    BY <1>6, <1>8, RearrangedType
  <2> QED
    BY <1>7, <1>8, <2>1, Zenon
<1>10. ASSUME ServiceQuery(longer) = query PROVE FALSE
  <2>1. Len(Received(query)) = Len(r)
    BY <1>9, <1>10, Zenon
  <2> DEFINE m == Len(Received(query))
             n == Len(r)
  <2>2. m = n /\ n = 1 + m /\ m \in Nat
    BY <1>6, <2>1
  <2> HIDE DEF m, n
  <2> QED
    BY <2>2
<1> QED
  BY <1>2, <1>10, Zenon

-----------------------------------------------------------------------------
(***************************************************************************)
(* The path of a link.                                                     *)
(***************************************************************************)
Segments(names) == [k \in DOMAIN names |-> PercentEncode(names[k], {})]

\* A path of encoded names is signed as it is.
LEMMA SegmentsRead ==
  ASSUME NEW x \in Seq(Seq(Nat)), x # <<>>
  PROVE  /\ Segments(x) \in Seq(Seq(Nat)) /\ Len(Segments(x)) = Len(x)
         /\ Join(Segments(x), Slash) \in Seq(Nat)
         /\ ServicePath(Join(Segments(x), Slash)) = Join(Segments(x), Slash)
<1> DEFINE g == Segments(x)
           n == Len(x)
<1>1. n \in Nat /\ n # 0 /\ DOMAIN x = 1..n /\ \A k \in 1..n : x[k] \in Seq(Nat)
  BY LenProperties, ElementOfSeq, EmptySeq
<1>2. /\ g \in Seq(Seq(Nat)) /\ Len(g) = n /\ DOMAIN g = 1..n
      /\ \A k \in 1..n : g[k] = PercentEncode(x[k], {})
  <2>1. \A k \in 1..n : PercentEncode(x[k], {}) \in Seq(Nat)
    BY <1>1, EncodedType
  <2>2. g = [k \in 1..n |-> PercentEncode(x[k], {})]
    BY <1>1 DEF Segments
  <2> HIDE DEF g, n
  <2> QED
    BY <1>1, <2>1, <2>2, FunctionIsSeq
<1>3. g = [k \in DOMAIN g |-> g[k]]
  BY <1>2
<1> HIDE DEF g, n
<1>4. \A k \in 1..n : FreeOf(g[k], Slash)
  BY <1>1, <1>2, EncodedPlain, SeparatorsNotPlain
<1>5. g # <<>>
  BY <1>1, <1>2, EmptySeq
<1>6. Join(g, Slash) \in Seq(Nat) /\ Split(Join(g, Slash), Slash) = g
  BY <1>2, <1>4, <1>5, SplitJoin, SlashIsNoDigit
<1>7. \A k \in DOMAIN g : PercentEncode(Decoded(g[k]), {}) = g[k]
  <2>1. Percent \notin {}
    OBVIOUS
  <2>2. \A k \in 1..n : Decoded(PercentEncode(x[k], {})) = x[k]
    BY <1>1, <2>1, DecodedEncoded
  <2> QED
    BY <1>2, <2>2
<1>8. Recoded(g) = g
  BY <1>3, <1>7 DEF Recoded
<1>9. ServicePath(Join(g, Slash)) = Join(Recoded(g), Slash)
  BY <1>6, Zenon DEF ServicePath, Recoded
<1> QED
  BY <1>2, <1>6, <1>8, <1>9, Zenon DEF g, n


\* One more unreserved byte at the end is one more in the encoding.
LEMMA EncodedBehind ==
  ASSUME NEW text \in Seq(Nat), NEW c \in Nat, Unreserved(c)
  PROVE  PercentEncode(text \o <<c>>, {}) = PercentEncode(text, {}) \o <<c>>
<1> DEFINE h == <<c>>
           t == text \o h
           n == Len(text)
<1>1. h \in Seq(Nat) /\ Len(h) = 1 /\ h[1] = c /\ Raw(c, {}) = h
  BY DEF Raw
<1> HIDE DEF h
<1>2. /\ t \in Seq(Nat) /\ n \in Nat /\ Len(t) = n + 1 /\ t[n + 1] = c
      /\ \A i \in 1..n : t[i] = text[i]
  <2>1. Concatenated(t, text, h)
    BY <1>1, BytesOf
  <2> HIDE DEF t
  <2>2. Len(h) = 1 /\ 1 \in 1..Len(h)
    BY <1>1
  <2> QED
    BY <1>1, <2>1, <2>2 DEF Concatenated
<1> HIDE DEF t
<1>3. PICK p : Encoding(p, t, {}, Nat)
  BY <1>2, RawType, EncodedPieces
<1>4. PICK q : Encoding(q, text, {}, Nat)
  BY RawType, EncodedPieces
<1> HIDE DEF n
<1>5. /\ p[0] = <<>> /\ \A k \in 1..n + 1 : p[k] = p[k - 1] \o Raw(t[k], {})
      /\ q[0] = <<>> /\ \A k \in 1..n : q[k] = q[k - 1] \o Raw(text[k], {})
      /\ PercentEncode(t, {}) = p[n + 1] /\ PercentEncode(text, {}) = q[n]
  BY <1>2, <1>3, <1>4 DEF Encoding, n
<1> DEFINE T == {m \in Nat : m <= n => p[m] = q[m]}
<1>6. 0 \in T
  BY <1>5
<1>7. ASSUME NEW m \in Nat, m \in T PROVE m + 1 \in T
  <2> SUFFICES ASSUME m + 1 <= n PROVE p[m + 1] = q[m + 1]
    OBVIOUS
  <2>1. m <= n /\ m + 1 \in 1..n /\ m + 1 \in 1..n + 1 /\ (m + 1) - 1 = m
    BY <1>2
  <2>2. p[m + 1] = p[m] \o Raw(t[m + 1], {}) /\ q[m + 1] = q[m] \o Raw(text[m + 1], {})
    <3>1. \A k \in 1..n + 1 : p[k] = p[k - 1] \o Raw(t[k], {})
      BY <1>5
    <3>2. \A k \in 1..n : q[k] = q[k - 1] \o Raw(text[k], {})
      BY <1>5
    <3> QED
      BY <2>1, <3>1, <3>2
  <2>3. p[m] = q[m] /\ t[m + 1] = text[m + 1]
    BY <1>2, <1>7, <2>1
  <2> QED
    BY <2>2, <2>3, Zenon
<1>8. n \in T
  <2> HIDE DEF T
  <2> QED
    BY <1>2, <1>6, <1>7, SetInduction
<1>9. p[n] = q[n]
  BY <1>2, <1>8
<1>10. p[n + 1] = p[n] \o Raw(t[n + 1], {})
  <2>1. n + 1 \in 1..n + 1 /\ (n + 1) - 1 = n
    BY <1>2
  <2> QED
    BY <1>5, <2>1
<1> QED
  BY <1>1, <1>2, <1>5, <1>9, <1>10, Zenon DEF t, h

LEMMA SegmentsAppend ==
  ASSUME NEW x \in Seq(Seq(Nat)), NEW u \in Seq(Nat)
  PROVE  Segments(x \o <<u>>) = Segments(x) \o <<PercentEncode(u, {})>>
<1> DEFINE h == <<u>>
           c == PercentEncode(u, {})
           n == Len(x)
           y == x \o h
           g == Segments(x)
           e == <<c>>
           long == g \o e
<1>1. h \in Seq(Seq(Nat)) /\ Len(h) = 1 /\ h[1] = u
  BY Literals
<1>2. n \in Nat /\ DOMAIN x = 1..n /\ \A k \in 1..n : x[k] \in Seq(Nat)
  BY LenProperties, ElementOfSeq
<1>3. c \in Seq(Nat)
  BY EncodedType
<1> HIDE DEF h, c
<1>4. e \in Seq(Seq(Nat)) /\ Len(e) = 1 /\ e[1] = c
  BY <1>3, Literals
<1> HIDE DEF e
<1>5. /\ y \in Seq(Seq(Nat)) /\ DOMAIN y = 1..n + 1 /\ y[n + 1] = u
      /\ \A k \in 1..n : y[k] = x[k]
  <2>1. /\ y \in Seq(Seq(Nat)) /\ Len(y) = n + Len(h) /\ DOMAIN y = 1..Len(y)
        /\ \A i \in 1..n + Len(h) : y[i] = IF i <= n THEN x[i] ELSE h[i - n]
    BY <1>1, ConcatProperties, LenProperties
  <2>2. Len(h) = 1 /\ h[1] = u
    BY <1>1
  <2> HIDE DEF y, n
  <2>3. \A i \in 1..n + 1 : y[i] = IF i <= n THEN x[i] ELSE h[i - n]
    BY <2>1, <2>2
  <2>4. /\ n + 1 \in 1..n + 1 /\ ~(n + 1 <= n) /\ (n + 1) - n = 1
        /\ \A k \in 1..n : k \in 1..n + 1 /\ k <= n
    BY <1>2
  <2>5. y[n + 1] = u /\ \A k \in 1..n : y[k] = x[k]
    BY <2>2, <2>3, <2>4
  <2>6. DOMAIN y = 1..n + 1
    BY <2>1, <2>2
  <2> QED
    BY <2>1, <2>5, <2>6
<1>6. /\ g \in Seq(Seq(Nat)) /\ Len(g) = n /\ \A k \in 1..n : g[k] = PercentEncode(x[k], {})
  <2>1. \A k \in 1..n : PercentEncode(x[k], {}) \in Seq(Nat)
    BY <1>2, EncodedType
  <2>2. g = [k \in 1..n |-> PercentEncode(x[k], {})]
    BY <1>2 DEF Segments
  <2> HIDE DEF g, n
  <2> QED
    BY <1>2, <2>1, <2>2, FunctionIsSeq
<1> HIDE DEF y, g
<1>7. /\ long \in Seq(Seq(Nat)) /\ Len(long) = n + 1 /\ DOMAIN long = 1..n + 1 /\ long[n + 1] = c
      /\ \A k \in 1..n : long[k] = g[k]
  <2>1. /\ long \in Seq(Seq(Nat)) /\ Len(long) = Len(g) + Len(e) /\ DOMAIN long = 1..Len(long)
        /\ \A i \in 1..Len(g) + Len(e) : long[i] = IF i <= Len(g) THEN g[i] ELSE e[i - Len(g)]
    BY <1>4, <1>6, ConcatProperties, LenProperties
  <2> HIDE DEF long, n
  <2> QED
    BY <1>2, <1>4, <1>6, <2>1
<1> HIDE DEF long, n
<1>8. \A k \in 1..n + 1 : PercentEncode(y[k], {}) = long[k]
  <2>1. \A k \in 1..n + 1 : k \in 1..n \/ k = n + 1
    BY <1>2
  <2> QED
    BY <1>5, <1>6, <1>7, <2>1 DEF c
<1>9. Segments(y) = [k \in 1..n + 1 |-> long[k]]
  BY <1>5, <1>8 DEF Segments
<1>10. long = [k \in 1..n + 1 |-> long[k]]
  BY <1>7
<1> QED
  BY <1>9, <1>10 DEF y, g, long, h, c, e

\* The path of another object is not the path that was signed.
LEMMA PathLonger ==
  ASSUME NEW x \in Seq(Seq(Nat)), x # <<>>,
         NEW path, path = Join(Segments(x), Slash)
  PROVE  ServicePath(Append(path, 317)) # path
<1> DEFINE n == Len(x)
           front == SubSeq(x, 1, n - 1)
           last == x[n]
           more == <<317>>
           After(v) == Join(Segments(front \o <<v>>), Slash)
<1>1. n \in Nat /\ n >= 1 /\ last \in Seq(Nat) /\ front \in Seq(Seq(Nat)) /\ x = front \o <<last>>
  <2>1. n \in Nat /\ n >= 1 /\ n \in 1..n
    BY LenProperties, EmptySeq
  <2>2. last \in Seq(Nat)
    BY <2>1, ElementOfSeq
  <2>3. front \in Seq(Seq(Nat)) /\ x = front \o <<last>>
    BY <2>1, <2>2
  <2> QED
    BY <2>1, <2>2, <2>3
<1> HIDE DEF front, last, n
<1>2. more \in Seq(Nat) /\ Len(more) = 1 /\ Unreserved(317)
  BY DEF Unreserved
<1>3. \A v \in Seq(Nat) : After(v) = IF front = <<>> THEN PercentEncode(v, {})
                                     ELSE Join(Segments(front), Slash) \o (<<Slash>> \o PercentEncode(v, {}))
  <2> SUFFICES ASSUME NEW v \in Seq(Nat)
               PROVE  After(v) = IF front = <<>> THEN PercentEncode(v, {})
                                 ELSE Join(Segments(front), Slash) \o (<<Slash>> \o PercentEncode(v, {}))
    OBVIOUS
  <2> DEFINE c == PercentEncode(v, {})
  <2>1. c \in Seq(Nat)
    BY EncodedType
  <2>2. Segments(front \o <<v>>) = Segments(front) \o <<c>>
    BY <1>1, SegmentsAppend
  <2> HIDE DEF c
  <2>3. CASE front = <<>>
    <3>1. Segments(front) = <<>>
      BY <2>3 DEF Segments
    <3>2. <<c>> \in Seq(Seq(Nat)) /\ <<>> \o <<c>> = <<c>>
      BY <2>1
    <3>3. After(v) = Join(<<c>>, Slash)
      BY <2>2, <3>1, <3>2
    <3>4. Join(<<c>>, Slash) = c
      BY <2>1, JoinOne, SlashIsNoDigit
    <3> QED
      BY <2>3, <3>3, <3>4 DEF c
  <2>4. CASE front # <<>>
    <3>1. Segments(front) \in Seq(Seq(Nat)) /\ Len(Segments(front)) = Len(front)
      BY <1>1, <2>4, SegmentsRead
    <3>2. Segments(front) # <<>>
      BY <1>1, <2>4, <3>1, EmptySeq
    <3>3. Join(Segments(front) \o <<c>>, Slash) = Join(Segments(front), Slash) \o (<<Slash>> \o c)
      BY <2>1, <3>1, <3>2, JoinAppend, SlashIsNoDigit
    <3> QED
      BY <2>2, <2>4, <3>3 DEF c
  <2> QED
    BY <2>3, <2>4
<1>4. \A v \in Seq(Nat) : After(v) \in Seq(Nat) /\ ServicePath(After(v)) = After(v)
  <2> SUFFICES ASSUME NEW v \in Seq(Nat) PROVE After(v) \in Seq(Nat) /\ ServicePath(After(v)) = After(v)
    OBVIOUS
  <2> DEFINE y == front \o <<v>>
  <2>1. y \in Seq(Seq(Nat)) /\ y # <<>>
    <3> DEFINE h == <<v>>
    <3>1. h \in Seq(Seq(Nat)) /\ Len(h) = 1
      BY Literals
    <3> HIDE DEF h
    <3>2. y \in Seq(Seq(Nat)) /\ Len(y) = Len(front) + Len(h) /\ Len(front) \in Nat
      BY <1>1, <3>1, ConcatProperties, LenProperties DEF h
    <3> HIDE DEF y
    <3> QED
      BY <3>1, <3>2, EmptySeq
  <2> HIDE DEF y
  <2>2. Join(Segments(y), Slash) \in Seq(Nat) /\ ServicePath(Join(Segments(y), Slash)) = Join(Segments(y), Slash)
    BY <2>1, SegmentsRead
  <2> QED
    BY <2>2 DEF y
<1>5. path = After(last)
  BY <1>1
<1> DEFINE longer == last \o more
<1>6. longer \in Seq(Nat) /\ PercentEncode(longer, {}) = PercentEncode(last, {}) \o more
  <2>1. longer \in Seq(Nat)
    BY <1>1, <1>2, ConcatProperties
  <2>2. PercentEncode(longer, {}) = PercentEncode(last, {}) \o more
    BY <1>1, <1>2, EncodedBehind
  <2> QED
    BY <2>1, <2>2
<1> DEFINE c == PercentEncode(last, {})
           j == Join(Segments(front), Slash)
           s == <<Slash>>
<1>7. c \in Seq(Nat) /\ s \in Seq(Nat)
  BY <1>1, EncodedType, Literals, SlashIsNoDigit
<1> HIDE DEF After, longer, c, more, s
<1>8. After(longer) = path \o more
  <2>1. CASE front = <<>>
    BY <1>1, <1>3, <1>5, <1>6, <2>1 DEF c
  <2>2. CASE front # <<>>
    <3>1. j \in Seq(Nat)
      BY <1>1, <2>2, SegmentsRead
    <3> HIDE DEF j
    <3>2. path = j \o (s \o c) /\ After(longer) = j \o (s \o (c \o more))
      BY <1>1, <1>3, <1>5, <1>6, <2>2 DEF j, s, c
    <3>3. Associates(Nat)
      BY Associative, Zenon
    <3>4. s \o c \in Seq(Nat)
      BY <1>7, ConcatProperties
    <3> DEFINE d == s \o c
    <3>5. d \o more = s \o (c \o more)
      BY <1>2, <1>7, <3>3, Zenon DEF Associates
    <3> HIDE DEF d
    <3>6. (j \o d) \o more = j \o (d \o more)
      BY <1>2, <3>1, <3>3, <3>4, Zenon DEF Associates, d
    <3> QED
      BY <3>2, <3>5, <3>6, Zenon DEF d
  <2> QED
    BY <2>1, <2>2
<1>9. path \in Seq(Nat) /\ Append(path, 317) = path \o more
  <2>1. path \in Seq(Nat) /\ 317 \in Nat
    BY <1>1, <1>4, <1>5
  <2>2. Append(path, 317) = path \o <<317>>
    BY <2>1, AppendIsConcat
  <2> QED
    BY <2>1, <2>2 DEF more
<1>10. path \o more # path
  <2> DEFINE t == path \o more
  <2>1. Len(t) = Len(path) + Len(more) /\ Len(path) \in Nat
    BY <1>2, <1>9, Bytes
  <2> HIDE DEF t
  <2>2. Len(t) # Len(path)
    BY <1>2, <2>1
  <2> QED
    BY <2>2 DEF t
<1>11. ServicePath(path \o more) = path \o more
  BY <1>4, <1>6, <1>8, Zenon
<1> QED
  BY <1>9, <1>10, <1>11, Zenon


\* The service signs the path of a link as it is, and not that of another object.
LEMMA LinkPath ==
  ASSUME NEW e \in Endpoint, NEW a \in LinkAsked, EscapesNeeded(e.base),
         NEW path, path = CanonicalUri(RequestTo(e, a), Cut(a.target, Question)[1])
  PROVE  ServicePath(path) = path /\ ServicePath(Append(path, 317)) # path
<1> DEFINE whole == PathOf(e, a)
           g == Split(whole, Slash)
           x == [k \in DOMAIN g |-> Decoded(g[k])]
<1>1. whole \in Seq(Nat) /\ path = ServicePath(whole)
  BY PathWhole
<1> HIDE DEF whole
<1>2. g \in Seq(Seq(Nat)) /\ g # <<>>
  BY <1>1, JoinSplit, SlashIsNoDigit DEF SplitShape
<1>3. path = Join(Recoded(g), Slash)
  BY <1>1, Zenon DEF ServicePath, Recoded
<1> HIDE DEF g
<1>4. /\ DOMAIN g = 1..Len(g) /\ Len(g) \in Nat /\ Len(g) # 0
      /\ \A k \in 1..Len(g) : Decoded(g[k]) \in Seq(Nat)
  BY <1>2, LenProperties, ElementOfSeq, EmptySeq, DecodedType
<1>5. x \in Seq(Seq(Nat)) /\ Len(x) = Len(g)
  BY <1>4, FunctionIsSeq
<1>6. x # <<>>
  <2> HIDE DEF x
  <2> QED
    BY <1>4, <1>5, EmptySeq
<1>7. Recoded(g) = Segments(x)
  BY DEF Recoded, Segments
<1> HIDE DEF x
<1>8. path = Join(Segments(x), Slash)
  BY <1>3, <1>7, Zenon
<1>9. ServicePath(path) = path
  BY <1>5, <1>6, <1>8, SegmentsRead
<1>10. ServicePath(Append(path, 317)) # path
  BY <1>5, <1>6, <1>8, PathLonger
<1> QED
  BY <1>9, <1>10

-----------------------------------------------------------------------------
(***************************************************************************)
(* The headers of a link: their values are trimmed when they are signed,   *)
(* and trimming them again, as the service does, changes nothing.          *)
(***************************************************************************)
KeptSpace(text, i) ==
  /\ i > 1 /\ text[i - 1] \notin Space
  /\ \E j \in i..Len(text) : text[j] \notin Space

TrimPiece(text, i) ==
  IF text[i] \notin Space THEN <<text[i]>> ELSE IF KeptSpace(text, i) THEN <<32>> ELSE <<>>

TidySpaces(t) == \A i \in 1..Len(t) : t[i] \in Space => t[i] = 32 /\ i > 1 /\ t[i - 1] \notin Space

EndsInSpace(t) == t # <<>> /\ t[Len(t)] \in Space

LEMMA TrimIs ==
  ASSUME NEW text
  PROVE  TrimCollapse(text) = FlattenSeq([i \in DOMAIN text |-> TrimPiece(text, i)])
BY Zenon DEF TrimCollapse, TrimPiece, KeptSpace

LEMMA OnesFlatten ==
  ASSUME NEW text \in Seq(Nat)
  PROVE  FlattenSeq([i \in DOMAIN text |-> <<text[i]>>]) = text
<1> DEFINE ones == [i \in DOMAIN text |-> <<text[i]>>]
           pieces == [i \in DOMAIN text |-> Raw(text[i], Nat)]
<1>1. \A i \in DOMAIN text : text[i] \in Nat
  BY ElementOfSeq, LenProperties
<1>2. \A i \in DOMAIN text : Raw(text[i], Nat) = <<text[i]>>
  BY <1>1 DEF Raw
<1>3. pieces = ones
  BY <1>2
<1>4. PercentEncode(text, Nat) = FlattenSeq(pieces)
  BY DEF PercentEncode
<1> HIDE DEF pieces, ones
<1>5. PercentEncode(text, Nat) = text
  BY <1>1, KeptEncoded
<1>6. FlattenSeq(ones) = text
  BY <1>3, <1>4, <1>5, Zenon
<1> QED
  BY <1>6 DEF ones

LEMMA TidyTrimmed ==
  ASSUME NEW text \in Seq(Nat), TidySpaces(text), ~EndsInSpace(text)
  PROVE  TrimCollapse(text) = text
<1> DEFINE ones == [i \in DOMAIN text |-> <<text[i]>>]
           pieces == [i \in DOMAIN text |-> TrimPiece(text, i)]
           n == Len(text)
<1>1. n \in Nat /\ DOMAIN text = 1..n /\ \A i \in 1..n : text[i] \in Nat
  BY LenProperties, ElementOfSeq
<1>2. text = <<>> <=> n = 0
  BY EmptySeq
<1> HIDE DEF n
<1>3. ASSUME NEW i \in 1..n PROVE TrimPiece(text, i) = <<text[i]>>
  <2>1. CASE text[i] \notin Space
    BY <2>1 DEF TrimPiece
  <2>2. CASE text[i] \in Space
    <3>1. text[i] = 32 /\ i > 1 /\ text[i - 1] \notin Space
      BY <2>2 DEF TidySpaces, n
    <3>2. i # n
      <4>1. text # <<>> /\ (text[n] \in Space => EndsInSpace(text))
        BY <1>1, <1>2 DEF EndsInSpace, n
      <4> QED
        BY <2>2, <4>1
    <3>3. i + 1 \in 1..n /\ i + 1 \in i..n /\ (i + 1) - 1 = i
      BY <1>1, <3>2
    <3>4. text[i + 1] \notin Space
      <4>1. text[i + 1] \in Space => text[(i + 1) - 1] \notin Space
        BY <3>3 DEF TidySpaces, n
      <4> QED
        BY <2>2, <3>3, <4>1
    <3>5. KeptSpace(text, i)
      BY <3>1, <3>3, <3>4 DEF KeptSpace, n
    <3> QED
      BY <2>2, <3>1, <3>5 DEF TrimPiece
  <2> QED
    BY <2>1, <2>2
<1>4. pieces = ones
  BY <1>1, <1>3
<1>5. TrimCollapse(text) = FlattenSeq(pieces)
  BY TrimIs
<1>6. FlattenSeq(ones) = text
  BY OnesFlatten
<1> HIDE DEF pieces, ones
<1> QED
  BY <1>4, <1>5, <1>6, Zenon


LEMMA LastOf ==
  ASSUME NEW p \in Seq(Nat), NEW c \in Nat
  PROVE  /\ p \o <<c>> \in Seq(Nat) /\ Len(p \o <<c>>) = Len(p) + 1 /\ Len(p) \in Nat
         /\ (p \o <<c>>)[Len(p) + 1] = c /\ \A i \in 1..Len(p) : (p \o <<c>>)[i] = p[i]
         /\ p \o <<c>> # <<>>
<1> DEFINE h == <<c>>
           t == p \o h
<1>1. h \in Seq(Nat) /\ Len(h) = 1 /\ h[1] = c /\ 1 \in 1..Len(h)
  OBVIOUS
<1> HIDE DEF h
<1>2. Concatenated(t, p, h)
  BY <1>1, BytesOf
<1> HIDE DEF t
<1>3. t \in Seq(Nat) /\ Len(t) = Len(p) + 1 /\ Len(p) \in Nat
  BY <1>1, <1>2 DEF Concatenated
<1>4. t[Len(p) + 1] = c /\ \A i \in 1..Len(p) : t[i] = p[i]
  BY <1>1, <1>2 DEF Concatenated
<1>5. t # <<>>
  BY <1>3, EmptySeq
<1> QED
  BY <1>3, <1>4, <1>5 DEF t, h

\* A text that is tidy so far stays so with one more byte.
LEMMA TidyMore ==
  ASSUME NEW p \in Seq(Nat), TidySpaces(p), NEW c \in Nat,
         c \in Space => c = 32 /\ p # <<>> /\ ~EndsInSpace(p)
  PROVE  TidySpaces(p \o <<c>>) /\ (EndsInSpace(p \o <<c>>) <=> c \in Space)
<1> DEFINE t == p \o <<c>>
           n == Len(p)
<1>1. /\ t \in Seq(Nat) /\ Len(t) = n + 1 /\ n \in Nat /\ t[n + 1] = c /\ t # <<>>
      /\ \A i \in 1..n : t[i] = p[i]
  BY LastOf
<1>2. p = <<>> <=> n = 0
  BY EmptySeq
<1> HIDE DEF t
<1>3. \A i \in 1..n : p[i] \in Space => p[i] = 32 /\ i > 1 /\ p[i - 1] \notin Space
  BY DEF TidySpaces
<1>4. c \in Space => c = 32 /\ n # 0 /\ p[n] \notin Space
  BY <1>2 DEF EndsInSpace
<1> HIDE DEF n
<1>5. ASSUME NEW i \in 1..n + 1, t[i] \in Space PROVE t[i] = 32 /\ i > 1 /\ t[i - 1] \notin Space
  <2>1. CASE i \in 1..n
    <3>1. p[i] = 32 /\ i > 1 /\ p[i - 1] \notin Space
      BY <1>1, <1>3, <1>5, <2>1
    <3>2. i - 1 \in 1..n
      BY <1>1, <2>1, <3>1
    <3> QED
      BY <1>1, <2>1, <3>1, <3>2
  <2>2. CASE i = n + 1
    <3>1. c \in Space
      BY <1>1, <1>5, <2>2
    <3>2. i - 1 = n /\ n \in 1..n /\ i > 1
      BY <1>1, <1>4, <2>2, <3>1
    <3> QED
      BY <1>1, <1>4, <2>2, <3>1, <3>2
  <2> QED
    BY <1>1, <2>1, <2>2
<1>6. TidySpaces(t)
  BY <1>1, <1>5 DEF TidySpaces
<1>7. EndsInSpace(t) <=> c \in Space
  BY <1>1 DEF EndsInSpace
<1> QED
  BY <1>6, <1>7 DEF t

LEMMA TrimTidies ==
  ASSUME NEW text \in Seq(Nat)
  PROVE  /\ TrimCollapse(text) \in Seq(Nat)
         /\ TidySpaces(TrimCollapse(text)) /\ ~EndsInSpace(TrimCollapse(text))
<1> DEFINE n == Len(text)
           pieces == [i \in DOMAIN text |-> TrimPiece(text, i)]
           Visibly(i) == i \in 1..n /\ text[i] \notin Space
<1>1. n \in Nat /\ DOMAIN text = 1..n /\ \A i \in 1..n : text[i] \in Nat
  BY LenProperties, ElementOfSeq
<1>2. 32 \in Space /\ 32 \in Nat /\ TrimCollapse(text) = FlattenSeq(pieces)
  BY TrimIs DEF Space
<1> HIDE DEF n
<1>3. ASSUME NEW i \in 1..n
      PROVE  \/ Visibly(i) /\ TrimPiece(text, i) = <<text[i]>>
             \/ ~Visibly(i) /\ KeptSpace(text, i) /\ TrimPiece(text, i) = <<32>>
             \/ ~Visibly(i) /\ TrimPiece(text, i) = <<>>
  BY DEF TrimPiece
<1>4. \A i \in 1..n : TrimPiece(text, i) \in Seq(Nat)
  <2> TAKE i \in 1..n
  <2>1. <<text[i]>> \in Seq(Nat) /\ <<32>> \in Seq(Nat) /\ <<>> \in Seq(Nat)
    BY <1>1, <1>2, Literals
  <2> QED
    BY <1>3, <2>1
<1>5. pieces \in Seq(Seq(Nat)) /\ Len(pieces) = n /\ \A i \in 1..n : pieces[i] = TrimPiece(text, i)
  <2>1. pieces = [i \in 1..n |-> TrimPiece(text, i)]
    BY <1>1
  <2> HIDE DEF pieces
  <2> QED
    BY <1>1, <1>4, <2>1, FunctionIsSeq
<1> HIDE DEF pieces
<1>6. PICK p \in [0..n -> Seq(Nat)] :
        /\ p[0] = <<>>
        /\ \A k \in 1..n : p[k] = p[k - 1] \o pieces[k]
        /\ FlattenSeq(pieces) = p[n]
  <2>1. \E q \in [0..Len(pieces) -> Seq(Nat)] :
          /\ q[0] = <<>>
          /\ \A k \in 1..Len(pieces) : q[k] = q[k - 1] \o pieces[k]
          /\ FlattenSeq(pieces) = q[Len(pieces)]
    BY <1>5, FlattenJoins
  <2> QED
    BY <1>5, <2>1
<1> DEFINE Later(k) == \E j \in 1..n : j > k /\ Visibly(j)
           Good(k) == /\ TidySpaces(p[k])
                      /\ Visibly(k) => p[k] # <<>> /\ ~EndsInSpace(p[k])
                      /\ EndsInSpace(p[k]) => Later(k)
           T == {k \in Nat : k <= n => Good(k)}
<1>7. 0 \in T
  <2>1. Len(<<>>) = 0 /\ ~Visibly(0)
    BY <1>1
  <2>2. TidySpaces(<<>>) /\ ~EndsInSpace(<<>>)
    BY DEF TidySpaces, EndsInSpace
  <2> HIDE DEF Visibly, Later
  <2> QED
    BY <1>6, <2>1, <2>2
<1>8. ASSUME NEW k \in Nat, k \in T PROVE k + 1 \in T
  <2> SUFFICES ASSUME k + 1 <= n PROVE Good(k + 1)
    OBVIOUS
  <2>1. k \in 0..n /\ k + 1 \in 1..n /\ (k + 1) - 1 = k /\ k <= n
    BY <1>1
  <2>2. Good(k)
    BY <1>8, <2>1
  <2>3. p[k] \in Seq(Nat) /\ p[k + 1] = p[k] \o TrimPiece(text, k + 1)
    <3>1. \A i \in 1..n : p[i] = p[i - 1] \o pieces[i]
      BY <1>6
    <3> QED
      BY <1>5, <1>6, <2>1, <3>1
  <2>4. ~Visibly(k + 1) => (Later(k) <=> Later(k + 1))
    <3> HIDE DEF Visibly
    <3>1. \A j \in 1..n : j > k <=> (j = k + 1 \/ j > k + 1)
      BY <1>1
    <3> QED
      BY <3>1
  <2>5. CASE Visibly(k + 1) /\ TrimPiece(text, k + 1) = <<text[k + 1]>>
    <3> DEFINE c == text[k + 1]
    <3>1. c \in Nat /\ c \notin Space /\ p[k + 1] = p[k] \o <<c>>
      BY <1>1, <2>1, <2>3, <2>5
    <3> HIDE DEF c, Visibly, Later
    <3>2. TidySpaces(p[k + 1]) /\ ~EndsInSpace(p[k + 1])
      BY <2>2, <2>3, <3>1, TidyMore
    <3>3. p[k + 1] # <<>>
      <4> DEFINE q == p[k]
      <4>1. q \in Seq(Nat) /\ p[k + 1] = q \o <<c>>
        BY <2>3, <3>1
      <4> HIDE DEF q
      <4>2. q \o <<c>> # <<>>
        BY <3>1, <4>1, LastOf
      <4> QED
        BY <4>1, <4>2
    <3> QED
      BY <3>2, <3>3
  <2>6. CASE ~Visibly(k + 1) /\ KeptSpace(text, k + 1) /\ TrimPiece(text, k + 1) = <<32>>
    <3>1. Visibly(k) /\ \E j \in k + 1..n : text[j] \notin Space
      <4>1. /\ k + 1 > 1 /\ text[(k + 1) - 1] \notin Space
            /\ \E j \in k + 1..n : text[j] \notin Space
        BY <2>6 DEF KeptSpace, n
      <4> QED
        BY <1>1, <2>1, <4>1
    <3>2. Later(k)
      BY <1>1, <3>1
    <3>3. Later(k + 1)
      BY <2>4, <2>6, <3>2
    <3> HIDE DEF Visibly, Later
    <3>4. p[k] # <<>> /\ ~EndsInSpace(p[k]) /\ TidySpaces(p[k])
      BY <2>2, <3>1
    <3>5. TidySpaces(p[k + 1])
      BY <1>2, <2>3, <2>6, <3>4, TidyMore
    <3> QED
      BY <2>6, <3>3, <3>5
  <2>7. CASE ~Visibly(k + 1) /\ TrimPiece(text, k + 1) = <<>>
    <3> HIDE DEF Visibly, Later
    <3>1. p[k + 1] = p[k]
      BY <2>3, <2>7, ConcatEmptySeq
    <3> QED
      BY <2>2, <2>4, <2>7, <3>1
  <2> QED
    BY <1>3, <2>1, <2>5, <2>6, <2>7
<1>9. n \in T
  <2> HIDE DEF T
  <2> QED
    BY <1>1, <1>7, <1>8, SetInduction
<1>10. Good(n)
  BY <1>1, <1>9
<1>11. ~Later(n)
  BY <1>1
<1>12. n \in 0..n
  BY <1>1
<1> QED
  BY <1>2, <1>6, <1>10, <1>11, <1>12


LEMMA TrimTwice ==
  ASSUME NEW text \in Seq(Nat)
  PROVE  TrimCollapse(text) \in Seq(Nat) /\ TrimCollapse(TrimCollapse(text)) = TrimCollapse(text)
<1> DEFINE t == TrimCollapse(text)
<1>1. t \in Seq(Nat) /\ TidySpaces(t) /\ ~EndsInSpace(t)
  BY TrimTidies
<1> HIDE DEF t
<1>2. TrimCollapse(t) = t
  BY <1>1, TidyTrimmed
<1> QED
  BY <1>1, <1>2 DEF t

\* A field whose name is in lower case is signed with its trimmed value.
LEMMA HeaderTrimmed ==
  ASSUME NEW fields, LowerNamed(fields), NEW n \in DOMAIN fields, fields[n] \in Seq(Nat)
  PROVE  NormalizedHeaders(fields)[n] = TrimCollapse(fields[n])
<1> DEFINE D == DOMAIN fields
           same(name) == Ordered({m \in D : LowerCase(m) = name})
           value(name) == Join([k \in DOMAIN same(name) |-> TrimCollapse(fields[same(name)[k]])], 44)
           x == TrimCollapse(fields[n])
<1>1. \A m \in D : LowerCase(m) = m /\ m \in Seq(Nat)
  BY DEF LowerNamed
<1>2. {LowerCase(m) : m \in D} = D
  BY <1>1
<1>3. NormalizedHeaders(fields) = [name \in {LowerCase(m) : m \in D} |-> value(name)]
  BY Zenon DEF NormalizedHeaders
<1>4. {m \in D : LowerCase(m) = n} = {n}
  BY <1>1
<1>5. same(n) = <<n>>
  BY <1>1, <1>4, OrderedOne
<1>6. x \in Seq(Nat)
  BY TrimTwice
<1>7. value(n) = x
  <2> HIDE DEF same
  <2>1. DOMAIN same(n) = 1..1 /\ same(n)[1] = n
    BY <1>5
  <2> DEFINE f == [k \in DOMAIN same(n) |-> TrimCollapse(fields[same(n)[k]])]
  <2>2. f = [k \in 1..1 |-> x]
    BY <2>1
  <2>3. <<x>> = [k \in 1..1 |-> x]
    OBVIOUS
  <2>4. f = <<x>>
    BY <2>2, <2>3
  <2>5. value(n) = Join(f, 44)
    OBVIOUS
  <2> HIDE DEF f, x
  <2>6. Join(<<x>>, 44) = x
    BY <1>6, JoinOne
  <2> QED
    BY <2>4, <2>5, <2>6, Zenon
<1> HIDE DEF value
<1>8. NormalizedHeaders(fields)[n] = value(n)
  BY <1>2, <1>3
<1> QED
  BY <1>7, <1>8

\* The names a link signs: Host, and those of fields of the request.
LEMMA LinkNames ==
  ASSUME NEW a \in LinkAsked, NEW authority, NEW requested,
         \A n \in requested : LowerCase(n) \in DOMAIN NormalizedHeaders(a.fields) \cup {Host}
  PROVE  LET normalized == With(NormalizedHeaders(a.fields), Host, authority)
             names == SignedNames(normalized, requested)
         IN  /\ LowerNamed(a.fields) /\ DOMAIN NormalizedHeaders(a.fields) = DOMAIN a.fields
             /\ SignableNames(names) /\ Host \in names /\ names \subseteq DOMAIN a.fields \cup {Host}
             /\ \A n \in DOMAIN a.fields : IsAmz(n) => n \in names
             /\ \A n \in requested : LowerCase(n) \in names
             /\ normalized[Host] = authority
             /\ \A n \in names \ {Host} : normalized[n] = TrimCollapse(a.fields[n]) /\ a.fields[n] \in Seq(Nat)
<1> DEFINE given == NormalizedHeaders(a.fields)
           normalized == With(given, Host, authority)
           names == SignedNames(normalized, requested)
<1>1. /\ LowerNamed(a.fields) /\ IsFiniteSet(DOMAIN a.fields)
      /\ \A n \in DOMAIN a.fields : n \in Seq(Nat) /\ FreeOf(n, 59) /\ a.fields[n] \in Seq(Nat)
  <2>1. LowerNamed(a.fields)
    BY ContentAssumption DEF LowerNamed
  <2>2. ASSUME NEW n \in DOMAIN a.fields PROVE n \in Seq(Nat) /\ FreeOf(n, 59) /\ a.fields[n] \in Seq(Nat)
    <3>1. n \in Seq(Nat) /\ (\A i \in DOMAIN n : n[i] # 59) /\ a.fields[n] \in Seq(Nat)
      BY <2>1, LinkFieldsAssumption DEF LowerNamed
    <3> QED
      BY <3>1, LenProperties DEF FreeOf
  <2> QED
    BY <2>1, <2>2, LinkFieldsAssumption
<1>2. DOMAIN given = DOMAIN a.fields
  BY <1>1, HeaderValue
<1>3. \A n \in DOMAIN a.fields : given[n] = TrimCollapse(a.fields[n])
  BY <1>1, HeaderTrimmed
<1>4. Extends(normalized, given, Host, authority)
  BY WithExtends
<1>5. Host \in Seq(Nat) /\ FreeOf(Host, 59)
  <2>1. Host \in Seq(Nat) /\ Len(Host) = 2 /\ Host[1] = 104 /\ Host[2] = 302
    BY DEF Host
  <2> QED
    BY <2>1 DEF FreeOf
<1> HIDE DEF given, normalized
<1>6. names = {Host} \cup {n \in DOMAIN normalized : IsAmz(n)} \cup {LowerCase(n) : n \in requested}
  BY DEF SignedNames
<1>7. DOMAIN normalized = DOMAIN a.fields \cup {Host}
  BY <1>2, <1>4 DEF Extends
<1>8. \A n \in requested : LowerCase(n) \in DOMAIN a.fields \cup {Host}
  BY <1>2 DEF given
<1> HIDE DEF names
<1>9. /\ Host \in names /\ names \subseteq DOMAIN a.fields \cup {Host}
      /\ \A n \in DOMAIN a.fields : IsAmz(n) => n \in names
      /\ \A n \in requested : LowerCase(n) \in names
  BY <1>6, <1>7, <1>8
<1>10. SignableNames(names)
  <2>1. IsFiniteSet(DOMAIN a.fields \cup {Host})
    BY <1>1, FS_AddElement
  <2>2. IsFiniteSet(names)
    BY <1>9, <2>1, FS_Subset
  <2>3. \A n \in names : n \in Seq(Nat) /\ FreeOf(n, 59)
    BY <1>1, <1>5, <1>9
  <2> QED
    BY <1>9, <2>2, <2>3 DEF SignableNames
<1>11. /\ normalized[Host] = authority
       /\ \A n \in names \ {Host} : normalized[n] = TrimCollapse(a.fields[n]) /\ a.fields[n] \in Seq(Nat)
  BY <1>1, <1>2, <1>3, <1>4, <1>9 DEF Extends
<1> QED
  BY <1>1, <1>2, <1>9, <1>10, <1>11 DEF given, normalized, names


-----------------------------------------------------------------------------
(***************************************************************************)
(* The life of a link, in whole seconds.                                   *)
(***************************************************************************)
LEMMA WholeSeconds ==
  ASSUME NEW t \in Nat
  PROVE  \E r \in Nat : /\ t \div Second \in Nat /\ r < Second
                        /\ t = Second * (t \div Second) + r
<1>1. Second \in Nat /\ Second > 0
  BY TimeAssumption
<1>2. t \div Second \in Nat /\ t % Second \in Nat /\ t % Second < Second
  BY <1>1
<1>3. t = Second * (t \div Second) + (t % Second)
  BY <1>1
<1> QED
  BY <1>2, <1>3

LEMMA LifeInSeconds ==
  ASSUME NEW at \in Nat, NEW t \in Nat, NEW expires \in Nat
  PROVE  /\ at <= t /\ t + Second <= at + expires * Second
              => (t \div Second) - (at \div Second) \in 0..expires - 1
         /\ at + expires * Second <= t => (t \div Second) - (at \div Second) \notin 0..expires - 1
<1> DEFINE S == Second
           q == t \div Second
           p == at \div Second
<1>1. S \in Nat /\ S > 0
  BY TimeAssumption
<1>2. PICK r \in Nat : q \in Nat /\ r < S /\ t = S * q + r
  BY WholeSeconds
<1>3. PICK s \in Nat : p \in Nat /\ s < S /\ at = S * p + s
  BY WholeSeconds
<1> HIDE DEF S, q, p
<1>4. \A k \in Nat : S * k \in Nat /\ (k >= 1 => S * k >= S)
  BY <1>1
<1>5. ASSUME at <= t, t + S <= at + expires * S PROVE q - p \in 0..expires - 1
  <2>1. p <= q
    <3> SUFFICES ASSUME q < p PROVE FALSE
      BY <1>2, <1>3
    <3> DEFINE k == p - q
    <3>1. k \in Nat /\ k >= 1 /\ p = q + k
      BY <1>2, <1>3
    <3> HIDE DEF k
    <3>2. S * p = S * q + S * k
      BY <1>1, <1>2, <3>1
    <3> QED
      BY <1>1, <1>2, <1>3, <1>4, <1>5, <3>1, <3>2
  <2>2. q - p < expires
    <3> SUFFICES ASSUME expires <= q - p PROVE FALSE
      BY <1>2, <1>3
    <3> DEFINE k == q - p - expires
    <3>1. k \in Nat /\ q = p + expires + k
      BY <1>2, <1>3
    <3> HIDE DEF k
    <3>2. S * q = S * p + expires * S + S * k
      BY <1>1, <1>3, <3>1
    <3> QED
      BY <1>1, <1>2, <1>3, <1>4, <1>5, <3>1, <3>2
  <2> QED
    BY <1>2, <1>3, <2>1, <2>2
<1>6. ASSUME at + expires * S <= t PROVE ~(q - p \in 0..expires - 1)
  <2> SUFFICES ASSUME q - p < expires PROVE FALSE
    BY <1>2, <1>3
  <2> DEFINE k == p + expires - q
  <2>1. k \in Nat /\ k >= 1 /\ p + expires = q + k
    BY <1>2, <1>3
  <2> HIDE DEF k
  <2>2. S * p + expires * S = S * q + S * k
    BY <1>1, <1>2, <1>3, <2>1
  <2> QED
    BY <1>1, <1>2, <1>3, <1>4, <1>6, <2>1, <2>2
<1> QED
  BY <1>5, <1>6 DEF S, q, p


-----------------------------------------------------------------------------
(***************************************************************************)
(* What the service makes of a link.                                       *)
(***************************************************************************)

SignedAs(use, date, scope, names) ==
  LET fields == With(NormalizedHeaders(use.fields), Host, use.authority)
  IN  use.signature =
        Signature(Account.secret, date, scope, use.verb, ServicePath(use.path),
          ServiceQuery(use.query), [n \in names |-> fields[n]], UnsignedPayload)

\* What it compares, given the values it read in the query.
Judged(service, use, t, date, life, credential, signed) ==
  LET fields == With(NormalizedHeaders(use.fields), Host, use.authority)
      names == ToSet(Split(signed, 59))
      scope == ServiceScope(date, service)
  IN  /\ Covers(names, fields)
      /\ life[1] - 3000 \in 1..MaxExpires
      /\ (t \div Second) - (date[1] - 1000) \in 0..(life[1] - 3001)
      /\ credential = Account.id \o <<Slash>> \o scope
      /\ Account.token # <<>> => ValuesOf(Received(use.query), "security_token") = {Account.token}
      /\ SignedAs(use, date, scope, names)

LEMMA AcceptsJudged ==
  ASSUME NEW service, NEW use, NEW t
  PROVE  AcceptsLink(service, use, t)
           <=> \E date \in ValuesOf(Received(use.query), "date"),
                  life \in ValuesOf(Received(use.query), "expires"),
                  credential \in ValuesOf(Received(use.query), "credential"),
                  signed \in ValuesOf(Received(use.query), "signed_headers") :
                 Judged(service, use, t, date, life, credential, signed)
BY Zenon DEF AcceptsLink, Judged, SignedAs, ValuesOf

\* The same for a query that presign made.
Compared(use, t, at, expires, names) ==
  LET fields == With(NormalizedHeaders(use.fields), Host, use.authority)
  IN  /\ Covers(names, fields)
      /\ expires \in 1..MaxExpires
      /\ (t \div Second) - (at \div Second) \in 0..expires - 1
      /\ use.signature =
           Signature(Account.secret, AmzDate(at), Scope(at, Signer(Storage)), use.verb, ServicePath(use.path),
             ServiceQuery(use.query), [n \in names |-> fields[n]], UnsignedPayload)

LEMMA LinkCompared ==
  ASSUME NEW use, NEW t \in Nat, NEW at \in Nat, NEW expires \in Nat, NEW names, SignableNames(names),
         Carries(Received(use.query), Signer(Storage), at, expires, names)
  PROVE  AcceptsLink(Storage, use, t) <=> Compared(use, t, at, expires, names)
<1> DEFINE ps == Received(use.query)
           signer == Signer(Storage)
           date == AmzDate(at)
           life == <<3000 + expires>>
           credential == signer.id \o <<Slash>> \o Scope(at, signer)
           signed == Join(Ordered(names), 59)
<1>1. /\ ValuesOf(ps, "date") = {date} /\ ValuesOf(ps, "expires") = {life}
      /\ ValuesOf(ps, "credential") = {credential} /\ ValuesOf(ps, "signed_headers") = {signed}
  <2>1. Carries(ps, signer, at, expires, names)
    OBVIOUS
  <2> HIDE DEF ps, signer
  <2>2. ValuesOf(ps, "date") = {date}
    BY <2>1, SMTT(60) DEF Carries
  <2>3. ValuesOf(ps, "expires") = {life}
    BY <2>1, SMTT(60) DEF Carries
  <2>4. ValuesOf(ps, "credential") = {credential}
    BY <2>1, SMTT(60) DEF Carries
  <2>5. ValuesOf(ps, "signed_headers") = {signed}
    BY <2>1, SMTT(60) DEF Carries
  <2> HIDE DEF date, life, credential, signed
  <2> QED
    BY <2>2, <2>3, <2>4, <2>5
<1>2. signer.id = Account.id /\ signer.token = Account.token
  BY DEF Signer
<1>3. Account.token # <<>> => ValuesOf(ps, "security_token") = {Account.token}
  BY <1>2 DEF Carries
<1>4. ToSet(Split(signed, 59)) = names
  BY NamesRead
<1>5. ServiceScope(date, Storage) = Scope(at, signer)
  BY ScopeSigned
<1>6. life[1] - 3000 = expires /\ life[1] - 3001 = expires - 1
  OBVIOUS
<1>7. date[1] - 1000 = at \div Second
  <2>1. at \div Second \in Nat
    BY TimeAssumption
  <2>2. date[1] = 1000 + (at \div Second)
    BY DEF AmzDate
  <2> HIDE DEF date
  <2> QED
    BY <2>1, <2>2
<1>8. credential = Account.id \o <<Slash>> \o ServiceScope(date, Storage)
  BY <1>2, <1>5
<1> HIDE DEF ps, signer, date, life, credential, signed
<1>9. AcceptsLink(Storage, use, t) <=> Judged(Storage, use, t, date, life, credential, signed)
  BY <1>1, AcceptsJudged DEF ps
<1> DEFINE fields == With(NormalizedHeaders(use.fields), Host, use.authority)
<1>10. Judged(Storage, use, t, date, life, credential, signed)
         <=> /\ Covers(ToSet(Split(signed, 59)), fields)
             /\ life[1] - 3000 \in 1..MaxExpires
             /\ (t \div Second) - (date[1] - 1000) \in 0..(life[1] - 3001)
             /\ credential = Account.id \o <<Slash>> \o ServiceScope(date, Storage)
             /\ Account.token # <<>> => ValuesOf(ps, "security_token") = {Account.token}
             /\ SignedAs(use, date, ServiceScope(date, Storage), ToSet(Split(signed, 59)))
  BY Zenon DEF Judged, ps
<1>11. Compared(use, t, at, expires, names)
         <=> /\ Covers(names, fields)
             /\ expires \in 1..MaxExpires
             /\ (t \div Second) - (at \div Second) \in 0..expires - 1
             /\ SignedAs(use, date, Scope(at, signer), names)
  BY Zenon DEF Compared, SignedAs, date, signer
<1> HIDE DEF fields
<1> DEFINE passed(second) == (t \div Second) - second
<1>12. passed(date[1] - 1000) = passed(at \div Second)
  BY <1>7
<1>13. (t \div Second) - (date[1] - 1000) = (t \div Second) - (at \div Second)
  BY <1>12
<1> QED
  BY <1>3, <1>4, <1>5, <1>6, <1>8, <1>9, <1>10, <1>11, <1>13


-----------------------------------------------------------------------------
(***************************************************************************)
(* The link that presign makes.                                            *)
(***************************************************************************)
NamesOf(e, a, requested) ==
  SignedNames(With(NormalizedHeaders(a.fields), Host, e.authority), requested)

Made(l, e, a, requested, expires, at) ==
  /\ at \in Nat
  /\ Refusal(Signer(a.service), RequestTo(e, a), requested, expires) = "none"
  /\ l = Presigned(Signer(a.service), at, RequestTo(e, a), requested, expires)

PresignedShape(l, e, a, requested, expires, at) ==
  LET signer == Signer(a.service)
      normalized == With(NormalizedHeaders(a.fields), Host, e.authority)
      names == NamesOf(e, a, requested)
  IN  /\ l.refused = "none" /\ l.authority = e.authority /\ l.verb = a.verb /\ l.requested = requested
      /\ l.path = CanonicalUri(RequestTo(e, a), Cut(a.target, Question)[1])
      /\ l.query = LinkQuery(Cut(a.target, Question)[2], signer, at, expires, names)
      /\ l.required = [n \in names \ {Host} |-> normalized[n]]
      /\ l.expires_at = at + expires * Second
      /\ l.signature =
           Signature(signer.secret, AmzDate(at), Scope(at, signer), a.verb, l.path, l.query,
             [n \in names |-> normalized[n]], UnsignedPayload)

LEMMA PresignedIs ==
  ASSUME NEW l, NEW e, NEW a, NEW requested, NEW expires, NEW at, Made(l, e, a, requested, expires, at)
  PROVE  PresignedShape(l, e, a, requested, expires, at)
BY Zenon DEF Made, Presigned, RequestTo, LinkQuery, NamesOf, PresignedShape

LEMMA NotRefused ==
  ASSUME NEW e, NEW a, NEW requested, NEW expires,
         Refusal(Signer(a.service), RequestTo(e, a), requested, expires) = "none"
  PROVE  /\ client.signs /\ Signer(a.service).secret = Account.secret
         /\ expires \in 1..MaxExpires
         /\ LET parameters == ParseExistingQuery(Cut(a.target, Question)[2])
            IN  ~ \E k \in DOMAIN parameters : IsReserved(parameters[k][1])
         /\ \A n \in requested : LowerCase(n) \in DOMAIN NormalizedHeaders(a.fields) \cup {Host}
<1> DEFINE signer == Signer(a.service)
           parameters == ParseExistingQuery(Cut(a.target, Question)[2])
           reserved == \E k \in DOMAIN parameters : IsReserved(parameters[k][1])
           missing == \E n \in requested : LowerCase(n) \notin DOMAIN NormalizedHeaders(a.fields) \cup {Host}
           strange == e.scheme \notin {"http", "https"}
<1>1. RequestTo(e, a).target = a.target /\ RequestTo(e, a).fields = a.fields /\ RequestTo(e, a).endpoint = e
  BY DEF RequestTo
<1>2. Refusal(signer, RequestTo(e, a), requested, expires)
        = IF ~Complete(signer) THEN "incomplete_credentials"
          ELSE IF expires \notin 1..MaxExpires THEN "invalid_expiration"
          ELSE IF strange THEN "unsupported_endpoint_scheme"
          ELSE IF reserved THEN "conflicting_query_parameter"
          ELSE IF missing THEN "missing_signed_header"
          ELSE "none"
  BY <1>1, Zenon DEF Refusal
<1> HIDE DEF reserved, missing, strange, signer
<1>3. Complete(signer) /\ expires \in 1..MaxExpires /\ ~reserved /\ ~missing
  BY <1>2 DEF signer
<1>4. client.signs /\ signer.secret = Account.secret
  BY <1>3 DEF Complete, signer, Signer
<1> QED
  BY <1>3, <1>4 DEF reserved, missing, signer

LinkShape(l, e, a, requested, expires, at, names) ==
  /\ l.refused = "none" /\ l.authority = e.authority /\ l.verb = a.verb /\ l.requested = requested
  /\ l.expires_at = at + expires * Second /\ expires \in 1..MaxExpires
  /\ LowerNamed(a.fields) /\ SignableNames(names) /\ Host \in names
  /\ names \subseteq DOMAIN a.fields \cup {Host}
  /\ \A n \in DOMAIN a.fields : IsAmz(n) => n \in names
  /\ \A n \in requested : LowerCase(n) \in names
  /\ DOMAIN l.required = names \ {Host}
  /\ \A n \in names \ {Host} : l.required[n] = TrimCollapse(a.fields[n]) /\ a.fields[n] \in Seq(Nat)
  /\ ServicePath(l.path) = l.path /\ ServicePath(Append(l.path, 317)) # l.path
  /\ l.query \in Seq(Nat) /\ l.query # <<>> /\ ServiceQuery(l.query) = l.query
  /\ Carries(Received(l.query), Signer(Storage), at, expires, names)
  /\ l.signature =
       Signature(Account.secret, AmzDate(at), Scope(at, Signer(Storage)), l.verb, l.path, l.query,
         [n \in names |-> IF n = Host THEN e.authority ELSE l.required[n]], UnsignedPayload)

LEMMA LinkMade ==
  ASSUME NEW e \in Endpoint, NEW a \in LinkAsked, NEW l, NEW requested, NEW expires, NEW at,
         Linkable(e, a), Made(l, e, a, requested, expires, at)
  PROVE  LinkShape(l, e, a, requested, expires, at, NamesOf(e, a, requested))
<1> DEFINE signer == Signer(Storage)
           normalized == With(NormalizedHeaders(a.fields), Host, e.authority)
           names == NamesOf(e, a, requested)
           query == Cut(a.target, Question)[2]
<1>1. /\ a.service = Storage /\ EscapesNeeded(e.base) /\ at \in Nat
      /\ Composed(a) \/ EscapesNeeded(query)
  BY Zenon DEF Linkable, Made
<1>2. /\ signer.secret = Account.secret /\ expires \in 1..MaxExpires
      /\ ~ \E k \in DOMAIN ParseExistingQuery(query) : IsReserved(ParseExistingQuery(query)[k][1])
      /\ \A n \in requested : LowerCase(n) \in DOMAIN NormalizedHeaders(a.fields) \cup {Host}
  <2>1. Refusal(Signer(a.service), RequestTo(e, a), requested, expires) = "none"
    BY Zenon DEF Made
  <2>2. Signer(a.service) = signer
    BY <1>1, Zenon
  <2> HIDE DEF signer
  <2> QED
    BY <2>1, <2>2, NotRefused
<1>3. /\ l.refused = "none" /\ l.authority = e.authority /\ l.verb = a.verb /\ l.requested = requested
      /\ l.path = CanonicalUri(RequestTo(e, a), Cut(a.target, Question)[1])
      /\ l.query = LinkQuery(query, signer, at, expires, names)
      /\ l.required = [n \in names \ {Host} |-> normalized[n]]
      /\ l.expires_at = at + expires * Second
      /\ l.signature =
           Signature(Account.secret, AmzDate(at), Scope(at, signer), l.verb, l.path, l.query,
             [n \in names |-> normalized[n]], UnsignedPayload)
  <2> DEFINE own == Signer(a.service)
  <2>1. /\ l.refused = "none" /\ l.authority = e.authority /\ l.verb = a.verb /\ l.requested = requested
        /\ l.path = CanonicalUri(RequestTo(e, a), Cut(a.target, Question)[1])
        /\ l.query = LinkQuery(query, own, at, expires, names)
        /\ l.required = [n \in names \ {Host} |-> normalized[n]]
        /\ l.expires_at = at + expires * Second
        /\ l.signature =
             Signature(own.secret, AmzDate(at), Scope(at, own), a.verb, l.path, l.query,
               [n \in names |-> normalized[n]], UnsignedPayload)
    <3>1. PresignedShape(l, e, a, requested, expires, at)
      BY PresignedIs, Zenon
    <3> QED
      BY <3>1, Zenon DEF PresignedShape
  <2>2. own = signer
    BY <1>1, Zenon
  <2> HIDE DEF own, signer, names, normalized, query
  <2>3. l.query = LinkQuery(query, signer, at, expires, names)
    BY <2>1, <2>2, Zenon
  <2>4. l.signature =
          Signature(Account.secret, AmzDate(at), Scope(at, signer), l.verb, l.path, l.query,
            [n \in names |-> normalized[n]], UnsignedPayload)
    <3>1. own.secret = Account.secret /\ l.verb = a.verb
      BY <1>2, <2>1, <2>2, Zenon
    <3> QED
      BY <2>1, <2>2, <3>1, Zenon
  <2> QED
    BY <2>1, <2>3, <2>4, Zenon
<1>4. /\ LowerNamed(a.fields)
      /\ SignableNames(names) /\ Host \in names /\ names \subseteq DOMAIN a.fields \cup {Host}
      /\ \A n \in DOMAIN a.fields : IsAmz(n) => n \in names
      /\ \A n \in requested : LowerCase(n) \in names
      /\ normalized[Host] = e.authority
      /\ \A n \in names \ {Host} : normalized[n] = TrimCollapse(a.fields[n]) /\ a.fields[n] \in Seq(Nat)
  BY <1>2, LinkNames, Zenon DEF NamesOf
<1>5. query \in Seq(Nat) /\ EscapesNeeded(query)
  BY <1>1, TargetNeeded
<1>6. LinkTexts(signer, at, expires, names)
  <2>1. signer.id = Account.id /\ signer.token = Account.token
    BY DEF Signer
  <2>2. signer.id \in Seq(Nat) /\ signer.token \in Seq(Nat)
    BY <2>1, TokenAssumption
  <2>3. Storage \in Seq(Nat)
    BY DEF Storage
  <2>4. Scope(at, signer) \in Seq(Nat) /\ AmzDate(at) \in Seq(Nat)
    BY <1>1, <2>3, ScopeType
  <2>5. expires \in Nat
    BY <1>2
  <2> HIDE DEF signer, names
  <2> QED
    BY <1>4, <2>2, <2>4, <2>5 DEF LinkTexts
<1> HIDE DEF signer, normalized, names, query
<1>7. /\ l.query \in Seq(Nat) /\ Received(l.query) # <<>> /\ ServiceQuery(l.query) = l.query
      /\ Carries(Received(l.query), signer, at, expires, names)
  BY <1>2, <1>3, <1>5, <1>6, LinkQueryReads
<1>8. l.query # <<>>
  <2>1. Received(<<>>) = <<>>
    BY DEF Received
  <2> QED
    BY <1>7, <2>1
<1>9. ServicePath(l.path) = l.path /\ ServicePath(Append(l.path, 317)) # l.path
  BY <1>1, <1>3, LinkPath
<1>10. /\ DOMAIN l.required = names \ {Host}
       /\ \A n \in names \ {Host} : l.required[n] = normalized[n]
  BY <1>3
<1>11. [n \in names |-> IF n = Host THEN e.authority ELSE l.required[n]] = [n \in names |-> normalized[n]]
  BY <1>4, <1>10
<1>12. \A n \in names \ {Host} : l.required[n] = TrimCollapse(a.fields[n]) /\ a.fields[n] \in Seq(Nat)
  BY <1>4, <1>10
<1>13. l.signature =
         Signature(Account.secret, AmzDate(at), Scope(at, signer), l.verb, l.path, l.query,
           [n \in names |-> IF n = Host THEN e.authority ELSE l.required[n]], UnsignedPayload)
  BY <1>3, <1>11, Zenon
<1>14. DOMAIN l.required = names \ {Host} /\ expires \in 1..MaxExpires /\ l.expires_at = at + expires * Second
  BY <1>2, <1>3, <1>10
<1> QED
  BY <1>3, <1>4, <1>7, <1>8, <1>9, <1>12, <1>13, <1>14, Zenon DEF LinkShape, signer, names


-----------------------------------------------------------------------------
(***************************************************************************)
(* LinkAccepted and LinkBound, for a link that presign made.               *)
(***************************************************************************)
UseOf(l, fields) ==
  [authority |-> l.authority, path |-> l.path, query |-> l.query, verb |-> l.verb,
   fields |-> fields, signature |-> l.signature]

\* The headers as the service reads them.
ReadAs(fields, f, authority) ==
  /\ DOMAIN fields = DOMAIN f \cup {Host} /\ fields[Host] = authority
  /\ \A n \in DOMAIN f \ {Host} : f[n] \in Seq(Nat) => fields[n] = TrimCollapse(f[n])

LEMMA UseReads ==
  ASSUME NEW f, LowerNamed(f), NEW authority
  PROVE  ReadAs(With(NormalizedHeaders(f), Host, authority), f, authority)
<1> DEFINE given == NormalizedHeaders(f)
           fields == With(given, Host, authority)
<1>1. DOMAIN given = DOMAIN f
  BY HeaderValue
<1>2. \A n \in DOMAIN f : f[n] \in Seq(Nat) => given[n] = TrimCollapse(f[n])
  BY HeaderTrimmed
<1>3. Extends(fields, given, Host, authority)
  BY WithExtends
<1> HIDE DEF given, fields
<1>4. /\ DOMAIN fields = DOMAIN f \cup {Host} /\ fields[Host] = authority
      /\ \A n \in DOMAIN f \ {Host} : f[n] \in Seq(Nat) => fields[n] = TrimCollapse(f[n])
  BY <1>1, <1>2, <1>3 DEF Extends
<1> QED
  BY <1>4 DEF given, fields, ReadAs

\* What a link requires is what was signed.
LEMMA RequiredNeat ==
  ASSUME NEW l, NEW e, NEW a, NEW requested, NEW expires, NEW at, NEW names,
         LinkShape(l, e, a, requested, expires, at, names)
  PROVE  /\ \A n \in names \ {Host} : /\ l.required[n] \in Seq(Nat)
                                      /\ TrimCollapse(l.required[n]) = l.required[n]
         /\ \A n \in names \ {Host} : n \in Seq(Nat) /\ LowerCase(n) = n
<1>1. /\ \A n \in names \ {Host} : l.required[n] = TrimCollapse(a.fields[n]) /\ a.fields[n] \in Seq(Nat)
      /\ names \subseteq DOMAIN a.fields \cup {Host} /\ LowerNamed(a.fields)
  BY Zenon DEF LinkShape
<1>2. ASSUME NEW n \in names \ {Host}
      PROVE  l.required[n] \in Seq(Nat) /\ TrimCollapse(l.required[n]) = l.required[n]
  <2>1. /\ TrimCollapse(a.fields[n]) \in Seq(Nat)
        /\ TrimCollapse(TrimCollapse(a.fields[n])) = TrimCollapse(a.fields[n])
    BY <1>1, TrimTwice
  <2> QED
    BY <1>1, <2>1
<1>3. \A n \in names \ {Host} : n \in Seq(Nat) /\ LowerCase(n) = n
  BY <1>1 DEF LowerNamed
<1> QED
  BY <1>2, <1>3

\* A link is accepted with headers that are none of those it signs.
LEMMA LinkAcceptedWith ==
  ASSUME NEW l, NEW e, NEW a, NEW requested, NEW expires, NEW at \in Nat, NEW names,
         LinkShape(l, e, a, requested, expires, at, names),
         NEW f, LowerNamed(f), names \ {Host} \subseteq DOMAIN f,
         \A n \in names \ {Host} : f[n] = l.required[n],
         \A n \in DOMAIN f : IsAmz(n) => n \in names,
         NEW t \in Nat, at <= t, t + Second <= l.expires_at
  PROVE  AcceptsLink(Storage, UseOf(l, f), t)
<1> DEFINE use == UseOf(l, f)
           fields == With(NormalizedHeaders(f), Host, l.authority)
           signer == Signer(Storage)
           block == [n \in names |-> IF n = Host THEN e.authority ELSE l.required[n]]
<1>1. /\ use.authority = l.authority /\ use.path = l.path /\ use.query = l.query /\ use.verb = l.verb
      /\ use.fields = f /\ use.signature = l.signature
  BY DEF UseOf
<1>2. /\ l.authority = e.authority /\ l.expires_at = at + expires * Second /\ expires \in 1..MaxExpires
      /\ SignableNames(names) /\ Host \in names
      /\ ServicePath(l.path) = l.path /\ ServiceQuery(l.query) = l.query
      /\ Carries(Received(l.query), signer, at, expires, names)
      /\ l.signature =
           Signature(Account.secret, AmzDate(at), Scope(at, signer), l.verb, l.path, l.query, block, UnsignedPayload)
  BY Zenon DEF LinkShape
<1>3. \A n \in names \ {Host} : f[n] \in Seq(Nat) /\ TrimCollapse(f[n]) = l.required[n]
  BY RequiredNeat
<1>4. /\ DOMAIN fields = DOMAIN f \cup {Host} /\ fields[Host] = l.authority
      /\ \A n \in DOMAIN f \ {Host} : f[n] \in Seq(Nat) => fields[n] = TrimCollapse(f[n])
  BY UseReads, ZenonT(60) DEF ReadAs
<1> HIDE DEF use, fields, signer
<1>5. Covers(names, fields)
  BY <1>2, <1>4 DEF Covers
<1>6. [n \in names |-> fields[n]] = block
  <2>1. \A n \in names : fields[n] = IF n = Host THEN e.authority ELSE l.required[n]
    BY <1>2, <1>3, <1>4
  <2> QED
    BY <2>1
<1> HIDE DEF block
<1>7. (t \div Second) - (at \div Second) \in 0..expires - 1
  <2>1. expires \in Nat
    BY <1>2
  <2>2. t + Second <= at + expires * Second
    BY <1>2
  <2> QED
    BY <2>1, <2>2, LifeInSeconds
<1>8. use.signature =
        Signature(Account.secret, AmzDate(at), Scope(at, signer), use.verb, ServicePath(use.path),
          ServiceQuery(use.query), [n \in names |-> fields[n]], UnsignedPayload)
  BY <1>1, <1>2, <1>6, Zenon
<1>9. With(NormalizedHeaders(use.fields), Host, use.authority) = fields
  BY <1>1, Zenon DEF fields
<1>10. Compared(use, t, at, expires, names)
  BY <1>2, <1>5, <1>7, <1>8, <1>9, Zenon DEF Compared, signer
<1>11. expires \in Nat /\ Carries(Received(use.query), Signer(Storage), at, expires, names)
  BY <1>1, <1>2 DEF signer
<1>12. AcceptsLink(Storage, use, t)
  BY <1>2, <1>10, <1>11, LinkCompared
<1> QED
  BY <1>12 DEF use


\* It is not with a header left out, or with another value of one.
Changed == <<316>>

LEMMA HeaderChanged ==
  ASSUME NEW l, NEW e, NEW a, NEW requested, NEW expires, NEW at \in Nat, NEW names,
         LinkShape(l, e, a, requested, expires, at, names),
         NEW n \in names \ {Host}, NEW f, LowerNamed(f),
         n \in DOMAIN f => f[n] = Changed /\ TrimCollapse(a.fields[n]) # Changed,
         NEW t \in Nat
  PROVE  ~AcceptsLink(Storage, UseOf(l, f), t)
<1> DEFINE use == UseOf(l, f)
           fields == With(NormalizedHeaders(f), Host, l.authority)
           signer == Signer(Storage)
           block == [m \in names |-> IF m = Host THEN e.authority ELSE l.required[m]]
           read == [m \in names |-> fields[m]]
<1>1. use.authority = l.authority /\ use.query = l.query /\ use.fields = f /\ use.signature = l.signature
  BY DEF UseOf
<1>2. /\ expires \in 1..MaxExpires /\ SignableNames(names)
      /\ Carries(Received(l.query), signer, at, expires, names)
      /\ l.required[n] = TrimCollapse(a.fields[n])
      /\ l.signature =
           Signature(Account.secret, AmzDate(at), Scope(at, signer), l.verb, l.path, l.query, block, UnsignedPayload)
  BY Zenon DEF LinkShape
<1>0. ReadAs(fields, f, l.authority)
  BY UseReads, Zenon
<1> HIDE DEF use, fields, signer
<1>3. /\ DOMAIN fields = DOMAIN f \cup {Host}
      /\ \A m \in DOMAIN f \ {Host} : f[m] \in Seq(Nat) => fields[m] = TrimCollapse(f[m])
  BY <1>0 DEF ReadAs
<1> SUFFICES ASSUME AcceptsLink(Storage, use, t) PROVE FALSE
  BY DEF use
<1>4. expires \in Nat /\ Carries(Received(use.query), Signer(Storage), at, expires, names)
  BY <1>1, <1>2 DEF signer
<1>5. Compared(use, t, at, expires, names)
  BY <1>2, <1>4, LinkCompared
<1>6. With(NormalizedHeaders(use.fields), Host, use.authority) = fields
  BY <1>1, Zenon DEF fields
<1>7. /\ Covers(names, fields)
      /\ use.signature =
           Signature(Account.secret, AmzDate(at), Scope(at, signer), use.verb, ServicePath(use.path),
             ServiceQuery(use.query), read, UnsignedPayload)
  BY <1>5, <1>6, Zenon DEF Compared, signer
<1>8. n \in DOMAIN f
  BY <1>3, <1>7 DEF Covers
<1>9. fields[n] = Changed
  <2>1. Changed \in Seq(Nat) /\ Visible(Changed)
    BY DEF Changed, Visible, Space
  <2>2. TrimCollapse(Changed) = Changed
    BY <2>1, TrimVisible
  <2> QED
    BY <1>3, <1>8, <2>1, <2>2, ZenonT(60)
<1>10. read[n] = Changed /\ block[n] = l.required[n]
  BY <1>9
<1> HIDE DEF block, read
<1>11. block = read
  <2>1. l.signature.block = block
    BY <1>2 DEF Signature
  <2>2. use.signature.block = read
    BY <1>7 DEF Signature
  <2> QED
    BY <1>1, <2>1, <2>2, Zenon
<1> QED
  BY <1>2, <1>8, <1>10, <1>11

\* What the service found in the signature, as one equation.
LEMMA JudgedSigned ==
  ASSUME NEW service, NEW use, NEW t, NEW date, NEW life, NEW credential, NEW signed,
         Judged(service, use, t, date, life, credential, signed)
  PROVE  SignedAs(use, date, ServiceScope(date, service), ToSet(Split(signed, 59)))
BY DEF Judged

\* Nor for another verb, path or query,
LEMMA TargetChanged ==
  ASSUME NEW l, NEW e, NEW a, NEW requested, NEW expires, NEW at, NEW names,
         LinkShape(l, e, a, requested, expires, at, names),
         NEW use, use.signature = l.signature,
         use.verb # l.verb \/ ServicePath(use.path) # l.path \/ ServiceQuery(use.query) # l.query,
         NEW t
  PROVE  ~AcceptsLink(Storage, use, t)
<1> SUFFICES ASSUME AcceptsLink(Storage, use, t) PROVE FALSE
  OBVIOUS
<1>1. PICK date, life, credential, signed : Judged(Storage, use, t, date, life, credential, signed)
  BY AcceptsJudged, Zenon
<1> DEFINE scope == ServiceScope(date, Storage)
           heard == ToSet(Split(signed, 59))
<1>2. SignedAs(use, date, scope, heard)
  BY <1>1, JudgedSigned, Zenon
<1> HIDE DEF scope, heard
<1> DEFINE own == Scope(at, Signer(Storage))
           block == [n \in names |-> IF n = Host THEN e.authority ELSE l.required[n]]
<1>3. l.signature =
        Signature(Account.secret, AmzDate(at), own, l.verb, l.path, l.query, block, UnsignedPayload)
  BY Zenon DEF LinkShape
<1> HIDE DEF own, block
<1>4. /\ use.signature.verb = use.verb /\ use.signature.path = ServicePath(use.path)
      /\ use.signature.query = ServiceQuery(use.query)
  BY <1>2 DEF Signature, SignedAs
<1>5. l.signature.verb = l.verb /\ l.signature.path = l.path /\ l.signature.query = l.query
  BY <1>3 DEF Signature
<1> QED
  BY <1>4, <1>5, Zenon

\* nor after its life.
LEMMA LifeOver ==
  ASSUME NEW l, NEW e, NEW a, NEW requested, NEW expires, NEW at \in Nat, NEW names,
         LinkShape(l, e, a, requested, expires, at, names),
         NEW f, NEW t \in Nat, l.expires_at <= t
  PROVE  ~AcceptsLink(Storage, UseOf(l, f), t)
<1> DEFINE use == UseOf(l, f)
<1>1. use.query = l.query
  BY DEF UseOf
<1>2. /\ expires \in 1..MaxExpires /\ SignableNames(names) /\ l.expires_at = at + expires * Second
      /\ Carries(Received(l.query), Signer(Storage), at, expires, names)
  BY Zenon DEF LinkShape
<1> HIDE DEF use
<1>3. expires \in Nat
  BY <1>2
<1>4. (t \div Second) - (at \div Second) \notin 0..expires - 1
  <2>1. at + expires * Second <= t
    BY <1>2
  <2> QED
    BY <1>3, <2>1, LifeInSeconds
<1>5. ~Compared(use, t, at, expires, names)
  BY <1>4, Zenon DEF Compared
<1>6. AcceptsLink(Storage, use, t) <=> Compared(use, t, at, expires, names)
  BY <1>1, <1>2, <1>3, LinkCompared
<1> QED
  BY <1>5, <1>6 DEF use


-----------------------------------------------------------------------------
(***************************************************************************)
(* A link in a behaviour: it is the one that presign made, at some time.   *)
(***************************************************************************)
MadeEarlier(e, a, requested, expires, at) == at <= now /\ Made(link, e, a, requested, expires, at)

LinkInv ==
  /\ now \in Nat
  /\ Issued => \E e \in Endpoint, a \in LinkAsked, requested \in Requested, expires \in Lifetime, at \in Nat :
                 MadeEarlier(e, a, requested, expires, at)

LEMMA InitLinks == SignedInit => LinkInv
BY DEF SignedInit, LinkInv, Issued

\* Made depends on the client, which no step changes.
LEMMA MadeStays ==
  ASSUME client' = client, link' = link, now \in Nat, now' \in {now, now + 1},
         NEW e, NEW a, NEW requested, NEW expires, NEW at \in Nat,
         MadeEarlier(e, a, requested, expires, at)
  PROVE  MadeEarlier(e, a, requested, expires, at)'
<1>1. Made(link, e, a, requested, expires, at)' <=> Made(link, e, a, requested, expires, at)
  BY Zenon DEF Made, Signer
<1>2. at <= now'
  BY DEF MadeEarlier
<1> QED
  BY <1>1, <1>2 DEF MadeEarlier

LEMMA PresignMakes ==
  ASSUME TypeOK, LinkInv, NEW c \in Caller, NEW a \in LinkAsked, NEW requested \in Requested,
         NEW expires \in Lifetime, Presign(c, a, requested, expires)
  PROVE  LinkInv'
<1> DEFINE e == client.endpoints[1]
           request == RequestTo(e, a)
           signer == Signer(a.service)
           refusal == Refusal(signer, request, requested, expires)
<1>1. client' = client /\ now' = now /\ now \in Nat
  BY DEF Presign, vars, LinkInv
<1> SUFFICES ASSUME Issued'
             PROVE  MadeEarlier(e, a, requested, expires, now)' /\ e \in Endpoint
  BY <1>1 DEF LinkInv
<1>2. link' = IF client.endpoints = <<>> THEN [refused |-> "no_endpoints"]
              ELSE IF refusal # "none" THEN [refused |-> refusal]
              ELSE Presigned(signer, now, request, requested, expires)
  BY Zenon DEF Presign
<1> HIDE DEF refusal, request, signer
<1>3. client.endpoints # <<>> /\ refusal = "none"
  BY <1>2 DEF Issued
<1>4. link' = Presigned(signer, now, request, requested, expires)
  BY <1>2, <1>3
<1>5. e \in Endpoint
  BY <1>3, EndpointsType
<1>6. Made(link', e, a, requested, expires, now)
  BY <1>1, <1>3, <1>4, Zenon DEF Made, refusal, request, signer
<1>7. Made(link, e, a, requested, expires, now)' <=> Made(link', e, a, requested, expires, now)
  BY <1>1, Zenon DEF Made, Signer
<1> QED
  BY <1>1, <1>5, <1>6, <1>7 DEF MadeEarlier

LEMMA NextLinks == TypeOK /\ LinkInv /\ [SignedNext]_allVars => LinkInv'
<1> SUFFICES ASSUME TypeOK, LinkInv, [SignedNext]_allVars
             PROVE  LinkInv'
  OBVIOUS
<1>0. client' = client
  BY SignedNextRefines, ClientStays
<1> DEFINE Quiet == link' = link /\ now' \in {now, now + 1}
<1>1. CASE Quiet
  <2>1. Issued' <=> Issued
    BY <1>1 DEF Issued
  <2>2. now \in Nat /\ now' \in Nat
    BY <1>1 DEF LinkInv
  <2> SUFFICES ASSUME Issued
               PROVE  \E e \in Endpoint, a \in LinkAsked, requested \in Requested, expires \in Lifetime, at \in Nat :
                        MadeEarlier(e, a, requested, expires, at)'
    BY <2>1, <2>2 DEF LinkInv
  <2>3. PICK e \in Endpoint, a \in LinkAsked, requested \in Requested, expires \in Lifetime, at \in Nat :
          MadeEarlier(e, a, requested, expires, at)
    BY DEF LinkInv
  <2>4. MadeEarlier(e, a, requested, expires, at)'
    BY <1>0, <1>1, <2>2, <2>3, MadeStays
  <2> QED
    BY <2>4
<1>2. ASSUME NEW c \in Caller, SignedStep(c)
      PROVE  Quiet
  BY <1>2 DEF SignedStep, SignedSend, SignedLoop, traffic
<1>3. ASSUME NEW c \in Caller, NEW a \in Asked, NEW o \in Option, SignedBegin(c, a, o)
      PROVE  Quiet
  BY <1>3 DEF SignedBegin
<1>4. ASSUME NEW c \in Caller, NEW a \in LinkAsked, NEW requested \in Requested, NEW expires \in Lifetime,
             Presign(c, a, requested, expires)
      PROVE  LinkInv'
  BY <1>4, PresignMakes
<1>5. Tick => Quiet
  BY DEF Tick
<1>6. UNCHANGED allVars => Quiet
  BY DEF allVars, traffic
<1> QED
  BY <1>1, <1>2, <1>3, <1>4, <1>5, <1>6 DEF SignedNext

LEMMA LinksMade == SignedSpec => []LinkInv
BY InitLinks, NextLinks, SignedTypeCorrect, PTL DEF SignedSpec

\* A link that was issued, as the lemmas above describe it.
LEMMA IssuedShape ==
  ASSUME \A e \in Endpoint, a \in LinkAsked : Linkable(e, a), LinkInv, Issued
  PROVE  \E e \in Endpoint, a \in LinkAsked, requested \in Requested, expires \in Lifetime, at \in Nat :
           at <= now /\ LinkShape(link, e, a, requested, expires, at, NamesOf(e, a, requested))
<1>1. PICK e \in Endpoint, a \in LinkAsked, requested \in Requested, expires \in Lifetime, at \in Nat :
        MadeEarlier(e, a, requested, expires, at)
  BY DEF LinkInv
<1>2. at <= now /\ Made(link, e, a, requested, expires, at)
  BY <1>1 DEF MadeEarlier
<1>3. LinkShape(link, e, a, requested, expires, at, NamesOf(e, a, requested))
  BY <1>2, LinkMade, Zenon
<1> QED
  BY <1>2, <1>3


LEMMA UsedIs == \A f : Used(f) = UseOf(link, f)
BY DEF Used, UseOf

\* The names of the headers that a link requires are in lower case.
LEMMA RequiredLower ==
  ASSUME NEW l, NEW e, NEW a, NEW requested, NEW expires, NEW at, NEW names,
         LinkShape(l, e, a, requested, expires, at, names)
  PROVE  DOMAIN l.required = names \ {Host} /\ LowerNamed(l.required)
<1>1. DOMAIN l.required = names \ {Host}
  BY Zenon DEF LinkShape
<1>2. \A n \in names \ {Host} : n \in Seq(Nat) /\ LowerCase(n) = n
  BY RequiredNeat
<1> QED
  BY <1>1, <1>2 DEF LowerNamed

LEMMA AddedName ==
  /\ <<314>> \in Seq(Nat) /\ LowerCase(<<314>>) = <<314>>
  /\ ~IsAmz(<<314>>) /\ <<314>> # Host
<1> DEFINE name == <<314>>
<1>1. name \in Seq(Nat) /\ Len(name) = 1 /\ \A i \in DOMAIN name : name[i] \notin Upper
  BY DEF Upper
<1>2. Len(Host) = 2
  BY DEF Host
<1>3. ~IsAmz(name)
  BY DEF IsAmz, IsPrefix
<1> HIDE DEF name
<1>4. LowerCase(name) = name
  BY <1>1, LowerText
<1>5. name # Host
  BY <1>1, <1>2, SMTT(60)
<1> QED
  BY <1>1, <1>3, <1>4, <1>5 DEF name

LEMMA Accepted ==
  ASSUME \A e \in Endpoint, a \in LinkAsked : Linkable(e, a), LinkInv
  PROVE  LinkAccepted
<1> SUFFICES ASSUME Issued, now + Second <= link.expires_at
             PROVE  /\ AcceptsLink(Storage, Used(link.required), now)
                    /\ AcceptsLink(Storage, Used(With(link.required, <<314>>, <<315>>)), now)
  BY DEF LinkAccepted
<1>0. PICK e \in Endpoint, a \in LinkAsked, requested \in Requested, expires \in Lifetime, at \in Nat :
        at <= now /\ LinkShape(link, e, a, requested, expires, at, NamesOf(e, a, requested))
  BY IssuedShape
<1> DEFINE names == NamesOf(e, a, requested)
<1>1. at <= now /\ LinkShape(link, e, a, requested, expires, at, names)
  BY <1>0
<1> HIDE DEF names
<1> DEFINE own == link.required
           name == <<314>>
           more == With(own, name, <<315>>)
<1>2. DOMAIN own = names \ {Host} /\ LowerNamed(own)
  BY <1>1, RequiredLower
<1>3. name \notin names
  <2>1. names \subseteq DOMAIN a.fields \cup {Host}
    BY <1>1, Zenon DEF LinkShape
  <2>2. name \notin DOMAIN a.fields
    BY Zenon DEF Linkable
  <2> QED
    BY <2>1, <2>2, AddedName
<1>4. Extends(more, own, name, <<315>>)
  BY WithExtends, ZenonT(60)
<1>5. now \in Nat
  BY DEF LinkInv
<1>6. name \in Seq(Nat) /\ LowerCase(name) = name /\ ~IsAmz(name)
  BY AddedName
<1> HIDE DEF own, name, more
<1>7. AcceptsLink(Storage, UseOf(link, own), now)
  BY <1>1, <1>2, <1>5, LinkAcceptedWith DEF own
<1>8. LowerNamed(more) /\ names \ {Host} \subseteq DOMAIN more
  BY <1>2, <1>4, <1>6 DEF LowerNamed, Extends
<1>9. \A n \in names \ {Host} : more[n] = own[n]
  BY <1>2, <1>3, <1>4 DEF Extends
<1>10. \A n \in DOMAIN more : IsAmz(n) => n \in names
  BY <1>2, <1>4, <1>6 DEF Extends
<1>11. AcceptsLink(Storage, UseOf(link, more), now)
  BY <1>1, <1>5, <1>8, <1>9, <1>10, LinkAcceptedWith DEF own
<1> QED
  BY <1>7, <1>11, UsedIs, Zenon DEF own, name, more


\* A name that a caller asked for, as the link has it.
LEMMA AskedName ==
  ASSUME NEW l, NEW e, NEW a, NEW requested, NEW expires, NEW at, NEW names,
         LinkShape(l, e, a, requested, expires, at, names), Telling(a, requested),
         NEW n \in l.requested
  PROVE  /\ n \in names \ {Host} /\ n \in Seq(Nat) /\ LowerCase(n) = n
         /\ TrimCollapse(a.fields[n]) # <<316>>
<1>1. l.requested = requested /\ names \subseteq DOMAIN a.fields \cup {Host}
      /\ \A m \in requested : LowerCase(m) \in names
  BY Zenon DEF LinkShape
<1>2. \A m \in names \ {Host} : m \in Seq(Nat) /\ LowerCase(m) = m
  BY RequiredNeat
<1> QED
  BY <1>1, <1>2 DEF Telling

\* Each way to use a link that LinkBound lists.
LEMMA HeadersBound ==
  ASSUME NEW l, NEW e, NEW a, NEW requested, NEW expires, NEW at \in Nat, NEW names,
         LinkShape(l, e, a, requested, expires, at, names), Telling(a, requested),
         NEW n \in l.requested, NEW t \in Nat
  PROVE  /\ ~AcceptsLink(Storage, UseOf(l, [m \in DOMAIN l.required \ {n} |-> l.required[m]]), t)
         /\ ~AcceptsLink(Storage, UseOf(l, With(l.required, n, <<316>>)), t)
<1> DEFINE own == l.required
           less == [m \in DOMAIN own \ {n} |-> own[m]]
           other == With(own, n, <<316>>)
<1>1. /\ n \in names \ {Host} /\ n \in Seq(Nat) /\ LowerCase(n) = n
      /\ TrimCollapse(a.fields[n]) # <<316>>
  BY AskedName
<1>2. LowerNamed(own)
  BY RequiredLower
<1>3. Extends(other, own, n, <<316>>)
  BY WithExtends, ZenonT(60)
<1>4. DOMAIN less = DOMAIN own \ {n}
  OBVIOUS
<1> HIDE DEF own, less, other
<1>5. LowerNamed(less) /\ n \notin DOMAIN less
  BY <1>2, <1>4 DEF LowerNamed
<1>6. LowerNamed(other) /\ other[n] = <<316>>
  BY <1>1, <1>2, <1>3 DEF LowerNamed, Extends
<1>7. ~AcceptsLink(Storage, UseOf(l, less), t)
  BY <1>1, <1>5, HeaderChanged DEF Changed
<1>8. ~AcceptsLink(Storage, UseOf(l, other), t)
  BY <1>1, <1>6, HeaderChanged DEF Changed
<1> QED
  BY <1>7, <1>8, Zenon DEF own, less, other

LEMMA TargetBound ==
  ASSUME NEW l, NEW e, NEW a, NEW requested, NEW expires, NEW at \in Nat, NEW names,
         LinkShape(l, e, a, requested, expires, at, names), NEW f, NEW t \in Nat
  PROVE  /\ \A verb : verb # l.verb => ~AcceptsLink(Storage, [UseOf(l, f) EXCEPT !.verb = verb], t)
         /\ ~AcceptsLink(Storage, [UseOf(l, f) EXCEPT !.path = Append(@, 317)], t)
         /\ ~AcceptsLink(Storage, [UseOf(l, f) EXCEPT !.query = <<318, Ampersand>> \o @], t)
<1> DEFINE exact == UseOf(l, f)
           deeper == [exact EXCEPT !.path = Append(@, 317)]
           longer == [exact EXCEPT !.query = <<318, Ampersand>> \o @]
<1>1. /\ ServicePath(Append(l.path, 317)) # l.path
      /\ l.query \in Seq(Nat) /\ l.query # <<>>
  BY Zenon DEF LinkShape
<1>2. ServiceQuery(<<318, Ampersand>> \o l.query) # l.query
  BY <1>1, QueryLonger
<1>3. ASSUME NEW verb, verb # l.verb
      PROVE  ~AcceptsLink(Storage, [exact EXCEPT !.verb = verb], t)
  <2> DEFINE use == [exact EXCEPT !.verb = verb]
  <2>1. use.verb # l.verb /\ use.signature = l.signature
    BY <1>3 DEF UseOf
  <2> HIDE DEF use
  <2>2. ~AcceptsLink(Storage, use, t)
    BY <2>1, TargetChanged
  <2> QED
    BY <2>2, Zenon DEF use
<1>4. deeper.path = Append(l.path, 317) /\ deeper.signature = l.signature
  BY DEF UseOf
<1>5. longer.query = <<318, Ampersand>> \o l.query /\ longer.signature = l.signature
  BY DEF UseOf
<1> HIDE DEF exact, deeper, longer
<1>6. ServicePath(deeper.path) # l.path
  BY <1>1, <1>4, Zenon
<1>7. ~AcceptsLink(Storage, deeper, t)
  BY <1>4, <1>6, TargetChanged
<1>8. ServiceQuery(longer.query) # l.query
  BY <1>2, <1>5, Zenon
<1>9. ~AcceptsLink(Storage, longer, t)
  BY <1>5, <1>8, TargetChanged
<1> QED
  BY <1>3, <1>7, <1>9, Zenon DEF exact, deeper, longer

LEMMA Bound ==
  ASSUME \A e \in Endpoint, a \in LinkAsked : Linkable(e, a),
         \A a \in LinkAsked, requested \in Requested : Telling(a, requested), LinkInv
  PROVE  LinkBound
<1> DEFINE exact == Used(link.required)
           accepted(use) == AcceptsLink(Storage, use, now)
<1> SUFFICES ASSUME Issued
             PROVE  /\ \A n \in link.requested :
                         /\ ~accepted(Used([m \in DOMAIN link.required \ {n} |-> link.required[m]]))
                         /\ ~accepted(Used(With(link.required, n, <<316>>)))
                    /\ \A verb \in {"get", "put", "head", "delete"} \ {link.verb} :
                         ~accepted([exact EXCEPT !.verb = verb])
                    /\ ~accepted([exact EXCEPT !.path = Append(@, 317)])
                    /\ ~accepted([exact EXCEPT !.query = <<318, Ampersand>> \o @])
                    /\ now >= link.expires_at => ~accepted(exact)
  BY Zenon DEF LinkBound
<1>0. PICK e \in Endpoint, a \in LinkAsked, requested \in Requested, expires \in Lifetime, at \in Nat :
        at <= now /\ LinkShape(link, e, a, requested, expires, at, NamesOf(e, a, requested))
  BY IssuedShape
<1> DEFINE names == NamesOf(e, a, requested)
<1>1. at <= now /\ LinkShape(link, e, a, requested, expires, at, names)
  BY <1>0
<1> HIDE DEF names
<1>2. now \in Nat /\ Telling(a, requested)
  BY DEF LinkInv
<1>3. exact = UseOf(link, link.required)
  BY UsedIs, Zenon
<1>4. ASSUME NEW n \in link.requested
      PROVE  /\ ~accepted(Used([m \in DOMAIN link.required \ {n} |-> link.required[m]]))
             /\ ~accepted(Used(With(link.required, n, <<316>>)))
  <2> DEFINE less == [m \in DOMAIN link.required \ {n} |-> link.required[m]]
             other == With(link.required, n, <<316>>)
  <2>1. /\ ~AcceptsLink(Storage, UseOf(link, less), now)
        /\ ~AcceptsLink(Storage, UseOf(link, other), now)
    BY <1>1, <1>2, HeadersBound, ZenonT(60)
  <2> HIDE DEF less, other
  <2>2. ~accepted(Used(less)) /\ ~accepted(Used(other))
    BY <2>1, UsedIs, Zenon
  <2> QED
    BY <2>2, Zenon DEF less, other
<1>5. /\ \A verb : verb # link.verb => ~accepted([exact EXCEPT !.verb = verb])
      /\ ~accepted([exact EXCEPT !.path = Append(@, 317)])
      /\ ~accepted([exact EXCEPT !.query = <<318, Ampersand>> \o @])
  <2> DEFINE same == UseOf(link, link.required)
  <2>1. /\ \A verb : verb # link.verb => ~AcceptsLink(Storage, [same EXCEPT !.verb = verb], now)
        /\ ~AcceptsLink(Storage, [same EXCEPT !.path = Append(@, 317)], now)
        /\ ~AcceptsLink(Storage, [same EXCEPT !.query = <<318, Ampersand>> \o @], now)
    <3>1. now \in Nat /\ LinkShape(link, e, a, requested, expires, at, names)
      BY <1>1, <1>2
    <3> QED
      BY <3>1, TargetBound, ZenonT(60)
  <2>2. exact = same
    BY <1>3
  <2> HIDE DEF same, exact
  <2> QED
    BY <2>1, <2>2, Zenon
<1>6. ASSUME now >= link.expires_at
      PROVE  ~accepted(exact)
  <2>1. link.expires_at = at + expires * Second /\ expires \in 1..MaxExpires
    BY <1>1, Zenon DEF LinkShape
  <2>2. link.expires_at <= now
    BY <1>2, <1>6, <2>1, TimeAssumption
  <2>3. ~AcceptsLink(Storage, UseOf(link, link.required), now)
    BY <1>1, <1>2, <2>2, LifeOver
  <2> QED
    BY <1>3, <2>3, Zenon
<1> HIDE DEF exact, accepted
<1> QED
  BY <1>4, <1>5, <1>6, Zenon

-----------------------------------------------------------------------------
\* A presigned link, made for whatever call, endpoint, life and headers, is
\* accepted from the time it is made to the last full second of its life, with the
\* headers it requires and with one more: the service reads its query, its path
\* and its headers in its own way and comes to the signature of the signer.
THEOREM LinksAccepted ==
  ASSUME \A e \in Endpoint, a \in LinkAsked : Linkable(e, a)
  PROVE  SignedSpec => []LinkAccepted
<1>1. LinkInv => LinkAccepted
  BY Accepted
<1> QED
  BY <1>1, LinksMade, PTL

\* A presigned link is accepted for nothing else: not with a signed header left out
\* or changed, not for another verb, another object or another query, and not
\* after its life.
THEOREM LinksBound ==
  ASSUME \A e \in Endpoint, a \in LinkAsked : Linkable(e, a),
         \A a \in LinkAsked, requested \in Requested : Telling(a, requested)
  PROVE  SignedSpec => []LinkBound
<1>1. LinkInv => LinkBound
  BY Bound
<1> QED
  BY <1>1, LinksMade, PTL
=============================================================================
