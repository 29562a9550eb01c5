-------------------------- MODULE SequenceProofs --------------------------
(***************************************************************************)
(* Lemmas about sequences and the sets of their positions: how often items *)
(* occur, what First, InOrder and At select, functions defined by          *)
(* recursion on the position, induction, and the nesting of what opens and *)
(* closes.                                                                 *)
(***************************************************************************)
EXTENDS Selections, Integers, Sequences, SequencesExt, FiniteSetTheorems, FunctionTheorems,
        SequenceTheorems, WellFoundedInduction, TLAPS

(* Every set of naturals that is not empty has a least member.             *)
LEMMA LeastNat ==
    ASSUME NEW T \in SUBSET Nat, T # {}
    PROVE  \E x \in T : \A y \in T : x <= y
<1>1. \E x \in T : \A y \in T : ~(<<y, x>> \in OpToRel(<, Nat))
  BY NatLessThanWellFounded, WFMin, Zenon
<1>2. ASSUME NEW x \in T, NEW y \in T, y < x PROVE <<y, x>> \in OpToRel(<, Nat)
  <2>1. <<y, x>> \in Nat \X Nat
    OBVIOUS
  <2>2. <<y, x>>[1] < <<y, x>>[2]
    BY <1>2
  <2> QED BY <2>1, <2>2, Zenon DEF OpToRel
<1>3. \E x \in T : \A y \in T : ~(y < x)
  BY <1>1, <1>2, Zenon
<1> QED BY <1>3

(* First(S) is that member.                                                *)
LEMMA FirstProperties ==
    ASSUME NEW S \in SUBSET Nat, S # {}
    PROVE  First(S) \in S /\ \A j \in S : First(S) <= j
BY LeastNat DEF First

(* A bijection keeps the number of members.                                *)
LEMMA CardBijection ==
    ASSUME NEW S, NEW T, IsFiniteSet(S), NEW f \in [S -> T],
           \A a, b \in S : f[a] = f[b] => a = b, \A t \in T : \E a \in S : f[a] = t
    PROVE  IsFiniteSet(T) /\ Cardinality(T) = Cardinality(S)
<1>1. f \in Bijection(S, T)
  BY Fun_IsBij
<1>2. ExistsBijection(S, T)
  BY <1>1 DEF ExistsBijection
<1> QED BY <1>2, FS_Bijection

(* Sets of positions are finite.                                           *)
LEMMA FiniteInterval == ASSUME NEW n \in Nat, NEW S \in SUBSET (1 .. n) PROVE IsFiniteSet(S)
          /\ Cardinality(S) \in Nat
<1>1. IsFiniteSet(1 .. n)
  BY FS_Interval
<1>2. IsFiniteSet(S)
  BY <1>1, FS_Subset
<1> QED BY <1>2, FS_CardinalityType

(* A set of integers moved by n has as many members.                       *)
LEMMA Shift ==
    ASSUME NEW n \in Int, NEW T \in SUBSET Int, IsFiniteSet(T)
    PROVE  LET U == {i + n : i \in T} IN IsFiniteSet(U) /\ Cardinality(U) = Cardinality(T)
<1> DEFINE U == {i + n : i \in T}
           f == [i \in T |-> i + n]
<1>1. f \in [T -> U]
  OBVIOUS
<1>2. \A a, b \in T : f[a] = f[b] => a = b
  OBVIOUS
<1>3. \A u \in U : \E a \in T : f[a] = u
  OBVIOUS
<1> HIDE DEF f, U
<1>4. IsFiniteSet(U) /\ Cardinality(U) = Cardinality(T)
  BY <1>1, <1>2, <1>3, CardBijection
<1> QED BY <1>4 DEF U

-----------------------------------------------------------------------------
(* How often the members of X occur in s.                                  *)
Count(s, X) == Cardinality({i \in 1 .. Len(s) : s[i] \in X})

LEMMA CountType ==
    ASSUME NEW S, NEW s \in Seq(S), NEW X
    PROVE  Count(s, X) \in Nat /\ IsFiniteSet({i \in 1 .. Len(s) : s[i] \in X})
<1>1. {i \in 1 .. Len(s) : s[i] \in X} \in SUBSET (1 .. Len(s)) /\ Len(s) \in Nat
  OBVIOUS
<1> QED BY <1>1, FiniteInterval DEF Count

LEMMA CountEmpty == ASSUME NEW X PROVE Count(<<>>, X) = 0
<1>1. {i \in 1 .. Len(<<>>) : <<>>[i] \in X} = {}
  OBVIOUS
<1> QED BY <1>1, FS_EmptySet DEF Count

(* What occurs in s and in t occurs in their concatenation, as often.      *)
LEMMA CountConcat ==
    ASSUME NEW S, NEW s \in Seq(S), NEW t \in Seq(S), NEW X
    PROVE  Count(s \o t, X) = Count(s, X) + Count(t, X)
<1> DEFINE A == {i \in 1 .. Len(s) : s[i] \in X}
           B == {i \in 1 .. Len(t) : t[i] \in X}
           C == {i + Len(s) : i \in B}
           D == {i \in 1 .. Len(s \o t) : (s \o t)[i] \in X}
<1>1. PICK m \in Nat : m = Len(s)
  OBVIOUS
<1>2. PICK n \in Nat : n = Len(t)
  OBVIOUS
<1>3. Len(s \o t) = m + n /\ \A i \in 1 .. m + n : (s \o t)[i] = IF i <= m THEN s[i] ELSE t[i - m]
  BY <1>1, <1>2, ConcatProperties
<1>4. D = A \cup C
  <2>1. ASSUME NEW i \in D PROVE i \in A \cup C
    <3>1. i \in 1 .. m + n /\ (s \o t)[i] \in X
      BY <1>3
    <3>2. CASE i <= m
      BY <3>1, <3>2, <1>1, <1>3
    <3>3. CASE i > m
      <4>1. i - m \in 1 .. n /\ t[i - m] \in X /\ i = (i - m) + m
        BY <3>1, <3>3, <1>3
      <4>2. i - m \in B
        BY <4>1, <1>2
      <4> QED BY <4>1, <4>2, <1>1
    <3> QED BY <3>1, <3>2, <3>3
  <2>2. ASSUME NEW i \in A PROVE i \in D
    BY <1>1, <1>3
  <2>3. ASSUME NEW j \in B PROVE j + m \in D
    <3>1. j \in 1 .. n /\ t[j] \in X
      BY <1>2
    <3>2. j + m \in 1 .. m + n /\ ~(j + m <= m) /\ (j + m) - m = j
      BY <3>1
    <3> QED BY <3>1, <3>2, <1>3
  <2> QED BY <2>1, <2>2, <2>3, <1>1
<1>5. A \cap C = {}
  BY <1>1, <1>2
<1>6. IsFiniteSet(A) /\ IsFiniteSet(B) /\ Cardinality(A) \in Nat /\ Cardinality(B) \in Nat
  BY CountType DEF Count
<1>7. IsFiniteSet(C) /\ Cardinality(C) = Cardinality(B)
  <2>1. B \in SUBSET Int /\ Len(s) \in Int
    OBVIOUS
  <2> HIDE DEF B
  <2> QED BY <2>1, <1>6, Shift
<1> HIDE DEF A, B, C, D
<1>8. Cardinality(D) = Cardinality(A) + Cardinality(C) - Cardinality({})
  BY <1>4, <1>5, <1>6, <1>7, FS_Union
<1>9. Cardinality(D) = Cardinality(A) + Cardinality(B)
  BY <1>6, <1>7, <1>8, FS_EmptySet
<1> QED BY <1>9 DEF Count, A, B, D

LEMMA CountOne ==
    ASSUME NEW x, NEW X
    PROVE  Count(<<x>>, X) = IF x \in X THEN 1 ELSE 0
<1>1. CASE x \in X
  <2>1. {i \in 1 .. Len(<<x>>) : <<x>>[i] \in X} = {1}
    BY <1>1
  <2> QED BY <2>1, <1>1, FS_Singleton DEF Count
<1>2. CASE x \notin X
  <2>1. {i \in 1 .. Len(<<x>>) : <<x>>[i] \in X} = {}
    BY <1>2
  <2> QED BY <2>1, <1>2, FS_EmptySet DEF Count
<1> QED BY <1>1, <1>2

LEMMA CountAppend ==
    ASSUME NEW S, NEW s \in Seq(S), NEW x \in S, NEW X
    PROVE  Count(Append(s, x), X) = Count(s, X) + IF x \in X THEN 1 ELSE 0
<1>1. Append(s, x) = s \o <<x>> /\ <<x>> \in Seq(S)
  BY AppendIsConcat
<1>2. Count(s \o <<x>>, X) = Count(s, X) + Count(<<x>>, X)
  BY <1>1, CountConcat
<1>3. Count(<<x>>, X) = IF x \in X THEN 1 ELSE 0
  BY CountOne
<1> QED BY <1>1, <1>2, <1>3

(* An item read from the front is no longer counted in what is left.       *)
LEMMA CountTail ==
    ASSUME NEW S, NEW s \in Seq(S), s # <<>>, NEW X
    PROVE  Count(s, X) = (IF Head(s) \in X THEN 1 ELSE 0) + Count(Tail(s), X)
<1>1. s = <<Head(s)>> \o Tail(s) /\ <<Head(s)>> \in Seq(S) /\ Tail(s) \in Seq(S)
  <2>1. Len(s) >= 1 /\ Head(s) \in S /\ Tail(s) \in Seq(S)
    OBVIOUS
  <2>2. SubSeq(s, 1, Len(s)) = <<s[1]>> \o SubSeq(s, 2, Len(s))
    <3>1. 1 \in 1 .. Len(s) /\ Len(s) \in 1 .. Len(s)
      BY <2>1
    <3> QED BY <3>1, SubSeqRecursiveFirst
  <2> QED BY <2>1, <2>2, SubSeqFull, TailIsSubSeq
<1>2. Count(<<Head(s)>> \o Tail(s), X) = Count(<<Head(s)>>, X) + Count(Tail(s), X)
  BY <1>1, CountConcat
<1>3. Count(<<Head(s)>>, X) = IF Head(s) \in X THEN 1 ELSE 0
  BY CountOne
<1> QED BY <1>1, <1>2, <1>3

-----------------------------------------------------------------------------

(* The members of a sequence, of a concatenation, of an item alone.        *)
LEMMA SeqRange ==
    ASSUME NEW S, NEW s \in Seq(S)
    PROVE  /\ Range(s) = {s[i] : i \in 1 .. Len(s)}
           /\ \A x : x \in Range(s) <=> \E i \in 1 .. Len(s) : s[i] = x
           /\ Range(s) \subseteq S
<1>1. DOMAIN s = 1 .. Len(s) /\ \A i \in 1 .. Len(s) : s[i] \in S
  OBVIOUS
<1>2. Range(s) = {s[i] : i \in 1 .. Len(s)}
  BY <1>1, Zenon DEF Range
<1> QED BY <1>1, <1>2

LEMMA RangeConcat ==
    ASSUME NEW S, NEW s \in Seq(S), NEW t \in Seq(S)
    PROVE  s \o t \in Seq(S) /\ Range(s \o t) = Range(s) \cup Range(t)
<1>1. PICK m \in Nat : m = Len(s)
  OBVIOUS
<1>2. PICK n \in Nat : n = Len(t)
  OBVIOUS
<1>3. s \o t \in Seq(S) /\ Len(s \o t) = m + n /\ \A i \in 1 .. m + n : (s \o t)[i] = IF i <= m
          THEN s[i] ELSE t[i - m]
  BY <1>1, <1>2, ConcatProperties
<1>4. ASSUME NEW x \in Range(s) PROVE x \in Range(s \o t)
  <2>1. PICK i \in 1 .. m : s[i] = x
    BY <1>1, SeqRange
  <2>2. i \in 1 .. m + n /\ (s \o t)[i] = x
    BY <2>1, <1>3
  <2> QED BY <2>2, <1>3, SeqRange
<1>5. ASSUME NEW x \in Range(t) PROVE x \in Range(s \o t)
  <2>1. PICK i \in 1 .. n : t[i] = x
    BY <1>2, SeqRange
  <2>2. i + m \in 1 .. m + n /\ ~(i + m <= m) /\ (i + m) - m = i
    OBVIOUS
  <2>3. (s \o t)[i + m] = x
    BY <2>1, <2>2, <1>3
  <2> QED BY <2>2, <2>3, <1>3, SeqRange
<1>6. ASSUME NEW x \in Range(s \o t) PROVE x \in Range(s) \cup Range(t)
  <2>1. PICK i \in 1 .. m + n : (s \o t)[i] = x
    BY <1>3, SeqRange
  <2>2. CASE i <= m
    <3>1. i \in 1 .. m /\ s[i] = x
      BY <2>1, <2>2, <1>3
    <3> QED BY <3>1, <1>1, SeqRange
  <2>3. CASE ~(i <= m)
    <3>1. i - m \in 1 .. n /\ t[i - m] = x
      BY <2>1, <2>3, <1>3
    <3> QED BY <3>1, <1>2, SeqRange
  <2> QED BY <2>2, <2>3
<1> QED BY <1>3, <1>4, <1>5, <1>6

LEMMA RangeOne == ASSUME NEW x PROVE Range(<<x>>) = {x}
<1>1. <<x>> \in Seq({x}) /\ Len(<<x>>) = 1 /\ <<x>>[1] = x
  OBVIOUS
<1>2. \A y : y \in Range(<<x>>) <=> \E i \in 1 .. Len(<<x>>) : <<x>>[i] = y
  BY <1>1, SeqRange
<1>3. \A y : y \in Range(<<x>>) <=> y = x
  BY <1>1, <1>2
<1> QED BY <1>3

LEMMA RangeEmpty == Range(<<>>) = {}
<1>1. DOMAIN <<>> = {}
  OBVIOUS
<1> QED BY <1>1, Zenon DEF Range

(* A sequence is what stands up to k and what follows.                     *)
LEMMA Split ==
    ASSUME NEW S, NEW s \in Seq(S), NEW k \in 0 .. Len(s)
    PROVE  /\ SubSeq(s, 1, k) \in Seq(S) /\ SubSeq(s, k + 1, Len(s)) \in Seq(S)
           /\ Len(SubSeq(s, 1, k)) = k /\ Len(SubSeq(s, k + 1, Len(s))) = Len(s) - k
           /\ \A i \in 1 .. k : SubSeq(s, 1, k)[i] = s[i]
           /\ \A i \in 1 .. Len(s) - k : SubSeq(s, k + 1, Len(s))[i] = s[k + i]
           /\ s = SubSeq(s, 1, k) \o SubSeq(s, k + 1, Len(s))
<1>1. PICK n \in Nat : n = Len(s)
  OBVIOUS
<1> DEFINE u == SubSeq(s, 1, k)
           v == SubSeq(s, k + 1, n)
<1>2. u \in Seq(S) /\ Len(u) = k /\ \A i \in 1 .. k : u[i] = s[i]
  BY <1>1
<1>3. v \in Seq(S) /\ Len(v) = n - k /\ \A i \in 1 .. n - k : v[i] = s[k + i]
  BY <1>1
<1> HIDE DEF u, v
<1>4. Len(u \o v) = n /\ \A i \in 1 .. n : (u \o v)[i] = IF i <= k THEN u[i] ELSE v[i - k]
  BY <1>1, <1>2, <1>3, ConcatProperties
<1>5. \A i \in 1 .. n : (u \o v)[i] = s[i]
  BY <1>2, <1>3, <1>4, <1>1
<1>6. u \o v \in Seq(S)
  BY <1>2, <1>3
<1>7. u \o v = s
  BY <1>1, <1>4, <1>5, <1>6, SeqEqual
<1> QED BY <1>1, <1>2, <1>3, <1>7 DEF u, v

LEMMA HeadTail ==
    ASSUME NEW S, NEW s \in Seq(S), s # <<>>
    PROVE  /\ Head(s) \in S /\ Tail(s) \in Seq(S)
           /\ s = <<Head(s)>> \o Tail(s)
           /\ Range(s) = {Head(s)} \cup Range(Tail(s))
<1>1. s = <<Head(s)>> \o Tail(s) /\ <<Head(s)>> \in Seq(S) /\ Tail(s) \in Seq(S) /\ Head(s) \in S
  <2>1. Len(s) >= 1 /\ Head(s) \in S /\ Tail(s) \in Seq(S)
    OBVIOUS
  <2>2. SubSeq(s, 1, Len(s)) = <<s[1]>> \o SubSeq(s, 2, Len(s))
    <3>1. 1 \in 1 .. Len(s) /\ Len(s) \in 1 .. Len(s)
      BY <2>1
    <3> QED BY <3>1, SubSeqRecursiveFirst
  <2> QED BY <2>1, <2>2, SubSeqFull, TailIsSubSeq
<1>2. Range(<<Head(s)>> \o Tail(s)) = Range(<<Head(s)>>) \cup Range(Tail(s))
  BY <1>1, RangeConcat
<1> QED BY <1>1, <1>2, RangeOne

LEMMA FrontLast ==
    ASSUME NEW S, NEW s \in Seq(S), s # <<>>
    PROVE  /\ Len(s) >= 1 /\ Last(s) = s[Len(s)] /\ Last(s) \in S
           /\ Front(s) \in Seq(S) /\ Len(Front(s)) = Len(s) - 1
           /\ \A i \in 1 .. Len(s) - 1 : Front(s)[i] = s[i]
           /\ s = Append(Front(s), Last(s))
<1>1. PICK n \in Nat : n = Len(s) /\ n >= 1
  OBVIOUS
<1>2. n - 1 \in 0 .. n
  BY <1>1
<1>3. Front(s) = SubSeq(s, 1, n - 1)
  BY <1>1 DEF Front
<1>4. /\ SubSeq(s, 1, n - 1) \in Seq(S) /\ Len(SubSeq(s, 1, n - 1)) = n - 1
      /\ \A i \in 1 .. n - 1 : SubSeq(s, 1, n - 1)[i] = s[i]
  BY <1>1, <1>2, Split
<1>5. Last(s) = s[n] /\ s[n] \in S
  BY <1>1 DEF Last
<1>6. s = Append(Front(s), Last(s))
  <2> DEFINE t == Append(Front(s), Last(s))
  <2>1. t \in Seq(S) /\ Len(t) = n /\ \A i \in 1 .. n : t[i] = s[i]
    BY <1>1, <1>3, <1>4, <1>5
  <2> QED BY <2>1, <1>1, SeqEqual
<1> QED BY <1>1, <1>3, <1>4, <1>5, <1>6

LEMMA AppendFront ==
    ASSUME NEW S, NEW s \in Seq(S), NEW e \in S
    PROVE  /\ Append(s, e) \in Seq(S) /\ Append(s, e) # <<>>
           /\ Len(Append(s, e)) = Len(s) + 1
           /\ Front(Append(s, e)) = s /\ Last(Append(s, e)) = e
BY DEF Front, Last

LEMMA AppendRange ==
    ASSUME NEW S, NEW s \in Seq(S), NEW e \in S
    PROVE  Range(Append(s, e)) = Range(s) \cup {e}
<1>1. Append(s, e) = s \o <<e>> /\ <<e>> \in Seq(S)
  BY AppendIsConcat
<1>2. Range(s \o <<e>>) = Range(s) \cup Range(<<e>>)
  BY <1>1, RangeConcat
<1> QED BY <1>1, <1>2, RangeOne, Zenon

-----------------------------------------------------------------------------
(* The order of a finite set of positions.                                 *)
NotAfter(S, i) == {j \in S : j <= i}

(* The rank of a member of S: how many members it has up to it.            *)
LEMMA RankProperties ==
    ASSUME NEW S \in SUBSET Nat, IsFiniteSet(S), NEW i \in S
    PROVE  /\ IsFiniteSet(NotAfter(S, i))
           /\ Cardinality(NotAfter(S, i)) \in 1 .. Cardinality(S)
           /\ \A k \in S : i < k => Cardinality(NotAfter(S, i)) < Cardinality(NotAfter(S, k))
<1>1. ASSUME NEW k \in S
      PROVE  IsFiniteSet(NotAfter(S, k)) /\ Cardinality(NotAfter(S, k)) \in Nat
  <2>1. NotAfter(S, k) \in SUBSET S
    BY DEF NotAfter
  <2> QED BY <2>1, FS_Subset, FS_CardinalityType
<1>2. Cardinality(NotAfter(S, i)) <= Cardinality(S) /\ Cardinality(S) \in Nat
  <2>1. NotAfter(S, i) \in SUBSET S
    BY DEF NotAfter
  <2> QED BY <2>1, FS_Subset, FS_CardinalityType
<1>3. Cardinality(NotAfter(S, i)) # 0
  <2>1. i \in NotAfter(S, i)
    BY DEF NotAfter
  <2> QED BY <2>1, <1>1, FS_EmptySet
<1>4. ASSUME NEW k \in S, i < k
      PROVE  Cardinality(NotAfter(S, i)) < Cardinality(NotAfter(S, k))
  <2>1. NotAfter(S, i) \in SUBSET NotAfter(S, k)
    <3>1. \A j \in S : j <= i => j <= k
      <4>1. i \in Nat /\ k \in Nat /\ \A j \in S : j \in Nat
        OBVIOUS
      <4> QED BY <1>4, <4>1
    <3> QED BY <3>1 DEF NotAfter
  <2>2. k \in NotAfter(S, k) /\ k \notin NotAfter(S, i)
    BY <1>4 DEF NotAfter
  <2>3. /\ Cardinality(NotAfter(S, i)) <= Cardinality(NotAfter(S, k))
        /\ Cardinality(NotAfter(S, i)) # Cardinality(NotAfter(S, k))
    BY <1>1, <2>1, <2>2, FS_Subset
  <2> QED BY <2>3, <1>1
<1>5. PICK m \in Nat : m = Cardinality(NotAfter(S, i))
  BY <1>1
<1> QED BY <1>1, <1>2, <1>3, <1>4, <1>5

(* Every rank up to the size of S is that of a member.                     *)
LEMMA OrderExists ==
    ASSUME NEW S \in SUBSET Nat, IsFiniteSet(S), NEW n \in 1 .. Cardinality(S)
    PROVE  \E i \in S : Cardinality(NotAfter(S, i)) = n
<1> DEFINE c == Cardinality(S)
           r == [i \in S |-> Cardinality(NotAfter(S, i))]
<1>1. c \in Nat
  BY FS_CardinalityType
<1>2. r \in [S -> 1 .. c]
  BY RankProperties
<1>3. ASSUME NEW a \in S, NEW b \in S, r[a] = r[b] PROVE a = b
  <2>0. r[a] = Cardinality(NotAfter(S, a)) /\ r[b] = Cardinality(NotAfter(S, b))
    OBVIOUS
  <2>1. Cardinality(NotAfter(S, a)) \in Nat /\ Cardinality(NotAfter(S, b)) \in Nat
    BY RankProperties
  <2>2. ~(a < b) /\ ~(b < a)
    BY <2>0, <2>1, <1>3, RankProperties
  <2> QED BY <2>2
<1> HIDE DEF r
<1>4. r \in Injection(S, 1 .. c)
  BY <1>2, <1>3, Fun_IsInj
<1>5. IsFiniteSet(1 .. c) /\ Cardinality(1 .. c) = c
  <2>1. IsFiniteSet(1 .. c) /\ Cardinality(1 .. c) = IF 1 > c THEN 0 ELSE c - 1 + 1
    BY <1>1, FS_Interval
  <2>2. \A k \in Nat : (IF 1 > k THEN 0 ELSE k - 1 + 1) = k
    OBVIOUS
  <2> QED BY <2>1, <2>2, <1>1
<1>6. r \in Surjection(S, 1 .. c)
  BY <1>4, <1>5, FS_Injection
<1>7. \E i \in S : r[i] = n
  <2>1. \A t \in 1 .. c : \E i \in S : r[i] = t
    BY <1>6, Fun_SurjectionProperties
  <2> QED BY <2>1
<1> QED BY <1>7 DEF r

(* InOrder(S) lists the members of S, each once, in increasing order.      *)
LEMMA InOrderProperties ==
    ASSUME NEW S \in SUBSET Nat, IsFiniteSet(S)
    PROVE  /\ Cardinality(S) \in Nat
           /\ InOrder(S) \in [1 .. Cardinality(S) -> S]
           /\ \A n \in 1 .. Cardinality(S) : Cardinality(NotAfter(S, InOrder(S)[n])) = n
           /\ \A n, m \in 1 .. Cardinality(S) : n < m => InOrder(S)[n] < InOrder(S)[m]
           /\ \A i \in S : \E n \in 1 .. Cardinality(S) : InOrder(S)[n] = i
<1>0. Cardinality(S) \in Nat
  BY FS_CardinalityType
<1>1. ASSUME NEW n \in 1 .. Cardinality(S)
      PROVE  InOrder(S)[n] \in S /\ Cardinality(NotAfter(S, InOrder(S)[n])) = n
  <2>1. InOrder(S)[n] = CHOOSE i \in S : Cardinality(NotAfter(S, i)) = n
    BY DEF InOrder, NotAfter
  <2> QED BY <2>1, OrderExists
<1>2. InOrder(S) \in [1 .. Cardinality(S) -> S]
  BY <1>1 DEF InOrder
<1>3. ASSUME NEW n \in 1 .. Cardinality(S), NEW m \in 1 .. Cardinality(S), n < m
      PROVE  InOrder(S)[n] < InOrder(S)[m]
  <2>1. PICK a \in S : a = InOrder(S)[n] /\ Cardinality(NotAfter(S, a)) = n
    BY <1>1
  <2>2. PICK b \in S : b = InOrder(S)[m] /\ Cardinality(NotAfter(S, b)) = m
    BY <1>1
  <2>3. ~(b < a)
    <3>1. b < a => m < n
      BY <2>1, <2>2, RankProperties
    <3> QED BY <3>1, <1>0, <1>3
  <2>4. a # b
    BY <2>1, <2>2, <1>3, <1>0
  <2>5. a \in Nat /\ b \in Nat
    OBVIOUS
  <2> QED BY <2>1, <2>2, <2>3, <2>4, <2>5
<1>4. ASSUME NEW i \in S PROVE \E n \in 1 .. Cardinality(S) : InOrder(S)[n] = i
  <2>1. PICK n \in 1 .. Cardinality(S) : n = Cardinality(NotAfter(S, i))
    BY RankProperties
  <2>2. PICK a \in S : a = InOrder(S)[n] /\ Cardinality(NotAfter(S, a)) = n
    BY <1>1
  <2>3. (a < i => n < n) /\ (i < a => n < n)
    BY <2>1, <2>2, RankProperties
  <2>4. a \in Nat /\ i \in Nat /\ n \in Nat
    BY <1>0
  <2>5. a = i
    BY <2>3, <2>4
  <2> QED BY <2>2, <2>5
<1> QED BY <1>0, <1>1, <1>2, <1>3, <1>4

LEMMA CardInterval == ASSUME NEW n \in Nat PROVE IsFiniteSet(1 .. n) /\ Cardinality(1 .. n) = n
<1>1. IsFiniteSet(1 .. n) /\ Cardinality(1 .. n) = IF 1 > n THEN 0 ELSE n - 1 + 1
  BY FS_Interval
<1>2. (IF 1 > n THEN 0 ELSE n - 1 + 1) = n
  OBVIOUS
<1> QED BY <1>1, <1>2

(* There is only one way to put a set of positions in order.               *)
LEMMA OrderUnique ==
    ASSUME NEW S \in SUBSET Nat, NEW c \in Nat, NEW e \in [1 .. c -> S],
           \A n, m \in 1 .. c : n < m => e[n] < e[m],
           \A i \in S : \E n \in 1 .. c : e[n] = i
    PROVE  IsFiniteSet(S) /\ Cardinality(S) = c /\ InOrder(S) = e
<1>0. \A n \in 1 .. c : e[n] \in Nat
  OBVIOUS
<1>1. ASSUME NEW n \in 1 .. c, NEW m \in 1 .. c, e[n] = e[m] PROVE n = m
  BY <1>1, <1>0
<1>2. IsFiniteSet(S) /\ Cardinality(S) = c
  BY <1>1, CardInterval, CardBijection
<1>3. ASSUME NEW n \in 1 .. c
      PROVE  Cardinality(NotAfter(S, e[n])) = n
  <2> DEFINE g == [k \in 1 .. n |-> e[k]]
  <2>1. g \in [1 .. n -> NotAfter(S, e[n])]
    <3> SUFFICES ASSUME NEW k \in 1 .. n PROVE e[k] \in NotAfter(S, e[n])
      OBVIOUS
    <3>1. k \in 1 .. c /\ e[k] \in S /\ e[k] \in Nat /\ e[n] \in Nat
      BY <1>0
    <3>2. k < n \/ k = n
      OBVIOUS
    <3>3. e[k] <= e[n]
      BY <3>1, <3>2
    <3> QED BY <3>1, <3>3 DEF NotAfter
  <2>2. \A a, b \in 1 .. n : g[a] = g[b] => a = b
    BY <1>1
  <2>3. ASSUME NEW t \in NotAfter(S, e[n]) PROVE \E a \in 1 .. n : g[a] = t
    <3>1. PICK m \in 1 .. c : e[m] = t /\ e[m] <= e[n]
      BY DEF NotAfter
    <3>2. ~(n < m)
      BY <3>1, <1>0
    <3> QED BY <3>1, <3>2
  <2>4. n \in Nat /\ IsFiniteSet(1 .. n) /\ Cardinality(1 .. n) = n
    <3>1. n \in Nat
      OBVIOUS
    <3> QED BY <3>1, CardInterval
  <2> HIDE DEF g
  <2>5. Cardinality(NotAfter(S, e[n])) = Cardinality(1 .. n)
    BY <2>1, <2>2, <2>3, <2>4, CardBijection
  <2> QED BY <2>4, <2>5
<1>4. ASSUME NEW n \in 1 .. c PROVE InOrder(S)[n] = e[n]
  <2>1. PICK i \in S : i = InOrder(S)[n] /\ Cardinality(NotAfter(S, i)) = n
    BY <1>2, InOrderProperties
  <2>2. PICK k \in 1 .. c : e[k] = i
    OBVIOUS
  <2> QED BY <2>1, <2>2, <1>3
<1>5. InOrder(S) \in [1 .. c -> S]
  BY <1>2, InOrderProperties
<1>6. InOrder(S) = e
  BY <1>4, <1>5
<1> QED BY <1>2, <1>6

(* At(s, S) holds the items of s at S and no other.                        *)
LEMMA AtProperties ==
    ASSUME NEW X, NEW s \in Seq(X), NEW S \in SUBSET (1 .. Len(s))
    PROVE  /\ IsFiniteSet(S) /\ Cardinality(S) \in Nat
           /\ At(s, S) \in Seq(X) /\ Len(At(s, S)) = Cardinality(S)
           /\ \A n \in 1 .. Cardinality(S) : InOrder(S)[n] \in S /\ At(s, S)[n] = s[InOrder(S)[n]]
           /\ Range(At(s, S)) = {s[i] : i \in S}
<1>1. IsFiniteSet(S) /\ Cardinality(S) \in Nat
  BY FiniteInterval, LenProperties
<1>2. PICK c \in Nat : c = Cardinality(S)
  BY <1>1
<1>3. PICK e \in [1 .. c -> S] : e = InOrder(S) /\ \A i \in S : \E n \in 1 .. c : e[n] = i
  BY <1>1, <1>2, InOrderProperties
<1>4. At(s, S) = [n \in 1 .. c |-> s[e[n]]]
  BY <1>2, <1>3 DEF At
<1>5. \A n \in 1 .. c : s[e[n]] \in X
  <2> SUFFICES ASSUME NEW n \in 1 .. c PROVE s[e[n]] \in X
    OBVIOUS
  <2>1. e[n] \in 1 .. Len(s)
    OBVIOUS
  <2> QED BY <2>1
<1>6. At(s, S) \in [1 .. c -> X]
  BY <1>4, <1>5
<1>7. At(s, S) \in Seq(X) /\ Len(At(s, S)) = c
  BY <1>4, <1>5
<1>8. Range(At(s, S)) = {s[i] : i \in S}
  <2>1. DOMAIN At(s, S) = 1 .. c /\ \A n \in 1 .. c : At(s, S)[n] = s[e[n]]
    BY <1>4
  <2>2. Range(At(s, S)) = {At(s, S)[n] : n \in 1 .. c}
    BY <2>1 DEF Range
  <2>3. Range(At(s, S)) = {s[e[n]] : n \in 1 .. c}
    BY <2>1, <2>2
  <2>4. \A n \in 1 .. c : e[n] \in S
    OBVIOUS
  <2> QED BY <2>3, <2>4, <1>3
<1> QED BY <1>1, <1>2, <1>3, <1>4, <1>7, <1>8

(* The members of R that are in T have as many ranks in R as T has         *)
(* members.                                                                *)
LEMMA OrderedCard ==
    ASSUME NEW N \in Nat, NEW R \in SUBSET (1 .. N), NEW T \in SUBSET R
    PROVE  Cardinality({n \in 1 .. Cardinality(R) : InOrder(R)[n] \in T}) = Cardinality(T)
<1>1. IsFiniteSet(R) /\ R \in SUBSET Nat
  BY FiniteInterval
<1>2. PICK c \in Nat : c = Cardinality(R)
  BY <1>1, InOrderProperties
<1>3. PICK e \in [1 .. c -> R] : /\ e = InOrder(R) /\ \A i \in R : \E n \in 1 .. c : e[n] = i
                                 /\ \A n, m \in 1 .. c : n < m => e[n] < e[m]
  BY <1>1, <1>2, InOrderProperties
<1> DEFINE A == {n \in 1 .. c : e[n] \in T}
           f == [n \in A |-> e[n]]
<1>5. f \in [A -> T]
  OBVIOUS
<1>6. ASSUME NEW a \in A, NEW b \in A, f[a] = f[b] PROVE a = b
  <2>1. e[a] = e[b] /\ a \in 1 .. c /\ b \in 1 .. c /\ e[a] \in Nat
    BY <1>6, <1>1
  <2> QED BY <2>1, <1>3
<1>7. \A t \in T : \E a \in A : f[a] = t
  BY <1>3
<1>8. IsFiniteSet(A)
  <2>1. A \in SUBSET (1 .. c)
    OBVIOUS
  <2> QED BY <2>1, FiniteInterval
<1>10. A = {n \in 1 .. Cardinality(R) : InOrder(R)[n] \in T}
  BY <1>2, <1>3
<1> HIDE DEF f, A
<1>9. Cardinality(T) = Cardinality(A)
  BY <1>5, <1>6, <1>7, <1>8, CardBijection
<1> QED BY <1>9, <1>10

(* A selection has those of Y that stand where it selects.                 *)
LEMMA CountSelected ==
    ASSUME NEW X, NEW s \in Seq(X), NEW S \in SUBSET (1 .. Len(s)), NEW Y
    PROVE  Count(At(s, S), Y) = Cardinality({i \in S : s[i] \in Y})
<1> DEFINE T == {i \in S : s[i] \in Y}
<1>1. T \in SUBSET S /\ Len(s) \in Nat
  OBVIOUS
<1>2. Cardinality({n \in 1 .. Cardinality(S) : InOrder(S)[n] \in T}) = Cardinality(T)
  BY <1>1, OrderedCard
<1>3. /\ Len(At(s, S)) = Cardinality(S)
      /\ \A n \in 1 .. Cardinality(S) : InOrder(S)[n] \in S /\ At(s, S)[n] = s[InOrder(S)[n]]
  BY AtProperties
<1>4. {n \in 1 .. Cardinality(S) : InOrder(S)[n] \in T}
        = {n \in 1 .. Len(At(s, S)) : At(s, S)[n] \in Y}
  BY <1>3
<1> QED BY <1>2, <1>4 DEF Count

(* A selection that takes every occurrence of Y keeps their number.        *)
LEMMA CountAt ==
    ASSUME NEW X, NEW s \in Seq(X), NEW S \in SUBSET (1 .. Len(s)), NEW Y,
           \A i \in 1 .. Len(s) : s[i] \in Y => i \in S
    PROVE  Count(At(s, S), Y) = Count(s, Y)
<1>1. {i \in S : s[i] \in Y} = {i \in 1 .. Len(s) : s[i] \in Y}
  OBVIOUS
<1>2. Count(At(s, S), Y) = Cardinality({i \in S : s[i] \in Y})
  BY CountSelected
<1>3. Count(s, Y) = Cardinality({i \in 1 .. Len(s) : s[i] \in Y})
  BY DEF Count
<1> QED BY <1>1, <1>2, <1>3

-----------------------------------------------------------------------------
(* A function defined by recursion on the position.                        *)

(* f starts with b, and each of its values comes from the one before by F. *)
Follows(f, b, N, F) == f[0] = b /\ \A n \in 1 .. N : f[n] = F[<<f[n - 1], n>>]

(* Recursion over 0 .. N: there is such an f.  It is the union of the      *)
(* partial ones, and the least N without it is none.                       *)
LEMMA Recursion ==
    ASSUME NEW S, NEW b \in S, NEW N \in Nat, NEW F \in [S \X (1 .. N) -> S]
    PROVE  \E f \in [0 .. N -> S] : Follows(f, b, N, F)
<1> DEFINE Good(m) == \E f \in [0 .. m -> S] :
                /\ f[0] = b
                /\ \A n \in 1 .. m : f[n] = F[<<f[n - 1], n>>]
           Bad == {m \in Nat : m <= N /\ ~Good(m)}
<1>1. Good(0)
  <2> DEFINE h == [n \in 0 .. 0 |-> b]
  <2>1. h \in [0 .. 0 -> S] /\ h[0] = b /\ \A n \in 1 .. 0 : h[n] = F[<<h[n - 1], n>>]
    OBVIOUS
  <2> HIDE DEF h
  <2> QED BY <2>1
<1>2. ASSUME NEW m \in Nat, m + 1 <= N, Good(m) PROVE Good(m + 1)
  <2>1. PICK f \in [0 .. m -> S] : f[0] = b /\ \A n \in 1 .. m : f[n] = F[<<f[n - 1], n>>]
    BY <1>2
  <2> DEFINE g == [n \in 0 .. m + 1 |-> IF n <= m THEN f[n] ELSE F[<<f[m], m + 1>>]]
  <2>2. f[m] \in S /\ F[<<f[m], m + 1>>] \in S
    <3>1. m \in 0 .. m /\ m + 1 \in 1 .. N
      BY <1>2
    <3> QED BY <3>1
  <2>3. g \in [0 .. m + 1 -> S] /\ g[0] = b
    BY <2>1, <2>2
  <2>4. ASSUME NEW n \in 1 .. m + 1 PROVE g[n] = F[<<g[n - 1], n>>]
    <3>1. CASE n <= m
      BY <3>1, <2>1
    <3>2. CASE ~(n <= m)
      <4>1. n = m + 1 /\ n - 1 = m
        BY <3>2
      <4> QED BY <4>1
    <3> QED BY <3>1, <3>2
  <2> HIDE DEF g
  <2> QED BY <2>3, <2>4
<1> HIDE DEF Good
<1>3. Bad = {}
  <2> SUFFICES ASSUME Bad # {} PROVE FALSE
    OBVIOUS
  <2>1. PICK m \in Bad : \A k \in Bad : m <= k
    <3>1. Bad \in SUBSET Nat
      OBVIOUS
    <3> HIDE DEF Bad
    <3> QED BY <3>1, LeastNat
  <2>2. m # 0
    BY <1>1
  <2>3. m - 1 \in Nat /\ (m - 1) + 1 = m /\ m - 1 <= N /\ ~(m <= m - 1)
    BY <2>2
  <2>4. Good(m - 1)
    BY <2>1, <2>3
  <2>5. Good(m)
    BY <2>3, <2>4, <1>2
  <2> QED BY <2>5
<1>4. Good(N)
  BY <1>3
<1> QED BY <1>4 DEF Good, Follows

(* Induction, for the members of a set.                                    *)
LEMMA Induction ==
    ASSUME NEW N \in Nat, NEW T, 0 \in T, \A n \in 0 .. N : n \in T /\ n < N => n + 1 \in T
    PROVE  \A n \in 0 .. N : n \in T
<1> DEFINE Bad == {n \in 0 .. N : n \notin T}
<1> SUFFICES ASSUME Bad # {} PROVE FALSE
  OBVIOUS
<1>1. PICK m \in Bad : \A k \in Bad : m <= k
  <2>1. Bad \in SUBSET Nat
    OBVIOUS
  <2> HIDE DEF Bad
  <2> QED BY <2>1, LeastNat
<1>2. m - 1 \in 0 .. N /\ m - 1 < N /\ (m - 1) + 1 = m /\ ~(m <= m - 1)
  OBVIOUS
<1>3. m - 1 \in T
  BY <1>1, <1>2
<1> QED BY <1>2, <1>3

-----------------------------------------------------------------------------
(* Positions put together.                                                 *)
LEMMA AtConcat ==
    ASSUME NEW X, NEW s \in Seq(X), NEW A \in SUBSET (1 .. Len(s)), NEW B \in SUBSET (1 .. Len(s)),
           \A a \in A, b \in B : a < b
    PROVE  At(s, A \cup B) = At(s, A) \o At(s, B)
<1> DEFINE U == A \cup B
<1>0. U \in SUBSET (1 .. Len(s)) /\ U \in SUBSET Nat /\ A \in SUBSET Nat /\ B \in SUBSET Nat
  OBVIOUS
<1>1. IsFiniteSet(A) /\ IsFiniteSet(B) /\ At(s, A) \in Seq(X) /\ At(s, B) \in Seq(X)
  BY AtProperties
<1>2. PICK a \in Nat : a = Cardinality(A)
  BY <1>1, FS_CardinalityType
<1>3. PICK b \in Nat : b = Cardinality(B)
  BY <1>1, FS_CardinalityType
<1>4. PICK f \in [1 .. a -> A] : /\ f = InOrder(A) /\ \A i \in A : \E n \in 1 .. a : f[n] = i
                                 /\ \A n, m \in 1 .. a : n < m => f[n] < f[m]
  BY <1>0, <1>1, <1>2, InOrderProperties
<1>5. PICK g \in [1 .. b -> B] : /\ g = InOrder(B) /\ \A i \in B : \E n \in 1 .. b : g[n] = i
                                 /\ \A n, m \in 1 .. b : n < m => g[n] < g[m]
  BY <1>0, <1>1, <1>3, InOrderProperties
<1>19. PICK c \in Nat : c = a + b
  OBVIOUS
<1> DEFINE e == [n \in 1 .. c |-> IF n <= a THEN f[n] ELSE g[n - a]]
<1>6. /\ \A n \in 1 .. a : n \in 1 .. c /\ e[n] = f[n] /\ f[n] \in A
      /\ \A n \in 1 .. b : n + a \in 1 .. c /\ e[n + a] = g[n] /\ g[n] \in B
  <2>1. \A n \in 1 .. b : n + a \in 1 .. c /\ ~(n + a <= a) /\ (n + a) - a = n
    BY <1>19
  <2> QED BY <2>1, <1>19
<1>7. ASSUME NEW n \in 1 .. c
      PROVE  (n \in 1 .. a /\ e[n] = f[n]) \/ (~(n <= a) /\ n - a \in 1 .. b /\ e[n] = g[n - a])
  BY <1>19
<1> HIDE DEF e, U
<1>8. e \in [1 .. c -> U]
  <2>1. \A n \in 1 .. c : e[n] \in U
    BY <1>7 DEF U
  <2>2. e = [n \in 1 .. c |-> e[n]]
    BY DEF e
  <2> QED BY <2>1, <2>2
<1>9. ASSUME NEW n \in 1 .. c, NEW m \in 1 .. c, n < m PROVE e[n] < e[m]
  <2>1. CASE m \in 1 .. a
    <3>1. n \in 1 .. a /\ e[n] = f[n] /\ e[m] = f[m]
      BY <1>9, <2>1, <1>7
    <3> QED BY <3>1, <2>1, <1>4, <1>9
  <2>2. CASE n \in 1 .. a /\ m \notin 1 .. a
    <3>1. m - a \in 1 .. b /\ e[m] = g[m - a] /\ e[n] = f[n]
      BY <2>2, <1>7
    <3> QED BY <3>1, <2>2, <1>6
  <2>3. CASE n \notin 1 .. a
    <3>1. n - a \in 1 .. b /\ m - a \in 1 .. b /\ e[n] = g[n - a] /\ e[m] = g[m - a] /\ n - a < m - a
      <4>1. ~(m <= a)
        BY <2>3, <1>9
      <4> QED BY <4>1, <2>3, <1>7, <1>9
    <3> QED BY <3>1, <1>5
  <2> QED BY <2>1, <2>2, <2>3
<1>10. ASSUME NEW i \in U PROVE \E n \in 1 .. c : e[n] = i
  <2>1. CASE i \in A
    BY <2>1, <1>4, <1>6
  <2>2. CASE i \in B
    BY <2>2, <1>5, <1>6
  <2> QED BY <2>1, <2>2 DEF U
<1>11. Cardinality(U) = c /\ InOrder(U) = e
  <2>1. U \in SUBSET Nat
    BY <1>0
  <2>2. \A n, m \in 1 .. c : n < m => e[n] < e[m]
    BY <1>9
  <2>3. \A i \in U : \E n \in 1 .. c : e[n] = i
    BY <1>10
  <2> QED BY <2>1, <2>2, <2>3, <1>8, OrderUnique
<1>12. At(s, U) \in Seq(X) /\ Len(At(s, U)) = c /\ \A n \in 1 .. c : At(s, U)[n] = s[e[n]]
  <2>1. /\ At(s, U) \in Seq(X) /\ Len(At(s, U)) = Cardinality(U)
        /\ \A n \in 1 .. Cardinality(U) : At(s, U)[n] = s[InOrder(U)[n]]
    BY <1>0, AtProperties
  <2> QED BY <2>1, <1>11
<1>13. Len(At(s, A)) = a /\ \A n \in 1 .. a : At(s, A)[n] = s[f[n]]
  BY <1>2, <1>4, AtProperties
<1>14. Len(At(s, B)) = b /\ \A n \in 1 .. b : At(s, B)[n] = s[g[n]]
  BY <1>3, <1>5, AtProperties
<1> DEFINE u == At(s, U)
           v == At(s, A)
           w == At(s, B)
<1> HIDE DEF u, v, w
<1>15. /\ v \o w \in Seq(X) /\ Len(v \o w) = c
       /\ \A n \in 1 .. c : (v \o w)[n] = IF n <= a THEN v[n] ELSE w[n - a]
  <2>1. v \in Seq(X) /\ w \in Seq(X) /\ Len(v) = a /\ Len(w) = b
    BY <1>1, <1>13, <1>14 DEF v, w
  <2>2. /\ v \o w \in Seq(X) /\ Len(v \o w) = a + b
        /\ \A n \in 1 .. a + b : (v \o w)[n] = IF n <= a THEN v[n] ELSE w[n - a]
    BY <2>1, ConcatProperties
  <2> QED BY <2>2, <1>19
<1>16. ASSUME NEW n \in 1 .. c PROVE (v \o w)[n] = u[n]
  <2>1. CASE n <= a
    <3>1. n \in 1 .. a /\ e[n] = f[n]
      BY <2>1, <1>7
    <3>2. u[n] = s[e[n]]
      BY <1>12 DEF u
    <3>3. v[n] = s[f[n]]
      BY <3>1, <1>13 DEF v
    <3> QED BY <3>1, <3>2, <3>3, <2>1, <1>15
  <2>2. CASE ~(n <= a)
    <3>1. n - a \in 1 .. b /\ e[n] = g[n - a]
      BY <2>2, <1>7
    <3>2. u[n] = s[e[n]]
      BY <1>12 DEF u
    <3>3. w[n - a] = s[g[n - a]]
      BY <3>1, <1>14 DEF w
    <3> QED BY <3>1, <3>2, <3>3, <2>2, <1>15
  <2> QED BY <2>1, <2>2
<1>17. v \o w = u
  <2>1. u \in Seq(X) /\ Len(u) = c
    BY <1>12 DEF u
  <2> QED BY <2>1, <1>15, <1>16, SeqEqual
<1> QED BY <1>17 DEF u, v, w, U

(* The selection of an interval is a subsequence.                          *)
LEMMA AtInterval ==
    ASSUME NEW X, NEW s \in Seq(X), NEW i \in 1 .. Len(s) + 1, NEW j \in 0 .. Len(s)
    PROVE  At(s, i .. j) = SubSeq(s, i, j)
<1> DEFINE S == i .. j
           c == IF i <= j THEN j - i + 1 ELSE 0
           e == [n \in 1 .. c |-> i + n - 1]
<1>1. S \in SUBSET (1 .. Len(s)) /\ S \in SUBSET Nat /\ c \in Nat
  OBVIOUS
<1>2. e \in [1 .. c -> S] /\ \A n, m \in 1 .. c : n < m => e[n] < e[m]
  OBVIOUS
<1>3. ASSUME NEW k \in S PROVE \E n \in 1 .. c : e[n] = k
  <2>1. k - i + 1 \in 1 .. c /\ i + (k - i + 1) - 1 = k
    OBVIOUS
  <2> QED BY <2>1
<1> DEFINE d == c
<1>4. Cardinality(S) = c /\ InOrder(S) = e
  <2> HIDE DEF S, c, e
  <2> QED BY <1>1, <1>2, <1>3, OrderUnique
<1>5. At(s, S) \in Seq(X) /\ Len(At(s, S)) = c /\ \A n \in 1 .. c : At(s, S)[n] = s[i + n - 1]
  <2>1. \A n \in 1 .. c : e[n] = i + n - 1
    OBVIOUS
  <2> HIDE DEF S, c, e
  <2>2. /\ At(s, S) \in Seq(X) /\ Len(At(s, S)) = Cardinality(S)
        /\ \A n \in 1 .. Cardinality(S) : At(s, S)[n] = s[InOrder(S)[n]]
    BY <1>1, AtProperties
  <2> QED BY <2>1, <2>2, <1>4
<1>6. SubSeq(s, i, j) \in Seq(X) /\ Len(SubSeq(s, i, j)) = c
          /\ \A n \in 1 .. c : SubSeq(s, i, j)[n] = s[i + n - 1]
  OBVIOUS
<1> HIDE DEF c
<1>7. At(s, S) = SubSeq(s, i, j)
  BY <1>5, <1>6, SeqEqual
<1> QED BY <1>7

(* A position behind the others appends its item.                          *)
LEMMA AtAppend ==
    ASSUME NEW X, NEW s \in Seq(X), NEW n \in 1 .. Len(s), NEW S \in SUBSET (1 .. n - 1)
    PROVE  At(s, S \cup {n}) = Append(At(s, S), s[n])
<1>1. S \in SUBSET (1 .. Len(s)) /\ {n} \in SUBSET (1 .. Len(s)) /\ \A a \in S, b \in {n} : a < b
  OBVIOUS
<1>2. At(s, S \cup {n}) = At(s, S) \o At(s, {n})
  BY <1>1, AtConcat
<1>3. At(s, {n}) = <<s[n]>>
  <2>1. n .. n = {n} /\ n \in 1 .. Len(s) + 1 /\ n \in 0 .. Len(s)
    OBVIOUS
  <2>2. At(s, n .. n) = SubSeq(s, n, n)
    BY <2>1, AtInterval
  <2>3. SubSeq(s, n, n) \in Seq(X) /\ Len(SubSeq(s, n, n)) = 1 /\ SubSeq(s, n, n)[1] = s[n]
    OBVIOUS
  <2>4. <<s[n]>> \in Seq(X) /\ Len(<<s[n]>>) = 1 /\ <<s[n]>>[1] = s[n]
    OBVIOUS
  <2>5. SubSeq(s, n, n) = <<s[n]>>
    <3> DEFINE u == SubSeq(s, n, n)
               v == <<s[n]>>
    <3> HIDE DEF u, v
    <3>1. u \in Seq(X) /\ v \in Seq(X) /\ Len(u) = Len(v) /\ Len(u) = 1 /\ u[1] = v[1]
      BY <2>3, <2>4 DEF u, v
    <3>2. \A i \in 1 .. Len(u) : u[i] = v[i]
      BY <3>1
    <3>3. u = v
      BY <3>1, <3>2, SeqEqual
    <3> QED BY <3>3 DEF u, v
  <2> QED BY <2>1, <2>2, <2>5
<1>4. At(s, S) \in Seq(X) /\ s[n] \in X
  BY <1>1, AtProperties
<1>5. At(s, S) \o <<s[n]>> = Append(At(s, S), s[n])
  BY <1>4, AppendIsConcat
<1> QED BY <1>2, <1>3, <1>5

LEMMA AtEmpty == ASSUME NEW s PROVE At(s, {}) = <<>>
<1>1. Cardinality({}) = 0
  BY FS_EmptySet
<1>2. At(s, {}) = [n \in 1 .. 0 |-> s[InOrder({})[n]]]
  BY <1>1 DEF At
<1>3. 1 .. 0 = {}
  OBVIOUS
<1> QED BY <1>2, <1>3

-----------------------------------------------------------------------------
(* What is open: the positions P that open up to n, less the positions Q   *)
(* that close.                                                             *)
Upto(P, n) == Cardinality(P \cap (1 .. n))

(* Upto counts the members of P up to n; Height is how many more of P than *)
(* of Q there are, the nesting depth when P are openings and Q ends.       *)
Height(P, Q, n) == Upto(P, n) - Upto(Q, n)

LEMMA UptoStep ==
    ASSUME NEW P, NEW n \in Nat
    PROVE  /\ IsFiniteSet(P \cap (1 .. n)) /\ Upto(P, n) \in Nat
           /\ Upto(P, n + 1) = Upto(P, n) + IF n + 1 \in P THEN 1 ELSE 0
<1> DEFINE A == P \cap (1 .. n)
           B == P \cap (1 .. n + 1)
<1>1. IsFiniteSet(A) /\ Cardinality(A) \in Nat
  <2>1. A \in SUBSET (1 .. n)
    OBVIOUS
  <2> QED BY <2>1, FiniteInterval
<1>2. CASE n + 1 \in P
  <2>1. B = A \cup {n + 1} /\ n + 1 \notin A
    BY <1>2
  <2> HIDE DEF A, B
  <2>2. Cardinality(A \cup {n + 1}) = Cardinality(A) + 1
    BY <1>1, <2>1, FS_AddElement
  <2> QED BY <2>1, <2>2, <1>1, <1>2 DEF Upto, A, B
<1>3. CASE n + 1 \notin P
  <2>1. B = A
    BY <1>3
  <2> QED BY <2>1, <1>1, <1>3 DEF Upto
<1> QED BY <1>1, <1>2, <1>3 DEF Upto

LEMMA UptoBetween ==
    ASSUME NEW P, NEW i \in Nat, NEW j \in Nat, i <= j
    PROVE  Cardinality(P \cap (i + 1 .. j)) = Upto(P, j) - Upto(P, i)
<1> DEFINE A == P \cap (1 .. i)
           B == P \cap (i + 1 .. j)
           C == P \cap (1 .. j)
<1>1. C = A \cup B /\ A \cap B = {}
  OBVIOUS
<1>2. IsFiniteSet(A) /\ IsFiniteSet(B) /\ Cardinality(A) \in Nat /\ Cardinality(B) \in Nat
  <2>1. A \in SUBSET (1 .. i) /\ B \in SUBSET (1 .. j)
    OBVIOUS
  <2> QED BY <2>1, FiniteInterval
<1> HIDE DEF A, B, C
<1>3. Cardinality(A \cup B) = Cardinality(A) + Cardinality(B) - Cardinality({})
  BY <1>1, <1>2, FS_Union
<1>4. Cardinality(C) = Cardinality(A) + Cardinality(B)
  BY <1>1, <1>2, <1>3, FS_EmptySet
<1> QED BY <1>2, <1>4 DEF Upto, A, B, C

(* The height starts at 0 and changes by one at a time.                    *)
LEMMA HeightStart ==
    ASSUME NEW P, NEW Q
    PROVE  (\A n \in Nat : Height(P, Q, n) \in Int) /\ Height(P, Q, 0) = 0
<1>1. \A n \in Nat : Upto(P, n) \in Nat /\ Upto(Q, n) \in Nat
  BY UptoStep
<1>2. Upto(P, 0) = 0 /\ Upto(Q, 0) = 0
  <2>1. P \cap (1 .. 0) = {} /\ Q \cap (1 .. 0) = {}
    OBVIOUS
  <2> QED BY <2>1, FS_EmptySet DEF Upto
<1> QED BY <1>1, <1>2 DEF Height

LEMMA HeightStep ==
    ASSUME NEW P, NEW Q, P \cap Q = {}, NEW n \in Nat
    PROVE  Height(P, Q, n + 1) = Height(P, Q, n) + IF n + 1 \in P THEN 1 ELSE IF n + 1 \in Q
              THEN -1 ELSE 0
<1>1. /\ Upto(P, n) \in Nat /\ Upto(Q, n) \in Nat
      /\ Upto(P, n + 1) = Upto(P, n) + IF n + 1 \in P THEN 1 ELSE 0
      /\ Upto(Q, n + 1) = Upto(Q, n) + IF n + 1 \in Q THEN 1 ELSE 0
  BY UptoStep
<1> QED BY <1>1 DEF Height

LEMMA HeightBelow ==
    ASSUME NEW P, NEW Q, P \cap Q = {}, NEW n \in Nat \ {0}
    PROVE  Height(P, Q, n) = Height(P, Q, n - 1) + IF n \in P THEN 1 ELSE IF n \in Q THEN -1 ELSE 0
<1> DEFINE m == n - 1
<1>1. m \in Nat /\ m + 1 = n
  OBVIOUS
<1> HIDE DEF m
<1>3. Height(P, Q, m + 1) = Height(P, Q, m) + IF m + 1 \in P THEN 1 ELSE IF m + 1 \in Q THEN -1 ELSE 0
  BY <1>1, HeightStep
<1> QED BY <1>1, <1>3 DEF m

(* Going down from i to j, the height v is met, and first from above.      *)
LEMMA Fall ==
    ASSUME NEW P, NEW Q, P \cap Q = {}, NEW i \in Nat, NEW j \in Nat, i <= j, NEW v \in Int,
           v <= Height(P, Q, i), Height(P, Q, j) <= v
    PROVE  \E k \in i .. j : Height(P, Q, k) = v /\ \A m \in i .. k - 1 : v < Height(P, Q, m)
<1> DEFINE h(n) == Height(P, Q, n)
           T == {k \in i .. j : h(k) <= v}
<1>1. /\ \A n \in Nat : h(n) \in Int
      /\ \A n \in Nat \ {0} : h(n) = h(n - 1) + IF n \in P THEN 1 ELSE IF n \in Q THEN -1 ELSE 0
  <2>1. \A n \in Nat : Height(P, Q, n) \in Int
    BY HeightStart
  <2>2. \A n \in Nat \ {0} : Height(P, Q, n) = Height(P, Q, n - 1) + IF n \in P THEN 1
            ELSE IF n \in Q THEN -1 ELSE 0
    BY HeightBelow
  <2> QED BY <2>1, <2>2
<1> HIDE DEF h
<1>2. T \in SUBSET Nat /\ T # {}
  <2>1. j \in T
    BY DEF h
  <2> QED BY <2>1
<1>3. PICK k \in T : \A m \in T : k <= m
  <2> HIDE DEF T
  <2> QED BY <1>2, LeastNat
<1>4. \A m \in i .. k - 1 : v < h(m)
  <2> SUFFICES ASSUME NEW m \in i .. k - 1 PROVE v < h(m)
    OBVIOUS
  <2>1. m \in Nat /\ m \in i .. j /\ ~(k <= m) /\ h(m) \in Int
    BY <1>1
  <2>2. m \notin T
    BY <2>1, <1>3
  <2> QED BY <2>1, <2>2
<1>5. h(k) = v
  <2>1. CASE k = i
    BY <2>1, <1>1 DEF h
  <2>2. CASE k # i
    <3>1. k - 1 \in i .. k - 1 /\ k \in Nat \ {0} /\ k - 1 \in Nat
      BY <2>2
    <3>2. v < h(k - 1) /\ h(k) >= h(k - 1) - 1 /\ h(k) \in Int /\ h(k - 1) \in Int
      BY <3>1, <1>1, <1>4
    <3> QED BY <3>2
  <2> QED BY <2>1, <2>2
<1> QED BY <1>4, <1>5 DEF h

(* Going up from i to j, there is a last position that opens to the height *)
(* v.                                                                      *)
LEMMA Rise ==
    ASSUME NEW P, NEW Q, P \cap Q = {}, NEW i \in Nat, NEW j \in Nat, i <= j, NEW v \in Int,
           Height(P, Q, i) < v, v <= Height(P, Q, j)
    PROVE  \E k \in i + 1 .. j : /\ k \in P /\ Height(P, Q, k) = v
                                 /\ \A m \in k .. j : v <= Height(P, Q, m)
<1> DEFINE h(n) == Height(P, Q, n)
           T == {k \in i + 1 .. j : \A m \in k .. j : v <= h(m)}
<1>1. /\ \A n \in Nat : h(n) \in Int
      /\ \A n \in Nat \ {0} : h(n) = h(n - 1) + IF n \in P THEN 1 ELSE IF n \in Q THEN -1 ELSE 0
  <2>1. \A n \in Nat : Height(P, Q, n) \in Int
    BY HeightStart
  <2>2. \A n \in Nat \ {0} : Height(P, Q, n) = Height(P, Q, n - 1) + IF n \in P THEN 1
            ELSE IF n \in Q THEN -1 ELSE 0
    BY HeightBelow
  <2> QED BY <2>1, <2>2
<1>0. h(i) < v /\ v <= h(j)
  OBVIOUS
<1> HIDE DEF h
<1>2. T \in SUBSET Nat /\ T # {}
  <2>1. i # j
    BY <1>0, <1>1
  <2>2. j \in T
    <3>1. \A m \in j .. j : m = j
      OBVIOUS
    <3> QED BY <3>1, <2>1, <1>0
  <2> QED BY <2>2
<1>3. PICK k \in T : \A m \in T : k <= m
  <2> HIDE DEF T
  <2> QED BY <1>2, LeastNat
<1>4. h(k - 1) < v
  <2>1. CASE k = i + 1
    <3>1. k - 1 = i
      BY <2>1
    <3> QED BY <3>1, <1>0
  <2>2. CASE k # i + 1
    <3>1. k - 1 \in i + 1 .. j /\ ~(k <= k - 1)
      BY <2>2
    <3>2. k - 1 \notin T
      BY <3>1, <1>3
    <3>3. PICK m \in k - 1 .. j : ~(v <= h(m))
      BY <3>1, <3>2
    <3>4. m = k - 1
      <4>1. m \notin k .. j
        BY <3>3
      <4> QED BY <4>1
    <3>5. h(k - 1) \in Int
      BY <1>1
    <3> QED BY <3>3, <3>4, <3>5
  <2> QED BY <2>1, <2>2
<1>5. k \in P /\ h(k) = v
  <2>1. k \in Nat \ {0} /\ k - 1 \in Nat /\ k \in k .. j
    OBVIOUS
  <2>2. v <= h(k)
    BY <2>1
  <2>3. h(k) = h(k - 1) + (IF k \in P THEN 1 ELSE IF k \in Q THEN -1 ELSE 0) /\ h(k) \in Int
            /\ h(k - 1) \in Int
    BY <2>1, <1>1
  <2> QED BY <2>2, <2>3, <1>4
<1> QED BY <1>5 DEF h

-----------------------------------------------------------------------------
(* Numbers of members, and elements that follow each other.                *)

(* Sets of positions that are apart add up.                                *)
LEMMA CardDisjoint ==
    ASSUME NEW n \in Nat, NEW A \in SUBSET (1 .. n), NEW B \in SUBSET (1 .. n), A \cap B = {}
    PROVE  Cardinality(A \cup B) = Cardinality(A) + Cardinality(B)
<1>1. IsFiniteSet(A) /\ IsFiniteSet(B) /\ Cardinality(A) \in Nat /\ Cardinality(B) \in Nat
  BY FiniteInterval
<1>2. Cardinality(A \cup B) = Cardinality(A) + Cardinality(B) - Cardinality({})
  BY <1>1, FS_Union
<1> QED BY <1>1, <1>2, FS_EmptySet

(* A set that has at most one member.                                      *)
LEMMA AtMostOne ==
    ASSUME NEW n \in Nat, NEW S \in SUBSET (1 .. n), Cardinality(S) <= 1
    PROVE  S = {} \/ \E i \in S : S = {i}
<1> SUFFICES ASSUME NEW a \in S, NEW b \in S, a # b PROVE FALSE
  OBVIOUS
<1>1. {a} \in SUBSET (1 .. n) /\ {b} \in SUBSET (1 .. n) /\ {a} \cap {b} = {}
  OBVIOUS
<1>2. Cardinality({a} \cup {b}) = 1 + 1
  <2>1. Cardinality({a} \cup {b}) = Cardinality({a}) + Cardinality({b})
    BY <1>1, CardDisjoint
  <2> QED BY <2>1, FS_Singleton
<1>3. IsFiniteSet(S) /\ {a} \cup {b} \in SUBSET S
  BY FiniteInterval
<1>4. Cardinality({a} \cup {b}) <= Cardinality(S) /\ Cardinality(S) \in Nat
  BY <1>3, FS_Subset, FS_CardinalityType
<1> QED BY <1>2, <1>4

(* The first of one member.                                                *)
LEMMA FirstOne == ASSUME NEW i \in Nat PROVE First({i}) = i
BY FirstProperties

(* C is A, and B moved behind the n positions A is of.                     *)
Joins(C, A, n, B, k) ==
    /\ n \in Nat /\ k \in Nat
    /\ A \in SUBSET (1 .. n) /\ B \in SUBSET (1 .. k)
    /\ \A i : i \in C <=> i \in A \/ \E j \in B : i = j + n

(* It has the members of both.                                             *)
LEMMA CardAppend ==
    ASSUME NEW n, NEW k, NEW A, NEW B, NEW C, Joins(C, A, n, B, k)
    PROVE  Cardinality(C) = Cardinality(A) + Cardinality(B)
<1> DEFINE D == {j + n : j \in B}
<1>0. /\ n \in Nat /\ k \in Nat
      /\ A \in SUBSET (1 .. n) /\ B \in SUBSET (1 .. k)
      /\ \A i : i \in C <=> i \in A \/ \E j \in B : i = j + n
  BY DEF Joins
<1>1. IsFiniteSet(B) /\ B \in SUBSET Int
  <2>1. B \in SUBSET Int
    BY <1>0
  <2> QED BY <2>1, <1>0, FiniteInterval
<1>2. Cardinality(D) = Cardinality(B)
  <2>1. n \in Int
    BY <1>0
  <2> QED BY <1>1, <2>1, Shift
<1>3. A \in SUBSET (1 .. n + k) /\ D \in SUBSET (1 .. n + k) /\ A \cap D = {}
  BY <1>0
<1>4. C = A \cup D
  BY <1>0
<1> HIDE DEF D
<1>5. Cardinality(A \cup D) = Cardinality(A) + Cardinality(D)
  <2>1. n + k \in Nat
    BY <1>0
  <2> QED BY <2>1, <1>3, CardDisjoint
<1> QED BY <1>2, <1>4, <1>5

(* To select from a selection is to select from the sequence: T, by its    *)
(* ranks in R.                                                             *)
LEMMA AtAt ==
    ASSUME NEW X, NEW s \in Seq(X), NEW R \in SUBSET (1 .. Len(s)), NEW T \in SUBSET R
    PROVE  At(At(s, R), {n \in 1 .. Cardinality(R) : InOrder(R)[n] \in T}) = At(s, T)
<1> DEFINE r == At(s, R)
           Q == {n \in 1 .. Cardinality(R) : InOrder(R)[n] \in T}
<1>1. IsFiniteSet(R) /\ R \in SUBSET Nat /\ T \in SUBSET Nat /\ T \in SUBSET (1 .. Len(s))
  BY AtProperties
<1>2. PICK c \in Nat : c = Cardinality(R)
  BY <1>1, InOrderProperties
<1>3. PICK m \in [1 .. c -> R] : /\ m = InOrder(R) /\ \A i \in R : \E n \in 1 .. c : m[n] = i
                                 /\ \A n, k \in 1 .. c : n < k => m[n] < m[k]
  BY <1>1, <1>2, InOrderProperties
<1>4. r \in Seq(X) /\ Len(r) = c /\ \A n \in 1 .. c : r[n] = s[m[n]]
  BY <1>2, <1>3, AtProperties
<1>5. Q = {n \in 1 .. c : m[n] \in T}
  BY <1>2, <1>3
<1> HIDE DEF Q, r
<1>6. Q \in SUBSET Nat /\ Q \in SUBSET (1 .. Len(r)) /\ IsFiniteSet(Q)
  <2>1. Q \in SUBSET (1 .. c) /\ Q \in SUBSET Nat
    BY <1>5
  <2> QED BY <2>1, <1>4, FiniteInterval
<1>7. PICK d \in Nat : d = Cardinality(Q)
  BY <1>6, InOrderProperties
<1>8. PICK q \in [1 .. d -> Q] : /\ q = InOrder(Q) /\ \A i \in Q : \E n \in 1 .. d : q[n] = i
                                 /\ \A n, k \in 1 .. d : n < k => q[n] < q[k]
  BY <1>6, <1>7, InOrderProperties
<1> DEFINE e == [k \in 1 .. d |-> m[q[k]]]
<1>9. \A k \in 1 .. d : q[k] \in Q /\ q[k] \in 1 .. c /\ m[q[k]] \in T
  BY <1>5, <1>8
<1>10. e \in [1 .. d -> T]
  BY <1>9
<1>11. \A n, k \in 1 .. d : n < k => e[n] < e[k]
  BY <1>3, <1>8, <1>9
<1>12. \A i \in T : \E k \in 1 .. d : e[k] = i
  <2> SUFFICES ASSUME NEW i \in T PROVE \E k \in 1 .. d : e[k] = i
    OBVIOUS
  <2>1. PICK n \in 1 .. c : m[n] = i
    BY <1>3
  <2>2. n \in Q
    BY <2>1, <1>5
  <2>3. PICK k \in 1 .. d : q[k] = n
    BY <2>2, <1>8
  <2> QED BY <2>1, <2>3
<1>13. \A k \in 1 .. d : e[k] = m[q[k]]
  OBVIOUS
<1> HIDE DEF e
<1>14. Cardinality(T) = d /\ InOrder(T) = e
  BY <1>1, <1>10, <1>11, <1>12, OrderUnique
<1>15. At(r, Q) = [k \in 1 .. d |-> r[q[k]]]
  BY <1>7, <1>8 DEF At
<1>16. At(s, T) = [k \in 1 .. d |-> s[e[k]]]
  BY <1>14 DEF At
<1>17. \A k \in 1 .. d : r[q[k]] = s[e[k]]
  BY <1>4, <1>9, <1>13
<1> QED BY <1>15, <1>16, <1>17 DEF r, Q

(* R has a and the d numbers after it.                                     *)
Run(R, a, d) == \A k \in 0 .. d : a + k \in R

(* The n-th element of R is a.                                             *)
Comes(R, n, a) == n \in 1 .. Cardinality(R) /\ InOrder(R)[n] = a

(* Numbers that R has one after the other have ranks one after the other.  *)
LEMMA Segment ==
    ASSUME NEW R \in SUBSET Nat, IsFiniteSet(R), NEW a \in Nat, NEW d \in Nat,
           Run(R, a, d), NEW n, Comes(R, n, a)
    PROVE  \A k \in 0 .. d : Comes(R, n + k, a + k)
<1>2. PICK c \in Nat : c = Cardinality(R)
  BY InOrderProperties
<1>3. PICK m \in [1 .. c -> R] : /\ m = InOrder(R) /\ \A i \in R : \E k \in 1 .. c : m[k] = i
                                 /\ \A j, k \in 1 .. c : j < k => m[j] < m[k]
  BY <1>2, InOrderProperties
<1> DEFINE T == {k \in 0 .. d : n + k \in 1 .. c /\ m[n + k] = a + k}
<1>4. n \in 1 .. c /\ m[n] = a /\ d \in Nat
  BY <1>2, <1>3 DEF Comes
<1>5. 0 \in T
  BY <1>4
<1>6. ASSUME NEW k \in 0 .. d, k \in T, k < d PROVE k + 1 \in T
  <2> DEFINE x == n + k
             y == a + k + 1
  <2>1. x \in 1 .. c /\ m[x] = a + k /\ x \in Nat
    BY <1>6
  <2>2. y \in R /\ y \in Nat
    <3>1. k + 1 \in 0 .. d /\ y = a + (k + 1)
      BY <1>6
    <3>2. a + (k + 1) \in R
      BY <3>1 DEF Run
    <3> QED BY <3>1, <3>2
  <2>3. PICK j \in 1 .. c : m[j] = y
    BY <2>2, <1>3
  <2>4. m[x] < m[j] /\ m[j] = m[x] + 1
    BY <2>1, <2>3, <2>2
  <2> HIDE DEF x, y
  <2>5. \A z \in 1 .. c : m[z] \in Nat
    <3>1. \A z \in 1 .. c : m[z] \in R
      OBVIOUS
    <3> QED BY <3>1
  <2>6. x < j
    <3>1. j < x => m[j] < m[x]
      BY <1>3, <2>1
    <3>2. j = x => m[j] = m[x]
      OBVIOUS
    <3> QED BY <3>1, <3>2, <2>4, <2>5, <2>1
  <2>7. j = x + 1
    <3> SUFFICES ASSUME j # x + 1 PROVE FALSE
      OBVIOUS
    <3>1. x + 1 \in 1 .. c /\ x < x + 1 /\ x + 1 < j
      BY <2>1, <2>6
    <3>2. m[x] < m[x + 1] /\ m[x + 1] < m[j]
      BY <3>1, <1>3, <2>1
    <3> QED BY <3>1, <3>2, <2>4, <2>5, <2>1
  <2>8. n + (k + 1) = j /\ a + (k + 1) = y
    BY <2>7, <1>4 DEF x, y
  <2>9. k + 1 \in 0 .. d
    BY <1>6
  <2> QED BY <2>3, <2>8, <2>9
<1>7. \A k \in 0 .. d : k \in T
  <2> DEFINE N1 == d
  <2> HIDE DEF T
  <2>1. \A k \in 0 .. N1 : k \in T /\ k < N1 => k + 1 \in T
    BY <1>6
  <2>2. N1 \in Nat
    BY <1>4
  <2> HIDE DEF N1
  <2>3. \A k \in 0 .. N1 : k \in T
    BY <1>5, <2>1, <2>2, Induction
  <2> QED BY <2>3 DEF N1
<1> QED BY <1>2, <1>3, <1>7 DEF Comes
=============================================================================
