----------------------------- MODULE TexProofs -----------------------------
(***************************************************************************)
(* The texts of TexText and TexSource, for every text: the unwrapping of   *)
(* \centering{...} and its like takes what it should and no more, and the  *)
(* rewriting of the title block keeps what a reader sees.                  *)
(***************************************************************************)
EXTENDS TexSource, SequenceProofs

-----------------------------------------------------------------------------
(* Where groups close.                                                     *)
GroupOpens(s) == {i \in 1 .. Len(s) : s[i].is \in Openers}
GroupCloses(s) == {i \in 1 .. Len(s) : s[i].is = "close"}
Level(s, n) == Height(GroupOpens(s), GroupCloses(s), n)

LEMMA GroupsApart == ASSUME NEW s PROVE GroupOpens(s) \cap GroupCloses(s) = {}
BY DEF GroupOpens, GroupCloses, Openers

LEMMA LevelSteps ==
    ASSUME NEW s
    PROVE  /\ \A n \in Nat : Level(s, n) \in Int
           /\ \A n \in Nat \ {0} :
                Level(s, n) = Level(s, n - 1) + IF n \in GroupOpens(s) THEN 1
                                                ELSE IF n \in GroupCloses(s) THEN -1 ELSE 0
BY GroupsApart, HeightStart, HeightBelow DEF Level

(* The groups between i and j balance when the level is back to what it    *)
(* was before i.                                                           *)
LEMMA OpenedIs ==
    ASSUME NEW X, NEW s \in Seq(X), NEW i \in 1 .. Len(s), NEW j \in i .. Len(s)
    PROVE  Opened(s, i, j) = Closed(s, i, j) <=> Level(s, j) = Level(s, i - 1)
<1> DEFINE P == GroupOpens(s)
           Q == GroupCloses(s)
           u == i - 1
<1>1. /\ {k \in i .. j : s[k].is \in Openers} = P \cap (i .. j)
      /\ {k \in i .. j : s[k].is = "close"} = Q \cap (i .. j)
  BY DEF GroupOpens, GroupCloses
<1>2. u \in Nat /\ j \in Nat /\ u <= j /\ u + 1 = i
  OBVIOUS
<1> HIDE DEF P, Q, u
<1>3. /\ Cardinality(P \cap (u + 1 .. j)) = Upto(P, j) - Upto(P, u)
      /\ Cardinality(Q \cap (u + 1 .. j)) = Upto(Q, j) - Upto(Q, u)
  BY <1>2, UptoBetween
<1>4. Opened(s, i, j) = Upto(P, j) - Upto(P, u) /\ Closed(s, i, j) = Upto(Q, j) - Upto(Q, u)
  BY <1>1, <1>2, <1>3 DEF Opened, Closed
<1>5. Upto(P, j) \in Nat /\ Upto(P, u) \in Nat /\ Upto(Q, j) \in Nat /\ Upto(Q, u) \in Nat
  BY <1>2, UptoStep
<1> QED BY <1>4, <1>5 DEF Level, Height, P, Q, u

(* A group ends where the level is first what it was before.               *)
LEMMA ClosingIs ==
    ASSUME NEW X, NEW s \in Seq(X), NEW i \in GroupOpens(s)
    PROVE  /\ Closing(s, i) \in 0 .. Len(s) /\ i \in 1 .. Len(s)
           /\ Closing(s, i) # 0 =>
                /\ Closing(s, i) \in i + 1 .. Len(s) /\ Closing(s, i) \in GroupCloses(s)
                /\ Level(s, Closing(s, i)) = Level(s, i - 1)
                /\ \A k \in i .. Closing(s, i) - 1 : Level(s, i - 1) < Level(s, k)
           /\ \A j \in i + 1 .. Len(s) :
                Level(s, j) <= Level(s, i - 1) => Closing(s, i) # 0 /\ Closing(s, i) <= j
<1> DEFINE P == GroupOpens(s)
           Q == GroupCloses(s)
           h(n) == Level(s, n)
           N == Len(s)
           v == h(i - 1)
           ends == {j \in i + 1 .. N : Opened(s, i, j) = Closed(s, i, j)}
           c == Closing(s, i)
<1>1. i \in 1 .. N /\ N \in Nat /\ P \cap Q = {} /\ Q \in SUBSET (1 .. N)
  BY GroupsApart DEF GroupOpens, GroupCloses
<1>2. /\ \A n \in Nat : h(n) \in Int
      /\ \A n \in Nat \ {0} : h(n) = h(n - 1) + IF n \in P THEN 1 ELSE IF n \in Q THEN -1 ELSE 0
  BY LevelSteps
<1>3. ends = {j \in i + 1 .. N : h(j) = v}
  <2>1. \A j \in i + 1 .. N : j \in i .. N
    BY <1>1
  <2> QED BY <2>1, <1>1, OpenedIs
<1>4. c = IF ends = {} THEN 0 ELSE First(ends)
  BY DEF Closing
<1>5. \A n : h(n) = Height(P, Q, n)
  BY DEF Level
<1>6. i \in P
  OBVIOUS
<1> HIDE DEF P, Q, h, N, c
<1>7. v \in Int /\ h(i) = v + 1
  <2>1. i \in Nat \ {0} /\ i - 1 \in Nat
    BY <1>1
  <2> QED BY <2>1, <1>2, <1>6
<1> HIDE DEF v
<1>8. ASSUME NEW j \in i + 1 .. N, h(j) <= v
      PROVE  \E k \in i + 1 .. j : h(k) = v /\ \A m \in i .. k - 1 : v < h(m)
  <2>1. v <= h(i) /\ i \in Nat /\ j \in Nat /\ i <= j
    BY <1>1, <1>7
  <2>2. PICK k \in i .. j : Height(P, Q, k) = v /\ \A m \in i .. k - 1 : v < Height(P, Q, m)
    <3>1. v <= Height(P, Q, i) /\ Height(P, Q, j) <= v
      BY <2>1, <1>5, <1>8
    <3> QED BY <2>1, <3>1, <1>1, <1>7, Fall
  <2>3. h(k) = v /\ \A m \in i .. k - 1 : v < h(m)
    BY <2>2, <1>5
  <2>4. k # i
    BY <2>3, <1>7
  <2>5. k \in i + 1 .. j
    BY <2>1, <2>4
  <2> QED BY <2>3, <2>5
<1>9. ASSUME ends # {}
      PROVE  /\ c \in i + 1 .. N /\ h(c) = v /\ (\A k \in ends : c <= k)
             /\ \A k \in i .. c - 1 : v < h(k)
             /\ c \in Q
  <2>1. c \in ends /\ \A k \in ends : c <= k
    <3>1. ends \in SUBSET Nat
      BY <1>1
    <3> HIDE DEF ends
    <3> QED BY <3>1, <1>4, <1>9, FirstProperties
  <2>2. c \in i + 1 .. N /\ h(c) = v
    BY <2>1, <1>3
  <2>3. PICK k \in i + 1 .. c : h(k) = v /\ \A m \in i .. k - 1 : v < h(m)
    BY <2>2, <1>7, <1>8
  <2>4. k = c
    <3>1. k \in ends
      BY <2>2, <2>3, <1>1, <1>3
    <3> QED BY <3>1, <2>1, <2>2, <1>1
  <2>5. c \in Q
    <3>1. c - 1 \in i .. c - 1 /\ c \in Nat \ {0} /\ c - 1 \in Nat
      BY <2>2, <1>1
    <3>2. v < h(c - 1) /\ h(c - 1) \in Int /\ h(c) = h(c - 1) + IF c \in P THEN 1
              ELSE IF c \in Q THEN -1 ELSE 0
      BY <3>1, <2>3, <2>4, <1>2
    <3> QED BY <3>2, <2>2, <1>7
  <2> QED BY <2>1, <2>2, <2>3, <2>4, <2>5
<1>10. ASSUME NEW j \in i + 1 .. N, h(j) <= v PROVE c # 0 /\ c <= j
  <2>1. PICK k \in i + 1 .. j : h(k) = v
    BY <1>8, <1>10
  <2>2. k \in ends
    BY <2>1, <1>1, <1>3
  <2>3. c \in i + 1 .. N /\ c <= k
    BY <2>2, <1>9
  <2> QED BY <2>1, <2>3, <1>1
<1>11. c # 0 => ends # {}
  BY <1>4
<1>12. c \in 0 .. N
  BY <1>1, <1>4, <1>9
<1> HIDE DEF ends
<1> QED BY <1>1, <1>9, <1>10, <1>11, <1>12 DEF h, v, N, Q, c

(* A group opened inside another closes inside it.                         *)
LEMMA Inside ==
    ASSUME NEW X, NEW s \in Seq(X), NEW i \in GroupOpens(s), NEW f \in GroupOpens(s),
           Closing(s, i) # 0, i < f, f < Closing(s, i)
    PROVE  Closing(s, f) # 0 /\ Closing(s, f) < Closing(s, i)
<1> DEFINE c == Closing(s, i)
           e == Closing(s, f)
           h(n) == Level(s, n)
           N == Len(s)
<1>1. /\ i \in 1 .. N /\ c \in i + 1 .. N /\ h(c) = h(i - 1) /\ \A k \in i .. c - 1 : h(i - 1) < h(k)
  BY ClosingIs
<1>2. /\ f \in 1 .. N /\ (e # 0 => h(e) = h(f - 1) /\ e \in f + 1 .. N)
      /\ \A j \in f + 1 .. N : h(j) <= h(f - 1) => e # 0 /\ e <= j
  BY ClosingIs
<1>3. i < f /\ f < c /\ N \in Nat
  OBVIOUS
<1>4. \A n \in Nat : h(n) \in Int
  BY LevelSteps
<1> HIDE DEF c, e, h, N
<1>5. f - 1 \in i .. c - 1 /\ c \in f + 1 .. N /\ f - 1 \in Nat /\ c \in Nat
  BY <1>1, <1>2, <1>3
<1>6. h(c) < h(f - 1) /\ h(c) \in Int /\ h(f - 1) \in Int
  BY <1>1, <1>4, <1>5
<1>7. e # 0 /\ e <= c
  BY <1>2, <1>5, <1>6
<1>8. e # c
  BY <1>2, <1>6, <1>7
<1>9. e < c
  BY <1>2, <1>5, <1>7, <1>8
<1> QED BY <1>7, <1>9 DEF c, e

-----------------------------------------------------------------------------
(* The recursion of Unwrapped, for one span.                               *)
Spans(s) == (1 .. Len(s) + 1) \X (0 .. Len(s))

(* The commands that swallow their group, all of the text and those of a   *)
(* span; the spans are those Unwrapped recurses on.                        *)
Commands(s) == Positions(s, "swallower")

CommandsIn(s, lo, hi) == {i \in Commands(s) : lo <= i /\ i <= hi}

(* What Unwrapped makes of the span lo .. hi, from what t has for the      *)
(* spans behind the first command.                                         *)
Body(s, t, lo, hi) ==
    IF CommandsIn(s, lo, hi) = {} \/ Closing(s, First(CommandsIn(s, lo, hi))) = 0
    THEN SubSeq(s, lo, hi)
    ELSE SubSeq(s, lo, First(CommandsIn(s, lo, hi)) - 1)
         \o t[<<First(CommandsIn(s, lo, hi)) + 1, Closing(s, First(CommandsIn(s, lo, hi))) - 1>>]
         \o t[<<Closing(s, First(CommandsIn(s, lo, hi))) + 1, hi>>]

LEMMA CommandsOpen ==
    ASSUME NEW s
    PROVE  Commands(s) \in SUBSET GroupOpens(s) /\ GroupOpens(s) \in SUBSET (1 .. Len(s))
BY DEF Commands, Positions, GroupOpens, Openers

(* The first command of a span, and the close of its group.                *)
LEMMA FirstCommand ==
    ASSUME NEW X, NEW s \in Seq(X), NEW lo \in 1 .. Len(s) + 1, NEW hi \in 0 .. Len(s),
           CommandsIn(s, lo, hi) # {}
    PROVE  LET f == First(CommandsIn(s, lo, hi))
           IN  /\ f \in CommandsIn(s, lo, hi) /\ f \in Commands(s) /\ f \in lo .. hi
                     /\ f \in 1 .. Len(s)
               /\ \A i \in CommandsIn(s, lo, hi) : f <= i
               /\ Closing(s, f) \in 0 .. Len(s)
               /\ Closing(s, f) # 0 => Closing(s, f) \in f + 1 .. Len(s)
<1> DEFINE S == CommandsIn(s, lo, hi)
           f == First(S)
<1>1. S \in SUBSET Commands(s) /\ \A i \in S : i \in lo .. hi /\ i \in 1 .. Len(s)
          /\ i \in GroupOpens(s)
  BY CommandsOpen DEF CommandsIn
<1>2. f \in S /\ \A i \in S : f <= i
  <2>1. S \in SUBSET Nat
    BY <1>1
  <2> HIDE DEF S
  <2> QED BY <2>1, FirstProperties DEF S
<1> HIDE DEF S, f
<1>3. f \in GroupOpens(s)
  BY <1>1, <1>2
<1>4. Closing(s, f) \in 0 .. Len(s) /\ (Closing(s, f) # 0 => Closing(s, f) \in f + 1 .. Len(s))
  BY <1>3, ClosingIs
<1>5. f \in S /\ f \in Commands(s) /\ f \in lo .. hi /\ f \in 1 .. Len(s) /\ \A i \in S : f <= i
  BY <1>1, <1>2
<1> QED BY <1>4, <1>5 DEF S, f

LEMMA SubSeqType ==
    ASSUME NEW X, NEW s \in Seq(X), NEW a \in 1 .. Len(s) + 1, NEW b \in 0 .. Len(s)
    PROVE  SubSeq(s, a, b) \in Seq(X)
<1>1. CASE a <= b
  <2>1. a \in 1 .. Len(s) /\ b \in 1 .. Len(s)
    BY <1>1
  <2> QED BY <2>1
<1>2. CASE ~(a <= b)
  <2>1. SubSeq(s, a, b) = <<>>
    BY <1>2
  <2> QED BY <2>1
<1> QED BY <1>1, <1>2

LEMMA BodyType ==
    ASSUME NEW X, NEW s \in Seq(X), NEW t \in [Spans(s) -> Seq(X)],
           NEW lo \in 1 .. Len(s) + 1, NEW hi \in 0 .. Len(s)
    PROVE  Body(s, t, lo, hi) \in Seq(X)
<1> DEFINE f == First(CommandsIn(s, lo, hi))
           c == Closing(s, f)
<1>1. SubSeq(s, lo, hi) \in Seq(X)
  BY SubSeqType
<1>2. ASSUME CommandsIn(s, lo, hi) # {}, c # 0
      PROVE  SubSeq(s, lo, f - 1) \o t[<<f + 1, c - 1>>] \o t[<<c + 1, hi>>] \in Seq(X)
  <2>1. f \in lo .. hi /\ f \in 1 .. Len(s) /\ c \in f + 1 .. Len(s)
    BY <1>2, FirstCommand
  <2> HIDE DEF f, c
  <2>2. f - 1 \in 0 .. Len(s) /\ f + 1 \in 1 .. Len(s) + 1 /\ c - 1 \in 0 .. Len(s)
            /\ c + 1 \in 1 .. Len(s) + 1
    BY <2>1
  <2>3. SubSeq(s, lo, f - 1) \in Seq(X)
    BY <2>2, SubSeqType
  <2>4. <<f + 1, c - 1>> \in Spans(s) /\ <<c + 1, hi>> \in Spans(s)
    BY <2>2 DEF Spans
  <2>5. t[<<f + 1, c - 1>>] \in Seq(X) /\ t[<<c + 1, hi>>] \in Seq(X)
    BY <2>4
  <2> DEFINE a == SubSeq(s, lo, f - 1)
             b == t[<<f + 1, c - 1>>]
             d == t[<<c + 1, hi>>]
  <2> HIDE DEF a, b, d
  <2>6. a \o b \o d \in Seq(X)
    BY <2>3, <2>5 DEF a, b, d
  <2> QED BY <2>6 DEF a, b, d
<1> HIDE DEF f, c
<1> QED BY <1>1, <1>2 DEF Body, f, c

(* It calls itself only for spans further on.                              *)
LEMMA BodyLocal ==
    ASSUME NEW X, NEW s \in Seq(X), NEW t, NEW u,
           NEW lo \in 1 .. Len(s) + 1, NEW hi \in 0 .. Len(s),
           \A a \in 1 .. Len(s) + 1, b \in 0 .. Len(s) : lo < a => t[<<a, b>>] = u[<<a, b>>]
    PROVE  Body(s, t, lo, hi) = Body(s, u, lo, hi)
<1> DEFINE f == First(CommandsIn(s, lo, hi))
           c == Closing(s, f)
<1>1. ASSUME CommandsIn(s, lo, hi) # {}, c # 0
      PROVE  t[<<f + 1, c - 1>>] = u[<<f + 1, c - 1>>] /\ t[<<c + 1, hi>>] = u[<<c + 1, hi>>]
  <2>1. f \in lo .. hi /\ f \in 1 .. Len(s) /\ c \in f + 1 .. Len(s)
    BY <1>1, FirstCommand
  <2> HIDE DEF f, c
  <2>2. /\ f + 1 \in 1 .. Len(s) + 1 /\ c - 1 \in 0 .. Len(s) /\ c + 1 \in 1 .. Len(s) + 1
        /\ lo < f + 1 /\ lo < c + 1
    BY <2>1
  <2> QED BY <2>2
<1> HIDE DEF f, c
<1> QED BY <1>1 DEF Body, f, c

(* t is the function that Unwrapped defines by recursion.                  *)
Unwraps(s, t) ==
    \A lo \in 1 .. Len(s) + 1, hi \in 0 .. Len(s) : t[<<lo, hi>>] = Body(s, t, lo, hi)

(* The spans from a given start on can be filled in, one start at a time.  *)
LEMMA UnwrapExists ==
    ASSUME NEW X, NEW s \in Seq(X)
    PROVE  \E t \in [Spans(s) -> Seq(X)] : Unwraps(s, t)
<1> DEFINE N == Len(s)
           M == N + 1
           S == [Spans(s) -> Seq(X)]
           b == [p \in Spans(s) |-> <<>>]
           Fill(t, n) == [p \in Spans(s) |-> IF p[1] = M + 1 - n THEN Body(s, t, p[1], p[2]) ELSE t[p]]
           F == [tn \in S \X (1 .. M) |-> Fill(tn[1], tn[2])]
<1>0. N \in Nat /\ M \in Nat /\ M = Len(s) + 1 /\ N = Len(s)
  OBVIOUS
<1>1. \A p \in Spans(s) : p[1] \in 1 .. M /\ p[2] \in 0 .. N /\ p = <<p[1], p[2]>>
  BY DEF Spans
<1>2. \A lo \in 1 .. M, hi \in 0 .. N : <<lo, hi>> \in Spans(s)
  BY DEF Spans
<1> HIDE DEF M, N
<1>3. b \in S
  OBVIOUS
<1>4. ASSUME NEW t \in S, NEW n \in 1 .. M PROVE Fill(t, n) \in S
  <2>1. \A p \in Spans(s) : Body(s, t, p[1], p[2]) \in Seq(X)
    BY <1>0, <1>1, BodyType
  <2>2. \A p \in Spans(s) : t[p] \in Seq(X)
    OBVIOUS
  <2> QED BY <2>1, <2>2
<1>5. F \in [S \X (1 .. M) -> S]
  <2>1. \A tn \in S \X (1 .. M) : tn[1] \in S /\ tn[2] \in 1 .. M
    OBVIOUS
  <2>2. \A tn \in S \X (1 .. M) : Fill(tn[1], tn[2]) \in S
    <3> HIDE DEF Fill, S
    <3> QED BY <2>1, <1>4
  <2> HIDE DEF Fill, S
  <2> QED BY <2>2
<1>6. PICK g \in [0 .. M -> S] : Follows(g, b, M, F)
  <2> HIDE DEF S, b, F
  <2> QED BY <1>0, <1>3, <1>5, Recursion
<1>7. ASSUME NEW n \in 0 .. M, n < M, NEW p \in Spans(s)
      PROVE  g[n + 1][p] = IF p[1] = M - n THEN Body(s, g[n], p[1], p[2]) ELSE g[n][p]
  <2> DEFINE m == n + 1
  <2>1. m \in 1 .. M /\ m - 1 = n /\ M + 1 - m = M - n /\ n \in 0 .. M
    BY <1>0, <1>7
  <2> HIDE DEF m
  <2>2. g[m] = F[<<g[m - 1], m>>]
    <3> HIDE DEF F
    <3> QED BY <2>1, <1>6 DEF Follows
  <2>3. g[n] \in S
    <3> HIDE DEF S
    <3> QED BY <2>1
  <2>4. F[<<g[n], m>>] = Fill(g[n], m)
    <3> DEFINE tn == <<g[n], m>>
    <3>1. tn \in S \X (1 .. M) /\ tn[1] = g[n] /\ tn[2] = m
      <4> HIDE DEF S
      <4> QED BY <2>1, <2>3
    <3> HIDE DEF tn, S, Fill
    <3>2. F[tn] = Fill(tn[1], tn[2])
      BY <3>1
    <3> HIDE DEF F
    <3>3. F[tn] = Fill(g[n], m)
      BY <3>1, <3>2
    <3> QED BY <3>3 DEF tn
  <2>5. Fill(g[n], m)[p] = IF p[1] = M + 1 - m THEN Body(s, g[n], p[1], p[2]) ELSE g[n][p]
    OBVIOUS
  <2> HIDE DEF F, Fill
  <2>6. g[m][p] = IF p[1] = M + 1 - m THEN Body(s, g[n], p[1], p[2]) ELSE g[n][p]
    BY <2>1, <2>2, <2>4, <2>5
  <2>7. g[m][p] = IF p[1] = M - n THEN Body(s, g[n], p[1], p[2]) ELSE g[n][p]
    BY <2>1, <2>6
  <2> QED BY <2>7 DEF m
<1> HIDE DEF S, b, F, Fill
<1> DEFINE Filled(n) == \A lo \in 1 .. M, hi \in 0 .. N :
                            M - n < lo => g[n][<<lo, hi>>] = Body(s, g[n], lo, hi)
           T == {n \in 0 .. M : Filled(n)}
<1>8. 0 \in T
  <2>1. \A lo \in 1 .. M : ~(M - 0 < lo)
    BY <1>0
  <2> QED BY <2>1, <1>0
<1>9. \A n \in 0 .. M : n \in T /\ n < M => n + 1 \in T
  <2> SUFFICES ASSUME NEW n \in 0 .. M, Filled(n), n < M PROVE n + 1 \in T
    OBVIOUS
  <2>1. n + 1 \in 0 .. M /\ M - n \in 1 .. M /\ M - n \in Int
    BY <1>0
  <2>2. \A lo \in 1 .. M, hi \in 0 .. N :
            g[n + 1][<<lo, hi>>] = IF lo = M - n THEN Body(s, g[n], lo, hi) ELSE g[n][<<lo, hi>>]
    <3> SUFFICES ASSUME NEW lo \in 1 .. M, NEW hi \in 0 .. N
                 PROVE  g[n + 1][<<lo, hi>>] = IF lo = M - n THEN Body(s, g[n], lo, hi)
                           ELSE g[n][<<lo, hi>>]
      OBVIOUS
    <3> DEFINE p == <<lo, hi>>
    <3>1. p \in Spans(s) /\ p[1] = lo /\ p[2] = hi
      BY <1>2
    <3> HIDE DEF p
    <3>2. g[n + 1][p] = IF lo = M - n THEN Body(s, g[n], lo, hi) ELSE g[n][p]
      BY <3>1, <1>7
    <3> QED BY <3>2 DEF p
  <2>3. ASSUME NEW lo \in 1 .. M, NEW hi \in 0 .. N, M - (n + 1) < lo
        PROVE  g[n + 1][<<lo, hi>>] = Body(s, g[n + 1], lo, hi)
    <3>1. \A a \in 1 .. M, d \in 0 .. N : lo < a => g[n][<<a, d>>] = g[n + 1][<<a, d>>]
      <4>1. \A a \in 1 .. M : lo < a => a # M - n
        BY <2>1, <2>3, <1>0
      <4> QED BY <4>1, <2>2
    <3>2. Body(s, g[n], lo, hi) = Body(s, g[n + 1], lo, hi)
      BY <3>1, <1>0, BodyLocal
    <3>3. lo # M - n => M - n < lo
      <4> DEFINE k == M - n
      <4>1. M - (n + 1) = k - 1
        BY <1>0
      <4>2. k \in Int /\ lo \in Int
        BY <2>1, <1>0
      <4>3. k - 1 < lo
        BY <2>3, <4>1
      <4> HIDE DEF k
      <4>4. lo # k => k < lo
        BY <4>2, <4>3
      <4> QED BY <4>4 DEF k
    <3>4. lo # M - n => g[n][<<lo, hi>>] = Body(s, g[n], lo, hi)
      BY <3>3
    <3> QED BY <3>2, <3>4, <2>2
  <2> QED BY <2>1, <2>3
<1> HIDE DEF T
<1>10. M \in T
  <2>1. M \in 0 .. M
    BY <1>0
  <2> QED BY <2>1, <1>0, <1>8, <1>9, Induction
<1>11. \A lo \in 1 .. M, hi \in 0 .. N : g[M][<<lo, hi>>] = Body(s, g[M], lo, hi)
  <2>1. Filled(M)
    BY <1>10 DEF T
  <2>2. \A lo \in 1 .. M : M - M < lo
    BY <1>0
  <2> QED BY <2>1, <2>2
<1>12. g[M] \in S
  BY <1>0
<1>13. Unwraps(s, g[M])
  BY <1>0, <1>11 DEF Unwraps
<1> QED BY <1>12, <1>13 DEF S

(* So Unwrapped(s) is the value of such a function at the whole text.      *)
LEMMA UnwrapIs ==
    ASSUME NEW X, NEW s \in Seq(X)
    PROVE  \E t : Unwraps(s, t) /\ Unwrapped(s) = t[<<1, Len(s)>>]
<1> DEFINE Is(t) == t = [span \in Spans(s) |-> Body(s, t, span[1], span[2])]
<1>1. PICK t \in [Spans(s) -> Seq(X)] : Unwraps(s, t)
  BY UnwrapExists
<1>2. Is(t)
  <2>1. \A span \in Spans(s) : t[span] = Body(s, t, span[1], span[2])
    <3> SUFFICES ASSUME NEW span \in Spans(s) PROVE t[span] = Body(s, t, span[1], span[2])
      OBVIOUS
    <3>1. span[1] \in 1 .. Len(s) + 1 /\ span[2] \in 0 .. Len(s) /\ span = <<span[1], span[2]>>
      BY DEF Spans
    <3>2. t[<<span[1], span[2]>>] = Body(s, t, span[1], span[2])
      BY <3>1, <1>1 DEF Unwraps
    <3> QED BY <3>1, <3>2
  <2> QED BY <2>1
<1>3. Unwrapped(s) = (CHOOSE u : Is(u))[<<1, Len(s)>>]
  BY DEF Unwrapped, Spans, Body, CommandsIn, Commands
<1> DEFINE u == CHOOSE u1 : Is(u1)
<1>4. Is(u)
  <2> HIDE DEF Is
  <2> QED BY <1>2
<1> HIDE DEF u
<1>5. Unwraps(s, u)
  <2> SUFFICES ASSUME NEW lo \in 1 .. Len(s) + 1, NEW hi \in 0 .. Len(s)
               PROVE  u[<<lo, hi>>] = Body(s, u, lo, hi)
    BY DEF Unwraps
  <2> DEFINE p == <<lo, hi>>
             B(span) == Body(s, u, span[1], span[2])
  <2>1. p \in Spans(s) /\ p[1] = lo /\ p[2] = hi
    BY DEF Spans
  <2> HIDE DEF p
  <2>2. u = [span \in Spans(s) |-> B(span)]
    BY <1>4
  <2>3. u[p] = B(p)
    <3> HIDE DEF B
    <3> QED BY <2>1, <2>2
  <2>4. u[p] = Body(s, u, lo, hi)
    BY <2>1, <2>3
  <2> QED BY <2>4 DEF p
<1>6. Unwrapped(s) = u[<<1, Len(s)>>]
  BY <1>3 DEF u
<1> QED BY <1>5, <1>6

-----------------------------------------------------------------------------
(* Without the commands.                                                   *)
Unwanted(s) == Commands(s) \cup {Closing(s, i) : i \in Commands(s)}

(* The span begins and ends on the same side of every command.             *)
Nest(s, lo, hi) == \A i \in Commands(s) : i \in lo .. hi <=> Closing(s, i) \in lo .. hi

(* A span without commands is kept whole.                                  *)
LEMMA EmptySpan ==
    ASSUME NEW X, NEW s \in Seq(X), NEW lo \in 1 .. Len(s) + 1, NEW hi \in 0 .. Len(s),
           CommandsIn(s, lo, hi) = {}, Nest(s, lo, hi)
    PROVE  At(s, (lo .. hi) \ Unwanted(s)) = SubSeq(s, lo, hi)
<1>1. \A i \in Commands(s) : i \notin lo .. hi /\ Closing(s, i) \notin lo .. hi
  BY DEF CommandsIn, Nest
<1>2. (lo .. hi) \ Unwanted(s) = lo .. hi
  BY <1>1 DEF Unwanted
<1> QED BY <1>2, AtInterval

(* Within a span that nests, so do the group of the first command and what *)
(* follows it.                                                             *)
LEMMA NestParts ==
    ASSUME NEW X, NEW s \in Seq(X), NEW lo \in 1 .. Len(s) + 1, NEW hi \in 0 .. Len(s),
           \A i \in Commands(s) : Closing(s, i) # 0,
           CommandsIn(s, lo, hi) # {}, Nest(s, lo, hi)
    PROVE  LET f == First(CommandsIn(s, lo, hi))
               c == Closing(s, f)
           IN  /\ f \in lo .. hi /\ c \in f + 1 .. hi /\ f \in 1 .. Len(s) /\ f \in Commands(s)
               /\ Nest(s, f + 1, c - 1) /\ Nest(s, c + 1, hi)
               /\ (lo .. f - 1) \cap Unwanted(s) = {}
<1> DEFINE C == Commands(s)
           f == First(CommandsIn(s, lo, hi))
           c == Closing(s, f)
           e(i) == Closing(s, i)
           N == Len(s)
<1>1. /\ f \in C /\ f \in lo .. hi /\ f \in 1 .. N
      /\ \A i \in CommandsIn(s, lo, hi) : f <= i
  BY FirstCommand
<1>2. \A i \in C : i \in GroupOpens(s) /\ i \in 1 .. N /\ e(i) \in i + 1 .. N /\ e(i) \notin C
  <2>1. \A i \in C : i \in GroupOpens(s) /\ e(i) # 0
    BY CommandsOpen
  <2>2. \A i \in C : i \in 1 .. N /\ e(i) \in i + 1 .. N /\ e(i) \in GroupCloses(s)
    BY <2>1, ClosingIs
  <2>3. GroupCloses(s) \cap C = {}
    BY CommandsOpen, GroupsApart
  <2> QED BY <2>1, <2>2, <2>3
<1>3. \A i \in C, k \in C : i < k /\ k < e(i) => e(k) < e(i)
  BY <1>2, Inside
<1>4. \A i \in C : i \in lo .. hi <=> e(i) \in lo .. hi
  BY DEF Nest
<1>5. \A i \in C : i \in lo .. hi => f <= i
  BY <1>1 DEF CommandsIn
<1>6. c = e(f) /\ N \in Nat /\ lo \in Int /\ hi \in Int
  OBVIOUS
<1>7. Unwanted(s) = C \cup {e(i) : i \in C}
  BY DEF Unwanted
<1>8. \A a, b : Nest(s, a, b) <=> \A i \in C : i \in a .. b <=> e(i) \in a .. b
  BY DEF Nest
<1> HIDE DEF C, f, c, e, N
<1>9. c \in f + 1 .. hi /\ c \in Int /\ f \in Int
  BY <1>1, <1>2, <1>4, <1>6
<1>10. Nest(s, f + 1, c - 1)
  <2> SUFFICES ASSUME NEW i \in C PROVE i \in f + 1 .. c - 1 <=> e(i) \in f + 1 .. c - 1
    BY <1>8
  <2>1. i \in Int /\ e(i) \in Int /\ i < e(i)
    BY <1>2
  <2>2. ASSUME i \in f + 1 .. c - 1 PROVE e(i) \in f + 1 .. c - 1
    <3>1. e(i) < e(f)
      BY <1>1, <1>3, <1>6, <1>9, <2>1, <2>2
    <3> QED BY <3>1, <1>6, <1>9, <2>1, <2>2
  <2>3. ASSUME e(i) \in f + 1 .. c - 1 PROVE i \in f + 1 .. c - 1
    <3>1. i # f
      BY <1>6, <1>9, <2>1, <2>3
    <3>2. ~(i < f)
      <4> SUFFICES ASSUME i < f PROVE FALSE
        OBVIOUS
      <4>1. f < e(i)
        BY <1>9, <2>1, <2>3
      <4>2. e(f) < e(i)
        BY <4>1, <1>1, <1>3
      <4> QED BY <4>2, <1>6, <1>9, <2>1, <2>3
    <3> QED BY <3>1, <3>2, <1>9, <2>1, <2>3
  <2> QED BY <2>2, <2>3
<1>11. Nest(s, c + 1, hi)
  <2> SUFFICES ASSUME NEW i \in C PROVE i \in c + 1 .. hi <=> e(i) \in c + 1 .. hi
    BY <1>8
  <2>1. i \in Int /\ e(i) \in Int /\ i < e(i) /\ lo <= f /\ f < c
    BY <1>1, <1>2, <1>9
  <2>2. ASSUME i \in c + 1 .. hi PROVE e(i) \in c + 1 .. hi
    <3>1. i \in lo .. hi
      BY <1>6, <1>9, <2>1, <2>2
    <3>2. e(i) \in lo .. hi
      BY <3>1, <1>4
    <3> QED BY <3>2, <1>6, <1>9, <2>1, <2>2
  <2>3. ASSUME e(i) \in c + 1 .. hi PROVE i \in c + 1 .. hi
    <3>1. e(i) \in lo .. hi
      BY <1>6, <1>9, <2>1, <2>3
    <3>2. i \in lo .. hi /\ f <= i
      BY <3>1, <1>4, <1>5
    <3>3. i # f
      BY <1>6, <1>9, <2>1, <2>3
    <3>4. i # c
      BY <1>1, <1>2, <1>6
    <3>5. ~(i < c)
      <4> SUFFICES ASSUME i < c PROVE FALSE
        OBVIOUS
      <4>1. f < i
        BY <3>2, <3>3, <1>9, <2>1
      <4>2. e(i) < e(f)
        BY <4>1, <1>1, <1>3, <1>6
      <4> QED BY <4>2, <1>6, <1>9, <2>1, <2>3
    <3> QED BY <3>2, <3>4, <3>5, <1>6, <1>9, <2>1
  <2> QED BY <2>2, <2>3
<1>12. (lo .. f - 1) \cap Unwanted(s) = {}
  <2> SUFFICES ASSUME NEW i \in C, i \in lo .. f - 1 \/ e(i) \in lo .. f - 1 PROVE FALSE
    BY <1>7
  <2>1. i \in Int /\ e(i) \in Int /\ i < e(i) /\ f <= hi
    BY <1>1, <1>2
  <2>2. i \in lo .. hi
    <3>1. CASE i \in lo .. f - 1
      BY <3>1, <1>6, <1>9, <2>1
    <3>2. CASE e(i) \in lo .. f - 1
      <4>1. e(i) \in lo .. hi
        BY <3>2, <1>6, <1>9, <2>1
      <4> QED BY <4>1, <1>4
    <3> QED BY <3>1, <3>2
  <2>3. f <= i
    BY <2>2, <1>5
  <2> QED BY <2>1, <2>3, <1>6, <1>9
<1> QED BY <1>1, <1>9, <1>10, <1>11, <1>12 DEF f, c, C, N

(* t is right about the spans that start behind lo.                        *)
RightAfter(s, t, lo) ==
    \A a \in 1 .. Len(s) + 1, b \in 0 .. Len(s) :
        lo < a /\ Nest(s, a, b) => t[<<a, b>>] = At(s, (a .. b) \ Unwanted(s))

(* Then it is right about those that start at lo.                          *)
LEMMA NestedSpan ==
    ASSUME NEW X, NEW s \in Seq(X), \A i \in Commands(s) : Closing(s, i) # 0,
           NEW t, Unwraps(s, t), NEW lo \in 1 .. Len(s) + 1, NEW hi \in 0 .. Len(s), Nest(s, lo, hi),
           RightAfter(s, t, lo)
    PROVE  t[<<lo, hi>>] = At(s, (lo .. hi) \ Unwanted(s))
<1> DEFINE G == Unwanted(s)
           f == First(CommandsIn(s, lo, hi))
           c == Closing(s, f)
           N == Len(s)
<1>1. t[<<lo, hi>>] = Body(s, t, lo, hi)
  BY DEF Unwraps
<1>2. CASE CommandsIn(s, lo, hi) = {}
  BY <1>1, <1>2, EmptySpan DEF Body
<1>3. CASE CommandsIn(s, lo, hi) # {}
  <2>1. /\ f \in lo .. hi /\ c \in f + 1 .. hi /\ f \in 1 .. N /\ f \in Commands(s)
        /\ Nest(s, f + 1, c - 1) /\ Nest(s, c + 1, hi)
        /\ (lo .. f - 1) \cap G = {}
    <3> HIDE DEF f, c, G, N
    <3> QED BY <1>3, NestParts DEF f, c, G, N
  <2>2. t[<<lo, hi>>] = SubSeq(s, lo, f - 1) \o t[<<f + 1, c - 1>>] \o t[<<c + 1, hi>>]
    <3>1. c # 0
      BY <2>1
    <3> QED BY <1>1, <1>3, <3>1 DEF Body
  <2>3. f \in G /\ c \in G
    BY <2>1 DEF Unwanted
  <2>4. N \in Nat /\ N = Len(s)
    OBVIOUS
  <2> HIDE DEF f, c, G, N
  <2>5. /\ f + 1 \in 1 .. N + 1 /\ c - 1 \in 0 .. N /\ c + 1 \in 1 .. N + 1 /\ f - 1 \in 0 .. N
        /\ lo < f + 1 /\ lo < c + 1 /\ hi \in 0 .. N /\ f < c /\ lo <= f
    BY <2>1, <2>4
  <2> DEFINE A == lo .. f - 1
             B == (f + 1 .. c - 1) \ G
             D == (c + 1 .. hi) \ G
  <2>6. t[<<f + 1, c - 1>>] = At(s, B) /\ t[<<c + 1, hi>>] = At(s, D)
    BY <2>1, <2>4, <2>5 DEF G, RightAfter
  <2>7. SubSeq(s, lo, f - 1) = At(s, A)
    BY <2>4, <2>5, AtInterval
  <2>8. A \in SUBSET (1 .. Len(s)) /\ B \in SUBSET (1 .. Len(s)) /\ D \in SUBSET (1 .. Len(s))
    BY <2>4, <2>5
  <2>9. (\A a \in A, b \in B : a < b) /\ (\A a \in A \cup B, b \in D : a < b)
    BY <2>5, <2>1
  <2>10. (lo .. hi) \ G = (A \cup B) \cup D
    BY <2>1, <2>3, <2>5
  <2> HIDE DEF A, B, D
  <2>11. At(s, A \cup B) = At(s, A) \o At(s, B)
    BY <2>8, <2>9, AtConcat
  <2>12. At(s, (A \cup B) \cup D) = At(s, A \cup B) \o At(s, D)
    <3>1. A \cup B \in SUBSET (1 .. Len(s))
      BY <2>8
    <3> QED BY <3>1, <2>8, <2>9, AtConcat
  <2> QED BY <2>2, <2>6, <2>7, <2>10, <2>11, <2>12 DEF G
<1> QED BY <1>2, <1>3

(* With every command closed, the commands and their braces go, and only   *)
(* they.                                                                   *)

(* Where every command is closed, Unwrapped is the text without these      *)
(* commands and their closing braces, by induction from the last position  *)
(* down.                                                                   *)
LEMMA UnwrappedIs ==
    ASSUME NEW X, NEW s \in Seq(X), \A i \in Commands(s) : Closing(s, i) # 0
    PROVE  Unwrapped(s) = At(s, 1 .. Len(s) \ Unwanted(s))
<1> DEFINE N == Len(s)
           M == N + 1
<1>1. PICK t : Unwraps(s, t) /\ Unwrapped(s) = t[<<1, N>>]
  BY UnwrapIs
<1>2. N \in Nat /\ M \in Nat /\ M = Len(s) + 1 /\ N = Len(s) /\ M = N + 1
  OBVIOUS
<1> HIDE DEF N, M
<1> DEFINE Right(n) == \A lo \in 1 .. M, hi \in 0 .. N :
                M - n < lo /\ Nest(s, lo, hi) => t[<<lo, hi>>] = At(s, (lo .. hi) \ Unwanted(s))
           T == {n \in 0 .. M : Right(n)}
<1>3. 0 \in T
  <2>1. \A lo \in 1 .. M : ~(M - 0 < lo)
    BY <1>2
  <2> QED BY <2>1, <1>2
<1>4. \A n \in 0 .. M : n \in T /\ n < M => n + 1 \in T
  <2> SUFFICES ASSUME NEW n \in 0 .. M, Right(n), n < M PROVE n + 1 \in T
    OBVIOUS
  <2>1. n + 1 \in 0 .. M
    BY <1>2
  <2>2. ASSUME NEW lo \in 1 .. M, NEW hi \in 0 .. N, M - (n + 1) < lo, Nest(s, lo, hi)
        PROVE  t[<<lo, hi>>] = At(s, (lo .. hi) \ Unwanted(s))
    <3>1. \A a \in 1 .. M : lo < a => M - n < a
      BY <1>2, <2>2
    <3>2. \A a \in 1 .. M, b \in 0 .. N :
            lo < a /\ Nest(s, a, b) => t[<<a, b>>] = At(s, (a .. b) \ Unwanted(s))
      BY <3>1
    <3>3. RightAfter(s, t, lo)
      BY <3>2, <1>2 DEF RightAfter
    <3>4. lo \in 1 .. Len(s) + 1 /\ hi \in 0 .. Len(s) /\ Unwraps(s, t)
      BY <1>1, <1>2
    <3> HIDE DEF Right, T
    <3> QED BY <2>2, <3>3, <3>4, NestedSpan
  <2> QED BY <2>1, <2>2
<1> HIDE DEF T
<1>5. M \in T
  <2>1. M \in 0 .. M
    BY <1>2
  <2> QED BY <2>1, <1>2, <1>3, <1>4, Induction
<1>6. Nest(s, 1, N)
  <2>1. \A i \in Commands(s) : i \in 1 .. N /\ Closing(s, i) \in 1 .. N
    <3>1. \A i \in Commands(s) : i \in GroupOpens(s) /\ i \in 1 .. N
      BY <1>2, CommandsOpen
    <3>2. \A i \in Commands(s) : Closing(s, i) \in i + 1 .. N
      BY <3>1, <1>2, ClosingIs
    <3> QED BY <3>1, <3>2, <1>2
  <2> QED BY <2>1 DEF Nest
<1>7. 1 \in 1 .. M /\ N \in 0 .. N /\ M - M < 1
  BY <1>2
<1>8. t[<<1, N>>] = At(s, (1 .. N) \ Unwanted(s))
  BY <1>5, <1>6, <1>7 DEF T
<1> QED BY <1>1, <1>2, <1>8

-----------------------------------------------------------------------------
(* What the rewriting makes of items are items.                            *)
WithoutStep(s, end, r, n) ==
    [kept |-> r.kept \o SubSeq(s, r.last, InOrder(DOMAIN end)[n] - 1),
     last |-> end[InOrder(DOMAIN end)[n]] + 1]

(* What the scan of Without keeps.                                         *)
ScanState(X, s) == [kept : Seq(X), last : 1 .. Len(s) + 1]

(* g is that scan, which has K spans to leave out.                         *)
Scans(s, end, K, g) ==
    /\ g[0] = [kept |-> <<>>, last |-> 1]
    /\ \A n \in 1 .. K : g[n] = WithoutStep(s, end, g[n - 1], n)
    /\ Without(s, end) = g[K].kept \o SubSeq(s, g[K].last, Len(s))

(* The scan exists, and its values are of that type.                       *)
LEMMA WithoutScan ==
    ASSUME NEW X, NEW s \in Seq(X), NEW D \in SUBSET (1 .. Len(s)), NEW end \in [D -> 1 .. Len(s)]
    PROVE  \E g \in [0 .. Cardinality(D) -> ScanState(X, s)] : Scans(s, end, Cardinality(D), g)
<1> DEFINE S == [kept : Seq(X), last : 1 .. Len(s) + 1]
           K == Cardinality(D)
           b == [kept |-> <<>>, last |-> 1]
           F == [rn \in S \X (1 .. K) |-> WithoutStep(s, end, rn[1], rn[2])]
           Is(f) == f = [n \in 0 .. K |-> IF n = 0 THEN b ELSE WithoutStep(s, end, f[n - 1], n)]
<1>1. K \in Nat /\ DOMAIN end = D /\ \A n \in 1 .. K : InOrder(D)[n] \in D
  <2>0. PICK L \in Nat : L = Len(s)
    OBVIOUS
  <2>1. IsFiniteSet(D) /\ K \in Nat
    BY <2>0, FiniteInterval
  <2>2. D \in SUBSET Nat
    OBVIOUS
  <2> QED BY <2>1, <2>2, InOrderProperties
<1>2. b \in S
  <2>1. 1 \in 1 .. Len(s) + 1 /\ <<>> \in Seq(X)
    OBVIOUS
  <2> QED BY <2>1
<1> HIDE DEF K
<1>3. ASSUME NEW r \in S, NEW n \in 1 .. K PROVE WithoutStep(s, end, r, n) \in S
  <2> DEFINE i == InOrder(D)[n]
             sub == SubSeq(s, r.last, i - 1)
  <2>1. i \in D /\ i \in 1 .. Len(s) /\ i - 1 \in 0 .. Len(s) /\ end[i] \in 1 .. Len(s)
    <3>1. i \in D
      BY <1>1
    <3> HIDE DEF i
    <3>2. i \in 1 .. Len(s) /\ end[i] \in 1 .. Len(s)
      BY <3>1
    <3> QED BY <3>1, <3>2
  <2>2. r.kept \in Seq(X) /\ r.last \in 1 .. Len(s) + 1
    OBVIOUS
  <2> HIDE DEF i
  <2>3. sub \in Seq(X)
    BY <2>1, <2>2, SubSeqType
  <2> DEFINE e == end[i] + 1
             k == r.kept \o sub
  <2>4. e \in 1 .. Len(s) + 1
    BY <2>1
  <2> HIDE DEF sub, e
  <2>5. k \in Seq(X)
    BY <2>2, <2>3
  <2> HIDE DEF k
  <2>6. [kept |-> k, last |-> e] \in S
    BY <2>4, <2>5
  <2> QED BY <2>6, <1>1 DEF WithoutStep, k, e, sub, i
<1> HIDE DEF S, b
<1>4. F \in [S \X (1 .. K) -> S]
  <2>1. \A rn \in S \X (1 .. K) : WithoutStep(s, end, rn[1], rn[2]) \in S
    BY <1>3
  <2> QED BY <2>1
<1>5. PICK f \in [0 .. K -> S] : Follows(f, b, K, F)
  <2> HIDE DEF F
  <2> QED BY <1>1, <1>2, <1>4, Recursion
<1>6. Is(f)
  <2>1. \A n \in 0 .. K : f[n] = IF n = 0 THEN b ELSE WithoutStep(s, end, f[n - 1], n)
    <3> SUFFICES ASSUME NEW n \in 0 .. K PROVE f[n] = IF n = 0 THEN b
              ELSE WithoutStep(s, end, f[n - 1], n)
      OBVIOUS
    <3>1. CASE n = 0
      BY <3>1, <1>5 DEF Follows
    <3>2. CASE n # 0
      <4>1. n - 1 \in 0 .. K /\ n \in 1 .. K
        BY <3>2, <1>1
      <4>2. <<f[n - 1], n>> \in S \X (1 .. K)
        BY <4>1
      <4>3. F[<<f[n - 1], n>>] = WithoutStep(s, end, f[n - 1], n)
        BY <4>2
      <4> HIDE DEF F
      <4> QED BY <4>1, <4>3, <3>2, <1>5 DEF Follows
    <3> QED BY <3>1, <3>2
  <2> QED BY <2>1
<1> DEFINE g == CHOOSE f1 : Is(f1)
<1>7. Is(g)
  <2> HIDE DEF Is
  <2> QED BY <1>6
<1>8. Without(s, end) = g[K].kept \o SubSeq(s, g[K].last, Len(s))
  BY <1>1 DEF Without, WithoutStep, b, K
<1> HIDE DEF g
<1>9. \A n \in 0 .. K : g[n] = IF n = 0 THEN b ELSE WithoutStep(s, end, g[n - 1], n)
  <2> DEFINE T(n) == IF n = 0 THEN b ELSE WithoutStep(s, end, g[n - 1], n)
  <2>1. g = [n \in 0 .. K |-> T(n)]
    BY <1>7
  <2> HIDE DEF T
  <2>2. \A n \in 0 .. K : g[n] = T(n)
    BY <2>1
  <2> QED BY <2>2 DEF T
<1>10. \A n \in 0 .. K : g[n] \in S
  <2> DEFINE T == {n \in 0 .. K : g[n] \in S}
  <2>1. 0 \in T
    BY <1>1, <1>2, <1>9
  <2>2. \A n \in 0 .. K : n \in T /\ n < K => n + 1 \in T
    <3> SUFFICES ASSUME NEW n \in 0 .. K, n \in T, n < K PROVE n + 1 \in T
      OBVIOUS
    <3> DEFINE m == n + 1
    <3>1. m \in 1 .. K /\ m - 1 = n /\ m \in 0 .. K /\ m # 0
      BY <1>1
    <3> HIDE DEF m
    <3>2. g[m] = WithoutStep(s, end, g[n], m)
      BY <3>1, <1>9
    <3>3. g[m] \in S
      BY <3>1, <3>2, <1>3
    <3> QED BY <3>1, <3>3 DEF m
  <2> HIDE DEF T
  <2>3. \A n \in 0 .. K : n \in T
    BY <2>1, <2>2, <1>1, Induction
  <2> QED BY <2>3 DEF T
<1>11. g \in [0 .. K -> S]
  <2>1. DOMAIN g = 0 .. K /\ g = [n \in 0 .. K |-> g[n]]
    BY <1>7 DEF g
  <2> HIDE DEF g
  <2> QED BY <2>1, <1>10
<1>12. g[0] = b /\ \A n \in 1 .. K : g[n] = WithoutStep(s, end, g[n - 1], n)
  BY <1>1, <1>9
<1>13. Scans(s, end, K, g)
  BY <1>8, <1>12 DEF Scans, b
<1>14. g \in [0 .. K -> ScanState(X, s)]
  BY <1>11 DEF S, ScanState
<1> QED BY <1>13, <1>14 DEF K

(* A text without some of its spans is still one of items.                 *)
LEMMA WithoutType ==
    ASSUME NEW X, NEW s \in Seq(X), NEW D \in SUBSET (1 .. Len(s)), NEW end \in [D -> 1 .. Len(s)]
    PROVE  Without(s, end) \in Seq(X)
<1>1. Cardinality(D) \in Nat
  BY FiniteInterval, LenProperties
<1>2. PICK g \in [0 .. Cardinality(D) -> ScanState(X, s)] : Scans(s, end, Cardinality(D), g)
  BY WithoutScan
<1> DEFINE r == g[Cardinality(D)]
<1>3. r \in ScanState(X, s) /\ Without(s, end) = r.kept \o SubSeq(s, r.last, Len(s))
  BY <1>1, <1>2 DEF Scans
<1> HIDE DEF r
<1>4. r.kept \in Seq(X) /\ r.last \in 1 .. Len(s) + 1
  BY <1>3 DEF ScanState
<1> DEFINE sub == SubSeq(s, r.last, Len(s))
<1>5. sub \in Seq(X)
  <2>1. Len(s) \in 0 .. Len(s)
    OBVIOUS
  <2> QED BY <2>1, <1>4, SubSeqType
<1> HIDE DEF sub
<1>6. r.kept \o sub \in Seq(X)
  BY <1>4, <1>5
<1> QED BY <1>3, <1>6 DEF sub

LEMMA StripType ==
    ASSUME NEW s \in Seq(Items)
    PROVE  StripAbstract(StripCommand(StripCommand(s, "title"), "author")) \in Seq(Items)
<1>1. ASSUME NEW x \in Seq(Items), NEW command \in {"title", "author"}
      PROVE  StripCommand(x, command) \in Seq(Items)
  <2> DEFINE D == {j \in Positions(x, command) : Closing(x, j) # 0}
             end == [i \in D |-> Closing(x, i)]
  <2>1. \A i \in D : i \in 1 .. Len(x) /\ Closing(x, i) \in 1 .. Len(x)
    <3>1. \A i \in D : i \in GroupOpens(x) /\ i \in 1 .. Len(x) /\ Closing(x, i) # 0
      BY DEF Positions, GroupOpens, Openers
    <3>2. \A i \in D : Closing(x, i) \in i + 1 .. Len(x)
      BY <3>1, ClosingIs
    <3> QED BY <3>1, <3>2
  <2>2. D \in SUBSET (1 .. Len(x)) /\ end \in [D -> 1 .. Len(x)]
    BY <2>1
  <2>3. StripCommand(x, command) = Without(x, end)
    BY DEF StripCommand
  <2> HIDE DEF D, end
  <2> QED BY <2>2, <2>3, WithoutType
<1>2. ASSUME NEW x \in Seq(Items) PROVE StripAbstract(x) \in Seq(Items)
  <2> DEFINE B == {i \in Positions(x, "abstract") : EndAfter(x, i) # {}}
             e == [i \in B |-> First(EndAfter(x, i))]
             D == {i \in B : ~\E k \in B : k < i /\ i < e[k]}
             end == [i \in D |-> e[i]]
  <2>1. \A i \in B : i \in 1 .. Len(x) /\ First(EndAfter(x, i)) \in 1 .. Len(x)
    <3> SUFFICES ASSUME NEW i \in B PROVE i \in 1 .. Len(x) /\ First(EndAfter(x, i)) \in 1 .. Len(x)
      OBVIOUS
    <3>1. EndAfter(x, i) \in SUBSET Nat /\ EndAfter(x, i) \in SUBSET (1 .. Len(x))
              /\ EndAfter(x, i) # {}
      BY DEF EndAfter, Positions
    <3>2. First(EndAfter(x, i)) \in EndAfter(x, i)
      BY <3>1, FirstProperties
    <3> QED BY <3>1, <3>2 DEF Positions
  <2>2. e \in [B -> 1 .. Len(x)]
    BY <2>1
  <2>3. StripAbstract(x) = Without(x, end)
    BY DEF StripAbstract
  <2>4. B \in SUBSET (1 .. Len(x))
    BY <2>1
  <2> HIDE DEF B, e
  <2>5. D \in SUBSET (1 .. Len(x)) /\ end \in [D -> 1 .. Len(x)]
    <3>1. \A i \in D : i \in B /\ e[i] \in 1 .. Len(x)
      BY <2>2
    <3> QED BY <3>1, <2>4
  <2> HIDE DEF D, end
  <2> QED BY <2>3, <2>5, WithoutType
<1>3. StripCommand(s, "title") \in Seq(Items)
  BY <1>1
<1>4. StripCommand(StripCommand(s, "title"), "author") \in Seq(Items)
  <2> DEFINE x == StripCommand(s, "title")
  <2> HIDE DEF x
  <2>1. StripCommand(x, "author") \in Seq(Items)
    BY <1>1, <1>3 DEF x
  <2> QED BY <2>1 DEF x
<1> QED BY <1>2, <1>4

LEMMA ItemType == ASSUME NEW is \in Kinds PROVE Item(is) \in Items
<1>1. <<>> \in Seq(STRING)
  OBVIOUS
<1> QED BY <1>1 DEF Item, Items

(* So are the title block and its parts, and the text with the block in    *)
(* place.                                                                  *)
LEMMA CleanType == ASSUME NEW s \in Seq(Items) PROVE Clean(s) \in Seq(Items)
<1> DEFINE Sign(i) == s[i].is \in {"percent", "percentsign"}
           Cut(i) == \E j \in 1 .. i - 1 : Sign(j) /\ \A k \in j .. i - 1 : s[k].is # "newline"
           S == {i \in 1 .. Len(s) : ~Cut(i) /\ s[i].is \notin {"newline", "percent"}}
           kept == At(s, S)
<1>1. Clean(s) = [i \in 1 .. Len(kept) |-> IF kept[i].is = "percentsign" THEN Item("backslash")
          ELSE kept[i]]
  BY DEF Clean
<1>2. S \in SUBSET (1 .. Len(s))
  OBVIOUS
<1> HIDE DEF S
<1>3. kept \in Seq(Items)
  BY <1>2, AtProperties
<1>4. Item("backslash") \in Items
  BY ItemType DEF Kinds
<1> HIDE DEF kept
<1>5. Len(kept) \in Nat /\ \A i \in 1 .. Len(kept) : kept[i] \in Items
  BY <1>3
<1>6. Clean(s) \in [1 .. Len(kept) -> Items]
  BY <1>1, <1>4, <1>5
<1> QED BY <1>5, <1>6

LEMMA BlockType ==
    ASSUME NEW title \in Seq(Items), NEW author \in Seq(Items), NEW abstract \in SUBSET Seq(Items)
    PROVE  TitleBlock(title, author, abstract) \in Seq(Items)
<1> DEFINE sec == Item("section")
           end == Item("close")
           nl == Item("newline")
           em == Item("emph")
           body == CHOOSE b \in abstract : TRUE
           t == Clean(title)
           u == Clean(author)
<1>1. sec \in Items /\ end \in Items /\ nl \in Items /\ em \in Items
  BY ItemType DEF Kinds, Openers
<1>2. t \in Seq(Items) /\ u \in Seq(Items)
  BY CleanType
<1>3. abstract # {} => body \in Seq(Items)
  OBVIOUS
<1> DEFINE a1 == IF title = <<>> THEN <<>> ELSE <<sec>> \o t \o <<end, nl>>
           a2 == IF u = <<>> THEN <<>> ELSE <<em>> \o u \o <<end, nl>>
           a3 == IF abstract = {} THEN <<>> ELSE <<sec, end, nl>> \o body \o <<nl>>
<1>4. TitleBlock(title, author, abstract) = a1 \o a2 \o a3
  BY DEF TitleBlock
<1> HIDE DEF sec, end, nl, em, body, t, u
<1>5. <<sec>> \in Seq(Items) /\ <<em>> \in Seq(Items) /\ <<nl>> \in Seq(Items)
          /\ <<end, nl>> \in Seq(Items)
      /\ <<sec, end, nl>> \in Seq(Items) /\ <<>> \in Seq(Items)
  BY <1>1
<1>6. a1 \in Seq(Items)
  <2>1. <<sec>> \o t \o <<end, nl>> \in Seq(Items)
    BY <1>2, <1>5
  <2> QED BY <2>1, <1>5
<1>7. a2 \in Seq(Items)
  <2>1. <<em>> \o u \o <<end, nl>> \in Seq(Items)
    BY <1>2, <1>5
  <2> QED BY <2>1, <1>5
<1>8. a3 \in Seq(Items)
  <2>1. abstract # {} => <<sec, end, nl>> \o body \o <<nl>> \in Seq(Items)
    BY <1>3, <1>5
  <2> QED BY <2>1, <1>5
<1> HIDE DEF a1, a2, a3
<1>9. a1 \o a2 \o a3 \in Seq(Items)
  BY <1>6, <1>7, <1>8
<1> QED BY <1>4, <1>9

LEMMA InnerType ==
    ASSUME NEW s \in Seq(Items), NEW command \in {"title", "author"}
    PROVE  Inner(s, command) \in Seq(Items)
<1> DEFINE at == {i \in Positions(s, command) : ~InComment(s, i) /\ Closing(s, i) # 0}
           f == First(at)
           c == Closing(s, f)
<1>1. Inner(s, command) = IF at = {} THEN <<>> ELSE SubSeq(s, f + 1, c - 1)
  BY DEF Inner
<1>2. ASSUME at # {} PROVE SubSeq(s, f + 1, c - 1) \in Seq(Items)
  <2>1. \A i \in at : i \in GroupOpens(s) /\ i \in 1 .. Len(s) /\ Closing(s, i) # 0
    BY DEF Positions, GroupOpens, Openers
  <2>2. f \in at
    <3>1. at \in SUBSET Nat
      BY <2>1
    <3> HIDE DEF at
    <3> QED BY <3>1, <1>2, FirstProperties
  <2>3. c \in f + 1 .. Len(s) /\ f \in 1 .. Len(s)
    <3> HIDE DEF at, f
    <3> QED BY <2>1, <2>2, ClosingIs
  <2> HIDE DEF f, c
  <2>4. f + 1 \in 1 .. Len(s) + 1 /\ c - 1 \in 0 .. Len(s)
    BY <2>3
  <2> QED BY <2>4, SubSeqType
<1> HIDE DEF at, f, c
<1> QED BY <1>1, <1>2

LEMMA AbstractType == ASSUME NEW s \in Seq(Items) PROVE AbstractBody(s) \in SUBSET Seq(Items)
<1> DEFINE at == {i \in Positions(s, "abstract") : ~InComment(s, i)}
           f == First(at)
           e == First(EndAfter(s, f))
<1>1. AbstractBody(s) = IF at = {} \/ EndAfter(s, f) = {} THEN {} ELSE {SubSeq(s, f + 1, e - 1)}
  BY DEF AbstractBody
<1>2. ASSUME at # {}, EndAfter(s, f) # {} PROVE SubSeq(s, f + 1, e - 1) \in Seq(Items)
  <2>1. \A i \in at : i \in 1 .. Len(s)
    BY DEF Positions
  <2>2. f \in at
    <3>1. at \in SUBSET Nat
      BY <2>1
    <3> HIDE DEF at
    <3> QED BY <3>1, <1>2, FirstProperties
  <2>3. f \in 1 .. Len(s)
    BY <2>1, <2>2
  <2>4. e \in 1 .. Len(s)
    <3>1. EndAfter(s, f) \in SUBSET Nat /\ EndAfter(s, f) \in SUBSET (1 .. Len(s))
      BY DEF EndAfter, Positions
    <3>2. e \in EndAfter(s, f)
      <4> HIDE DEF f
      <4> QED BY <3>1, <1>2, FirstProperties
    <3> QED BY <3>1, <3>2
  <2> HIDE DEF f, e
  <2>5. f + 1 \in 1 .. Len(s) + 1 /\ e - 1 \in 0 .. Len(s)
    BY <2>3, <2>4
  <2> QED BY <2>5, SubSeqType
<1> HIDE DEF at, f, e
<1> QED BY <1>1, <1>2

LEMMA PlacedType ==
    ASSUME NEW s \in Seq(Items), NEW block \in Seq(Items)
    PROVE  Placed(s, block) \in Seq(Items)
<1>1. ASSUME NEW is, Positions(s, is) # {} PROVE First(Positions(s, is)) \in 1 .. Len(s)
  <2>1. Positions(s, is) \in SUBSET Nat /\ Positions(s, is) \in SUBSET (1 .. Len(s))
    BY DEF Positions
  <2> QED BY <2>1, <1>1, FirstProperties
<1>2. ASSUME NEW a \in 0 .. Len(s), NEW b \in 1 .. Len(s) + 1
      PROVE  SubSeq(s, 1, a) \o block \o SubSeq(s, b, Len(s)) \in Seq(Items)
  <2> DEFINE x == SubSeq(s, 1, a)
             y == SubSeq(s, b, Len(s))
  <2>1. 1 \in 1 .. Len(s) + 1 /\ Len(s) \in 0 .. Len(s)
    OBVIOUS
  <2>2. x \in Seq(Items) /\ y \in Seq(Items)
    BY <2>1, SubSeqType
  <2> HIDE DEF x, y
  <2>3. x \o block \o y \in Seq(Items)
    BY <2>2
  <2> QED BY <2>3 DEF x, y
<1>3. \A f \in 1 .. Len(s) : f - 1 \in 0 .. Len(s) /\ f \in 0 .. Len(s) /\ f + 1 \in 1 .. Len(s) + 1
  OBVIOUS
<1>4. block \o s \in Seq(Items)
  OBVIOUS
<1> DEFINE m == First(Positions(s, "maketitle"))
           b == First(Positions(s, "begin"))
<1>5. Positions(s, "maketitle") # {} =>
        SubSeq(s, 1, m - 1) \o block \o SubSeq(s, m + 1, Len(s)) \in Seq(Items)
  BY <1>1, <1>2, <1>3
<1>6. Positions(s, "begin") # {} =>
        SubSeq(s, 1, b) \o block \o SubSeq(s, b + 1, Len(s)) \in Seq(Items)
  BY <1>1, <1>2, <1>3
<1> QED BY <1>4, <1>5, <1>6 DEF Placed

(* The rewritten source is a sequence of items.                            *)
LEMMA RewrittenType == ASSUME NEW s \in Seq(Items) PROVE Rewritten(s) \in Seq(Items)
<1> DEFINE x == StripAbstract(StripCommand(StripCommand(s, "title"), "author"))
           block == TitleBlock(Inner(s, "title"), Inner(s, "author"), AbstractBody(s))
<1>1. x \in Seq(Items)
  BY StripType
<1>2. block \in Seq(Items)
  BY InnerType, AbstractType, BlockType
<1>3. Placed(x, block) \in Seq(Items)
  <2> HIDE DEF x, block
  <2> QED BY <1>1, <1>2, PlacedType
<1> QED BY <1>3 DEF Rewritten

-----------------------------------------------------------------------------
(* Comments.                                                               *)

(* A text does not start in a comment.                                     *)
LEMMA CommentStart == ASSUME NEW s PROVE ~InComment(s, 1)
BY DEF InComment

(* Whether the next item is in a comment: that depends on this one.        *)
LEMMA CommentStep ==
    ASSUME NEW X, NEW s \in Seq(X), NEW i \in 1 .. Len(s)
    PROVE  InComment(s, i + 1) <=> /\ s[i].is # "newline"
                                   /\ s[i].is = "percent" \/ InComment(s, i)
<1>1. i \in Nat /\ (i + 1) - 1 = i
  OBVIOUS
<1>2. InComment(s, i + 1) <=> \E j \in 1 .. i : s[j].is = "percent"
          /\ \A k \in j .. i : s[k].is # "newline"
  BY <1>1 DEF InComment
<1>3. ASSUME InComment(s, i + 1) PROVE s[i].is # "newline" /\ (s[i].is = "percent" \/ InComment(s, i))
  <2>1. PICK j \in 1 .. i : s[j].is = "percent" /\ \A k \in j .. i : s[k].is # "newline"
    BY <1>2, <1>3
  <2>2. s[i].is # "newline"
    BY <2>1
  <2>3. CASE j = i
    BY <2>1, <2>2, <2>3
  <2>4. CASE j # i
    <3>1. j \in 1 .. i - 1 /\ \A k \in j .. i - 1 : k \in j .. i
      BY <2>4
    <3> QED BY <2>1, <2>2, <3>1 DEF InComment
  <2> QED BY <2>3, <2>4
<1>4. ASSUME s[i].is # "newline", s[i].is = "percent" PROVE InComment(s, i + 1)
  <2>1. i \in 1 .. i /\ \A k \in i .. i : k = i
    OBVIOUS
  <2> QED BY <2>1, <1>2, <1>4
<1>5. ASSUME s[i].is # "newline", InComment(s, i) PROVE InComment(s, i + 1)
  <2>1. PICK j \in 1 .. i - 1 : s[j].is = "percent" /\ \A k \in j .. i - 1 : s[k].is # "newline"
    BY <1>5 DEF InComment
  <2>2. j \in 1 .. i /\ \A k \in j .. i : k \in j .. i - 1 \/ k = i
    OBVIOUS
  <2> QED BY <2>1, <2>2, <1>2, <1>5
<1> QED BY <1>3, <1>4, <1>5

(* InComment for the text that s has at R: what stands elsewhere counts    *)
(* neither as a % sign nor as a line break.                                *)
InCommentOf(s, R, i) ==
    \E j \in R : j < i /\ s[j].is = "percent" /\ \A k \in R : j <= k /\ k < i => s[k].is # "newline"

(* It goes on from one item to the next, and what stands elsewhere does    *)
(* not change it.                                                          *)
LEMMA OutsideStepOf ==
    ASSUME NEW X, NEW s \in Seq(X), NEW R \in SUBSET (1 .. Len(s)), NEW i \in 1 .. Len(s)
    PROVE  InCommentOf(s, R, i + 1) <=>
               IF i \in R THEN s[i].is # "newline" /\ (s[i].is = "percent" \/ InCommentOf(s, R, i))
               ELSE InCommentOf(s, R, i)
<1>1. R \in SUBSET Int /\ i \in Int
  OBVIOUS
<1>2. \A k \in R : k < i + 1 <=> (k < i \/ k = i)
  BY <1>1
<1>3. CASE i \notin R
  <2>1. \A k \in R : k < i + 1 <=> k < i
    BY <1>2, <1>3
  <2> QED BY <2>1, <1>3 DEF InCommentOf
<1>4. CASE i \in R
  <2>1. ASSUME InCommentOf(s, R, i + 1) PROVE s[i].is # "newline"
            /\ (s[i].is = "percent" \/ InCommentOf(s, R, i))
    <3>1. PICK j \in R : j < i + 1 /\ s[j].is = "percent" /\ \A k \in R : j <= k /\ k < i + 1 =>
              s[k].is # "newline"
      BY <2>1 DEF InCommentOf
    <3>2. j <= i /\ s[i].is # "newline"
      BY <3>1, <1>1, <1>4
    <3>3. CASE j = i
      BY <3>1, <3>2, <3>3
    <3>4. CASE j # i
      <4>1. j < i
        BY <3>2, <3>4, <1>1
      <4> QED BY <3>1, <3>2, <4>1, <1>2 DEF InCommentOf
    <3> QED BY <3>3, <3>4
  <2>2. ASSUME s[i].is # "newline", s[i].is = "percent" PROVE InCommentOf(s, R, i + 1)
    <3>1. \A k \in R : i <= k /\ k < i + 1 => k = i
      BY <1>1
    <3>2. i < i + 1
      BY <1>1
    <3> QED BY <3>1, <3>2, <2>2, <1>4 DEF InCommentOf
  <2>3. ASSUME s[i].is # "newline", InCommentOf(s, R, i) PROVE InCommentOf(s, R, i + 1)
    <3>1. PICK j \in R : j < i /\ s[j].is = "percent" /\ \A k \in R : j <= k /\ k < i =>
              s[k].is # "newline"
      BY <2>3 DEF InCommentOf
    <3>2. j < i + 1 /\ \A k \in R : j <= k /\ k < i + 1 => s[k].is # "newline"
      BY <3>1, <2>3, <1>1, <1>2
    <3> QED BY <3>1, <3>2 DEF InCommentOf
  <2> QED BY <2>1, <2>2, <2>3, <1>4
<1> QED BY <1>3, <1>4

(* So a selection has its comments where InCommentOf sees them.            *)
LEMMA CommentOfAt ==
    ASSUME NEW X, NEW s \in Seq(X), NEW R \in SUBSET (1 .. Len(s)), NEW n \in 1 .. Cardinality(R)
    PROVE  InComment(At(s, R), n) <=> InCommentOf(s, R, InOrder(R)[n])
<1>1. IsFiniteSet(R) /\ R \in SUBSET Nat
  BY AtProperties
<1>2. PICK c \in Nat : c = Cardinality(R)
  BY <1>1, InOrderProperties
<1>3. PICK m \in [1 .. c -> R] : /\ m = InOrder(R) /\ \A i \in R : \E k \in 1 .. c : m[k] = i
                                 /\ \A j, k \in 1 .. c : j < k => m[j] < m[k]
  BY <1>1, <1>2, InOrderProperties
<1> DEFINE r == At(s, R)
<1>4. \A k \in 1 .. c : r[k] = s[m[k]]
  BY <1>2, <1>3, AtProperties
<1> HIDE DEF r
<1>5. n \in 1 .. c /\ n \in Nat
  BY <1>2
<1>6. \A j, k \in 1 .. c : m[j] \in Nat /\ (m[j] < m[k] <=> j < k) /\ (m[j] <= m[k] <=> j <= k)
  <2> SUFFICES ASSUME NEW j \in 1 .. c, NEW k \in 1 .. c
               PROVE m[j] \in Nat /\ (m[j] < m[k] <=> j < k) /\ (m[j] <= m[k] <=> j <= k)
    OBVIOUS
  <2>1. m[j] \in Nat /\ m[k] \in Nat /\ j \in Nat /\ k \in Nat
    <3>1. m[j] \in R /\ m[k] \in R
      OBVIOUS
    <3>2. \A x \in R : x \in Nat
      BY <1>1
    <3>3. j \in Nat /\ k \in Nat
      OBVIOUS
    <3> QED BY <3>1, <3>2, <3>3
  <2>2. (j < k => m[j] < m[k]) /\ (k < j => m[k] < m[j]) /\ (j = k => m[j] = m[k])
    BY <1>3
  <2>3. j < k \/ k < j \/ j = k
    BY <2>1
  <2> QED BY <2>1, <2>2, <2>3
<1>7. ASSUME InComment(r, n) PROVE InCommentOf(s, R, m[n])
  <2>1. PICK j \in 1 .. n - 1 : r[j].is = "percent" /\ \A k \in j .. n - 1 : r[k].is # "newline"
    BY <1>7 DEF InComment
  <2>2. j \in 1 .. c /\ j < n
    BY <1>5
  <2>3. m[j] \in R /\ m[j] < m[n] /\ s[m[j]].is = "percent"
    BY <2>1, <2>2, <1>4, <1>5, <1>6
  <2>4. ASSUME NEW i \in R, m[j] <= i, i < m[n] PROVE s[i].is # "newline"
    <3>1. PICK k \in 1 .. c : m[k] = i
      BY <1>3
    <3>2. j <= k /\ k < n
      BY <3>1, <2>4, <2>2, <1>5, <1>6
    <3>3. k \in j .. n - 1
      BY <3>2, <1>5
    <3> QED BY <3>1, <3>3, <2>1, <1>4
  <2> QED BY <2>3, <2>4 DEF InCommentOf
<1>8. ASSUME InCommentOf(s, R, m[n]) PROVE InComment(r, n)
  <2>1. PICK i \in R : i < m[n] /\ s[i].is = "percent" /\ \A k \in R : i <= k /\ k < m[n] =>
            s[k].is # "newline"
    BY <1>8 DEF InCommentOf
  <2>2. PICK j \in 1 .. c : m[j] = i
    BY <1>3
  <2>3. j \in 1 .. n - 1 /\ r[j].is = "percent"
    <3>1. j < n
      BY <2>1, <2>2, <1>5, <1>6
    <3>2. j \in 1 .. n - 1
      BY <3>1, <1>5
    <3> QED BY <3>2, <2>1, <2>2, <1>4
  <2>4. ASSUME NEW k \in j .. n - 1 PROVE r[k].is # "newline"
    <3>1. k \in 1 .. c /\ j <= k /\ k < n
      BY <1>5
    <3>2. m[k] \in R /\ i <= m[k] /\ m[k] < m[n]
      BY <3>1, <2>2, <1>5, <1>6
    <3> QED BY <3>1, <3>2, <2>1, <1>4
  <2> QED BY <2>3, <2>4 DEF InComment
<1> QED BY <1>3, <1>7, <1>8 DEF r

-----------------------------------------------------------------------------
(* Texts without some of their spans.                                      *)

(* The spans that end gives, from each a to end[a], are spans of s, one    *)
(* after the other.                                                        *)
SpansApart(s, end) ==
    /\ DOMAIN end \subseteq 1 .. Len(s)
    /\ end \in [DOMAIN end -> 1 .. Len(s)]
    /\ \A a \in DOMAIN end : a <= end[a]
    /\ \A a, b \in DOMAIN end : a < b => end[a] < b

(* What they cover, and what is outside.                                   *)
Covered(end) == UNION {a .. end[a] : a \in DOMAIN end}

Outside(s, end) == (1 .. Len(s)) \ Covered(end)

LEMMA CoveredIs ==
    ASSUME NEW end, NEW i
    PROVE  i \in Covered(end) <=> \E a \in DOMAIN end : i \in a .. end[a]
BY DEF Covered

(* Spans that neither open a comment nor close one leave the comments of   *)
(* the rest as they are.                                                   *)
LEMMA CommentsKept ==
    ASSUME NEW X, NEW s \in Seq(X), NEW end, SpansApart(s, end),
           \A a \in DOMAIN end : InComment(s, a) <=> InComment(s, end[a] + 1)
    PROVE  \A n \in 1 .. Cardinality(Outside(s, end)) :
                InComment(At(s, Outside(s, end)), n) <=> InComment(s, InOrder(Outside(s, end))[n])
<1> DEFINE R == Outside(s, end)
           N == Len(s)
           Free(i) == \A a \in DOMAIN end : ~(a < i /\ i <= end[a])
           Good(k) == Free(k) => (InComment(s, k) <=> InCommentOf(s, R, k))
           T == {i \in 0 .. N : \A k \in 1 .. i + 1 : Good(k)}
<1>1. N \in Nat /\ \A a \in DOMAIN end : a \in 1 .. N /\ end[a] \in 1 .. N /\ a <= end[a]
  BY DEF SpansApart
<1>2. R \in SUBSET (1 .. N) /\ \A i \in 1 .. N : i \in R <=> ~\E a \in DOMAIN end : i \in a .. end[a]
  BY CoveredIs DEF Outside
<1>3. \A a, b \in DOMAIN end : a < b => end[a] < b
  BY DEF SpansApart
<1> HIDE DEF R
<1>4. 0 \in T
  <2>1. ~InCommentOf(s, R, 1)
    BY <1>2 DEF InCommentOf
  <2>2. \A k \in 1 .. 0 + 1 : k = 1
    OBVIOUS
  <2>3. 0 \in 0 .. N
    BY <1>1
  <2> HIDE DEF N, Free
  <2> QED BY <2>1, <2>2, <2>3, CommentStart
<1>5. ASSUME NEW n \in 0 .. N, n \in T, n < N PROVE n + 1 \in T
  <2> DEFINE i == n + 1
  <2>1. i \in 1 .. N /\ i \in 0 .. N /\ i \in Int /\ i \in 1 .. n + 1
    BY <1>1, <1>5
  <2>2. \A k \in 1 .. i : Good(k)
    BY <1>5
  <2> HIDE DEF i
  <2>3. Good(i + 1)
    <3> SUFFICES ASSUME Free(i + 1) PROVE InComment(s, i + 1) <=> InCommentOf(s, R, i + 1)
      OBVIOUS
    <3>1. CASE i \in R
      <4>1. Free(i)
        BY <3>1, <1>1, <1>2, <2>1
      <4>2. InComment(s, i) <=> InCommentOf(s, R, i)
        BY <4>1, <2>1, <2>2
      <4> HIDE DEF N
      <4> QED BY <4>2, <3>1, <2>1, <1>2, CommentStep, OutsideStepOf DEF N
    <3>2. CASE i \notin R
      <4>1. PICK a \in DOMAIN end : i \in a .. end[a]
        BY <3>2, <1>2, <2>1
      <4>2. a \in 1 .. N /\ end[a] \in 1 .. N /\ a <= i /\ i <= end[a]
        BY <4>1, <1>1
      <4>3. end[a] = i
        BY <4>2, <2>1
      <4>4. Free(a)
        <5> SUFFICES ASSUME NEW b \in DOMAIN end, b < a, a <= end[b] PROVE FALSE
          OBVIOUS
        <5> QED BY <4>2, <1>1, <1>3
      <4>5. InComment(s, a) <=> InCommentOf(s, R, a)
        <5>1. a \in 1 .. i
          BY <4>2, <2>1
        <5> QED BY <5>1, <4>4, <2>2
      <4>6. \A k \in R : k < i + 1 <=> k < a
        <5> SUFFICES ASSUME NEW k \in R PROVE k < i + 1 <=> k < a
          OBVIOUS
        <5>1. k \in 1 .. N /\ ~(k \in a .. end[a])
          BY <1>2, <4>2
        <5> QED BY <5>1, <4>2, <4>3
      <4>7. InCommentOf(s, R, i + 1) <=> InCommentOf(s, R, a)
        BY <4>6 DEF InCommentOf
      <4> QED BY <4>3, <4>5, <4>7
    <3> QED BY <3>1, <3>2
  <2>4. \A k \in 1 .. i + 1 : k \in 1 .. i \/ k = i + 1
    BY <2>1
  <2> HIDE DEF Good
  <2>5. i \in T
    BY <2>1, <2>2, <2>3, <2>4
  <2> QED BY <2>5 DEF i
<1>6. \A n \in 0 .. N : n \in T
  <2> HIDE DEF T, N
  <2> QED BY <1>1, <1>4, <1>5, Induction
<1>7. ASSUME NEW i \in R PROVE InComment(s, i) <=> InCommentOf(s, R, i)
  <2>1. i \in 1 .. N /\ i \in 0 .. N /\ i \in 1 .. i + 1
    BY <1>2
  <2>2. Free(i)
    BY <1>1, <1>2, <2>1
  <2>3. Good(i)
    <3> HIDE DEF Good
    <3> QED BY <2>1, <1>6
  <2> QED BY <2>2, <2>3
<1>8. \A n \in 1 .. Cardinality(R) : InOrder(R)[n] \in R
  BY <1>2, AtProperties
<1>9. \A n \in 1 .. Cardinality(R) : InComment(At(s, R), n) <=> InCommentOf(s, R, InOrder(R)[n])
  BY <1>2, CommentOfAt
<1> QED BY <1>7, <1>8, <1>9 DEF R

(* Without is what stands outside the spans, in order. The scan has kept   *)
(* this up to its last span, which the next one starts after.              *)
LEMMA WithoutIs ==
    ASSUME NEW X, NEW s \in Seq(X), NEW end, SpansApart(s, end)
    PROVE  Without(s, end) = At(s, Outside(s, end))
<1> DEFINE D == DOMAIN end
           N == Len(s)
           K == Cardinality(D)
           R == Outside(s, end)
           UpTo(n) == {i \in R : i < n}
<1>1. N \in Nat /\ D \in SUBSET (1 .. N) /\ D \in SUBSET Nat /\ IsFiniteSet(D) /\ K \in Nat
  <2>1. N \in Nat
    OBVIOUS
  <2>2. D \in SUBSET (1 .. N) /\ D \in SUBSET Nat
    <3>1. D \in SUBSET (1 .. N)
      BY DEF SpansApart
    <3> QED BY <3>1
  <2> QED BY <2>1, <2>2, FiniteInterval
<1>2. end \in [D -> 1 .. N] /\ \A a \in D : a \in 1 .. N /\ end[a] \in 1 .. N /\ a <= end[a]
  BY DEF SpansApart
<1>3. \A a, b \in D : a < b => end[a] < b
  BY DEF SpansApart
<1>4. R \in SUBSET (1 .. N) /\ \A i \in 1 .. N : i \in R <=> ~\E a \in D : i \in a .. end[a]
  BY CoveredIs DEF Outside
<1>5. PICK m \in [1 .. K -> D] : /\ m = InOrder(D) /\ \A i \in D : \E k \in 1 .. K : m[k] = i
                                 /\ \A j, k \in 1 .. K : j < k => m[j] < m[k]
  BY <1>1, InOrderProperties
<1>6. PICK g \in [0 .. K -> ScanState(X, s)] : Scans(s, end, K, g)
  BY <1>1, <1>2, WithoutScan
<1>60. /\ g[0] = [kept |-> <<>>, last |-> 1]
       /\ \A n \in 1 .. K : g[n] = WithoutStep(s, end, g[n - 1], n)
       /\ Without(s, end) = g[K].kept \o SubSeq(s, g[K].last, N)
  BY <1>6 DEF Scans
<1> HIDE DEF R, K, N, D
<1> DEFINE Last1(n) == IF n = 0 THEN 0 ELSE end[m[n]]
           T == {n \in 0 .. K : g[n].last = Last1(n) + 1 /\ g[n].kept = At(s, UpTo(Last1(n) + 1))}
<1>7. \A n \in 0 .. K : Last1(n) \in 0 .. N
  <2> SUFFICES ASSUME NEW n \in 0 .. K PROVE Last1(n) \in 0 .. N
    OBVIOUS
  <2>1. CASE n = 0
    BY <2>1, <1>1
  <2>2. CASE n # 0
    <3>1. m[n] \in D
      BY <2>2, <1>1
    <3>2. end[m[n]] \in 1 .. N
      BY <3>1, <1>2
    <3> QED BY <2>2, <3>2
  <2> QED BY <2>1, <2>2
<1>8. ASSUME NEW n \in 0 .. K, NEW i \in Last1(n) + 1 .. N, \A k \in 1 .. K : n < k => i < m[k]
      PROVE  i \in R
  <2>1. i \in 1 .. N
    BY <1>1, <1>7
  <2> SUFFICES ASSUME NEW a \in D, i \in a .. end[a] PROVE FALSE
    BY <2>1, <1>4
  <2>2. PICK k \in 1 .. K : m[k] = a
    BY <1>5
  <2>3. a \in 1 .. N /\ end[a] \in 1 .. N /\ a <= i /\ i <= end[a]
    BY <1>2
  <2>4. k <= n
    BY <2>2, <2>3, <1>8, <1>1
  <2>5. n # 0 /\ n \in 1 .. K /\ Last1(n) = end[m[n]] /\ m[n] \in D
    BY <2>4, <1>1
  <2>6. end[a] <= Last1(n)
    <3>1. CASE k = n
      BY <3>1, <2>2, <2>3, <2>5
    <3>2. CASE k # n
      <4>1. k < n
        BY <3>2, <2>4, <1>1
      <4>2. a < m[n]
        BY <4>1, <2>2, <2>5, <1>5
      <4>3. end[a] < m[n] /\ m[n] <= end[m[n]] /\ m[n] \in 1 .. N /\ end[m[n]] \in 1 .. N
        BY <4>2, <2>5, <1>2, <1>3
      <4> QED BY <4>3, <2>3, <2>5
    <3> QED BY <3>1, <3>2
  <2>7. Last1(n) \in 0 .. N
    BY <1>7
  <2> HIDE DEF Last1
  <2> QED BY <2>1, <2>3, <2>6, <2>7, <1>8
<1>9. 0 \in T
  <2>0. \A i \in R : i \in 1 .. N
    BY <1>4
  <2>1. UpTo(1) = {} /\ 0 + 1 = 1
    BY <2>0, <1>1
  <2>2. At(s, UpTo(0 + 1)) = <<>>
    BY <2>1, AtEmpty
  <2>3. 0 \in 0 .. K /\ Last1(0) = 0
    BY <1>1
  <2> HIDE DEF UpTo, Last1
  <2> QED BY <2>2, <2>3, <1>60
<1>10. ASSUME NEW n \in 0 .. K, n \in T, n < K PROVE n + 1 \in T
  <2> DEFINE k == n + 1
             l == Last1(n)
             a == m[k]
             e == end[a]
  <2>1. k \in 1 .. K /\ k - 1 = n /\ k \in 0 .. K /\ k # 0
    BY <1>1, <1>10
  <2>2. l \in 0 .. N /\ g[n].last = l + 1 /\ g[n].kept = At(s, UpTo(l + 1))
    BY <1>7, <1>10
  <2>3. a \in D /\ a \in 1 .. N /\ e \in 1 .. N /\ a <= e /\ Last1(k) = e
    <3>1. a \in D
      BY <2>1
    <3> QED BY <3>1, <2>1, <1>2
  <2>4. g[k] = WithoutStep(s, end, g[n], k)
    BY <2>1, <1>60
  <2>5. WithoutStep(s, end, g[n], k) =
            [kept |-> g[n].kept \o SubSeq(s, g[n].last, a - 1), last |-> e + 1]
    BY <1>5 DEF WithoutStep, D
  <2>6. l < a
    <3>1. CASE n = 0
      BY <3>1, <2>3
    <3>2. CASE n # 0
      <4>1. n \in 1 .. K /\ n < k /\ l = end[m[n]]
        BY <3>2, <2>1, <1>1
      <4>2. m[n] \in D /\ m[n] < a
        BY <4>1, <2>1, <1>5
      <4> QED BY <4>1, <4>2, <2>3, <1>3
    <3> QED BY <3>1, <3>2
  <2> HIDE DEF l
  <2>7. \A i \in l + 1 .. a - 1 : i \in R
    <3> SUFFICES ASSUME NEW i \in l + 1 .. a - 1 PROVE i \in R
      OBVIOUS
    <3>1. i \in l + 1 .. N /\ i < a
      <4> HIDE DEF a, e
      <4> QED BY <2>2, <2>3, <1>1
    <3>2. ASSUME NEW j \in 1 .. K, n < j PROVE i < m[j]
      <4>1. j = k \/ k < j
        BY <3>2, <1>1
      <4>2. a = m[j] \/ a < m[j]
        BY <4>1, <2>1, <1>5
      <4>3. m[j] \in D
        OBVIOUS
      <4>4. m[j] \in 1 .. N
        BY <4>3, <1>2
      <4> HIDE DEF a
      <4> QED BY <3>1, <4>2, <4>4, <2>3
    <3> HIDE DEF a
    <3> QED BY <3>1, <3>2, <1>8 DEF l
  <2>8. UpTo(e + 1) = UpTo(l + 1) \cup (l + 1 .. a - 1)
    <3>1. ASSUME NEW i \in R, i < e + 1, ~(i < l + 1) PROVE i \in l + 1 .. a - 1
      <4>1. i \in 1 .. N /\ ~(i \in a .. e)
        BY <1>4, <2>3
      <4> HIDE DEF a, e
      <4> QED BY <4>1, <3>1, <2>2, <2>3
    <3>2. \A i \in l + 1 .. a - 1 : i < e + 1
      BY <2>2, <2>3
    <3>3. \A i \in R : i < l + 1 => i < e + 1
      <4>1. \A i \in R : i \in 1 .. N
        BY <1>4
      <4> HIDE DEF a, e
      <4> QED BY <4>1, <2>2, <2>3, <2>6
    <3> HIDE DEF a, e
    <3> QED BY <3>1, <3>2, <3>3, <2>7
  <2>9. SubSeq(s, l + 1, a - 1) = At(s, l + 1 .. a - 1)
    <3>1. l + 1 \in 1 .. Len(s) + 1 /\ a - 1 \in 0 .. Len(s)
      BY <2>2, <2>3 DEF N
    <3> HIDE DEF a
    <3> QED BY <3>1, AtInterval
  <2>10. At(s, UpTo(e + 1)) = At(s, UpTo(l + 1)) \o At(s, l + 1 .. a - 1)
    <3>1. UpTo(l + 1) \in SUBSET (1 .. Len(s)) /\ l + 1 .. a - 1 \in SUBSET (1 .. Len(s))
      <4>1. l + 1 .. a - 1 \in SUBSET (1 .. N)
        <5> HIDE DEF a, e
        <5> QED BY <2>2, <2>3, <1>1
      <4>2. UpTo(l + 1) \in SUBSET (1 .. N)
        BY <1>4
      <4> QED BY <4>1, <4>2 DEF N
    <3>2. \A i \in UpTo(l + 1), j \in l + 1 .. a - 1 : i < j
      <4>1. \A i \in R : i \in 1 .. N
        BY <1>4
      <4> QED BY <4>1, <2>2, <2>3
    <3> HIDE DEF a, UpTo
    <3>3. At(s, UpTo(l + 1) \cup (l + 1 .. a - 1)) = At(s, UpTo(l + 1)) \o At(s, l + 1 .. a - 1)
      BY <3>1, <3>2, AtConcat
    <3> QED BY <3>3, <2>8
  <2> HIDE DEF a, e, UpTo
  <2>11. g[k].last = e + 1 /\ g[k].kept = At(s, UpTo(e + 1))
    <3>1. g[k] = [kept |-> At(s, UpTo(l + 1)) \o SubSeq(s, l + 1, a - 1), last |-> e + 1]
      BY <2>2, <2>4, <2>5
    <3>2. At(s, UpTo(l + 1)) \o SubSeq(s, l + 1, a - 1) = At(s, UpTo(e + 1))
      BY <2>9, <2>10
    <3> DEFINE z == At(s, UpTo(e + 1))
               y == e + 1
    <3>3. g[k] = [kept |-> z, last |-> y]
      BY <3>1, <3>2
    <3> HIDE DEF z, y
    <3>4. g[k].kept = z /\ g[k].last = y
      BY <3>3
    <3> QED BY <3>4 DEF z, y
  <2> HIDE DEF k, Last1
  <2>12. k \in T
    BY <2>1, <2>3, <2>11
  <2> QED BY <2>12 DEF k
<1>11. \A n \in 0 .. K : n \in T
  <2> HIDE DEF T
  <2> QED BY <1>1, <1>9, <1>10, Induction
<1> DEFINE l == Last1(K)
<1>12. l \in 0 .. N /\ g[K].last = l + 1 /\ g[K].kept = At(s, UpTo(l + 1))
  <2>1. K \in 0 .. K
    BY <1>1
  <2> QED BY <2>1, <1>7, <1>11
<1>13. \A i \in l + 1 .. N : i \in R
  <2>1. K \in 0 .. K /\ \A k \in 1 .. K : ~(K < k)
    BY <1>1
  <2> HIDE DEF Last1
  <2> QED BY <2>1, <1>8
<1> HIDE DEF l, Last1
<1>14. R = UpTo(l + 1) \cup (l + 1 .. N)
  <2>1. \A i \in R : i \in 1 .. N
    BY <1>4
  <2> QED BY <2>1, <1>12, <1>13
<1>15. SubSeq(s, l + 1, N) = At(s, l + 1 .. N)
  <2>1. l + 1 \in 1 .. Len(s) + 1 /\ N \in 0 .. Len(s)
    BY <1>1, <1>12 DEF N
  <2> QED BY <2>1, AtInterval
<1>16. At(s, UpTo(l + 1) \cup (l + 1 .. N)) = At(s, UpTo(l + 1)) \o At(s, l + 1 .. N)
  <2>1. UpTo(l + 1) \in SUBSET (1 .. Len(s)) /\ l + 1 .. N \in SUBSET (1 .. Len(s))
    <3>1. UpTo(l + 1) \in SUBSET (1 .. N) /\ l + 1 .. N \in SUBSET (1 .. N)
      BY <1>1, <1>4, <1>12
    <3> QED BY <3>1 DEF N
  <2>2. \A i \in UpTo(l + 1), j \in l + 1 .. N : i < j
    <3>1. \A i \in R : i \in 1 .. N
      BY <1>4
    <3> QED BY <3>1, <1>12
  <2> HIDE DEF UpTo
  <2> QED BY <2>1, <2>2, AtConcat
<1> HIDE DEF UpTo
<1> DEFINE z == At(s, UpTo(l + 1))
<1>17. Without(s, end) = z \o SubSeq(s, l + 1, N)
  <2>1. g[K].kept = z /\ g[K].last = l + 1
    BY <1>12
  <2> DEFINE F(kept, last) == kept \o SubSeq(s, last, N)
  <2>2. Without(s, end) = F(g[K].kept, g[K].last)
    BY <1>60
  <2> HIDE DEF F, z
  <2>3. Without(s, end) = F(z, l + 1)
    BY <2>1, <2>2
  <2> QED BY <2>3 DEF F
<1>18. Without(s, end) = At(s, R)
  BY <1>14, <1>15, <1>16, <1>17
<1> QED BY <1>18 DEF R

(* What is left of s without the spans that start in D.                    *)
Left(s, end, D) == (1 .. Len(s)) \ UNION {a .. end[a] : a \in D}

LEMMA LeftIs ==
    ASSUME NEW s, NEW end, NEW D, NEW i \in 1 .. Len(s)
    PROVE  i \in Left(s, end, D) <=> ~\E a \in D : i \in a .. end[a]
BY DEF Left

(* A span that is left is left as a whole, one item after the other.       *)
LEMMA RunLeft ==
    ASSUME NEW X, NEW s \in Seq(X), NEW end, SpansApart(s, end), NEW A \in SUBSET DOMAIN end,
           NEW a \in DOMAIN end, a \notin A,
           NEW n, Comes(Left(s, end, A), n, a)
    PROVE  \A k \in 0 .. end[a] - a : Comes(Left(s, end, A), n + k, a + k)
<1> DEFINE N == Len(s)
           R == Left(s, end, A)
           b == end[a]
           d == b - a
<1>1. N \in Nat /\ \A x \in DOMAIN end : x \in 1 .. N /\ end[x] \in 1 .. N /\ x <= end[x]
  BY DEF SpansApart
<1>2. \A x, y \in DOMAIN end : x < y => end[x] < y
  BY DEF SpansApart
<1>3. R \in SUBSET (1 .. N) /\ \A i \in 1 .. N : i \in R <=> ~\E x \in A : i \in x .. end[x]
  BY LeftIs DEF Left
<1> HIDE DEF R, N, b
<1>4. R \in SUBSET Nat /\ IsFiniteSet(R)
  <2>1. R \in SUBSET Nat
    BY <1>1, <1>3
  <2> QED BY <2>1, <1>1, <1>3, FiniteInterval
<1>5. a \in 1 .. N /\ b \in 1 .. N /\ a <= b
  BY <1>1 DEF b
<1>6. Run(R, a, d)
  <2> SUFFICES ASSUME NEW k \in 0 .. d, a + k \notin R PROVE FALSE
    BY DEF Run
  <2> DEFINE i == a + k
  <2>1. i \in 1 .. N /\ a <= i /\ i <= b
    BY <1>1, <1>5
  <2> HIDE DEF i
  <2>2. PICK x \in A : i \in x .. end[x]
    BY <2>1, <1>3 DEF i
  <2>3. x \in 1 .. N /\ end[x] \in 1 .. N /\ x \in DOMAIN end /\ x # a
    BY <1>1
  <2>4. x < a \/ a < x
    BY <2>3, <1>5, <1>1
  <2>5. end[x] < a \/ b < x
    BY <2>3, <2>4, <1>2 DEF b
  <2> QED BY <2>1, <2>2, <2>3, <2>5, <1>1, <1>5
<1>7. a \in Nat /\ d \in Nat
  BY <1>1, <1>5
<1>8. Comes(R, n, a)
  BY DEF R
<1> HIDE DEF d
<1>9. \A k \in 0 .. d : Comes(R, n + k, a + k)
  BY <1>4, <1>6, <1>7, <1>8, Segment
<1> QED BY <1>9 DEF R, d, b

(* f gives the spans that start in B where they are once those that start  *)
(* in A are gone.                                                          *)
NextSpans(s, end, A, B, f) ==
    LET R == Left(s, end, A) IN
    /\ A \cap B = {}
    /\ DOMAIN f = {n \in 1 .. Cardinality(R) : InOrder(R)[n] \in B}
    /\ f = [n \in DOMAIN f |-> f[n]]
    /\ \A n \in DOMAIN f : f[n] = n + (end[InOrder(R)[n]] - InOrder(R)[n])

(* To cut out A first and B from what is left is to cut out both.          *)
LEMMA CutOut ==
    ASSUME NEW X, NEW s \in Seq(X), NEW end, SpansApart(s, end),
           NEW A \in SUBSET DOMAIN end, NEW B \in SUBSET DOMAIN end,
           NEW f, NextSpans(s, end, A, B, f)
    PROVE  Without(At(s, Left(s, end, A)), f) = At(s, Left(s, end, A \cup B))
<1> DEFINE R == Left(s, end, A)
           r == At(s, R)
           N == Len(s)
           Q == Left(s, end, A \cup B)
<1>1. N \in Nat /\ \A a \in DOMAIN end : a \in 1 .. N /\ end[a] \in 1 .. N /\ a <= end[a]
  BY DEF SpansApart
<1>2. \A a, b \in DOMAIN end : a < b => end[a] < b
  BY DEF SpansApart
<1>3. R \in SUBSET (1 .. N) /\ \A i \in 1 .. N : i \in R <=> ~\E a \in A : i \in a .. end[a]
  BY LeftIs DEF Left
<1>4. Q \in SUBSET R /\ \A i \in R : i \in Q <=> ~\E a \in B : i \in a .. end[a]
  <2>1. Q \in SUBSET (1 .. N) /\ \A i \in 1 .. N : i \in Q <=> ~\E a \in A \cup B : i \in a .. end[a]
    BY LeftIs DEF Left
  <2> HIDE DEF R, Q
  <2> QED BY <2>1, <1>3
<1>5. R \in SUBSET Nat /\ IsFiniteSet(R)
  <2>1. R \in SUBSET Nat
    BY <1>3
  <2> HIDE DEF R, N
  <2> QED BY <2>1, <1>1, <1>3, FiniteInterval
<1>6. PICK c \in Nat : c = Cardinality(R)
  BY <1>5, InOrderProperties
<1>7. PICK m \in [1 .. c -> R] : /\ m = InOrder(R) /\ \A i \in R : \E n \in 1 .. c : m[n] = i
                                 /\ \A j, k \in 1 .. c : j < k => m[j] < m[k]
  BY <1>5, <1>6, InOrderProperties
<1>8. r \in Seq(X) /\ Len(r) = c
  BY <1>3, <1>6, AtProperties
<1> DEFINE D == {n \in 1 .. c : m[n] \in B}
<1>9. /\ DOMAIN f = D /\ f = [n \in D |-> f[n]]
      /\ \A n \in D : f[n] = n + (end[m[n]] - m[n])
      /\ A \cap B = {}
  BY <1>6, <1>7 DEF NextSpans
<1> HIDE DEF R, Q, N, r
<1>10. \A j, k \in 1 .. c : m[j] \in 1 .. N /\ (m[j] < m[k] <=> j < k) /\ (m[j] <= m[k] <=> j <= k)
  <2> SUFFICES ASSUME NEW j \in 1 .. c, NEW k \in 1 .. c
               PROVE m[j] \in 1 .. N /\ (m[j] < m[k] <=> j < k) /\ (m[j] <= m[k] <=> j <= k)
    OBVIOUS
  <2>1. m[j] \in Nat /\ m[k] \in Nat /\ j \in Nat /\ k \in Nat /\ m[j] \in 1 .. N
    <3>1. m[j] \in R /\ m[k] \in R
      OBVIOUS
    <3>2. \A x \in R : x \in Nat /\ x \in 1 .. N
      BY <1>3, <1>5
    <3>3. j \in Nat /\ k \in Nat
      OBVIOUS
    <3> QED BY <3>1, <3>2, <3>3
  <2>2. (j < k => m[j] < m[k]) /\ (k < j => m[k] < m[j]) /\ (j = k => m[j] = m[k])
    BY <1>7
  <2>3. j < k \/ k < j \/ j = k
    BY <2>1
  <2> QED BY <2>1, <2>2, <2>3
<1>11. ASSUME NEW n \in D
       PROVE  n \in 1 .. c /\ f[n] \in 1 .. c /\ n <= f[n] /\ m[n] \in B /\ m[f[n]] = end[m[n]]
  <2> DEFINE a == m[n]
             b == end[a]
  <2>1. n \in 1 .. c /\ a \in B /\ a \notin A /\ a \in R /\ a \in 1 .. N /\ b \in 1 .. N
            /\ a <= b /\ f[n] = n + (b - a)
    <3>1. n \in 1 .. c /\ a \in B /\ a \notin A /\ a \in R /\ f[n] = n + (b - a)
      BY <1>9
    <3> HIDE DEF a
    <3> QED BY <3>1, <1>1
  <2> HIDE DEF a, b
  <2> DEFINE d == b - a
  <2>3. a \in Nat /\ d \in Nat /\ a + d = b /\ f[n] = n + d
    BY <2>1
  <2>4. Comes(R, n, a) /\ a \in DOMAIN end /\ a \notin A
    BY <2>1, <1>6, <1>7 DEF a, Comes
  <2>5. \A k \in 0 .. d : Comes(R, n + k, a + k)
    <3> HIDE DEF D
    <3> QED BY <2>4, RunLeft DEF R, b
  <2>6. f[n] \in 1 .. Cardinality(R) /\ InOrder(R)[f[n]] = b
    <3>1. d \in 0 .. d
      BY <2>3
    <3> HIDE DEF d
    <3> QED BY <3>1, <2>3, <2>5 DEF Comes
  <2>7. f[n] \in 1 .. c /\ m[f[n]] = b
    BY <2>1, <2>6, <1>6, <1>7
  <2>8. n <= f[n]
    BY <2>1
  <2> QED BY <2>1, <2>7, <2>8 DEF a, b
<1>12. SpansApart(r, f)
  <2>1. D \subseteq 1 .. Len(r) /\ f \in [D -> 1 .. Len(r)]
    BY <1>8, <1>9, <1>11
  <2>2. ASSUME NEW j \in D, NEW k \in D, j < k PROVE f[j] < k
    <3>1. j \in 1 .. c /\ k \in 1 .. c /\ f[j] \in 1 .. c /\ m[j] \in B /\ m[k] \in B
              /\ m[f[j]] = end[m[j]]
      BY <1>11
    <3>2. m[j] < m[k]
      BY <3>1, <2>2, <1>10
    <3>3. m[f[j]] < m[k]
      BY <3>1, <3>2, <1>2
    <3> QED BY <3>1, <3>3, <1>10
  <2> HIDE DEF D
  <2> QED BY <2>1, <2>2, <1>9, <1>11 DEF SpansApart
<1>13. Outside(r, f) = {n \in 1 .. c : m[n] \in Q}
  <2>1. ASSUME NEW n \in 1 .. c PROVE n \in Covered(f) <=> m[n] \notin Q
    <3>1. m[n] \in R /\ m[n] \in 1 .. N
      BY <1>10
    <3>2. ASSUME NEW k \in D, n \in k .. f[k] PROVE m[n] \notin Q
      <4>1. k \in 1 .. c /\ f[k] \in 1 .. c /\ m[k] \in B /\ m[f[k]] = end[m[k]]
        BY <1>11
      <4>2. k <= n /\ n <= f[k]
        BY <3>2, <4>1
      <4>3. m[k] <= m[n] /\ m[n] <= m[f[k]]
        BY <4>1, <4>2, <1>10
      <4>4. m[n] \in m[k] .. end[m[k]]
        <5>1. m[k] \in 1 .. N /\ m[f[k]] \in 1 .. N
          BY <4>1, <1>10
        <5> QED BY <5>1, <3>1, <4>1, <4>3
      <4> QED BY <4>1, <4>4, <3>1, <1>4
    <3>3. ASSUME m[n] \notin Q PROVE \E k \in D : n \in k .. f[k]
      <4>1. PICK a \in B : m[n] \in a .. end[a]
        BY <3>3, <3>1, <1>4
      <4>2. a \in 1 .. N /\ end[a] \in 1 .. N /\ a <= end[a] /\ a \in DOMAIN end
        BY <1>1
      <4>3. a \in R
        <5> SUFFICES ASSUME NEW x \in A, a \in x .. end[x] PROVE FALSE
          BY <4>2, <1>3
        <5>1. x \in DOMAIN end /\ x # a /\ x \in 1 .. N /\ end[x] \in 1 .. N
          BY <1>1, <1>9
        <5>2. x < a
          BY <5>1, <4>2
        <5>3. end[x] < a
          BY <5>1, <5>2, <4>2, <1>2
        <5> QED BY <5>1, <5>3, <4>2
      <4>4. PICK k \in 1 .. c : m[k] = a
        BY <4>3, <1>7
      <4>5. k \in D
        BY <4>4
      <4>6. f[k] \in 1 .. c /\ m[f[k]] = end[a]
        BY <4>4, <4>5, <1>11
      <4>7. m[k] <= m[n] /\ m[n] <= m[f[k]]
        BY <4>1, <4>2, <4>4, <4>6, <3>1
      <4>8. k <= n /\ n <= f[k]
        BY <4>4, <4>6, <4>7, <1>10
      <4>9. n \in k .. f[k]
        BY <4>6, <4>8
      <4> QED BY <4>5, <4>9
    <3>4. n \in Covered(f) <=> \E k \in D : n \in k .. f[k]
      BY <1>9, CoveredIs
    <3> QED BY <3>2, <3>3, <3>4
  <2> QED BY <2>1, <1>8 DEF Outside
<1>14. At(r, {n \in 1 .. Cardinality(R) : InOrder(R)[n] \in Q}) = At(s, Q)
  BY <1>3, <1>4, AtAt DEF r, N
<1>15. Without(r, f) = At(r, Outside(r, f))
  BY <1>8, <1>12, WithoutIs
<1>16. Outside(r, f) = {n \in 1 .. Cardinality(R) : InOrder(R)[n] \in Q}
  BY <1>13, <1>6, <1>7
<1>17. Without(r, f) = At(s, Q)
  BY <1>14, <1>15, <1>16
<1> QED BY <1>17 DEF r, R, Q

-----------------------------------------------------------------------------
(* Groups that move as a whole.                                            *)

(* r from n on is s from i on, d items further.                            *)
Same(r, n, s, i, d) == \A k \in 0 .. d : r[n + k] = s[i + k]

(* So are the numbers of groups opened and closed.                         *)
SameGroups(r, n, s, i, d) ==
    \A k \in 0 .. d : /\ Opened(r, n, n + k) = Opened(s, i, i + k)
                      /\ Closed(r, n, n + k) = Closed(s, i, i + k)

(* The same items open and close the same groups ...                       *)
LEMMA OpenedMoved ==
    ASSUME NEW r, NEW s, NEW n \in Nat, NEW i \in Nat, NEW d \in Nat, Same(r, n, s, i, d)
    PROVE  SameGroups(r, n, s, i, d)
<1> SUFFICES ASSUME NEW k \in 0 .. d
             PROVE  /\ Opened(r, n, n + k) = Opened(s, i, i + k)
                    /\ Closed(r, n, n + k) = Closed(s, i, i + k)
  BY DEF SameGroups
<1> DEFINE U(Y) == {j \in n .. n + k : r[j].is \in Y}
           V(Y) == {j \in i .. i + k : s[j].is \in Y}
<1>2. ASSUME NEW Y PROVE Cardinality(U(Y)) = Cardinality(V(Y))
  <2> DEFINE c == n - i
             W == {j + c : j \in V(Y)}
  <2>1. \A j \in i .. i + k : r[j + c] = s[j] /\ j + c \in n .. n + k
    <3> SUFFICES ASSUME NEW j \in i .. i + k PROVE r[j + c] = s[j] /\ j + c \in n .. n + k
      OBVIOUS
    <3> DEFINE l == j - i
    <3>1. l \in 0 .. d /\ n + l = j + c /\ i + l = j /\ n + l \in n .. n + k
      OBVIOUS
    <3> HIDE DEF l
    <3> QED BY <3>1 DEF Same
  <2>2. \A j \in n .. n + k : j - c \in i .. i + k /\ (j - c) + c = j
    OBVIOUS
  <2>3. V(Y) \in SUBSET Int /\ IsFiniteSet(V(Y)) /\ c \in Int
    <3>2. IsFiniteSet(i .. i + k) /\ V(Y) \in SUBSET (i .. i + k)
      <4>1. i \in Int /\ i + k \in Int
        OBVIOUS
      <4> QED BY <4>1, FS_Interval
    <3> QED BY <3>2, FS_Subset
  <2> HIDE DEF c
  <2>4. W = U(Y)
    <3>1. ASSUME NEW j \in V(Y) PROVE j + c \in U(Y)
      BY <2>1
    <3>2. ASSUME NEW j \in U(Y) PROVE j \in W
      <4>1. j - c \in i .. i + k /\ (j - c) + c = j
        BY <2>2
      <4>2. r[(j - c) + c] = s[j - c]
        BY <2>1, <4>1
      <4>3. j - c \in V(Y)
        BY <4>1, <4>2
      <4> HIDE DEF V
      <4> QED BY <4>1, <4>3
    <3> QED BY <3>1, <3>2
  <2> HIDE DEF V
  <2>5. Cardinality(W) = Cardinality(V(Y))
    BY <2>3, Shift
  <2> QED BY <2>4, <2>5
<1>3. Cardinality(U({"close"})) = Cardinality(V({"close"}))
          /\ Cardinality(U(Openers)) = Cardinality(V(Openers))
  BY <1>2
<1>4. U({"close"}) = {j \in n .. n + k : r[j].is = "close"}
          /\ V({"close"}) = {j \in i .. i + k : s[j].is = "close"}
  OBVIOUS
<1> QED BY <1>3, <1>4 DEF Opened, Closed

(* ... and a group that is there as a whole is closed by the same item.    *)
LEMMA ClosingMoved ==
    ASSUME NEW X, NEW s \in Seq(X), NEW r \in Seq(X), NEW i \in GroupOpens(s), Closing(s, i) # 0,
           NEW n \in 1 .. Len(r), n + (Closing(s, i) - i) <= Len(r),
           Same(r, n, s, i, Closing(s, i) - i)
    PROVE  Closing(r, n) = n + (Closing(s, i) - i)
<1> DEFINE c == Closing(s, i)
           d == c - i
           S == {j \in i + 1 .. Len(s) : Opened(s, i, j) = Closed(s, i, j)}
           T == {j \in n + 1 .. Len(r) : Opened(r, n, j) = Closed(r, n, j)}
<1>1. i \in 1 .. Len(s) /\ c \in i + 1 .. Len(s)
  BY ClosingIs
<1>2. c \in S /\ \A j \in S : c <= j
  <2>1. S \in SUBSET Nat
    BY <1>1
  <2>2. S # {} /\ c = First(S)
    BY DEF Closing
  <2> HIDE DEF S, c
  <2> QED BY <2>1, <2>2, FirstProperties
<1>3. Opened(s, i, c) = Closed(s, i, c) /\ \A j \in i + 1 .. c - 1 : Opened(s, i, j) # Closed(s, i, j)
  <2>1. ASSUME NEW j \in i + 1 .. c - 1 PROVE j \notin S
    <3> HIDE DEF S, c
    <3> QED BY <1>1, <1>2
  <2>2. \A j \in i + 1 .. c - 1 : j \in i + 1 .. Len(s)
    <3> HIDE DEF c
    <3> QED BY <1>1
  <2> HIDE DEF c
  <2> QED BY <1>2, <2>1, <2>2
<1> HIDE DEF c
<1>4. d \in Nat /\ d # 0 /\ i \in Nat /\ n \in Nat /\ n + d \in n + 1 .. Len(r)
          /\ Same(r, n, s, i, d) /\ i + d = c
  BY <1>1 DEF c
<1> HIDE DEF d
<1>5. \A k \in 0 .. d : Opened(r, n, n + k) = Opened(s, i, i + k)
          /\ Closed(r, n, n + k) = Closed(s, i, i + k)
  <2>1. SameGroups(r, n, s, i, d)
    BY <1>4, OpenedMoved
  <2> QED BY <2>1 DEF SameGroups
<1>6. n + d \in T
  <2>1. d \in 0 .. d
    BY <1>4
  <2> QED BY <2>1, <1>3, <1>4, <1>5
<1>7. ASSUME NEW j \in T PROVE n + d <= j
  <2> SUFFICES ASSUME j < n + d PROVE FALSE
    BY <1>4
  <2> DEFINE k == j - n
  <2>1. k \in 0 .. d /\ n + k = j /\ i + k \in i + 1 .. c - 1
    BY <1>1, <1>4
  <2> HIDE DEF k
  <2>2. Opened(r, n, j) = Closed(r, n, j)
    OBVIOUS
  <2> QED BY <2>1, <2>2, <1>3, <1>5
<1>8. T \in SUBSET Nat /\ T # {}
  BY <1>6
<1> HIDE DEF T
<1>9. First(T) \in T /\ \A j \in T : First(T) <= j
  BY <1>8, FirstProperties
<1>10. First(T) = n + d
  <2>1. First(T) <= n + d /\ n + d <= First(T) /\ First(T) \in Nat
    BY <1>6, <1>7, <1>8, <1>9
  <2> QED BY <2>1, <1>4
<1> QED BY <1>8, <1>10 DEF Closing, T, d, c

-----------------------------------------------------------------------------
(* The parts of a title block, and what is left without them.              *)

(* Every part is whole, and where each ends.                               *)
WholeParts(s) == \A i \in Parts(s) : WholePart(s, i)

PartEnds(s) == [i \in Parts(s) |-> PartEnd(s, i)]

LEMMA PartsAre ==
    ASSUME NEW s, NEW i
    PROVE  i \in Parts(s) <=> i \in 1 .. Len(s) /\ s[i].is \in {"title", "author", "abstract"}
BY DEF Parts, Positions

(* The first \end{abstract} after i.                                       *)
LEMMA EndsIs ==
    ASSUME NEW s \in Seq(Items), NEW i \in 1 .. Len(s), s[i].is = "abstract", EndAfter(s, i) # {}
    PROVE  /\ First(EndAfter(s, i)) \in i + 1 .. Len(s) /\ s[First(EndAfter(s, i))].is = "endabstract"
           /\ \A j \in i + 1 .. First(EndAfter(s, i)) - 1 : s[j].is # "endabstract"
<1> DEFINE S == EndAfter(s, i)
           f == First(S)
<1>1. S \in SUBSET Nat /\ \A j : j \in S <=> j \in 1 .. Len(s) /\ s[j].is = "endabstract" /\ j > i
  BY DEF EndAfter, Positions
<1> HIDE DEF S
<1>2. f \in S /\ \A j \in S : f <= j
  BY <1>1, FirstProperties DEF S
<1> HIDE DEF f
<1>3. f \in i + 1 .. Len(s) /\ s[f].is = "endabstract"
  BY <1>1, <1>2
<1>4. ASSUME NEW j \in i + 1 .. f - 1, s[j].is = "endabstract" PROVE FALSE
  <2>1. j \in S
    BY <1>1, <1>3, <1>4
  <2> QED BY <2>1, <1>2, <1>3
<1> QED BY <1>3, <1>4 DEF f, S

(* A whole part ends after it starts, at the brace or \end that ends its   *)
(* kind, and no mark is in between.                                        *)
LEMMA PartIs ==
    ASSUME NEW s \in Seq(Items), NEW i \in Parts(s), WholePart(s, i)
    PROVE  /\ i \in 1 .. Len(s) /\ PartEnd(s, i) \in i + 1 .. Len(s)
           /\ \A k \in i + 1 .. PartEnd(s, i) - 1 : s[k].is \notin Marks
           /\ s[i].is = "abstract" =>
                /\ PartEnd(s, i) = First(EndAfter(s, i)) /\ EndAfter(s, i) # {}
                /\ s[PartEnd(s, i)].is = "endabstract"
           /\ s[i].is # "abstract" =>
                /\ i \in GroupOpens(s) /\ PartEnd(s, i) = Closing(s, i) /\ Closing(s, i) # 0
                /\ s[PartEnd(s, i)].is = "close"
<1>1. i \in 1 .. Len(s) /\ s[i].is \in {"title", "author", "abstract"}
  BY PartsAre
<1>2. Ends(s, i) # {} /\ \A k \in i + 1 .. PartEnd(s, i) - 1 : s[k].is \notin Marks
  BY DEF WholePart
<1>3. CASE s[i].is = "abstract"
  <2>1. PartEnd(s, i) = First(EndAfter(s, i)) /\ EndAfter(s, i) # {}
    BY <1>2, <1>3 DEF PartEnd, Ends
  <2> QED BY <2>1, <1>1, <1>2, <1>3, EndsIs
<1>4. CASE s[i].is # "abstract"
  <2>1. Ends(s, i) = {Closing(s, i)} \ {0}
    BY <1>4 DEF Ends
  <2>2. Closing(s, i) # 0 /\ Ends(s, i) = {Closing(s, i)}
    BY <2>1, <1>2
  <2>3. i \in GroupOpens(s)
    BY <1>1, <1>4 DEF GroupOpens, Openers
  <2>4. Closing(s, i) \in i + 1 .. Len(s) /\ s[Closing(s, i)].is = "close"
    BY <2>2, <2>3, ClosingIs DEF GroupCloses
  <2>5. PartEnd(s, i) = Closing(s, i)
    <3>1. Ends(s, i) \in SUBSET Nat
      <4>1. Closing(s, i) \in Nat
        BY <1>1, <2>4
      <4> QED BY <4>1, <2>2
    <3>2. First(Ends(s, i)) \in Ends(s, i)
      BY <1>2, <3>1, FirstProperties
    <3> QED BY <3>2, <2>2 DEF PartEnd
  <2> QED BY <2>2, <2>3, <2>4, <2>5, <1>1, <1>2, <1>4
<1> QED BY <1>3, <1>4

(* So one part ends before the next one starts.                            *)
LEMMA PartsApart ==
    ASSUME NEW s \in Seq(Items), WholeParts(s)
    PROVE  SpansApart(s, PartEnds(s)) /\ DOMAIN PartEnds(s) = Parts(s)
<1> DEFINE E == PartEnds(s)
<1>1. \A i \in Parts(s) : /\ i \in 1 .. Len(s) /\ E[i] \in i + 1 .. Len(s)
                          /\ \A k \in i + 1 .. E[i] - 1 : s[k].is \notin Marks
                          /\ s[E[i]].is \in {"close", "endabstract"}
                          /\ s[i].is \in {"title", "author", "abstract"}
  <2> SUFFICES ASSUME NEW i \in Parts(s)
               PROVE  /\ i \in 1 .. Len(s) /\ E[i] \in i + 1 .. Len(s)
                      /\ \A k \in i + 1 .. E[i] - 1 : s[k].is \notin Marks
                      /\ s[E[i]].is \in {"close", "endabstract"}
                      /\ s[i].is \in {"title", "author", "abstract"}
    OBVIOUS
  <2>1. E[i] = PartEnd(s, i) /\ WholePart(s, i)
    BY DEF PartEnds, WholeParts
  <2> HIDE DEF E
  <2> QED BY <2>1, PartIs, PartsAre
<1>2. DOMAIN E = Parts(s) /\ E = [i \in Parts(s) |-> E[i]]
  BY DEF PartEnds
<1> HIDE DEF E
<1>3. E \in [Parts(s) -> 1 .. Len(s)] /\ Parts(s) \subseteq 1 .. Len(s)
  <2>1. \A i \in Parts(s) : E[i] \in 1 .. Len(s)
    BY <1>1
  <2> QED BY <1>1, <1>2, <2>1
<1>4. ASSUME NEW a \in Parts(s), NEW b \in Parts(s), a < b PROVE E[a] < b
  <2>1. a \in 1 .. Len(s) /\ E[a] \in a + 1 .. Len(s) /\ b \in 1 .. Len(s)
    BY <1>1
  <2>2. E[a] # b /\ ~(b \in a + 1 .. E[a] - 1)
    BY <1>1 DEF Marks
  <2> QED BY <2>1, <2>2, <1>4
<1>5. \A a \in Parts(s) : a <= E[a]
  BY <1>1
<1>6. SpansApart(s, E)
  BY <1>2, <1>3, <1>4, <1>5 DEF SpansApart
<1> QED BY <1>2, <1>6 DEF E

(* What is left without the parts that start in A ...                      *)
LEMMA LeftFacts ==
    ASSUME NEW s \in Seq(Items), WholeParts(s), NEW A \in SUBSET Parts(s)
    PROVE  LET R == Left(s, PartEnds(s), A)
               r == At(s, R)
           IN  /\ r \in Seq(Items) /\ R \in SUBSET (1 .. Len(s)) /\ IsFiniteSet(R)
               /\ Cardinality(R) \in Nat /\ Len(r) = Cardinality(R)
               /\ \A n \in 1 .. Len(r) : InOrder(R)[n] \in R /\ r[n] = s[InOrder(R)[n]]
<1> DEFINE R == Left(s, PartEnds(s), A)
<1>1. R \in SUBSET (1 .. Len(s))
  BY DEF Left
<1> HIDE DEF R
<1> QED BY <1>1, AtProperties DEF R

(* ... has every other part as a whole.                                    *)
LEMMA PartLeft ==
    ASSUME NEW s \in Seq(Items), WholeParts(s), NEW A \in SUBSET Parts(s), NEW i \in Parts(s), i \notin A,
           NEW n, Comes(Left(s, PartEnds(s), A), n, i)
    PROVE  LET r == At(s, Left(s, PartEnds(s), A))
               d == PartEnd(s, i) - i
           IN  d \in Nat /\ n \in 1 .. Len(r) /\ n + d <= Len(r) /\ Same(r, n, s, i, d)
<1> DEFINE R == Left(s, PartEnds(s), A)
           r == At(s, R)
           d == PartEnd(s, i) - i
<1>1. SpansApart(s, PartEnds(s)) /\ DOMAIN PartEnds(s) = Parts(s) /\ PartEnds(s)[i] = PartEnd(s, i)
  BY PartsApart DEF PartEnds
<1>2. \A k \in 0 .. d : Comes(R, n + k, i + k)
  BY <1>1, RunLeft
<1>3. WholePart(s, i)
  BY DEF WholeParts
<1>4. d \in Nat /\ i \in 1 .. Len(s)
  BY <1>3, PartIs
<1>5. Len(r) = Cardinality(R) /\ \A k \in 1 .. Len(r) : r[k] = s[InOrder(R)[k]]
  BY LeftFacts
<1> HIDE DEF d, R, r
<1>6. Same(r, n, s, i, d)
  BY <1>2, <1>5 DEF Same, Comes
<1>7. n + d \in 1 .. Cardinality(R) /\ n \in 1 .. Cardinality(R)
  <2>1. d \in 0 .. d /\ 0 \in 0 .. d
    BY <1>4
  <2>2. Comes(R, n + d, i + d) /\ Comes(R, n, i)
    BY <2>1, <1>2 DEF R
  <2> QED BY <2>2 DEF Comes
<1>8. Cardinality(R) \in Nat
  BY LeftFacts DEF R
<1>9. n + d <= Len(r) /\ n \in 1 .. Len(r)
  BY <1>5, <1>7, <1>8
<1> QED BY <1>4, <1>6, <1>9 DEF r, d, R

(* _strip_command takes the parts of its kind and nothing else, if those   *)
(* of another kind have gone before or not: each is closed by its own      *)
(* brace.                                                                  *)
LEMMA CommandCut ==
    ASSUME NEW s \in Seq(Items), WholeParts(s), NEW is \in {"title", "author"},
           NEW A \in SUBSET Parts(s), A \cap Positions(s, is) = {}
    PROVE  StripCommand(At(s, Left(s, PartEnds(s), A)), is)
               = At(s, Left(s, PartEnds(s), A \cup Positions(s, is)))
<1> DEFINE E == PartEnds(s)
           R == Left(s, E, A)
           r == At(s, R)
           B == Positions(s, is)
           D == {j \in Positions(r, is) : Closing(r, j) # 0}
           f == [i \in D |-> Closing(r, i)]
<1>1. B \in SUBSET Parts(s) /\ SpansApart(s, E) /\ DOMAIN E = Parts(s)
  BY PartsApart DEF Parts
<1>2. r \in Seq(Items) /\ Len(r) = Cardinality(R) /\ R \in SUBSET (1 .. Len(s))
          /\ \A n \in 1 .. Len(r) : InOrder(R)[n] \in R /\ r[n] = s[InOrder(R)[n]]
  BY LeftFacts
<1>3. \A n : n \in Positions(r, is) <=> n \in 1 .. Len(r) /\ InOrder(R)[n] \in B
  <2> HIDE DEF R, r
  <2>1. \A n : n \in Positions(r, is) <=> n \in 1 .. Len(r) /\ r[n].is = is
    BY DEF Positions
  <2>2. \A i : i \in B <=> i \in 1 .. Len(s) /\ s[i].is = is
    BY DEF Positions
  <2> HIDE DEF B
  <2> QED BY <2>1, <2>2, <1>2
<1>4. ASSUME NEW n \in Positions(r, is)
      PROVE  Closing(r, n) # 0 /\ Closing(r, n) = n + (E[InOrder(R)[n]] - InOrder(R)[n])
  <2> DEFINE i == InOrder(R)[n]
  <2> HIDE DEF R, B, r
  <2>1. i \in B /\ i \in Parts(s) /\ i \notin A /\ Comes(R, n, i) /\ WholePart(s, i) /\ s[i].is = is
    <3>1. i \in B /\ n \in 1 .. Len(r)
      BY <1>3
    <3> QED BY <3>1, <1>1, <1>2 DEF Comes, WholeParts, B, Positions
  <2> HIDE DEF i
  <2>2. /\ PartEnd(s, i) - i \in Nat /\ n \in 1 .. Len(r) /\ n + (PartEnd(s, i) - i) <= Len(r)
        /\ Same(r, n, s, i, PartEnd(s, i) - i)
    BY <2>1, PartLeft DEF r, R
  <2>3. i \in GroupOpens(s) /\ PartEnd(s, i) = Closing(s, i) /\ Closing(s, i) # 0
    BY <2>1, PartIs
  <2>4. Closing(r, n) = n + (Closing(s, i) - i)
    BY <2>2, <2>3, <1>2, ClosingMoved
  <2>5. E[i] = Closing(s, i)
    BY <2>1, <2>3 DEF PartEnds
  <2> QED BY <2>2, <2>3, <2>4, <2>5 DEF i
<1>5. D = {n \in 1 .. Cardinality(R) : InOrder(R)[n] \in B}
  <2> HIDE DEF R, r, B
  <2> QED BY <1>2, <1>3, <1>4
<1>6. DOMAIN f = D /\ f = [n \in D |-> f[n]] /\ \A n \in D : f[n] = n + (E[InOrder(R)[n]] - InOrder(R)[n])
  <2> HIDE DEF R, r, E
  <2> QED BY <1>4
<1>7. StripCommand(r, is) = Without(r, f)
  BY DEF StripCommand
<1> HIDE DEF f, D, E, B
<1>8. Without(At(s, Left(s, E, A)), f) = At(s, Left(s, E, A \cup B))
  <2>1. NextSpans(s, E, A, B, f)
    BY <1>5, <1>6 DEF NextSpans, B, R
  <2> QED BY <1>1, <2>1, CutOut
<1> QED BY <1>7, <1>8 DEF E, B

(* An abstract is ended by its own \end when others have gone ...          *)
LEMMA AbstractLeft ==
    ASSUME NEW s \in Seq(Items), WholeParts(s), NEW A \in SUBSET Parts(s), NEW i \in Parts(s), i \notin A,
           s[i].is = "abstract", NEW n, Comes(Left(s, PartEnds(s), A), n, i)
    PROVE  LET r == At(s, Left(s, PartEnds(s), A))
               d == PartEnd(s, i) - i
           IN  /\ EndAfter(r, n) # {} /\ First(EndAfter(r, n)) = n + d
               /\ \A k \in n + 1 .. n + d - 1 : r[k].is # "abstract"
<1> DEFINE r == At(s, Left(s, PartEnds(s), A))
           d == PartEnd(s, i) - i
           S == EndAfter(r, n)
<1>1. d \in Nat /\ n \in 1 .. Len(r) /\ n + d <= Len(r) /\ Same(r, n, s, i, d)
  BY PartLeft
<1>2. /\ i \in 1 .. Len(s) /\ PartEnd(s, i) \in i + 1 .. Len(s) /\ s[PartEnd(s, i)].is = "endabstract"
      /\ \A k \in i + 1 .. PartEnd(s, i) - 1 : s[k].is \notin Marks
  <2>1. WholePart(s, i)
    BY DEF WholeParts
  <2> QED BY <2>1, PartIs
<1>3. i + d = PartEnd(s, i) /\ d # 0 /\ i \in Nat
  BY <1>2
<1>4. S \in SUBSET Nat /\ \A j : j \in S <=> j \in 1 .. Len(r) /\ r[j].is = "endabstract" /\ j > n
  BY DEF EndAfter, Positions
<1>5. r \in Seq(Items)
  BY LeftFacts
<1> HIDE DEF r, d, S
<1>6. n \in Nat /\ Len(r) \in Nat
  BY <1>1, <1>5
<1>7. n + d \in S
  <2>1. d \in 0 .. d
    BY <1>1
  <2>2. r[n + d] = s[PartEnd(s, i)]
    BY <2>1, <1>1, <1>3 DEF Same
  <2> QED BY <2>2, <1>1, <1>2, <1>3, <1>4, <1>6
<1>8. ASSUME NEW j \in n + 1 .. n + d - 1 PROVE r[j].is \notin Marks
  <2> DEFINE k == j - n
  <2>1. k \in 0 .. d /\ n + k = j /\ i + k \in i + 1 .. PartEnd(s, i) - 1
    BY <1>1, <1>2, <1>3, <1>6
  <2> HIDE DEF k
  <2>2. r[j] = s[i + k]
    BY <2>1, <1>1 DEF Same
  <2> QED BY <2>1, <2>2, <1>2
<1>9. \A j \in S : n + d <= j
  <2> SUFFICES ASSUME NEW j \in S, j < n + d PROVE FALSE
    BY <1>1, <1>4, <1>6
  <2>1. j \in n + 1 .. n + d - 1 /\ r[j].is = "endabstract"
    BY <1>1, <1>4, <1>6
  <2> QED BY <2>1, <1>8 DEF Marks
<1>10. First(S) = n + d
  <2>1. First(S) \in S /\ \A j \in S : First(S) <= j
    BY <1>4, <1>7, FirstProperties
  <2>2. First(S) <= n + d /\ n + d <= First(S) /\ First(S) \in Nat
    BY <2>1, <1>4, <1>7, <1>9
  <2> QED BY <2>2, <1>1, <1>6
<1>11. \A k \in n + 1 .. n + d - 1 : r[k].is # "abstract"
  BY <1>8 DEF Marks
<1> QED BY <1>7, <1>10, <1>11 DEF S, r, d

(* ... and _strip_environment takes the abstracts and nothing else.        *)
LEMMA AbstractCut ==
    ASSUME NEW s \in Seq(Items), WholeParts(s),
           NEW A \in SUBSET Parts(s), A \cap Positions(s, "abstract") = {}
    PROVE  StripAbstract(At(s, Left(s, PartEnds(s), A)))
               = At(s, Left(s, PartEnds(s), A \cup Positions(s, "abstract")))
<1> DEFINE E == PartEnds(s)
           R == Left(s, E, A)
           r == At(s, R)
           B == Positions(s, "abstract")
           P == Positions(r, "abstract")
           Begins == {i \in P : EndAfter(r, i) # {}}
           e == [i \in Begins |-> First(EndAfter(r, i))]
           D == {i \in Begins : ~\E b \in Begins : b < i /\ i < e[b]}
           f == [i \in D |-> e[i]]
<1>1. B \in SUBSET Parts(s) /\ SpansApart(s, E) /\ DOMAIN E = Parts(s)
  BY PartsApart DEF Parts
<1>2. r \in Seq(Items) /\ Len(r) = Cardinality(R) /\ R \in SUBSET (1 .. Len(s))
          /\ \A n \in 1 .. Len(r) : InOrder(R)[n] \in R /\ r[n] = s[InOrder(R)[n]]
  BY LeftFacts
<1>3. \A n : n \in P <=> n \in 1 .. Len(r) /\ InOrder(R)[n] \in B
  <2> HIDE DEF R, r
  <2>1. \A n : n \in P <=> n \in 1 .. Len(r) /\ r[n].is = "abstract"
    BY DEF Positions
  <2>2. \A i : i \in B <=> i \in 1 .. Len(s) /\ s[i].is = "abstract"
    BY DEF Positions
  <2> HIDE DEF B, P
  <2> SUFFICES ASSUME NEW n \in 1 .. Len(r) PROVE n \in P <=> InOrder(R)[n] \in B
    BY <2>1
  <2>3. InOrder(R)[n] \in 1 .. Len(s) /\ r[n] = s[InOrder(R)[n]]
    BY <1>2
  <2> QED BY <2>1, <2>2, <2>3
<1>4. ASSUME NEW n \in P
      PROVE  /\ EndAfter(r, n) # {} /\ First(EndAfter(r, n)) = n + (E[InOrder(R)[n]] - InOrder(R)[n])
             /\ \A k \in n + 1 .. First(EndAfter(r, n)) - 1 : r[k].is # "abstract"
             /\ n \in 1 .. Len(r) /\ First(EndAfter(r, n)) \in Nat /\ r[n].is = "abstract"
  <2> DEFINE i == InOrder(R)[n]
  <2> HIDE DEF R, B, r, P
  <2>1. i \in B /\ i \in Parts(s) /\ i \notin A /\ Comes(R, n, i) /\ s[i].is = "abstract"
            /\ n \in 1 .. Len(r) /\ r[n] = s[i] /\ WholePart(s, i)
    <3>1. i \in B /\ n \in 1 .. Len(r)
      BY <1>3
    <3> QED BY <3>1, <1>1, <1>2 DEF Comes, B, Positions, WholeParts
  <2> HIDE DEF i
  <2> DEFINE d == PartEnd(s, i) - i
  <2>2. /\ EndAfter(r, n) # {} /\ First(EndAfter(r, n)) = n + d
        /\ \A k \in n + 1 .. n + d - 1 : r[k].is # "abstract"
    BY <2>1, AbstractLeft DEF r, R
  <2>3. E[i] = PartEnd(s, i)
    BY <2>1 DEF PartEnds
  <2>4. d \in Nat
    <3>1. i \in 1 .. Len(s) /\ PartEnd(s, i) \in i + 1 .. Len(s)
      BY <2>1, PartIs
    <3> QED BY <3>1
  <2>5. n + d \in Nat
    BY <2>1, <2>4, <1>2
  <2>6. First(EndAfter(r, n)) = n + (E[i] - i)
    BY <2>2, <2>3
  <2>7. First(EndAfter(r, n)) \in Nat
            /\ \A k \in n + 1 .. First(EndAfter(r, n)) - 1 : r[k].is # "abstract"
    <3> DEFINE y == First(EndAfter(r, n))
    <3>1. y = n + d
      BY <2>2
    <3>2. \A k \in n + 1 .. n + d - 1 : r[k].is # "abstract"
      BY <2>2
    <3> HIDE DEF d, y
    <3>3. y \in Nat /\ \A k \in n + 1 .. y - 1 : r[k].is # "abstract"
      <4>1. n \in Nat /\ d \in Nat
        BY <2>1, <2>4, <1>2 DEF d
      <4> QED BY <4>1, <3>1, <3>2
    <3> QED BY <3>3 DEF y
  <2> HIDE DEF E, d
  <2>8. r[n].is = "abstract"
    BY <2>1
  <2> QED BY <2>1, <2>2, <2>6, <2>7, <2>8 DEF i
<1>5. Begins = P /\ \A n \in P : e[n] = First(EndAfter(r, n))
  <2> HIDE DEF r, P
  <2> QED BY <1>4
<1>6. D = P
  <2> SUFFICES ASSUME NEW i \in P, NEW b \in P, b < i, i < e[b] PROVE FALSE
    <3> HIDE DEF Begins, P, e
    <3> QED BY <1>5
  <2> HIDE DEF r, P, e, R, E
  <2>1. i \in 1 .. Len(r) /\ b \in 1 .. Len(r) /\ r[i].is = "abstract"
    BY <1>4
  <2>2. First(EndAfter(r, b)) \in Nat /\ i \notin b + 1 .. First(EndAfter(r, b)) - 1
    BY <2>1, <1>4
  <2> QED BY <2>1, <2>2, <1>2, <1>5
<1>7. P = {n \in 1 .. Cardinality(R) : InOrder(R)[n] \in B}
  <2> HIDE DEF R, r, B, P
  <2> QED BY <1>2, <1>3
<1>8. DOMAIN f = D /\ f = [n \in D |-> f[n]] /\ \A n \in D : f[n] = e[n]
  OBVIOUS
<1>9. \A n \in D : f[n] = n + (E[InOrder(R)[n]] - InOrder(R)[n])
  <2> HIDE DEF R, r, E, f, D, e, P
  <2> QED BY <1>4, <1>5, <1>6, <1>8
<1>10. StripAbstract(r) = Without(r, f)
  BY DEF StripAbstract
<1> HIDE DEF f, D, E, B, e, P, Begins
<1>11. Without(At(s, Left(s, E, A)), f) = At(s, Left(s, E, A \cup B))
  <2>1. NextSpans(s, E, A, B, f)
    BY <1>6, <1>7, <1>8, <1>9 DEF NextSpans, B, R
  <2> QED BY <1>1, <2>1, CutOut
<1> QED BY <1>10, <1>11 DEF E, B

(* What stands in no part.                                                 *)
Rest(s) == Outside(s, PartEnds(s))

(* The three removals leave exactly what stands in no part.                *)
LEMMA StripIs ==
    ASSUME NEW s \in Seq(Items), WholeParts(s)
    PROVE  StripAbstract(StripCommand(StripCommand(s, "title"), "author")) = At(s, Rest(s))
<1> DEFINE E == PartEnds(s)
           T == Positions(s, "title")
           A == Positions(s, "author")
           B == Positions(s, "abstract")
<1>1. T \in SUBSET Parts(s) /\ T \cup A \in SUBSET Parts(s) /\ Parts(s) = (T \cup A) \cup B
  BY DEF Parts
<1>2. T \cap A = {} /\ (T \cup A) \cap B = {}
  BY DEF Positions
<1> HIDE DEF E, T, A, B
<1>3. s = At(s, Left(s, E, {}))
  <2>1. Left(s, E, {}) = 1 .. Len(s)
    BY DEF Left
  <2>2. Len(s) \in 0 .. Len(s) /\ 1 \in 1 .. Len(s) + 1
    OBVIOUS
  <2>3. At(s, 1 .. Len(s)) = SubSeq(s, 1, Len(s))
    BY <2>2, AtInterval
  <2>4. SubSeq(s, 1, Len(s)) = s
    OBVIOUS
  <2> QED BY <2>1, <2>3, <2>4
<1>4. StripCommand(s, "title") = At(s, Left(s, E, T))
  <2>1. {} \in SUBSET Parts(s) /\ {} \cap T = {} /\ {} \cup T = T
    OBVIOUS
  <2>2. StripCommand(At(s, Left(s, E, {})), "title") = At(s, Left(s, E, {} \cup T))
    BY <2>1, CommandCut DEF E, T
  <2> QED BY <2>1, <2>2, <1>3
<1>5. StripCommand(At(s, Left(s, E, T)), "author") = At(s, Left(s, E, T \cup A))
  BY <1>1, <1>2, CommandCut DEF E, A
<1>6. StripAbstract(At(s, Left(s, E, T \cup A))) = At(s, Left(s, E, (T \cup A) \cup B))
  BY <1>1, <1>2, AbstractCut DEF E, B
<1>7. Left(s, E, Parts(s)) = Rest(s)
  <2>1. DOMAIN E = Parts(s)
    BY PartsApart DEF E
  <2> QED BY <2>1 DEF Left, Rest, Outside, Covered, E
<1> QED BY <1>1, <1>4, <1>5, <1>6, <1>7

-----------------------------------------------------------------------------
(* Comments, with the parts and without them.                              *)

(* A part that starts in a comment is in it to the end.                    *)
LEMMA CommentedPart ==
    ASSUME NEW s \in Seq(Items), NEW i \in Parts(s), WholePart(s, i), InComment(s, i)
    PROVE  \A k \in i .. PartEnd(s, i) + 1 : InComment(s, k)
<1> DEFINE e == PartEnd(s, i)
           N == e + 1 - i
           T == {k \in 0 .. N : InComment(s, i + k)}
<1>1. i \in 1 .. Len(s) /\ e \in i + 1 .. Len(s)
  BY PartIs
<1>2. \A k \in i .. e : s[k].is # "newline"
  BY DEF WholePart
<1> HIDE DEF e
<1>3. N \in Nat
  BY <1>1
<1>4. 0 \in T
  BY <1>1, <1>3
<1>5. \A k \in 0 .. N : k \in T /\ k < N => k + 1 \in T
  <2> SUFFICES ASSUME NEW k \in 0 .. N, k \in T, k < N PROVE k + 1 \in T
    OBVIOUS
  <2> DEFINE j == i + k
  <2>1. j \in 1 .. Len(s) /\ j \in i .. e /\ j + 1 = i + (k + 1) /\ k + 1 \in 0 .. N
    BY <1>1
  <2>2. InComment(s, j)
    OBVIOUS
  <2> HIDE DEF j
  <2>3. InComment(s, j + 1)
    BY <2>1, <2>2, <1>2, CommentStep
  <2> QED BY <2>1, <2>3
<1> HIDE DEF T
<1>6. \A k \in 0 .. N : k \in T
  <2> HIDE DEF N
  <2> QED BY <1>3, <1>4, <1>5, Induction
<1>7. ASSUME NEW k \in i .. e + 1 PROVE InComment(s, k)
  <2>1. k - i \in 0 .. N /\ i + (k - i) = k
    BY <1>1
  <2> QED BY <2>1, <1>6 DEF T
<1> QED BY <1>7 DEF e

(* A part opens no comment for what follows it, and closes none; outside   *)
(* comments it starts its text and ends outside comments.                  *)
LEMMA PartComments ==
    ASSUME NEW s \in Seq(Items), NEW i \in Parts(s), WholePart(s, i)
    PROVE  /\ InComment(s, i) <=> InComment(s, PartEnd(s, i) + 1)
           /\ ~InComment(s, i) => ~InComment(s, PartEnd(s, i)) /\ ~InComment(s, i + 1)
<1>1. i \in 1 .. Len(s) /\ PartEnd(s, i) \in i + 1 .. Len(s)
          /\ s[PartEnd(s, i)].is \in {"close", "endabstract"}
  BY PartIs
<1>2. CASE InComment(s, i)
  <2>1. PartEnd(s, i) + 1 \in i .. PartEnd(s, i) + 1
    BY <1>1
  <2> QED BY <2>1, <1>2, CommentedPart
<1>3. CASE ~InComment(s, i)
  <2>1. ~InComment(s, PartEnd(s, i))
    BY <1>3 DEF WholePart
  <2> DEFINE e == PartEnd(s, i)
  <2>2. e \in 1 .. Len(s) /\ s[e].is # "percent"
    BY <1>1
  <2> HIDE DEF e
  <2>3. ~InComment(s, e + 1)
    BY <2>1, <2>2, CommentStep DEF e
  <2>4. s[i].is # "percent"
    BY PartsAre
  <2>5. ~InComment(s, i + 1)
    BY <2>4, <1>1, <1>3, CommentStep
  <2> QED BY <2>1, <2>3, <2>5, <1>3 DEF e
<1> QED BY <1>2, <1>3

(* So the rest has its comments where the text had them.                   *)
LEMMA RestComments ==
    ASSUME NEW s \in Seq(Items), WholeParts(s)
    PROVE  \A n \in 1 .. Cardinality(Rest(s)) :
                InComment(At(s, Rest(s)), n) <=> InComment(s, InOrder(Rest(s))[n])
<1> DEFINE E == PartEnds(s)
<1>1. SpansApart(s, E) /\ DOMAIN E = Parts(s)
  BY PartsApart
<1>2. \A a \in DOMAIN E : InComment(s, a) <=> InComment(s, E[a] + 1)
  <2> SUFFICES ASSUME NEW a \in Parts(s) PROVE InComment(s, a) <=> InComment(s, E[a] + 1)
    BY <1>1
  <2>1. E[a] = PartEnd(s, a) /\ WholePart(s, a)
    BY DEF PartEnds, WholeParts
  <2> HIDE DEF E
  <2> QED BY <2>1, PartComments
<1> HIDE DEF E
<1> QED BY <1>1, <1>2, CommentsKept DEF Rest, E

(* r has from n on what s has from i on, d items long.                     *)
Alike(r, n, s, i, d) ==
    /\ n \in Nat \ {0} /\ n + d <= Len(r) + 1
    /\ i \in Nat \ {0} /\ i + d <= Len(s) + 1
    /\ \A k \in 0 .. d - 1 : r[n + k] = s[i + k]

(* Their comments are the same.                                            *)
SameComments(r, n, s, i, d) ==
    \A k \in 0 .. d : InComment(r, n + k) <=> InComment(s, i + k)

(* Two texts alike have the same comments if both start in one, or         *)
(* neither.                                                                *)
LEMMA CommentsMoved ==
    ASSUME NEW X, NEW r \in Seq(X), NEW s \in Seq(X), NEW n, NEW i, NEW d \in Nat,
           Alike(r, n, s, i, d), InComment(r, n) <=> InComment(s, i)
    PROVE  SameComments(r, n, s, i, d)
<1> DEFINE T == {k \in 0 .. d : InComment(r, n + k) <=> InComment(s, i + k)}
<1>1. /\ n \in Nat \ {0} /\ n + d <= Len(r) + 1 /\ i \in Nat \ {0} /\ i + d <= Len(s) + 1
      /\ \A k \in 0 .. d - 1 : r[n + k] = s[i + k]
  BY DEF Alike
<1>2. 0 \in T
  BY <1>1
<1>3. \A k \in 0 .. d : k \in T /\ k < d => k + 1 \in T
  <2> SUFFICES ASSUME NEW k \in 0 .. d, k \in T, k < d PROVE k + 1 \in T
    OBVIOUS
  <2> DEFINE x == n + k
             y == i + k
  <2>1. x \in 1 .. Len(r) /\ y \in 1 .. Len(s) /\ x + 1 = n + (k + 1) /\ y + 1 = i + (k + 1)
            /\ k + 1 \in 0 .. d /\ k \in 0 .. d - 1
    BY <1>1
  <2>2. r[x] = s[y] /\ (InComment(r, x) <=> InComment(s, y))
    BY <2>1, <1>1
  <2> HIDE DEF x, y
  <2>3. InComment(r, x + 1) <=> r[x].is # "newline" /\ (r[x].is = "percent" \/ InComment(r, x))
    BY <2>1, CommentStep
  <2>4. InComment(s, y + 1) <=> s[y].is # "newline" /\ (s[y].is = "percent" \/ InComment(s, y))
    BY <2>1, CommentStep
  <2> QED BY <2>1, <2>2, <2>3, <2>4
<1> HIDE DEF T
<1>4. \A k \in 0 .. d : k \in T
  BY <1>2, <1>3, Induction
<1> QED BY <1>4 DEF T, SameComments

(* What is shown of d items from i on.                                     *)
ShownIn(s, i, d, Y) == {j \in i .. i + d - 1 : ~InComment(s, j) /\ s[j] \in Y}

(* It is as much where these items have been put.                          *)
LEMMA ShownMoved ==
    ASSUME NEW X, NEW r \in Seq(X), NEW s \in Seq(X), NEW n, NEW i, NEW d \in Nat, NEW Y,
           Alike(r, n, s, i, d), InComment(r, n) <=> InComment(s, i)
    PROVE  /\ Cardinality(ShownIn(r, n, d, Y)) = Cardinality(ShownIn(s, i, d, Y))
           /\ ShownIn(r, n, d, Y) = {j + (n - i) : j \in ShownIn(s, i, d, Y)}
<1> DEFINE c == n - i
           U == ShownIn(r, n, d, Y)
           V == ShownIn(s, i, d, Y)
           W == {j + c : j \in V}
<1>1. /\ n \in Nat \ {0} /\ i \in Nat \ {0}
      /\ \A k \in 0 .. d - 1 : r[n + k] = s[i + k]
  BY DEF Alike
<1>2. \A k \in 0 .. d : InComment(r, n + k) <=> InComment(s, i + k)
  BY CommentsMoved DEF SameComments
<1>3. \A j \in i .. i + d - 1 : /\ r[j + c] = s[j] /\ j + c \in n .. n + d - 1
                                /\ InComment(r, j + c) <=> InComment(s, j)
  <2> SUFFICES ASSUME NEW j \in i .. i + d - 1
               PROVE  /\ r[j + c] = s[j] /\ j + c \in n .. n + d - 1
                      /\ InComment(r, j + c) <=> InComment(s, j)
    OBVIOUS
  <2> DEFINE l == j - i
  <2>1. l \in 0 .. d - 1 /\ l \in 0 .. d /\ n + l = j + c /\ i + l = j /\ n + l \in n .. n + d - 1
    BY <1>1
  <2> HIDE DEF l, c
  <2> QED BY <2>1, <1>1, <1>2
<1>4. \A j \in n .. n + d - 1 : j - c \in i .. i + d - 1 /\ (j - c) + c = j
  BY <1>1
<1>5. V \in SUBSET Int /\ IsFiniteSet(V) /\ c \in Int
  <2>1. i \in Int /\ i + d - 1 \in Int
    BY <1>1
  <2>2. IsFiniteSet(i .. i + d - 1) /\ V \in SUBSET (i .. i + d - 1)
    BY <2>1, FS_Interval DEF ShownIn
  <2> HIDE DEF V
  <2>3. IsFiniteSet(V)
    BY <2>2, FS_Subset
  <2>4. i .. i + d - 1 \in SUBSET Int /\ c \in Int
    BY <1>1
  <2> HIDE DEF c
  <2> QED BY <2>2, <2>3, <2>4
<1> HIDE DEF c
<1>6. W = U
  <2>1. ASSUME NEW j \in V PROVE j + c \in U
    BY <1>3 DEF ShownIn
  <2>2. ASSUME NEW j \in U PROVE j \in W
    <3>1. j \in n .. n + d - 1 /\ ~InComment(r, j) /\ r[j] \in Y
      BY <2>2 DEF ShownIn
    <3>2. j - c \in i .. i + d - 1 /\ (j - c) + c = j
      BY <3>1, <1>4
    <3>3. s[j - c] \in Y /\ ~InComment(s, j - c)
      BY <3>1, <3>2, <1>3
    <3>4. j - c \in V
      BY <3>2, <3>3 DEF ShownIn
    <3> HIDE DEF V
    <3> QED BY <3>2, <3>4
  <2> QED BY <2>1, <2>2
<1> HIDE DEF V
<1>7. Cardinality(W) = Cardinality(V)
  BY <1>5, Shift
<1> QED BY <1>6, <1>7 DEF V, c

-----------------------------------------------------------------------------
(* What is shown: the items of Y outside comments.                         *)

(* The items of Y outside comments, those of them that are in the body,    *)
(* and texts that do not end in a comment.                                 *)
Shown(s, Y) == {i \in 1 .. Len(s) : ~InComment(s, i) /\ s[i] \in Y}

InText(s, Y) == {i \in 1 .. Len(s) : ~InComment(s, i) /\ InBody(s, i) /\ s[i] \in Y}

Ended(s) == ~InComment(s, Len(s) + 1)

(* What follows a text that does not end in a comment has its own          *)
(* comments, and those before it stay.                                     *)
LEMMA ConcatParts ==
    ASSUME NEW X, NEW u \in Seq(X), NEW v \in Seq(X), Ended(u)
    PROVE  /\ u \o v \in Seq(X) /\ Len(u \o v) = Len(u) + Len(v)
           /\ \A i \in 1 .. Len(u) : (u \o v)[i] = u[i] /\ (InComment(u \o v, i) <=> InComment(u, i))
           /\ \A j \in 1 .. Len(v) : /\ (u \o v)[j + Len(u)] = v[j]
                                     /\ InComment(u \o v, j + Len(u)) <=> InComment(v, j)
           /\ ~InComment(u \o v, Len(u) + 1)
           /\ Ended(u \o v) <=> Ended(v)
<1> DEFINE w == u \o v
           n == Len(u)
           k == Len(v)
<1>1. w \in Seq(X) /\ Len(w) = n + k /\ n \in Nat /\ k \in Nat
  OBVIOUS
<1>2. \A i \in 1 .. n : w[i] = u[i]
  OBVIOUS
<1>3. \A j \in 1 .. k : w[j + n] = v[j]
  <2> SUFFICES ASSUME NEW j \in 1 .. k PROVE w[j + n] = v[j]
    OBVIOUS
  <2>1. j + n \in 1 .. Len(u) + Len(v) /\ ~(j + n <= Len(u)) /\ (j + n) - Len(u) = j
    BY <1>1
  <2> QED BY <2>1
<1>0. Len(u) = n /\ Len(v) = k
  OBVIOUS
<1> HIDE DEF w, n, k
<1>4. Alike(w, 1, u, 1, n)
  <2>1. \A i \in 0 .. n - 1 : 1 + i \in 1 .. n
    BY <1>1
  <2>2. 1 + n <= Len(w) + 1
    BY <1>1
  <2>3. \A i \in 0 .. n - 1 : w[1 + i] = u[1 + i]
    BY <2>1, <1>2
  <2> QED BY <2>2, <2>3, <1>0, <1>1 DEF Alike
<1>5. SameComments(w, 1, u, 1, n)
  BY <1>1, <1>4, CommentStart, CommentsMoved
<1>6. \A i \in 1 .. n + 1 : InComment(w, i) <=> InComment(u, i)
  <2> SUFFICES ASSUME NEW i \in 1 .. n + 1 PROVE InComment(w, i) <=> InComment(u, i)
    OBVIOUS
  <2>1. i - 1 \in 0 .. n /\ 1 + (i - 1) = i
    BY <1>1
  <2>2. InComment(w, 1 + (i - 1)) <=> InComment(u, 1 + (i - 1))
    BY <2>1, <1>5 DEF SameComments
  <2> QED BY <2>1, <2>2
<1>7. ~InComment(w, n + 1)
  <2>1. n + 1 \in 1 .. n + 1
    BY <1>1
  <2> QED BY <2>1, <1>0, <1>6 DEF Ended
<1>8. Alike(w, n + 1, v, 1, k)
  <2>1. \A i \in 0 .. k - 1 : w[(n + 1) + i] = v[1 + i]
    <3> SUFFICES ASSUME NEW i \in 0 .. k - 1 PROVE w[(n + 1) + i] = v[1 + i]
      OBVIOUS
    <3>1. 1 + i \in 1 .. k /\ (1 + i) + n = (n + 1) + i
      BY <1>1
    <3>2. w[(1 + i) + n] = v[1 + i]
      BY <3>1, <1>3
    <3> QED BY <3>1, <3>2
  <2>2. n + 1 \in Nat \ {0} /\ (n + 1) + k <= Len(w) + 1 /\ 1 + k <= Len(v) + 1
    BY <1>0, <1>1
  <2> QED BY <2>1, <2>2 DEF Alike
<1>9. SameComments(w, n + 1, v, 1, k)
  BY <1>1, <1>7, <1>8, CommentStart, CommentsMoved
<1>10. \A j \in 1 .. k + 1 : InComment(w, j + n) <=> InComment(v, j)
  <2> SUFFICES ASSUME NEW j \in 1 .. k + 1 PROVE InComment(w, j + n) <=> InComment(v, j)
    OBVIOUS
  <2>1. j - 1 \in 0 .. k /\ 1 + (j - 1) = j /\ (n + 1) + (j - 1) = j + n
    BY <1>1
  <2>2. InComment(w, (n + 1) + (j - 1)) <=> InComment(v, 1 + (j - 1))
    BY <2>1, <1>9 DEF SameComments
  <2> QED BY <2>1, <2>2
<1>11. Ended(w) <=> Ended(v)
  <2>1. k + 1 \in 1 .. k + 1 /\ (k + 1) + n = Len(w) + 1
    BY <1>1
  <2>2. InComment(w, (k + 1) + n) <=> InComment(v, k + 1)
    BY <2>1, <1>10
  <2> QED BY <2>1, <2>2, <1>0 DEF Ended
<1>12. \A i \in 1 .. n : InComment(w, i) <=> InComment(u, i)
  BY <1>1, <1>6
<1>13. \A j \in 1 .. k : InComment(w, j + n) <=> InComment(v, j)
  BY <1>1, <1>10
<1> QED BY <1>1, <1>2, <1>3, <1>7, <1>11, <1>12, <1>13 DEF w, n, k

(* So what is shown adds up ...                                            *)
LEMMA ShownConcat ==
    ASSUME NEW X, NEW u \in Seq(X), NEW v \in Seq(X), Ended(u), NEW Y
    PROVE  Cardinality(Shown(u \o v, Y)) = Cardinality(Shown(u, Y)) + Cardinality(Shown(v, Y))
<1> DEFINE w == u \o v
           n == Len(u)
           k == Len(v)
           A == Shown(u, Y)
           B == Shown(v, Y)
           C == Shown(w, Y)
<1>1. /\ Len(w) = n + k
      /\ \A i \in 1 .. n : w[i] = u[i] /\ (InComment(w, i) <=> InComment(u, i))
      /\ \A j \in 1 .. k : w[j + n] = v[j] /\ (InComment(w, j + n) <=> InComment(v, j))
  BY ConcatParts
<1>2. n \in Nat /\ k \in Nat
  OBVIOUS
<1>3. /\ \A i : i \in A <=> i \in 1 .. n /\ ~InComment(u, i) /\ u[i] \in Y
      /\ \A j : j \in B <=> j \in 1 .. k /\ ~InComment(v, j) /\ v[j] \in Y
      /\ \A i : i \in C <=> i \in 1 .. n + k /\ ~InComment(w, i) /\ w[i] \in Y
  BY <1>1 DEF Shown
<1> HIDE DEF w, n, k, A, B, C
<1>4. ASSUME NEW i PROVE i \in C <=> i \in A \/ \E j \in B : i = j + n
  <2>1. ASSUME i \in C PROVE i \in A \/ \E j \in B : i = j + n
    <3>1. CASE i <= n
      <4>1. i \in 1 .. n
        BY <2>1, <3>1, <1>2, <1>3
      <4> QED BY <4>1, <2>1, <1>1, <1>3
    <3>2. CASE ~(i <= n)
      <4>1. i - n \in 1 .. k /\ (i - n) + n = i
        BY <2>1, <3>2, <1>2, <1>3
      <4>2. w[(i - n) + n] = v[i - n] /\ (InComment(w, (i - n) + n) <=> InComment(v, i - n))
        BY <4>1, <1>1
      <4>3. i - n \in B
        BY <4>1, <4>2, <2>1, <1>3
      <4> QED BY <4>1, <4>3
    <3> QED BY <3>1, <3>2
  <2>2. ASSUME i \in A PROVE i \in C
    <3>1. i \in 1 .. n /\ i \in 1 .. n + k
      BY <2>2, <1>2, <1>3
    <3> QED BY <3>1, <2>2, <1>1, <1>3
  <2>3. ASSUME NEW j \in B PROVE j + n \in C
    <3>1. j \in 1 .. k /\ j + n \in 1 .. n + k
      BY <1>2, <1>3
    <3> QED BY <3>1, <1>1, <1>3
  <2> QED BY <2>1, <2>2, <2>3
<1>5. A \in SUBSET (1 .. n) /\ B \in SUBSET (1 .. k)
  BY <1>3
<1>6. Joins(C, A, n, B, k)
  BY <1>2, <1>4, <1>5 DEF Joins
<1>7. Cardinality(C) = Cardinality(A) + Cardinality(B)
  BY <1>6, CardAppend
<1> QED BY <1>7 DEF A, B, C, w

(* ... and so does what is in the body, if it starts in the first text or  *)
(* never.                                                                  *)
LEMMA TextConcat ==
    ASSUME NEW X, NEW u \in Seq(X), NEW v \in Seq(X), Ended(u), NEW Y, Positions(v, "begin") = {}
    PROVE  Cardinality(InText(u \o v, Y)) = Cardinality(InText(u, Y)) + Cardinality(Shown(v, Y))
<1> DEFINE w == u \o v
           n == Len(u)
           k == Len(v)
           A == InText(u, Y)
           B == Shown(v, Y)
           C == InText(w, Y)
<1>1. /\ Len(w) = n + k
      /\ \A i \in 1 .. n : w[i] = u[i] /\ (InComment(w, i) <=> InComment(u, i))
      /\ \A j \in 1 .. k : w[j + n] = v[j] /\ (InComment(w, j + n) <=> InComment(v, j))
  BY ConcatParts
<1>2. n \in Nat /\ k \in Nat
  OBVIOUS
<1>3. /\ \A i : i \in A <=> i \in 1 .. n /\ ~InComment(u, i) /\ InBody(u, i) /\ u[i] \in Y
      /\ \A j : j \in B <=> j \in 1 .. k /\ ~InComment(v, j) /\ v[j] \in Y
      /\ \A i : i \in C <=> i \in 1 .. n + k /\ ~InComment(w, i) /\ InBody(w, i) /\ w[i] \in Y
  BY <1>1 DEF Shown, InText
<1>10. /\ \A b : b \in Positions(u, "begin") <=> b \in 1 .. n /\ u[b].is = "begin"
       /\ \A j \in 1 .. k : v[j].is # "begin"
       /\ \A b : b \in Positions(w, "begin") <=> b \in 1 .. n + k /\ w[b].is = "begin"
  BY <1>1 DEF Positions
<1> HIDE DEF w, n, k, A, B, C
<1>11. \A b : b \in Positions(w, "begin") <=> b \in Positions(u, "begin")
  <2> SUFFICES ASSUME NEW b \in 1 .. n + k PROVE w[b].is = "begin" <=> b \in 1 .. n /\ u[b].is = "begin"
    <3>1. \A b \in 1 .. n : b \in 1 .. n + k
      BY <1>2
    <3> QED BY <3>1, <1>10
  <2>1. CASE b <= n
    <3>1. b \in 1 .. n
      BY <2>1, <1>2
    <3> QED BY <3>1, <1>1
  <2>2. CASE ~(b <= n)
    <3>1. b - n \in 1 .. k /\ (b - n) + n = b /\ b \notin 1 .. n
      BY <2>2, <1>2
    <3>2. w[(b - n) + n] = v[b - n]
      BY <3>1, <1>1
    <3> QED BY <3>1, <3>2, <1>10
  <2> QED BY <2>1, <2>2
<1>12. /\ \A i : InBody(w, i) <=> InBody(u, i)
       /\ \A j \in 1 .. k : InBody(w, j + n)
  <2>1. \A i : InBody(w, i) <=> InBody(u, i)
    BY <1>11 DEF InBody
  <2>2. \A j \in 1 .. k : \A b \in Positions(u, "begin") : b < j + n
    BY <1>2, <1>10
  <2> QED BY <2>1, <2>2 DEF InBody
<1>4. ASSUME NEW i PROVE i \in C <=> i \in A \/ \E j \in B : i = j + n
  <2>1. ASSUME i \in C PROVE i \in A \/ \E j \in B : i = j + n
    <3>1. CASE i <= n
      <4>1. i \in 1 .. n
        BY <2>1, <3>1, <1>2, <1>3
      <4> QED BY <4>1, <2>1, <1>1, <1>3, <1>12
    <3>2. CASE ~(i <= n)
      <4>1. i - n \in 1 .. k /\ (i - n) + n = i
        BY <2>1, <3>2, <1>2, <1>3
      <4>2. w[(i - n) + n] = v[i - n] /\ (InComment(w, (i - n) + n) <=> InComment(v, i - n))
        BY <4>1, <1>1
      <4>3. i - n \in B
        BY <4>1, <4>2, <2>1, <1>3
      <4> QED BY <4>1, <4>3
    <3> QED BY <3>1, <3>2
  <2>2. ASSUME i \in A PROVE i \in C
    <3>1. i \in 1 .. n /\ i \in 1 .. n + k
      BY <2>2, <1>2, <1>3
    <3> QED BY <3>1, <2>2, <1>1, <1>3, <1>12
  <2>3. ASSUME NEW j \in B PROVE j + n \in C
    <3>1. j \in 1 .. k /\ j + n \in 1 .. n + k
      BY <1>2, <1>3
    <3> QED BY <3>1, <1>1, <1>3, <1>12
  <2> QED BY <2>1, <2>2, <2>3
<1>5. A \in SUBSET (1 .. n) /\ B \in SUBSET (1 .. k)
  BY <1>3
<1>6. Joins(C, A, n, B, k)
  BY <1>2, <1>4, <1>5 DEF Joins
<1>7. Cardinality(C) = Cardinality(A) + Cardinality(B)
  BY <1>6, CardAppend
<1> QED BY <1>7 DEF A, B, C, w

-----------------------------------------------------------------------------
(* What stands in no part.                                                 *)

(* The marks of the body stand in no part, and those of the parts do not   *)
(* remain.                                                                 *)
LEMMA RestIs ==
    ASSUME NEW s \in Seq(Items), WholeParts(s)
    PROVE  /\ Rest(s) \in SUBSET (1 .. Len(s))
           /\ \A i \in 1 .. Len(s) : s[i].is \in {"begin", "maketitle"} => i \in Rest(s)
           /\ \A i \in Rest(s) : s[i].is \notin {"title", "author", "abstract"}
<1>1. Rest(s) \in SUBSET (1 .. Len(s))
  BY DEF Rest, Outside
<1>2. ASSUME NEW i \in 1 .. Len(s), s[i].is \in {"begin", "maketitle"} PROVE i \in Rest(s)
  <2>1. SUFFICES ASSUME NEW a \in Parts(s), i \in a .. PartEnd(s, a) PROVE FALSE
    <3>1. ~\E a \in DOMAIN PartEnds(s) : i \in a .. PartEnds(s)[a]
      BY <2>1 DEF PartEnds
    <3> QED BY <3>1, CoveredIs DEF Rest, Outside
  <2>2. /\ a \in 1 .. Len(s) /\ PartEnd(s, a) \in a + 1 .. Len(s)
        /\ \A k \in a + 1 .. PartEnd(s, a) - 1 : s[k].is \notin Marks
        /\ s[PartEnd(s, a)].is \in {"close", "endabstract"}
    BY PartIs DEF WholeParts
  <2>3. s[a].is \in {"title", "author", "abstract"}
    BY PartsAre
  <2>4. i = a \/ i = PartEnd(s, a) \/ i \in a + 1 .. PartEnd(s, a) - 1
    BY <2>1, <2>2
  <2> QED BY <1>2, <2>2, <2>3, <2>4 DEF Marks
<1>3. ASSUME NEW i \in Rest(s), s[i].is \in {"title", "author", "abstract"} PROVE FALSE
  <2>1. i \in Parts(s)
    BY <1>1, <1>3, PartsAre
  <2>2. PartEnd(s, i) \in i + 1 .. Len(s) /\ i \in 1 .. Len(s)
    BY <2>1, PartIs DEF WholeParts
  <2>3. i \in i .. PartEnds(s)[i] /\ i \in DOMAIN PartEnds(s)
    BY <2>1, <2>2 DEF PartEnds
  <2> QED BY <2>3, CoveredIs DEF Rest, Outside
<1> QED BY <1>1, <1>2, <1>3

(* The body starts where it did.                                           *)
LEMMA RestBody ==
    ASSUME NEW s \in Seq(Items), WholeParts(s), NEW is \in {"begin", "maketitle"}
    PROVE  LET R == Rest(s)
               x == At(s, R)
           IN  /\ Positions(x, is) = {n \in 1 .. Cardinality(R) : InOrder(R)[n] \in Positions(s, is)}
               /\ \A n \in 1 .. Cardinality(R) : InBody(x, n) <=> InBody(s, InOrder(R)[n])
<1> DEFINE R == Rest(s)
           x == At(s, R)
           c == Cardinality(R)
           e == InOrder(R)
<1>1. R \in SUBSET (1 .. Len(s)) /\ \A i \in 1 .. Len(s) : s[i].is \in {"begin", "maketitle"} => i \in R
  BY RestIs
<1>2. IsFiniteSet(R) /\ R \in SUBSET Nat
  BY <1>1, AtProperties
<1>3. c \in Nat /\ e \in [1 .. c -> R] /\ \A i \in R : \E n \in 1 .. c : e[n] = i
  BY <1>2, InOrderProperties
<1>4. \A n, m \in 1 .. c : n < m => e[n] < e[m]
  BY <1>2, InOrderProperties
<1>5. Len(x) = c /\ \A n \in 1 .. c : x[n] = s[e[n]]
  BY <1>1, AtProperties
<1> HIDE DEF R, x, c, e
<1>6. ASSUME NEW k \in {"begin", "maketitle"}
      PROVE  Positions(x, k) = {n \in 1 .. c : e[n] \in Positions(s, k)}
  <2>1. \A n \in 1 .. c : e[n] \in 1 .. Len(s)
    BY <1>1, <1>3
  <2> QED BY <2>1, <1>5 DEF Positions
<1>7. ASSUME NEW n \in 1 .. c PROVE InBody(x, n) <=> InBody(s, e[n])
  <2>1. \A b \in Positions(s, "begin") : b \in R
    BY <1>1 DEF Positions
  <2>2. ASSUME NEW m \in 1 .. c PROVE m < n <=> e[m] < e[n]
    <3>0. e[m] \in R /\ e[n] \in R
      BY <1>3
    <3>1. m \in Nat /\ n \in Nat /\ e[m] \in Nat /\ e[n] \in Nat
      <4>1. \A i \in R : i \in Nat
        BY <1>2
      <4>2. m \in Nat /\ n \in Nat
        BY <1>3
      <4> QED BY <4>1, <4>2, <3>0
    <3>2. m < n => e[m] < e[n]
      BY <1>4
    <3>3. n < m => e[n] < e[m]
      BY <1>4
    <3> QED BY <3>1, <3>2, <3>3
  <2>3. Positions(x, "begin") = {m \in 1 .. c : e[m] \in Positions(s, "begin")}
    BY <1>6
  <2>4. InBody(x, n) => InBody(s, e[n])
    BY <2>1, <2>2, <2>3, <1>3 DEF InBody
  <2>5. InBody(s, e[n]) => InBody(x, n)
    BY <2>2, <2>3 DEF InBody
  <2> QED BY <2>4, <2>5
<1> QED BY <1>6, <1>7 DEF R, x, c, e

(* What is shown of the body, the parts aside, is shown as often when they *)
(* are gone.                                                               *)
BodyRest(s, Y) == {i \in Rest(s) : ~InComment(s, i) /\ InBody(s, i) /\ s[i] \in Y}

LEMMA RestText ==
    ASSUME NEW s \in Seq(Items), WholeParts(s), NEW Y
    PROVE  Cardinality(InText(At(s, Rest(s)), Y)) = Cardinality(BodyRest(s, Y))
<1> DEFINE R == Rest(s)
           x == At(s, R)
           T == BodyRest(s, Y)
<1>1. R \in SUBSET (1 .. Len(s)) /\ T \in SUBSET R /\ Len(s) \in Nat
  BY RestIs DEF BodyRest
<1>2. Cardinality({n \in 1 .. Cardinality(R) : InOrder(R)[n] \in T}) = Cardinality(T)
  BY <1>1, OrderedCard
<1>3. Len(x) = Cardinality(R) /\ \A n \in 1 .. Cardinality(R) : InOrder(R)[n] \in R
          /\ x[n] = s[InOrder(R)[n]]
  BY <1>1, AtProperties
<1>4. \A n \in 1 .. Cardinality(R) : InComment(x, n) <=> InComment(s, InOrder(R)[n])
  BY RestComments
<1>5. \A n \in 1 .. Cardinality(R) : InBody(x, n) <=> InBody(s, InOrder(R)[n])
  <2>1. "begin" \in {"begin", "maketitle"}
    OBVIOUS
  <2> QED BY <2>1, RestBody
<1>6. ASSUME NEW i PROVE i \in T <=> i \in R /\ ~InComment(s, i) /\ InBody(s, i) /\ s[i] \in Y
  BY DEF BodyRest
<1> HIDE DEF R, x, T
<1>7. InText(x, Y) = {n \in 1 .. Cardinality(R) : InOrder(R)[n] \in T}
  BY <1>3, <1>4, <1>5, <1>6 DEF InText
<1> QED BY <1>2, <1>7 DEF R, x, T

-----------------------------------------------------------------------------
(* The title block that is put in.                                         *)

(* Y has nothing but words and \includepdf. Texts without marks, without % *)
(* signs.                                                                  *)
Plain(Y) == \A y \in Y : y.is \in {"word", "includepdf"}

Unmarked(u) == \A k \in 1 .. Len(u) : u[k].is \notin Marks

NoComment(u) == \A k \in 1 .. Len(u) : u[k].is # "percent"

LEMMA Uncommented ==
    ASSUME NEW u \in Seq(Items), NoComment(u)
    PROVE  Ended(u) /\ \A i \in 1 .. Len(u) : ~InComment(u, i)
<1> SUFFICES ASSUME NEW i \in 1 .. Len(u) + 1, InComment(u, i) PROVE FALSE
  <2>1. Len(u) + 1 \in 1 .. Len(u) + 1 /\ \A i \in 1 .. Len(u) : i \in 1 .. Len(u) + 1
    OBVIOUS
  <2> QED BY <2>1 DEF Ended
<1>1. PICK j \in 1 .. i - 1 : u[j].is = "percent"
  BY DEF InComment
<1>2. j \in 1 .. Len(u)
  OBVIOUS
<1> QED BY <1>1, <1>2 DEF NoComment

(* _strip_tex_line_comments keeps what is shown of a text without \%: the  *)
(* comments go, and no new one begins.                                     *)
LEMMA CleanShown ==
    ASSUME NEW t \in Seq(Items), \A k \in 1 .. Len(t) : t[k].is # "percentsign", Unmarked(t),
           NEW Y, Plain(Y)
    PROVE  /\ Clean(t) \in Seq(Items) /\ NoComment(Clean(t)) /\ Unmarked(Clean(t))
           /\ Cardinality(Shown(Clean(t), Y)) = Cardinality(Shown(t, Y))
<1> DEFINE S == {i \in 1 .. Len(t) : ~InComment(t, i) /\ t[i].is \notin {"newline", "percent"}}
           u == At(t, S)
<1>1. S \in SUBSET (1 .. Len(t))
  OBVIOUS
<1>2. /\ u \in Seq(Items) /\ Len(u) = Cardinality(S) /\ Cardinality(S) \in Nat
      /\ \A n \in 1 .. Cardinality(S) : InOrder(S)[n] \in S /\ u[n] = t[InOrder(S)[n]]
  <2> HIDE DEF S
  <2> QED BY <1>1, AtProperties
<1>3. \A n \in 1 .. Len(u) : u[n].is \notin {"newline", "percent", "percentsign"} /\ u[n].is \notin Marks
  <2> SUFFICES ASSUME NEW n \in 1 .. Len(u)
               PROVE  u[n].is \notin {"newline", "percent", "percentsign"} /\ u[n].is \notin Marks
    OBVIOUS
  <2>1. InOrder(S)[n] \in S /\ u[n] = t[InOrder(S)[n]]
    BY <1>2
  <2> QED BY <2>1 DEF Unmarked
<1>4. Clean(t) = u
  <2> DEFINE Sign(i) == t[i].is \in {"percent", "percentsign"}
             Cut(i) == \E j \in 1 .. i - 1 :
                           Sign(j) /\ \A k \in j .. i - 1 : t[k].is # "newline"
             V == {i \in 1 .. Len(t) : ~Cut(i) /\ t[i].is \notin {"newline", "percent"}}
             kept == At(t, V)
  <2>1. \A i \in 1 .. Len(t) : Cut(i) <=> InComment(t, i)
    <3> SUFFICES ASSUME NEW i \in 1 .. Len(t) PROVE Cut(i) <=> InComment(t, i)
      OBVIOUS
    <3>1. \A j \in 1 .. i - 1 : Sign(j) <=> t[j].is = "percent"
      OBVIOUS
    <3> QED BY <3>1 DEF InComment
  <2>2. V = S
    BY <2>1
  <2>3. Clean(t) = [i \in 1 .. Len(kept) |->
                        IF kept[i].is = "percentsign" THEN Item("backslash") ELSE kept[i]]
    BY DEF Clean
  <2> HIDE DEF V, S
  <2>4. kept = u
    BY <2>2
  <2> HIDE DEF kept, u
  <2>5. Clean(t) = [i \in 1 .. Len(u) |-> u[i]]
    BY <2>3, <2>4, <1>3
  <2>6. u = [i \in 1 .. Len(u) |-> u[i]]
    BY <1>2
  <2> QED BY <2>5, <2>6
<1>5. NoComment(u) /\ Unmarked(u)
  BY <1>3 DEF NoComment, Unmarked
<1>6. Shown(u, Y) = {i \in 1 .. Len(u) : u[i] \in Y}
  <2> HIDE DEF u
  <2>1. \A i \in 1 .. Len(u) : ~InComment(u, i)
    BY <1>2, <1>5, Uncommented
  <2> QED BY <2>1 DEF Shown
<1>7. Count(u, Y) = Cardinality({i \in S : t[i] \in Y})
  <2> HIDE DEF S
  <2> QED BY <1>1, CountSelected
<1>8. {i \in S : t[i] \in Y} = Shown(t, Y)
  BY DEF Shown, Plain
<1> HIDE DEF u, S
<1> QED BY <1>2, <1>4, <1>5, <1>6, <1>7, <1>8 DEF Count

(* u is a piece of text without marks that ends outside comments and shows *)
(* as many of Y as S has members.                                          *)
Piece(u, S, Y) ==
    /\ u \in Seq(Items) /\ Ended(u) /\ Unmarked(u)
    /\ Cardinality(Shown(u, Y)) = Cardinality(S)

(* u has nothing of Y.                                                     *)
NoneOf(u, Y) == \A k \in 1 .. Len(u) : u[k] \notin Y

(* A piece between others that show nothing.                               *)
LEMMA Framing ==
    ASSUME NEW u \in Seq(Items), NEW S, NEW Y, Piece(u, S, Y), NEW p \in Seq(Items), NEW q \in Seq(Items),
           NoComment(p), NoComment(q), Unmarked(p), Unmarked(q), NoneOf(p, Y), NoneOf(q, Y)
    PROVE  Piece(p \o u \o q, S, Y)
<1>1. Ended(p) /\ Ended(q)
  BY Uncommented
<1>2. Shown(p, Y) = {} /\ Shown(q, Y) = {}
  BY DEF Shown, NoneOf
<1>3. Ended(p \o u) /\ p \o u \in Seq(Items)
  BY <1>1, ConcatParts DEF Piece
<1>4. Ended((p \o u) \o q) /\ (p \o u) \o q \in Seq(Items)
  <2> DEFINE w == p \o u
  <2> HIDE DEF w
  <2>1. Ended(w) /\ w \in Seq(Items)
    BY <1>3 DEF w
  <2>2. Ended(w \o q) /\ w \o q \in Seq(Items)
    BY <2>1, <1>1, ConcatParts
  <2> QED BY <2>2 DEF w
<1>5. Cardinality(Shown(p \o u, Y)) = 0 + Cardinality(S)
  <2>1. Cardinality(Shown(p \o u, Y)) = Cardinality(Shown(p, Y)) + Cardinality(Shown(u, Y))
    BY <1>1, ShownConcat
  <2> QED BY <2>1, <1>2, FS_EmptySet DEF Piece
<1>6. Cardinality(Shown((p \o u) \o q, Y)) = (0 + Cardinality(S)) + 0
  <2> DEFINE w == p \o u
  <2> HIDE DEF w
  <2>1. Ended(w) /\ w \in Seq(Items)
    BY <1>3 DEF w
  <2>2. Cardinality(Shown(w \o q, Y)) = Cardinality(Shown(w, Y)) + Cardinality(Shown(q, Y))
    BY <2>1, ShownConcat
  <2> QED BY <2>2, <1>2, <1>5, FS_EmptySet DEF w
<1>7. Cardinality(S) \in Nat
  <2>1. Shown(u, Y) \in SUBSET (1 .. Len(u)) /\ Len(u) \in Nat
    BY DEF Shown
  <2>2. Cardinality(Shown(u, Y)) \in Nat
    BY <2>1, FiniteInterval
  <2> QED BY <2>2 DEF Piece
<1>8. Unmarked((p \o u) \o q)
  <2> SUFFICES ASSUME NEW k \in 1 .. Len((p \o u) \o q) PROVE ((p \o u) \o q)[k].is \notin Marks
    BY DEF Unmarked
  <2>1. CASE k <= Len(p)
    <3>1. k \in 1 .. Len(p) /\ ((p \o u) \o q)[k] = p[k]
      BY <2>1
    <3> QED BY <3>1 DEF Unmarked
  <2>2. CASE ~(k <= Len(p)) /\ k <= Len(p) + Len(u)
    <3>1. k - Len(p) \in 1 .. Len(u) /\ ((p \o u) \o q)[k] = u[k - Len(p)]
      BY <2>2
    <3> QED BY <3>1 DEF Unmarked, Piece
  <2>3. CASE ~(k <= Len(p) + Len(u))
    <3>1. k - (Len(p) + Len(u)) \in 1 .. Len(q)
             /\ ((p \o u) \o q)[k] = q[k - (Len(p) + Len(u))]
      BY <2>3
    <3> QED BY <3>1 DEF Unmarked
  <2>4. k \in Nat
    OBVIOUS
  <2> QED BY <2>1, <2>2, <2>3
<1> QED BY <1>4, <1>6, <1>7, <1>8 DEF Piece

LEMMA NoPiece == ASSUME NEW Y PROVE Piece(<<>>, {}, Y)
<1>1. <<>> \in Seq(Items) /\ Len(<<>>) = 0
  OBVIOUS
<1>2. Ended(<<>>) /\ Unmarked(<<>>)
  BY <1>1, CommentStart DEF Ended, Unmarked
<1>3. Shown(<<>>, Y) = {}
  BY <1>1 DEF Shown
<1> QED BY <1>1, <1>2, <1>3 DEF Piece

(* The text of a part, and what is shown of it.                            *)
PartBody(s, i) == SubSeq(s, i + 1, PartEnd(s, i) - 1)

PartShown(s, i, Y) == {j \in i .. PartEnd(s, i) : ~InComment(s, j) /\ s[j] \in Y}

(* What a live part shows is what its text shows alone.                    *)
LEMMA PartBodyShown ==
    ASSUME NEW s \in Seq(Items), NEW i \in Parts(s), WholePart(s, i), ~InComment(s, i), NEW Y, Plain(Y)
    PROVE  /\ Piece(PartBody(s, i), PartShown(s, i, Y), Y)
           /\ s[i].is # "abstract" =>
                  \A k \in 1 .. Len(PartBody(s, i)) : PartBody(s, i)[k].is # "percentsign"
<1> DEFINE e == PartEnd(s, i)
           t == SubSeq(s, i + 1, e - 1)
           d == e - (i + 1)
<1>1. /\ i \in 1 .. Len(s) /\ e \in i + 1 .. Len(s)
      /\ \A k \in i + 1 .. e - 1 : s[k].is \notin Marks
      /\ s[e].is \in {"close", "endabstract"}
  BY PartIs
<1>2. s[i].is \in {"title", "author", "abstract"}
  BY PartsAre
<1>3. ~InComment(s, e) /\ ~InComment(s, i + 1)
  BY PartComments
<1>4. s[i].is # "abstract" => \A k \in i .. e : s[k].is # "percentsign"
  BY DEF WholePart
<1> HIDE DEF e
<1>5. /\ t \in Seq(Items) /\ Len(t) = d /\ d \in Nat
      /\ \A k \in 1 .. d : t[k] = s[i + k]
  <2>1. i \in Nat /\ e \in Nat /\ i + 1 \in 1 .. Len(s) + 1 /\ e - 1 \in 0 .. Len(s)
            /\ i + 1 <= e
    BY <1>1
  <2>2. t \in Seq(Items)
    BY <2>1, SubSeqType
  <2>3. Len(t) = d /\ d \in Nat
    BY <2>1
  <2>4. ASSUME NEW k \in 1 .. d PROVE t[k] = s[i + k]
    <3>1. k \in 1 .. (e - 1) - (i + 1) + 1 /\ (i + 1) + k - 1 = i + k
      BY <2>1
    <3> QED BY <3>1, <2>1
  <2> QED BY <2>2, <2>3, <2>4
<1>6. d \in Nat /\ i \in Nat /\ e \in Nat /\ Len(s) \in Nat /\ i + 1 + d = e /\ e <= Len(s)
  BY <1>1, <1>5
<1> HIDE DEF t
<1>7. \A k \in 1 .. d : i + k \in i + 1 .. e - 1 /\ i + k \in i .. e
  BY <1>6
<1>8. Alike(t, 1, s, i + 1, d)
  <2>1. \A k \in 0 .. d - 1 : t[1 + k] = s[(i + 1) + k]
    <3> SUFFICES ASSUME NEW k \in 0 .. d - 1 PROVE t[1 + k] = s[(i + 1) + k]
      OBVIOUS
    <3>1. 1 + k \in 1 .. d /\ i + (1 + k) = (i + 1) + k
      BY <1>6
    <3> QED BY <3>1, <1>5
  <2>2. 1 + d <= Len(t) + 1 /\ i + 1 \in Nat \ {0} /\ (i + 1) + d <= Len(s) + 1
    BY <1>5, <1>6
  <2> HIDE DEF d
  <2> QED BY <2>1, <2>2 DEF Alike
<1>9. InComment(t, 1) <=> InComment(s, i + 1)
  BY <1>3, CommentStart
<1>10. Ended(t)
  <2>1. SameComments(t, 1, s, i + 1, d)
    <3> HIDE DEF d
    <3> QED BY <1>5, <1>8, <1>9, CommentsMoved
  <2>2. d \in 0 .. d /\ 1 + d = Len(t) + 1 /\ (i + 1) + d = e
    BY <1>5, <1>6
  <2> HIDE DEF d
  <2> QED BY <2>1, <2>2, <1>3 DEF SameComments, Ended
<1>11. Cardinality(ShownIn(t, 1, d, Y)) = Cardinality(ShownIn(s, i + 1, d, Y))
  <2> HIDE DEF d
  <2> QED BY <1>5, <1>8, <1>9, ShownMoved
<1>12. ShownIn(t, 1, d, Y) = Shown(t, Y)
  <2>1. 1 + d - 1 = Len(t)
    BY <1>5
  <2> QED BY <2>1 DEF ShownIn, Shown
<1>13. ShownIn(s, i + 1, d, Y) = PartShown(s, i, Y)
  <2>1. i + 1 + d - 1 = e - 1
    BY <1>6
  <2>2. s[i] \notin Y /\ s[e] \notin Y
    BY <1>1, <1>2 DEF Plain
  <2>3. ASSUME NEW j PROVE j \in i .. e <=> j = i \/ j = e \/ j \in i + 1 .. e - 1
    <3>1. i \in Nat /\ e \in Nat /\ i + 1 <= e
      BY <1>1
    <3> QED BY <3>1
  <2>4. PartShown(s, i, Y) = {j \in i .. e : ~InComment(s, j) /\ s[j] \in Y}
    BY DEF PartShown, e
  <2>5. ShownIn(s, i + 1, d, Y) = {j \in i + 1 .. e - 1 : ~InComment(s, j) /\ s[j] \in Y}
    BY <2>1 DEF ShownIn
  <2> QED BY <2>2, <2>3, <2>4, <2>5
<1>14. Unmarked(t)
  BY <1>1, <1>5, <1>7 DEF Unmarked
<1>15. Piece(t, PartShown(s, i, Y), Y)
  BY <1>5, <1>10, <1>11, <1>12, <1>13, <1>14 DEF Piece
<1>16. s[i].is # "abstract" => \A k \in 1 .. Len(t) : t[k].is # "percentsign"
  BY <1>4, <1>5, <1>7
<1> QED BY <1>15, <1>16 DEF PartBody, t, e

(* What the live parts of a kind show.                                     *)
KindShown(s, is, Y) == UNION {PartShown(s, i, Y) : i \in Live(s, is)}

(* _find_command_inner finds the text of the live title or author, which   *)
(* shows what it showed there ...                                          *)
LEMMA InnerShown ==
    ASSUME NEW s \in Seq(Items), WholeBlock(s), NEW is \in {"title", "author"}, NEW Y, Plain(Y)
    PROVE  /\ Piece(Inner(s, is), KindShown(s, is, Y), Y)
           /\ \A k \in 1 .. Len(Inner(s, is)) : Inner(s, is)[k].is # "percentsign"
<1> DEFINE at == {i \in Positions(s, is) : ~InComment(s, i) /\ Closing(s, i) # 0}
<1>1. \A i \in Positions(s, is) : i \in Parts(s) /\ s[i].is = is
  BY DEF Parts, Positions
<1>2. at = Live(s, is)
  <2>1. \A i \in Positions(s, is) : Closing(s, i) # 0
    BY <1>1, PartIs DEF WholeBlock
  <2> QED BY <2>1 DEF Live
<1>3. Inner(s, is) = IF at = {} THEN <<>> ELSE SubSeq(s, First(at) + 1, Closing(s, First(at)) - 1)
  BY DEF Inner
<1>4. Live(s, is) = {} \/ \E i \in Live(s, is) : Live(s, is) = {i}
  <2>1. Live(s, is) \in SUBSET (1 .. Len(s)) /\ Len(s) \in Nat
    BY DEF Live, Positions
  <2>2. Cardinality(Live(s, is)) <= 1
    BY DEF WholeBlock
  <2> QED BY <2>1, <2>2, AtMostOne
<1> HIDE DEF at
<1>5. CASE Live(s, is) = {}
  <2>1. Inner(s, is) = <<>> /\ KindShown(s, is, Y) = {}
    BY <1>2, <1>3, <1>5 DEF KindShown
  <2> QED BY <2>1, NoPiece
<1>6. CASE \E i \in Live(s, is) : Live(s, is) = {i}
  <2>1. PICK i \in Live(s, is) : Live(s, is) = {i}
    BY <1>6
  <2>2. i \in Parts(s) /\ ~InComment(s, i) /\ WholePart(s, i) /\ s[i].is # "abstract" /\ i \in Nat
    <3>1. i \in Positions(s, is) /\ ~InComment(s, i)
      BY DEF Live
    <3> QED BY <3>1, <1>1 DEF WholeBlock, Positions
  <2>3. First(at) = i /\ at # {} /\ PartEnd(s, i) = Closing(s, i)
    BY <1>2, <2>1, <2>2, FirstOne, PartIs
  <2>4. Inner(s, is) = PartBody(s, i)
    BY <1>3, <2>3 DEF PartBody
  <2>5. KindShown(s, is, Y) = PartShown(s, i, Y)
    BY <2>1 DEF KindShown
  <2> QED BY <2>2, <2>4, <2>5, PartBodyShown
<1> QED BY <1>4, <1>5, <1>6

(* ... and _find_environment_body that of the live abstract.               *)
LEMMA AbstractShown ==
    ASSUME NEW s \in Seq(Items), WholeBlock(s), NEW Y, Plain(Y)
    PROVE  \/ AbstractBody(s) = {} /\ KindShown(s, "abstract", Y) = {}
           \/ \E body : AbstractBody(s) = {body} /\ Piece(body, KindShown(s, "abstract", Y), Y)
<1> DEFINE at == {i \in Positions(s, "abstract") : ~InComment(s, i)}
<1>2. at = Live(s, "abstract")
  BY DEF Live
<1>3. AbstractBody(s) = IF at = {} \/ EndAfter(s, First(at)) = {} THEN {}
                        ELSE {SubSeq(s, First(at) + 1, First(EndAfter(s, First(at))) - 1)}
  BY DEF AbstractBody
<1>4. Live(s, "abstract") = {} \/ \E i \in Live(s, "abstract") : Live(s, "abstract") = {i}
  <2>1. Live(s, "abstract") \in SUBSET (1 .. Len(s)) /\ Len(s) \in Nat
    BY DEF Live, Positions
  <2>2. Cardinality(Live(s, "abstract")) <= 1
    BY DEF WholeBlock
  <2> QED BY <2>1, <2>2, AtMostOne
<1> HIDE DEF at
<1>5. CASE Live(s, "abstract") = {}
  <2>1. AbstractBody(s) = {} /\ KindShown(s, "abstract", Y) = {}
    BY <1>2, <1>3, <1>5 DEF KindShown
  <2> QED BY <2>1
<1>6. CASE \E i \in Live(s, "abstract") : Live(s, "abstract") = {i}
  <2>1. PICK i \in Live(s, "abstract") : Live(s, "abstract") = {i}
    BY <1>6
  <2>2. i \in Parts(s) /\ ~InComment(s, i) /\ WholePart(s, i) /\ s[i].is = "abstract" /\ i \in Nat
    <3>1. i \in Positions(s, "abstract") /\ ~InComment(s, i)
      BY DEF Live
    <3> QED BY <3>1 DEF WholeBlock, Positions, Parts
  <2>3. First(at) = i /\ at # {} /\ EndAfter(s, i) # {} /\ PartEnd(s, i) = First(EndAfter(s, i))
    BY <1>2, <2>1, <2>2, FirstOne, PartIs
  <2>4. AbstractBody(s) = {PartBody(s, i)}
    BY <1>3, <2>3 DEF PartBody
  <2>5. KindShown(s, "abstract", Y) = PartShown(s, i, Y)
    BY <2>1 DEF KindShown
  <2> QED BY <2>2, <2>4, <2>5, PartBodyShown
<1> QED BY <1>4, <1>5, <1>6

(* What the title block has between them shows nothing.                    *)
LEMMA Separators ==
    ASSUME NEW Y, Plain(Y)
    PROVE  \A q \in {<<Item("section")>>, <<Item("emph")>>, <<Item("newline")>>,
                     <<Item("close"), Item("newline")>>,
                     <<Item("section"), Item("close"), Item("newline")>>} :
               q \in Seq(Items) /\ NoComment(q) /\ Unmarked(q) /\ NoneOf(q, Y)
<1> DEFINE K == {"section", "emph", "close", "newline"}
<1>1. \A is \in K : /\ Item(is) \in Items /\ Item(is) \notin Y
                    /\ Item(is).is # "percent" /\ Item(is).is \notin Marks
  <2> SUFFICES ASSUME NEW is \in K
               PROVE  /\ Item(is) \in Items /\ Item(is) \notin Y
                      /\ Item(is).is # "percent" /\ Item(is).is \notin Marks
    OBVIOUS
  <2>1. is \in Kinds
    BY DEF Kinds, Openers
  <2>2. Item(is).is = is
    BY DEF Item
  <2> QED BY <2>1, <2>2, ItemType DEF Plain, Marks
<1> SUFFICES ASSUME NEW a \in K, NEW b \in K, NEW c \in K, NEW q, q \in {<<Item(a)>>, <<Item(a), Item(b)>>, <<Item(a), Item(b), Item(c)>>}
             PROVE  q \in Seq(Items) /\ NoComment(q) /\ Unmarked(q) /\ NoneOf(q, Y)
  OBVIOUS
<1> HIDE DEF K
<1>2. q \in Seq(Items) /\ \A k \in 1 .. Len(q) : q[k] \in {Item(a), Item(b), Item(c)}
  <2>1. Item(a) \in Items /\ Item(b) \in Items /\ Item(c) \in Items
    BY <1>1
  <2>2. CASE q = <<Item(a)>>
    BY <2>1, <2>2
  <2>3. CASE q = <<Item(a), Item(b)>>
    BY <2>1, <2>3
  <2>4. CASE q = <<Item(a), Item(b), Item(c)>>
    BY <2>1, <2>4
  <2> QED BY <2>2, <2>3, <2>4
<1> QED BY <1>1, <1>2 DEF NoComment, Unmarked, NoneOf

LEMMA CleanPiece ==
    ASSUME NEW t \in Seq(Items), \A k \in 1 .. Len(t) : t[k].is # "percentsign",
           NEW S, NEW Y, Plain(Y), Piece(t, S, Y)
    PROVE  Piece(Clean(t), S, Y)
BY CleanShown, Uncommented DEF Piece

(* Two pieces that show different things show both.                        *)
LEMMA PieceConcat ==
    ASSUME NEW u, NEW v, NEW S, NEW T, NEW Y, Piece(u, S, Y), Piece(v, T, Y),
           NEW n \in Nat, S \in SUBSET (1 .. n), T \in SUBSET (1 .. n), S \cap T = {}
    PROVE  Piece(u \o v, S \cup T, Y)
<1>1. u \in Seq(Items) /\ v \in Seq(Items) /\ Ended(u) /\ Ended(v) /\ Unmarked(u) /\ Unmarked(v)
         /\ Cardinality(Shown(u, Y)) = Cardinality(S) /\ Cardinality(Shown(v, Y)) = Cardinality(T)
  BY DEF Piece
<1>2. u \o v \in Seq(Items) /\ Ended(u \o v)
  BY <1>1, ConcatParts
<1>3. Cardinality(Shown(u \o v, Y)) = Cardinality(Shown(u, Y)) + Cardinality(Shown(v, Y))
  BY <1>1, ShownConcat
<1>4. Cardinality(S \cup T) = Cardinality(S) + Cardinality(T)
  BY CardDisjoint
<1>5. Unmarked(u \o v)
  <2> SUFFICES ASSUME NEW k \in 1 .. Len(u \o v) PROVE (u \o v)[k].is \notin Marks
    BY DEF Unmarked
  <2>1. CASE k <= Len(u)
    <3>1. k \in 1 .. Len(u) /\ (u \o v)[k] = u[k]
      BY <1>1, <2>1
    <3> QED BY <3>1, <1>1 DEF Unmarked
  <2>2. CASE ~(k <= Len(u))
    <3>1. k - Len(u) \in 1 .. Len(v) /\ (u \o v)[k] = v[k - Len(u)]
      BY <1>1, <2>2
    <3> QED BY <3>1, <1>1 DEF Unmarked
  <2> QED BY <2>1, <2>2
<1> QED BY <1>1, <1>2, <1>3, <1>4, <1>5 DEF Piece

(* What is shown in all the parts.                                         *)
CoveredShown(s, Y) == {j \in Covered(PartEnds(s)) : ~InComment(s, j) /\ s[j] \in Y}

(* It is what the live parts show, each kind something else: a part in a   *)
(* comment shows nothing.                                                  *)
LEMMA KindsShown ==
    ASSUME NEW s \in Seq(Items), WholeParts(s), NEW Y
    PROVE  LET S(is) == KindShown(s, is, Y) IN
           /\ \A is \in {"title", "author", "abstract"} : S(is) \in SUBSET (1 .. Len(s))
           /\ \A is, of \in {"title", "author", "abstract"} : is # of => S(is) \cap S(of) = {}
           /\ CoveredShown(s, Y) = (S("title") \cup S("author")) \cup S("abstract")
<1> DEFINE K == {"title", "author", "abstract"}
<1>1. \A is, j : j \in KindShown(s, is, Y) <=> \E i \in Live(s, is) : j \in PartShown(s, i, Y)
  BY DEF KindShown
<1>2. \A i, j : j \in PartShown(s, i, Y) <=> j \in i .. PartEnd(s, i) /\ ~InComment(s, j) /\ s[j] \in Y
  BY DEF PartShown
<1>3. \A is \in K : \A i \in Live(s, is) : i \in Parts(s) /\ s[i].is = is
  BY DEF Live, Parts, Positions
<1>4. \A i \in Parts(s) : i \in 1 .. Len(s) /\ PartEnd(s, i) \in i + 1 .. Len(s)
  BY PartIs DEF WholeParts
<1>5. ASSUME NEW is \in K, NEW j \in KindShown(s, is, Y) PROVE j \in 1 .. Len(s)
  <2>1. PICK i \in Live(s, is) : j \in i .. PartEnd(s, i)
    BY <1>1, <1>2
  <2>2. i \in 1 .. Len(s) /\ PartEnd(s, i) \in i + 1 .. Len(s)
    BY <1>3, <1>4
  <2> QED BY <2>1, <2>2
<1>6. ASSUME NEW is \in K, NEW of \in K, is # of, NEW j \in KindShown(s, is, Y), j \in KindShown(s, of, Y)
      PROVE  FALSE
  <2>1. PICK a \in Live(s, is) : j \in a .. PartEnd(s, a)
    BY <1>1, <1>2
  <2>2. PICK b \in Live(s, of) : j \in b .. PartEnd(s, b)
    BY <1>1, <1>2, <1>6
  <2>3. a \in Parts(s) /\ b \in Parts(s) /\ a # b
    BY <1>3, <1>6
  <2>4. \A x, y \in Parts(s) : x < y => PartEnd(s, x) < y
    <3>1. DOMAIN PartEnds(s) = Parts(s) /\ \A x \in Parts(s) : PartEnds(s)[x] = PartEnd(s, x)
      BY DEF PartEnds
    <3> QED BY <3>1, PartsApart DEF SpansApart
  <2>5. a \in Nat /\ b \in Nat /\ PartEnd(s, a) \in Nat /\ PartEnd(s, b) \in Nat
    BY <2>3, <1>4
  <2>6. a < b \/ b < a
    BY <2>3, <2>5
  <2>7. (a < b => PartEnd(s, a) < b) /\ (b < a => PartEnd(s, b) < a)
    BY <2>3, <2>4
  <2> QED BY <2>1, <2>2, <2>5, <2>6, <2>7
<1>7. ASSUME NEW j
      PROVE  j \in CoveredShown(s, Y) <=> \E is \in K : j \in KindShown(s, is, Y)
  <2>1. j \in CoveredShown(s, Y) <=> \E i \in Parts(s) : j \in PartShown(s, i, Y)
    <3>1. DOMAIN PartEnds(s) = Parts(s) /\ \A x \in Parts(s) : PartEnds(s)[x] = PartEnd(s, x)
      BY DEF PartEnds
    <3> QED BY <3>1, <1>2, CoveredIs DEF CoveredShown
  <2>2. ASSUME NEW i \in Parts(s), j \in PartShown(s, i, Y) PROVE i \in Live(s, s[i].is) /\ s[i].is \in K
    <3>1. ~InComment(s, i)
      <4>1. j \in i .. PartEnd(s, i) + 1 /\ ~InComment(s, j)
        BY <2>2, <1>2, <1>4
      <4> QED BY <4>1, CommentedPart DEF WholeParts
    <3> QED BY <3>1, PartsAre DEF Live, Positions
  <2> QED BY <2>1, <2>2, <1>1, <1>3
<1>8. CoveredShown(s, Y) = (KindShown(s, "title", Y) \cup KindShown(s, "author", Y)) \cup KindShown(s, "abstract", Y)
  BY <1>7
<1> QED BY <1>5, <1>6, <1>8

(* The title block of s.                                                   *)
Block(s) == TitleBlock(Inner(s, "title"), Inner(s, "author"), AbstractBody(s))

(* It shows what the parts showed, item by item.                           *)
LEMMA BlockShown ==
    ASSUME NEW s \in Seq(Items), WholeBlock(s), NEW Y, Plain(Y)
    PROVE  Piece(Block(s), CoveredShown(s, Y), Y)
<1> DEFINE title == Inner(s, "title")
           author == Inner(s, "author")
           abstract == AbstractBody(s)
           T == KindShown(s, "title", Y)
           A == KindShown(s, "author", Y)
           B == KindShown(s, "abstract", Y)
           q == <<Item("close"), Item("newline")>>
           t == IF title = <<>> THEN <<>> ELSE <<Item("section")>> \o Clean(title) \o q
           a == IF Clean(author) = <<>> THEN <<>> ELSE <<Item("emph")>> \o Clean(author) \o q
           b == IF abstract = {} THEN <<>>
                ELSE <<Item("section"), Item("close"), Item("newline")>> \o
                       (CHOOSE body \in abstract : TRUE) \o <<Item("newline")>>
<1>1. Block(s) = (t \o a) \o b
  BY DEF Block, TitleBlock
<1>2. Piece(title, T, Y) /\ Piece(author, A, Y)
         /\ (\A k \in 1 .. Len(title) : title[k].is # "percentsign")
         /\ (\A k \in 1 .. Len(author) : author[k].is # "percentsign")
  BY InnerShown
<1>3. \/ abstract = {} /\ B = {}
      \/ \E body : abstract = {body} /\ Piece(body, B, Y)
  BY AbstractShown
<1>4. /\ T \in SUBSET (1 .. Len(s)) /\ A \in SUBSET (1 .. Len(s)) /\ B \in SUBSET (1 .. Len(s))
      /\ T \cap A = {} /\ T \cap B = {} /\ A \cap B = {}
      /\ CoveredShown(s, Y) = (T \cup A) \cup B
  <2>1. WholeParts(s)
    BY DEF WholeBlock, WholeParts
  <2>2. /\ \A is \in {"title", "author", "abstract"} : KindShown(s, is, Y) \in SUBSET (1 .. Len(s))
        /\ \A is, of \in {"title", "author", "abstract"} :
                is # of => KindShown(s, is, Y) \cap KindShown(s, of, Y) = {}
        /\ CoveredShown(s, Y) = (KindShown(s, "title", Y) \cup KindShown(s, "author", Y))
                                    \cup KindShown(s, "abstract", Y)
    BY <2>1, KindsShown
  <2> QED BY <2>2
<1> HIDE DEF title, author, abstract, T, A, B
<1>5. /\ title \in Seq(Items) /\ author \in Seq(Items)
      /\ Piece(Clean(title), T, Y) /\ Piece(Clean(author), A, Y)
      /\ Clean(title) \in Seq(Items) /\ Clean(author) \in Seq(Items)
  <2>1. title \in Seq(Items) /\ author \in Seq(Items)
    BY <1>2 DEF Piece
  <2> QED BY <1>2, <2>1, CleanPiece, CleanType
<1>6. Piece(t, T, Y)
  <2>1. CASE title = <<>>
    BY <2>1, <1>2
  <2>2. CASE title # <<>>
    BY <2>2, <1>5, Separators, Framing
  <2> QED BY <2>1, <2>2
<1>7. Piece(a, A, Y)
  <2>1. CASE Clean(author) = <<>>
    BY <2>1, <1>5
  <2>2. CASE Clean(author) # <<>>
    BY <2>2, <1>5, Separators, Framing
  <2> QED BY <2>1, <2>2
<1>8. Piece(b, B, Y)
  <2>1. CASE abstract = {} /\ B = {}
    BY <2>1, NoPiece
  <2>2. CASE \E body : abstract = {body} /\ Piece(body, B, Y)
    <3>1. PICK body : abstract = {body} /\ Piece(body, B, Y)
      BY <2>2
    <3>2. (CHOOSE x \in abstract : TRUE) = body /\ abstract # {} /\ body \in Seq(Items)
      BY <3>1 DEF Piece
    <3>3. b = <<Item("section"), Item("close"), Item("newline")>> \o body \o <<Item("newline")>>
      BY <3>2
    <3> QED BY <3>1, <3>2, <3>3, Separators, Framing
  <2> QED BY <2>1, <2>2, <1>3
<1> HIDE DEF t, a, b
<1>9. Len(s) \in Nat
  OBVIOUS
<1>10. Piece(t \o a, T \cup A, Y)
  BY <1>4, <1>6, <1>7, <1>9, PieceConcat
<1>11. Piece((t \o a) \o b, (T \cup A) \cup B, Y)
  <2>1. T \cup A \in SUBSET (1 .. Len(s)) /\ (T \cup A) \cap B = {}
    BY <1>4
  <2> DEFINE w == t \o a
             W == T \cup A
  <2> HIDE DEF w, W
  <2>2. Piece(w, W, Y) /\ W \in SUBSET (1 .. Len(s)) /\ W \cap B = {}
    BY <1>10, <2>1 DEF w, W
  <2>3. Piece(w \o b, W \cup B, Y)
    BY <1>4, <1>8, <1>9, <2>2, PieceConcat
  <2> QED BY <2>3 DEF w, W
<1> QED BY <1>1, <1>4, <1>11

-----------------------------------------------------------------------------
(* Where it is put.                                                        *)

(* The first k items end in a comment if the next one is in it.            *)
LEMMA PrefixEnded ==
    ASSUME NEW s \in Seq(Items), NEW k \in 0 .. Len(s)
    PROVE  Ended(SubSeq(s, 1, k)) <=> ~InComment(s, k + 1)
<1> DEFINE u == SubSeq(s, 1, k)
<1>1. u \in Seq(Items) /\ Len(u) = k /\ \A i \in 1 .. k : u[i] = s[i]
  BY Split
<1>2. k \in Nat /\ k <= Len(s) /\ Len(s) \in Nat
  OBVIOUS
<1> HIDE DEF u
<1>3. Alike(u, 1, s, 1, k)
  <2>1. \A i \in 0 .. k - 1 : 1 + i \in 1 .. k
    BY <1>2
  <2>2. 1 + k <= Len(u) + 1 /\ 1 + k <= Len(s) + 1
    BY <1>1, <1>2
  <2> QED BY <2>1, <2>2, <1>1 DEF Alike
<1>4. SameComments(u, 1, s, 1, k)
  <2>1. InComment(u, 1) <=> InComment(s, 1)
    BY CommentStart
  <2> QED BY <2>1, <1>1, <1>2, <1>3, CommentsMoved
<1>5. k \in 0 .. k /\ 1 + k = k + 1
  BY <1>2
<1>6. InComment(u, k + 1) <=> InComment(s, k + 1)
  BY <1>4, <1>5 DEF SameComments
<1>7. Ended(u) <=> ~InComment(u, k + 1)
  BY <1>1 DEF Ended
<1> QED BY <1>6, <1>7 DEF u

(* The body starts in one place at most, no mark of it is in a comment,    *)
(* and \maketitle stands in it.                                            *)
Decent(x) ==
    /\ \A a, b \in Positions(x, "begin") : a = b
    /\ \A is \in {"begin", "maketitle"} : \A i \in Positions(x, is) : ~InComment(x, i)
    /\ \A i \in Positions(x, "maketitle") : InBody(x, i)

(* The block takes the place of w, between u and v.                        *)
Inserted(x, block, u, w, v) ==
    /\ u \in Seq(Items) /\ w \in Seq(Items) /\ v \in Seq(Items)
    /\ x = (u \o w) \o v
    /\ Placed(x, block) = (u \o block) \o v
    /\ \A k \in 1 .. Len(w) : w[k].is = "maketitle"
    /\ Decent(x) => Ended(u) /\ Positions(v, "begin") = {}

(* Each of the three places is of this form: w is a \maketitle or nothing. *)
LEMMA PlacedParts ==
    ASSUME NEW x \in Seq(Items), NEW block \in Seq(Items)
    PROVE  \E u, w, v : Inserted(x, block, u, w, v)
<1> DEFINE at == Positions(x, "maketitle")
           begin == Positions(x, "begin")
<1>1. at \in SUBSET (1 .. Len(x)) /\ begin \in SUBSET (1 .. Len(x)) /\ at \in SUBSET Nat
          /\ begin \in SUBSET Nat
  BY DEF Positions
<1>2. (\A i \in at : x[i].is = "maketitle") /\ (\A i \in begin : x[i].is = "begin")
  BY DEF Positions
<1>3. Placed(x, block) =
        IF at # {} THEN SubSeq(x, 1, First(at) - 1) \o block \o SubSeq(x, First(at) + 1, Len(x))
        ELSE IF begin # {}
        THEN SubSeq(x, 1, First(begin)) \o block \o SubSeq(x, First(begin) + 1, Len(x))
        ELSE block \o x
  BY DEF Placed
<1>4. Decent(x) => /\ \A a, b \in begin : a = b
                   /\ \A i \in at : ~InComment(x, i) /\ \A b \in begin : b < i
                   /\ \A i \in begin : ~InComment(x, i)
  BY DEF Decent, InBody
<1>20. \A v : Positions(v, "begin") = {k \in 1 .. Len(v) : v[k].is = "begin"}
  BY DEF Positions
<1>21. \A k \in 1 .. Len(x) : x[k].is = "begin" => k \in begin
  BY DEF Positions
<1> HIDE DEF at, begin
<1>5. CASE at # {}
  <2>1. PICK m \in 1 .. Len(x) : m = First(at) /\ m \in at
    BY <1>1, <1>5, FirstProperties
  <2> DEFINE u == SubSeq(x, 1, m - 1)
             y == SubSeq(x, m, Len(x))
             w == <<x[m]>>
             v == SubSeq(x, m + 1, Len(x))
  <2>2. m - 1 \in 0 .. Len(x) /\ (m - 1) + 1 = m /\ m \in 0 .. Len(x) /\ m \in Nat /\ Len(x) \in Nat
    OBVIOUS
  <2>3. u \in Seq(Items) /\ Len(u) = m - 1
    BY <2>2, Split
  <2>4. SubSeq(x, 1, m) = u \o w
    <3>1. SubSeq(x, 1, m) = Append(u, x[m])
      <4>1. /\ SubSeq(x, 1, m) \in Seq(Items) /\ Len(SubSeq(x, 1, m)) = m
            /\ \A i \in 1 .. m : SubSeq(x, 1, m)[i] = x[i]
        BY <2>2, Split
      <4>2. \A i \in 1 .. m - 1 : u[i] = x[i]
        BY <2>2, Split
      <4>3. Append(u, x[m]) \in Seq(Items) /\ Len(Append(u, x[m])) = m
              /\ \A i \in 1 .. m : Append(u, x[m])[i] = x[i]
        BY <2>2, <2>3, <4>2
      <4> HIDE DEF u
      <4> QED BY <4>1, <4>3, SeqEqual
    <3>2. Append(u, x[m]) = u \o <<x[m]>>
      BY <2>3
    <3> QED BY <3>1, <3>2
  <2>5. x = SubSeq(x, 1, m) \o v /\ v \in Seq(Items) /\ Len(v) = Len(x) - m
          /\ \A i \in 1 .. Len(x) - m : v[i] = x[m + i]
    BY <2>2, Split
  <2>6. w \in Seq(Items) /\ \A k \in 1 .. Len(w) : w[k].is = "maketitle"
    BY <2>1, <1>2
  <2>7. Placed(x, block) = (u \o block) \o v
    BY <1>3, <1>5, <2>1
  <2>8. Decent(x) => Ended(u)
    BY <1>4, <2>1, <2>2, PrefixEnded
  <2>9. Decent(x) => Positions(v, "begin") = {}
    <3> SUFFICES ASSUME Decent(x), NEW k \in 1 .. Len(v), v[k].is = "begin" PROVE FALSE
      BY <1>20
    <3>1. m + k \in 1 .. Len(x) /\ x[m + k].is = "begin" /\ ~(m + k < m)
      BY <2>2, <2>5
    <3>2. m + k \in begin
      BY <3>1, <1>21
    <3> QED BY <3>1, <3>2, <1>4, <2>1
  <2> HIDE DEF u, w, v
  <2>10. Inserted(x, block, u, w, v)
    BY <2>3, <2>4, <2>5, <2>6, <2>7, <2>8, <2>9 DEF Inserted
  <2> QED BY <2>10
<1>6. CASE at = {} /\ begin # {}
  <2>1. PICK m \in 1 .. Len(x) : m = First(begin) /\ m \in begin
    BY <1>1, <1>6, FirstProperties
  <2> DEFINE u == SubSeq(x, 1, m)
             v == SubSeq(x, m + 1, Len(x))
  <2>2. m \in 0 .. Len(x) /\ m \in Nat /\ Len(x) \in Nat
    OBVIOUS
  <2>3. x = u \o v /\ u \in Seq(Items) /\ v \in Seq(Items) /\ Len(v) = Len(x) - m
          /\ \A i \in 1 .. Len(x) - m : v[i] = x[m + i]
    BY <2>2, Split
  <2>4. u \o <<>> = u
    BY <2>3
  <2>5. Placed(x, block) = (u \o block) \o v
    BY <1>3, <1>6, <2>1
  <2>6. Decent(x) => Ended(u)
    <3>1. Decent(x) => ~InComment(x, m) /\ x[m].is = "begin"
      BY <2>1, <1>2, <1>4
    <3>2. Decent(x) => ~InComment(x, m + 1)
      BY <3>1, CommentStep
    <3> QED BY <3>2, <2>2, PrefixEnded
  <2>7. Decent(x) => Positions(v, "begin") = {}
    <3> SUFFICES ASSUME Decent(x), NEW k \in 1 .. Len(v), v[k].is = "begin" PROVE FALSE
      BY <1>20
    <3>1. m + k \in 1 .. Len(x) /\ x[m + k].is = "begin" /\ m + k # m
      BY <2>2, <2>3
    <3>2. m + k \in begin
      BY <3>1, <1>21
    <3> QED BY <3>1, <3>2, <1>4, <2>1
  <2>8. <<>> \in Seq(Items) /\ Len(<<>>) = 0 /\ \A k \in 1 .. Len(<<>>) : <<>>[k].is = "maketitle"
    OBVIOUS
  <2> HIDE DEF u, v
  <2>9. Inserted(x, block, u, <<>>, v)
    BY <2>3, <2>4, <2>5, <2>6, <2>7, <2>8 DEF Inserted
  <2> QED BY <2>9
<1>7. CASE at = {} /\ begin = {}
  <2>1. <<>> \o <<>> = <<>> /\ <<>> \o x = x /\ <<>> \o block = block
    OBVIOUS
  <2>2. <<>> \in Seq(Items) /\ Len(<<>>) = 0 /\ \A k \in 1 .. Len(<<>>) : <<>>[k].is = "maketitle"
    OBVIOUS
  <2>3. Ended(<<>>)
    BY <2>2, CommentStart DEF Ended
  <2>4. Placed(x, block) = block \o x
    BY <1>3, <1>7
  <2>5. Positions(x, "begin") = {}
    BY <1>7 DEF begin
  <2>6. Inserted(x, block, <<>>, <<>>, x)
    BY <2>1, <2>2, <2>3, <2>4, <2>5 DEF Inserted
  <2> QED BY <2>6
<1> QED BY <1>5, <1>6, <1>7

(* What is in the body of three texts together.                            *)
LEMMA TextThree ==
    ASSUME NEW u \in Seq(Items), NEW w \in Seq(Items), NEW v \in Seq(Items), Ended(u), Ended(w),
           Positions(w, "begin") = {}, Positions(v, "begin") = {}, NEW Y
    PROVE  Cardinality(InText((u \o w) \o v, Y))
               = (Cardinality(InText(u, Y)) + Cardinality(Shown(w, Y))) + Cardinality(Shown(v, Y))
<1>1. Cardinality(InText(u \o w, Y)) = Cardinality(InText(u, Y)) + Cardinality(Shown(w, Y))
  BY TextConcat
<1>2. u \o w \in Seq(Items) /\ Ended(u \o w)
  BY ConcatParts
<1> DEFINE z == u \o w
<1> HIDE DEF z
<1>3. z \in Seq(Items) /\ Ended(z)
  BY <1>2 DEF z
<1>4. Cardinality(InText(z \o v, Y)) = Cardinality(InText(z, Y)) + Cardinality(Shown(v, Y))
  BY <1>3, TextConcat
<1> QED BY <1>1, <1>4 DEF z

(* A piece put in its place adds what it shows to the body, wherever the   *)
(* place is.                                                               *)
LEMMA PlacedText ==
    ASSUME NEW x \in Seq(Items), Decent(x), NEW block, NEW S, NEW Y, Plain(Y), Piece(block, S, Y)
    PROVE  Cardinality(InText(Placed(x, block), Y)) = Cardinality(InText(x, Y)) + Cardinality(S)
<1>1. block \in Seq(Items) /\ Ended(block) /\ Unmarked(block)
        /\ Cardinality(Shown(block, Y)) = Cardinality(S)
  BY DEF Piece
<1>2. PICK u, w, v : Inserted(x, block, u, w, v)
  BY <1>1, PlacedParts
<1>3. /\ u \in Seq(Items) /\ w \in Seq(Items) /\ v \in Seq(Items)
      /\ x = (u \o w) \o v
      /\ Placed(x, block) = (u \o block) \o v
      /\ \A k \in 1 .. Len(w) : w[k].is = "maketitle"
      /\ Ended(u) /\ Positions(v, "begin") = {}
  BY <1>2 DEF Inserted
<1>4. Positions(block, "begin") = {}
  BY <1>1 DEF Positions, Unmarked, Marks
<1>5. Positions(w, "begin") = {} /\ NoComment(w) /\ Shown(w, Y) = {}
  BY <1>3 DEF Positions, NoComment, Shown, Plain
<1>6. Ended(w)
  BY <1>3, <1>5, Uncommented
<1>7. Cardinality(InText(x, Y))
        = (Cardinality(InText(u, Y)) + Cardinality(Shown(w, Y))) + Cardinality(Shown(v, Y))
  <2>1. /\ u \in Seq(Items) /\ w \in Seq(Items) /\ v \in Seq(Items) /\ Ended(u)
        /\ Positions(v, "begin") = {} /\ Positions(w, "begin") = {}
    BY <1>3, <1>5
  <2>2. Cardinality(InText((u \o w) \o v, Y))
          = (Cardinality(InText(u, Y)) + Cardinality(Shown(w, Y))) + Cardinality(Shown(v, Y))
    BY <2>1, <1>6, TextThree
  <2> QED BY <2>2, <1>3
<1>8. Cardinality(InText(Placed(x, block), Y))
        = (Cardinality(InText(u, Y)) + Cardinality(Shown(block, Y))) + Cardinality(Shown(v, Y))
  <2>1. u \in Seq(Items) /\ v \in Seq(Items) /\ Ended(u) /\ Positions(v, "begin") = {}
    BY <1>3
  <2>2. Cardinality(InText((u \o block) \o v, Y))
          = (Cardinality(InText(u, Y)) + Cardinality(Shown(block, Y))) + Cardinality(Shown(v, Y))
    BY <2>1, <1>1, <1>4, TextThree
  <2> QED BY <2>2, <1>3
<1>9. Cardinality(InText(u, Y)) \in Nat /\ Cardinality(Shown(v, Y)) \in Nat
          /\ Cardinality(Shown(block, Y)) \in Nat
  <2>1. \A t \in Seq(Items) : InText(t, Y) \in SUBSET (1 .. Len(t))
            /\ Shown(t, Y) \in SUBSET (1 .. Len(t))
                                /\ Len(t) \in Nat
    BY DEF InText, Shown
  <2> QED BY <2>1, <1>1, <1>3, FiniteInterval
<1> QED BY <1>1, <1>5, <1>7, <1>8, <1>9, FS_EmptySet

(* The rewriting drops a \maketitle and no other item.                     *)
LEMMA PlacedRange ==
    ASSUME NEW x \in Seq(Items), NEW block \in Seq(Items)
    PROVE  /\ Range(Placed(x, block)) \subseteq Range(x) \cup Range(block)
           /\ Range(block) \subseteq Range(Placed(x, block))
           /\ \A d \in Range(x) : d.is # "maketitle" => d \in Range(Placed(x, block))
<1>2. PICK u, w, v : Inserted(x, block, u, w, v)
  BY PlacedParts
<1>3. /\ u \in Seq(Items) /\ w \in Seq(Items) /\ v \in Seq(Items)
      /\ x = (u \o w) \o v
      /\ Placed(x, block) = (u \o block) \o v
      /\ \A k \in 1 .. Len(w) : w[k].is = "maketitle"
  BY <1>2 DEF Inserted
<1>4. \A b \in Seq(Items) : Range((u \o b) \o v) = (Range(u) \cup Range(b)) \cup Range(v)
  <2> SUFFICES ASSUME NEW b \in Seq(Items)
          PROVE Range((u \o b) \o v) = (Range(u) \cup Range(b)) \cup Range(v)
    OBVIOUS
  <2>1. u \o b \in Seq(Items) /\ Range(u \o b) = Range(u) \cup Range(b)
    BY <1>3, RangeConcat
  <2> DEFINE z == u \o b
  <2> HIDE DEF z
  <2>2. z \in Seq(Items) => Range(z \o v) = Range(z) \cup Range(v)
    BY <1>3, RangeConcat
  <2> QED BY <2>1, <2>2 DEF z
<1>5. Range(x) = (Range(u) \cup Range(w)) \cup Range(v)
  BY <1>3, <1>4
<1>6. Range(Placed(x, block)) = (Range(u) \cup Range(block)) \cup Range(v)
  BY <1>3, <1>4
<1>7. \A d \in Range(w) : d.is = "maketitle"
  <2>1. w \in Seq(Items) /\ \A k \in 1 .. Len(w) : w[k].is = "maketitle"
    BY <1>3
  <2>2. \A d : d \in Range(w) <=> \E k \in 1 .. Len(w) : w[k] = d
    BY <2>1, SeqRange
  <2> QED BY <2>1, <2>2
<1> QED BY <1>5, <1>6, <1>7

-----------------------------------------------------------------------------
(* What the rewriting keeps.                                               *)

(* What the rewriting of a whole title block is.                           *)
LEMMA RewrittenIs ==
    ASSUME NEW s \in Seq(Items), WholeBlock(s)
    PROVE  Rewritten(s) = IF Inner(s, "title") = <<>> /\ AbstractBody(s) = {} THEN s
                          ELSE Placed(At(s, Rest(s)), Block(s))
<1>1. WholeParts(s)
  BY DEF WholeBlock, WholeParts
<1> QED BY <1>1, StripIs DEF Rewritten, Block

(* Where nothing is rewritten nothing is shown in the parts.               *)
LEMMA NothingCovered ==
    ASSUME NEW s \in Seq(Items), WholeBlock(s), NEW Y, Plain(Y),
           Inner(s, "title") = <<>>, AbstractBody(s) = {}
    PROVE  CoveredShown(s, Y) = {}
<1>1. WholeParts(s)
  BY DEF WholeBlock, WholeParts
<1> DEFINE S(is) == KindShown(s, is, Y)
<1>2. S("author") = {}
  <2>1. Live(s, "author") = {}
    BY DEF WholeBlock
  <2> QED BY <2>1 DEF KindShown
<1>3. S("abstract") = {}
  <2>1. \/ AbstractBody(s) = {} /\ KindShown(s, "abstract", Y) = {}
        \/ \E body : AbstractBody(s) = {body} /\ Piece(body, KindShown(s, "abstract", Y), Y)
    BY AbstractShown
  <2> QED BY <2>1
<1>4. S("title") \in SUBSET (1 .. Len(s))
          /\ CoveredShown(s, Y) = (S("title") \cup S("author")) \cup S("abstract")
  BY <1>1, KindsShown
<1>5. S("title") = {}
  <2>1. Piece(<<>>, S("title"), Y)
    BY InnerShown
  <2>2. Shown(<<>>, Y) = {}
    BY DEF Shown
  <2>3. Cardinality(S("title")) = 0
    BY <2>1, <2>2, FS_EmptySet DEF Piece
  <2>4. IsFiniteSet(S("title"))
    <3>1. S("title") \in SUBSET (1 .. Len(s)) /\ Len(s) \in Nat
      BY <1>4
    <3> HIDE DEF S
    <3> QED BY <3>1, FiniteInterval
  <2> HIDE DEF S
  <2> QED BY <2>3, <2>4, FS_EmptySet
<1> QED BY <1>2, <1>3, <1>4, <1>5

(* A regular source is decent once it is stripped.                         *)
LEMMA RestDecent ==
    ASSUME NEW s \in Seq(Items), Regular(s)
    PROVE  Decent(At(s, Rest(s)))
<1> DEFINE R == Rest(s)
           x == At(s, R)
           c == Cardinality(R)
           e == InOrder(R)
<1>1. WholeParts(s)
  BY DEF Regular, WholeBlock, WholeParts
<1>2. R \in SUBSET (1 .. Len(s)) /\ IsFiniteSet(R) /\ R \in SUBSET Nat
  BY <1>1, RestIs, AtProperties
<1>3. c \in Nat /\ e \in [1 .. c -> R] /\ \A n, m \in 1 .. c : n < m => e[n] < e[m]
  BY <1>2, InOrderProperties
<1>4. \A is \in {"begin", "maketitle"} : Positions(x, is) = {n \in 1 .. c : e[n] \in Positions(s, is)}
  BY <1>1, RestBody
<1>5. \A n \in 1 .. c : InBody(x, n) <=> InBody(s, e[n])
  <2>1. "begin" \in {"begin", "maketitle"}
    OBVIOUS
  <2> QED BY <1>1, <2>1, RestBody
<1>6. \A n \in 1 .. c : InComment(x, n) <=> InComment(s, e[n])
  BY <1>1, RestComments
<1>7. \A is \in {"begin", "maketitle"} : \A i \in Positions(s, is) : ~InComment(s, i)
  BY DEF Regular, Live
<1>8. \A a, b \in Positions(s, "begin") : a = b
  <2>1. Positions(s, "begin") \in SUBSET (1 .. Len(s)) /\ Len(s) \in Nat
    BY DEF Positions
  <2>2. Positions(s, "begin") = {} \/ \E i \in Positions(s, "begin") : Positions(s, "begin") = {i}
    BY <2>1, AtMostOne DEF Regular
  <2> QED BY <2>2
<1>9. \A i \in Positions(s, "maketitle") : InBody(s, i)
  BY DEF Regular
<1> HIDE DEF R, x, c, e
<1>10. ASSUME NEW a \in Positions(x, "begin"), NEW b \in Positions(x, "begin") PROVE a = b
  <2>1. a \in 1 .. c /\ b \in 1 .. c /\ e[a] = e[b]
    BY <1>4, <1>8
  <2>2. e[a] \in R /\ e[b] \in R
    BY <2>1, <1>3
  <2>3. e[a] \in Nat /\ e[b] \in Nat /\ a \in Nat /\ b \in Nat
    <3>1. \A i \in R : i \in Nat
      BY <1>2
    <3>2. a \in Nat /\ b \in Nat
      BY <2>1, <1>3
    <3> QED BY <3>1, <3>2, <2>2
  <2>4. (a < b => e[a] < e[b]) /\ (b < a => e[b] < e[a])
    BY <2>1, <1>3
  <2> QED BY <2>1, <2>3, <2>4
<1>11. \A is \in {"begin", "maketitle"} : \A i \in Positions(x, is) : ~InComment(x, i)
  BY <1>4, <1>6, <1>7
<1>12. \A i \in Positions(x, "maketitle") : InBody(x, i)
  BY <1>4, <1>5, <1>9
<1> QED BY <1>10, <1>11, <1>12 DEF Decent, x, R

(* A word outside comments is in the metadata if and only if it is in a    *)
(* part.                                                                   *)
LEMMA MetadataIs ==
    ASSUME NEW s \in Seq(Items), WholeBlock(s), NEW k \in 1 .. Len(s), ~InComment(s, k), s[k].is = "word"
    PROVE  InMetadata(s, k) <=> k \in Covered(PartEnds(s))
<1>1. k \in Covered(PartEnds(s)) <=> \E i \in Parts(s) : k \in i .. PartEnd(s, i)
  <2>1. DOMAIN PartEnds(s) = Parts(s) /\ \A x \in Parts(s) : PartEnds(s)[x] = PartEnd(s, x)
    BY DEF PartEnds
  <2> QED BY <2>1, CoveredIs
<1>2. \A i \in Parts(s) : WholePart(s, i)
  BY DEF WholeBlock
<1>3. ASSUME NEW i \in Parts(s), k \in i .. PartEnd(s, i) PROVE InMetadata(s, k)
  <2>1. ~InComment(s, i)
    <3>1. k \in i .. PartEnd(s, i) + 1
      <4>1. i \in 1 .. Len(s) /\ PartEnd(s, i) \in i + 1 .. Len(s)
        BY <1>2, PartIs
      <4> QED BY <4>1, <1>3
    <3> QED BY <3>1, <1>2, CommentedPart
  <2>2. /\ i \in 1 .. Len(s) /\ PartEnd(s, i) \in i + 1 .. Len(s)
        /\ s[PartEnd(s, i)].is \in {"close", "endabstract"}
        /\ s[i].is = "abstract" => PartEnd(s, i) = First(EndAfter(s, i)) /\ EndAfter(s, i) # {}
        /\ s[i].is # "abstract" => PartEnd(s, i) = Closing(s, i)
    BY <1>2, PartIs
  <2>3. s[i].is \in {"title", "author", "abstract"}
    BY PartsAre
  <2>4. i < k /\ k < PartEnd(s, i)
    <3>1. k # i /\ k # PartEnd(s, i)
      BY <2>2, <2>3
    <3>2. i \in Nat /\ k \in Nat /\ PartEnd(s, i) \in Nat
      BY <2>2
    <3> QED BY <3>1, <3>2, <1>3
  <2>5. CASE s[i].is = "abstract"
    <3>1. EndAfter(s, i) \cap 1 .. k = {}
      <4>1. EndAfter(s, i) \in SUBSET Nat
        BY DEF EndAfter, Positions
      <4>2. \A j \in EndAfter(s, i) : PartEnd(s, i) <= j
        BY <4>1, <2>2, <2>5, FirstProperties
      <4> QED BY <4>1, <4>2, <2>2, <2>4
    <3>2. i \in Positions(s, "abstract")
      BY <2>2, <2>5 DEF Positions
    <3> QED BY <3>1, <3>2, <2>4 DEF InMetadata
  <2>6. CASE s[i].is # "abstract"
    <3>1. i \in Positions(s, "title") \cup Positions(s, "author")
      BY <2>2, <2>3, <2>6 DEF Positions
    <3> QED BY <3>1, <2>1, <2>2, <2>4, <2>6 DEF InMetadata
  <2> QED BY <2>5, <2>6
<1>4. ASSUME NEW j \in Positions(s, "title") \cup Positions(s, "author"), j < k, k < Closing(s, j)
      PROVE  j \in Parts(s) /\ k \in j .. PartEnd(s, j)
  <2>1. j \in Parts(s) /\ s[j].is # "abstract" /\ j \in Nat
    BY DEF Parts, Positions
  <2>2. PartEnd(s, j) = Closing(s, j) /\ PartEnd(s, j) \in j + 1 .. Len(s)
    BY <2>1, <1>2, PartIs
  <2> QED BY <2>1, <2>2, <1>4
<1>5. ASSUME NEW j \in Positions(s, "abstract"), j < k, EndAfter(s, j) \cap 1 .. k = {}
      PROVE  j \in Parts(s) /\ k \in j .. PartEnd(s, j)
  <2>1. j \in Parts(s) /\ s[j].is = "abstract" /\ j \in Nat
    BY DEF Parts, Positions
  <2>2. PartEnd(s, j) = First(EndAfter(s, j)) /\ EndAfter(s, j) # {} /\ PartEnd(s, j) \in j + 1 .. Len(s)
    BY <2>1, <1>2, PartIs
  <2>3. PartEnd(s, j) \in EndAfter(s, j)
    <3>1. EndAfter(s, j) \in SUBSET Nat
      BY DEF EndAfter, Positions
    <3> QED BY <3>1, <2>2, FirstProperties
  <2>4. ~(PartEnd(s, j) <= k)
    BY <2>1, <2>2, <2>3, <1>5
  <2> QED BY <2>1, <2>2, <2>4, <1>5
<1> QED BY <1>1, <1>3, <1>4, <1>5 DEF InMetadata

(* The words labelled f.                                                   *)
OwnWords(f) == {it \in Items : it.is = "word" /\ it.arg = f}

LEMMA WordsPlain == ASSUME NEW w PROVE Plain(OwnWords(w))
BY DEF Plain, OwnWords

(* A reader sees the words of the body outside the parts and those in the  *)
(* parts; pandoc renders the former.                                       *)
LEMMA MeantIs ==
    ASSUME NEW s \in Seq(Items), WholeBlock(s), NEW w
    PROVE  /\ {k \in Meant(s) : s[k].arg = w} = BodyRest(s, OwnWords(w)) \cup CoveredShown(s, OwnWords(w))
           /\ {k \in Rendered(s) : s[k].arg = w} = BodyRest(s, OwnWords(w))
           /\ BodyRest(s, OwnWords(w)) \cap CoveredShown(s, OwnWords(w)) = {}
           /\ BodyRest(s, OwnWords(w)) \in SUBSET (1 .. Len(s))
           /\ CoveredShown(s, OwnWords(w)) \in SUBSET (1 .. Len(s))
<1> DEFINE Y == OwnWords(w)
           C == Covered(PartEnds(s))
<1>1. \A k \in 1 .. Len(s) : s[k] \in Y <=> s[k].is = "word" /\ s[k].arg = w
  BY DEF OwnWords
<1>2. \A k \in 1 .. Len(s) : s[k].is = "word" /\ ~InComment(s, k) => (InMetadata(s, k) <=> k \in C)
  BY MetadataIs
<1>3. \A k : k \in BodyRest(s, Y) <=> k \in 1 .. Len(s) /\ k \notin C /\ ~InComment(s, k)
          /\ InBody(s, k) /\ s[k] \in Y
  BY DEF BodyRest, Rest, Outside
<1>4. C \in SUBSET (1 .. Len(s))
  <2> SUFFICES ASSUME NEW k \in C PROVE k \in 1 .. Len(s)
    OBVIOUS
  <2>1. PICK i \in Parts(s) : k \in i .. PartEnd(s, i)
    <3>1. DOMAIN PartEnds(s) = Parts(s) /\ \A x \in Parts(s) : PartEnds(s)[x] = PartEnd(s, x)
      BY DEF PartEnds
    <3> QED BY <3>1, CoveredIs
  <2>2. i \in 1 .. Len(s) /\ PartEnd(s, i) \in i + 1 .. Len(s)
    BY PartIs DEF WholeBlock
  <2> QED BY <2>1, <2>2
<1>5. \A k : k \in CoveredShown(s, Y) <=> k \in 1 .. Len(s) /\ k \in C /\ ~InComment(s, k) /\ s[k] \in Y
  BY <1>4 DEF CoveredShown
<1>6. \A k : k \in Meant(s) <=> k \in 1 .. Len(s) /\ s[k].is = "word" /\ ~InComment(s, k)
          /\ (InMetadata(s, k) \/ InBody(s, k))
  BY DEF Meant, Positions
<1>7. \A k : k \in Rendered(s) <=> k \in 1 .. Len(s) /\ s[k].is = "word" /\ ~InComment(s, k)
          /\ ~InMetadata(s, k) /\ InBody(s, k)
  BY DEF Rendered, Positions
<1> HIDE DEF Y, C
<1>8. {k \in Meant(s) : s[k].arg = w} = BodyRest(s, Y) \cup CoveredShown(s, Y)
  BY <1>1, <1>2, <1>3, <1>5, <1>6
<1>9. {k \in Rendered(s) : s[k].arg = w} = BodyRest(s, Y)
  BY <1>1, <1>2, <1>3, <1>7
<1>10. BodyRest(s, Y) \cap CoveredShown(s, Y) = {}
  BY <1>3, <1>5
<1>11. BodyRest(s, Y) \in SUBSET (1 .. Len(s)) /\ CoveredShown(s, Y) \in SUBSET (1 .. Len(s))
  BY <1>3, <1>5
<1> QED BY <1>8, <1>9, <1>10, <1>11 DEF Y

(* So every word a reader of a regular source sees is rendered, as often   *)
(* as it stands there: the parts are gone, and their words are in the      *)
(* block.                                                                  *)
LEMMA TextRewritten ==
    ASSUME NEW s \in Seq(Items), Regular(s), NEW w
    PROVE  Cardinality({k \in Rendered(Rewritten(s)) : Rewritten(s)[k].arg = w})
               = Cardinality({k \in Meant(s) : s[k].arg = w})
<1> DEFINE Y == OwnWords(w)
           B == BodyRest(s, Y)
           C == CoveredShown(s, Y)
           plain == Inner(s, "title") = <<>> /\ AbstractBody(s) = {}
           x == At(s, Rest(s))
           block == Block(s)
           result == Placed(x, block)
<1>1. WholeBlock(s) /\ WholeParts(s) /\ Plain(Y)
  BY WordsPlain DEF Regular, WholeBlock, WholeParts
<1>2. /\ {k \in Meant(s) : s[k].arg = w} = B \cup C
      /\ {k \in Rendered(s) : s[k].arg = w} = B
      /\ B \cap C = {} /\ B \in SUBSET (1 .. Len(s)) /\ C \in SUBSET (1 .. Len(s))
  BY <1>1, MeantIs
<1>3. Rewritten(s) = IF plain THEN s ELSE result
  BY <1>1, RewrittenIs
<1>4. CASE plain
  <2>1. C = {}
    BY <1>1, <1>4, NothingCovered
  <2>2. Rewritten(s) = s
    BY <1>3, <1>4
  <2> HIDE DEF B, C
  <2> QED BY <2>1, <2>2, <1>2
<1>5. CASE ~plain
  <2>1. Rewritten(s) = result
    BY <1>3, <1>5
  <2>2. x \in Seq(Items) /\ Decent(x)
            /\ \A k \in 1 .. Len(x) : x[k].is \notin {"title", "author", "abstract"}
    <3>1. Rest(s) \in SUBSET (1 .. Len(s))
              /\ \A i \in Rest(s) : s[i].is \notin {"title", "author", "abstract"}
      BY <1>1, RestIs
    <3>2. x \in Seq(Items) /\ Len(x) = Cardinality(Rest(s))
            /\ \A n \in 1 .. Cardinality(Rest(s)) : InOrder(Rest(s))[n] \in Rest(s)
                   /\ x[n] = s[InOrder(Rest(s))[n]]
      BY <3>1, AtProperties
    <3> HIDE DEF x
    <3>3. \A k \in 1 .. Len(x) : x[k].is \notin {"title", "author", "abstract"}
      BY <3>1, <3>2
    <3> QED BY <3>2, <3>3, RestDecent DEF x
  <2>3. Piece(block, C, Y)
    BY <1>1, BlockShown
  <2>4. Cardinality(InText(x, Y)) = Cardinality(B)
    BY <1>1, RestText
  <2>5. Len(s) \in Nat
    OBVIOUS
  <2> HIDE DEF x, block, B, C
  <2>6. Cardinality(InText(result, Y)) = Cardinality(B) + Cardinality(C)
    <3> HIDE DEF Y
    <3>1. Cardinality(InText(Placed(x, block), Y)) = Cardinality(InText(x, Y)) + Cardinality(C)
      BY <1>1, <2>2, <2>3, PlacedText
    <3> QED BY <3>1, <2>4
  <2>7. Cardinality(B \cup C) = Cardinality(B) + Cardinality(C)
    BY <1>2, <2>5, CardDisjoint
  <2>8. {k \in Rendered(result) : result[k].arg = w} = InText(result, Y)
    <3>1. block \in Seq(Items) /\ Unmarked(block)
      BY <2>3 DEF Piece
    <3>2. result \in Seq(Items)
      BY <2>2, <3>1, PlacedType
    <3>3. Range(result) \subseteq Range(x) \cup Range(block)
      BY <2>2, <3>1, PlacedRange
    <3> DEFINE c == result
    <3> HIDE DEF result, c
    <3>4. c = result
      BY DEF c
    <3>5. \A d \in Range(x) \cup Range(block) : d.is \notin {"title", "author", "abstract"}
      <4>1. \A d \in Range(x) : d.is \notin {"title", "author", "abstract"}
        <5>1. \A d : d \in Range(x) <=> \E k \in 1 .. Len(x) : x[k] = d
          BY <2>2, SeqRange
        <5> QED BY <5>1, <2>2
      <4>2. \A d \in Range(block) : d.is \notin {"title", "author", "abstract"}
        <5>1. \A d : d \in Range(block) <=> \E k \in 1 .. Len(block) : block[k] = d
          BY <3>1, SeqRange
        <5> QED BY <5>1, <3>1 DEF Unmarked, Marks
      <4> QED BY <4>1, <4>2
    <3>6. \A k \in 1 .. Len(c) : c[k] \in Items /\ c[k].is \notin {"title", "author", "abstract"}
      <4>1. \A d : d \in Range(c) <=> \E k \in 1 .. Len(c) : c[k] = d
        BY <3>2, <3>4, SeqRange
      <4>2. \A k \in 1 .. Len(c) : c[k] \in Range(c)
        BY <4>1
      <4> QED BY <4>2, <3>2, <3>3, <3>4, <3>5
    <3>7. \A k : ~InMetadata(c, k)
      BY <3>6 DEF InMetadata, Positions
    <3>8. {k \in Rendered(c) : c[k].arg = w} = InText(c, Y)
      BY <3>6, <3>7 DEF Rendered, InText, Positions, Y, OwnWords
    <3> QED BY <3>8, <3>4
  <2> HIDE DEF result, Y
  <2> QED BY <2>1, <2>6, <2>7, <2>8, <1>2
<1> QED BY <1>4, <1>5

(* A live \includepdf of a text with a whole title block is in the text    *)
(* after the rewriting: in the block, or where it was.                     *)
LEMMA WrapperKept ==
    ASSUME NEW s \in Seq(Items), WholeBlock(s), NEW k \in Live(s, "includepdf")
    PROVE  Positions(Rewritten(s), "includepdf") # {}
<1> DEFINE x == At(s, Rest(s))
           block == Block(s)
           Y == {s[k]}
           result == Rewritten(s)
<1>1. WholeParts(s) /\ Plain(Y) /\ k \in 1 .. Len(s) /\ s[k].is = "includepdf" /\ ~InComment(s, k)
  BY DEF WholeBlock, WholeParts, Plain, Live, Positions
<1>2. result = s \/ result = Placed(x, block)
  BY RewrittenIs
<1>3. result \in Seq(Items)
  BY RewrittenType
<1>4. Rest(s) \in SUBSET (1 .. Len(s))
  BY <1>1, RestIs
<1>5. x \in Seq(Items) /\ Range(x) = {s[i] : i \in Rest(s)}
  BY <1>4, AtProperties
<1>6. Piece(block, CoveredShown(s, Y), Y)
  BY <1>1, BlockShown
<1>7. block \in Seq(Items)
  BY <1>6 DEF Piece
<1> HIDE DEF result
<1>8. s[k] \in Range(result)
  <2>1. CASE result = s
    <3>1. \A d : d \in Range(s) <=> \E i \in 1 .. Len(s) : s[i] = d
      BY SeqRange
    <3> QED BY <3>1, <2>1, <1>1
  <2>2. CASE result = Placed(x, block) /\ k \in Rest(s)
    <3> HIDE DEF x, block
    <3>1. \A d \in Range(x) : d.is # "maketitle" => d \in Range(Placed(x, block))
      BY <1>5, <1>7, PlacedRange
    <3> QED BY <3>1, <2>2, <1>1, <1>5
  <2>3. CASE result = Placed(x, block) /\ k \notin Rest(s)
    <3>1. k \in CoveredShown(s, Y)
      BY <2>3, <1>1 DEF CoveredShown, Rest, Outside
    <3>2. Shown(block, Y) # {}
      <4> HIDE DEF block, Y
      <4>1. Cardinality(Shown(block, Y)) = Cardinality(CoveredShown(s, Y))
        BY <1>6 DEF Piece
      <4>2. CoveredShown(s, Y) \in SUBSET (1 .. Len(s)) /\ Len(s) \in Nat
        <5> DEFINE S(is) == KindShown(s, is, Y)
        <5>1. /\ \A is \in {"title", "author", "abstract"} : S(is) \in SUBSET (1 .. Len(s))
              /\ CoveredShown(s, Y) = (S("title") \cup S("author")) \cup S("abstract")
          BY <1>1, KindsShown
        <5> HIDE DEF S
        <5> QED BY <5>1
      <4>3. IsFiniteSet(CoveredShown(s, Y))
        BY <4>2, FiniteInterval
      <4>4. Cardinality(CoveredShown(s, Y)) # 0
        BY <3>1, <4>3, FS_EmptySet
      <4> QED BY <4>1, <4>4, FS_EmptySet
    <3>3. PICK i \in 1 .. Len(block) : block[i] = s[k]
      BY <3>2 DEF Shown
    <3> HIDE DEF x, block
    <3>4. s[k] \in Range(block)
      BY <3>3, <1>7, SeqRange
    <3>5. Range(block) \subseteq Range(Placed(x, block))
      BY <1>5, <1>7, PlacedRange
    <3> QED BY <3>4, <3>5, <2>3
  <2> QED BY <2>1, <2>2, <2>3, <1>2
<1>9. PICK i \in 1 .. Len(result) : result[i] = s[k]
  BY <1>3, <1>8, SeqRange
<1>10. i \in Positions(result, "includepdf")
  BY <1>1, <1>9 DEF Positions
<1> QED BY <1>10 DEF result
=============================================================================
