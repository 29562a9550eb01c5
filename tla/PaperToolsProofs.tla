------------------------- MODULE PaperToolsProofs -------------------------
(***************************************************************************)
(* Theorems of PaperTools for every paper, every depth limit and every     *)
(* outcome of pdftoppm and pandoc: the source text, the figures and the    *)
(* Markdown keep what they were made from.                                 *)
(***************************************************************************)
EXTENDS PaperTools, TexProofs

-----------------------------------------------------------------------------
(* The expansion: what the calls hold.                                     *)

(* The calls of _expand_inputs, what changes in the top one, the items a   *)
(* call holds, and how many of them are in X.                              *)
Frames == [left : Seq(Items), done : Seq(Items), pass : {"input", "bibliography"}, base : Seq(STRING)]

Frame(left, done, pass, base) == [left |-> left, done |-> done, pass |-> pass, base |-> base]

Replaced(stk, fr) == [stk EXCEPT ![Len(stk)] = fr]

Held(fr) == Range(fr.left) \cup Range(fr.done)

FrameWords(fr, X) == Count(fr.left, X) + Count(fr.done, X)

(* m members of X in all the calls of the stack: t is the running sum.     *)
Total(stk, X, m) ==
    \E t \in [0 .. Len(stk) -> Nat] :
        /\ t[0] = 0
        /\ \A k \in 1 .. Len(stk) : t[k] = t[k - 1] + FrameWords(stk[k], X)
        /\ t[Len(stk)] = m

(* Directives the stack has still to read name files of D only.            *)
Within(stk, D) ==
    \A k \in 1 .. Len(stk) :
        /\ stk[k].pass = "input" =>
                \A d \in Range(stk[k].left) : d.is = "input" => Named(stk[k].base, d) \subseteq D
        /\ \A d \in Held(stk[k]) : d.is = "bibliography" => Bibliography(d.arg) \subseteq D

(* A directive d of a file of directory base is still to be read by the    *)
(* call fr.                                                                *)
PendingIn(fr, base, d) ==
    \/ d.is = "input" /\ fr.pass = "input" /\ fr.base = base /\ d \in Range(fr.left)
    \/ d.is = "bibliography" /\ d \in Range(fr.left)
    \/ d.is = "bibliography" /\ fr.pass = "input" /\ d \in Range(fr.done)

(* The directives of the files G name files of in, or are still to be      *)
(* read.                                                                   *)
Settled(stk, G, in) ==
    \A g \in G : \A d \in Range(paper.text[g]) :
        d.is \in {"input", "bibliography"} =>
            \/ Named(Parent(g), d) \subseteq in
            \/ \E k \in 1 .. Len(stk) : PendingIn(stk[k], Parent(g), d)

(* Directives are read, and styles dropped; nothing else leaves the stack. *)
Moves(is) == is \in {"input", "bibliography", "bibliographystyle"}

(* Every other item of the files G is held by some call.                   *)
Present(stk, G) ==
    \A g \in G : \A d \in Range(paper.text[g]) :
        ~Moves(d.is) => \E k \in 1 .. Len(stk) : d \in Held(stk[k])

(* What a step makes of the top call, old, by reading on: no directive     *)
(* comes to it, none goes unless its file is one of in, and every other    *)
(* item stays, as often.                                                   *)
Moved(old, new, in) ==
    /\ new.pass = "input" => old.pass = "input" /\ new.base = old.base
    /\ new.pass = "input" => \A d \in Range(new.left) : d.is = "input" => d \in Range(old.left)
    /\ \A d \in Held(new) : d.is = "bibliography" => d \in Held(old)
    /\ \A d, base : PendingIn(old, base, d) => PendingIn(new, base, d) \/ Named(base, d) \subseteq in
    /\ \A d \in Held(old) : ~Moves(d.is) => d \in Held(new)
    /\ \A f : FrameWords(new, OwnWords(f)) = FrameWords(old, OwnWords(f))

-----------------------------------------------------------------------------

(* Fields and updates of calls.                                            *)
LEMMA FrameFields ==
    ASSUME NEW fr \in Frames
    PROVE  /\ fr.left \in Seq(Items) /\ fr.done \in Seq(Items)
           /\ fr.pass \in {"input", "bibliography"} /\ fr.base \in Seq(STRING)
BY DEF Frames

LEMMA FrameType ==
    ASSUME NEW l \in Seq(Items), NEW d \in Seq(Items), NEW p \in {"input", "bibliography"},
              NEW b \in Seq(STRING)
    PROVE  /\ Frame(l, d, p, b) \in Frames
           /\ Frame(l, d, p, b).left = l /\ Frame(l, d, p, b).done = d
           /\ Frame(l, d, p, b).pass = p /\ Frame(l, d, p, b).base = b
BY DEF Frame, Frames

LEMMA ReplacedProperties ==
    ASSUME NEW stk \in Seq(Frames), stk # <<>>, NEW fr \in Frames
    PROVE  /\ Replaced(stk, fr) \in Seq(Frames) /\ Len(Replaced(stk, fr)) = Len(stk)
           /\ Replaced(stk, fr) # <<>>
           /\ Last(Replaced(stk, fr)) = fr /\ Replaced(stk, fr)[Len(stk)] = fr
           /\ \A k \in 1 .. Len(stk) - 1 : Replaced(stk, fr)[k] = stk[k]
<1>1. PICK n \in Nat : n = Len(stk) /\ n >= 1
  OBVIOUS
<1>2. /\ Replaced(stk, fr) \in Seq(Frames) /\ Len(Replaced(stk, fr)) = n
      /\ Replaced(stk, fr)[n] = fr /\ \A k \in 1 .. n - 1 : Replaced(stk, fr)[k] = stk[k]
  BY <1>1 DEF Replaced
<1> QED BY <1>1, <1>2 DEF Last

LEMMA FrameWordsType ==
    ASSUME NEW fr \in Frames, NEW X
    PROVE  FrameWords(fr, X) \in Nat
<1>1. Count(fr.left, X) \in Nat /\ Count(fr.done, X) \in Nat
  BY FrameFields, CountType
<1> QED BY <1>1 DEF FrameWords

(* The sum when the top call is replaced, when one is added, and when the  *)
(* top one goes.                                                           *)
LEMMA TotalReplaced ==
    ASSUME NEW stk \in Seq(Frames), stk # <<>>, NEW fr \in Frames, NEW X, NEW m \in Nat,
           Total(stk, X, m)
    PROVE  \E r \in Nat : m = r + FrameWords(Last(stk), X)
              /\ Total(Replaced(stk, fr), X, r + FrameWords(fr, X))
<1> DEFINE n == Len(stk)
           new == Replaced(stk, fr)
<1>1. n \in Nat /\ n >= 1
  OBVIOUS
<1>2. PICK t \in [0 .. n -> Nat] :
        /\ t[0] = 0
        /\ \A k \in 1 .. n : t[k] = t[k - 1] + FrameWords(stk[k], X)
        /\ t[n] = m
  BY DEF Total
<1>3. FrameWords(fr, X) \in Nat
  BY FrameWordsType
<1> DEFINE u == [t EXCEPT ![n] = t[n - 1] + FrameWords(fr, X)]
<1>4. n - 1 \in 0 .. n /\ t[n - 1] \in Nat
  BY <1>1
<1>5. u \in [0 .. n -> Nat] /\ u[0] = 0 /\ u[n] = t[n - 1] + FrameWords(fr, X)
      /\ \A k \in 0 .. n - 1 : u[k] = t[k]
  BY <1>1, <1>2, <1>3, <1>4
<1>6. Len(new) = n /\ new[n] = fr /\ \A k \in 1 .. n - 1 : new[k] = stk[k]
  BY ReplacedProperties
<1> HIDE DEF u, new, n
<1>7. ASSUME NEW k \in 1 .. n PROVE u[k] = u[k - 1] + FrameWords(new[k], X)
  <2>1. k - 1 \in 0 .. n - 1 /\ u[k - 1] = t[k - 1]
    BY <1>1, <1>5
  <2>2. CASE k = n
    BY <2>1, <2>2, <1>5, <1>6
  <2>3. CASE k # n
    <3>1. k \in 1 .. n - 1 /\ k \in 0 .. n - 1
      BY <2>3, <1>1
    <3>2. u[k] = t[k] /\ new[k] = stk[k] /\ t[k] = t[k - 1] + FrameWords(stk[k], X)
      BY <3>1, <1>2, <1>5, <1>6
    <3> QED BY <3>2, <2>1
  <2> QED BY <2>2, <2>3
<1>8. Total(new, X, t[n - 1] + FrameWords(fr, X))
  BY <1>5, <1>6, <1>7 DEF Total
<1>9. m = t[n - 1] + FrameWords(Last(stk), X)
  <2>1. Last(stk) = stk[n]
    BY DEF Last, n
  <2> QED BY <1>1, <1>2, <2>1
<1> QED BY <1>4, <1>8, <1>9 DEF new

LEMMA TotalAppend ==
    ASSUME NEW stk \in Seq(Frames), NEW fr \in Frames, NEW X, NEW m \in Nat, Total(stk, X, m)
    PROVE  Total(Append(stk, fr), X, m + FrameWords(fr, X))
<1> DEFINE n == Len(stk)
           new == Append(stk, fr)
<1>1. n \in Nat
  OBVIOUS
<1>2. PICK t \in [0 .. n -> Nat] :
        /\ t[0] = 0
        /\ \A k \in 1 .. n : t[k] = t[k - 1] + FrameWords(stk[k], X)
        /\ t[n] = m
  BY DEF Total
<1>3. FrameWords(fr, X) \in Nat
  BY FrameWordsType
<1> DEFINE u == [k \in 0 .. n + 1 |-> IF k <= n THEN t[k] ELSE m + FrameWords(fr, X)]
<1>5. u \in [0 .. n + 1 -> Nat] /\ u[0] = 0 /\ u[n + 1] = m + FrameWords(fr, X)
      /\ \A k \in 0 .. n : u[k] = t[k]
  BY <1>1, <1>2, <1>3
<1>6. Len(new) = n + 1 /\ new[n + 1] = fr /\ \A k \in 1 .. n : new[k] = stk[k]
  OBVIOUS
<1> HIDE DEF u, new, n
<1>7. ASSUME NEW k \in 1 .. n + 1 PROVE u[k] = u[k - 1] + FrameWords(new[k], X)
  <2>1. k - 1 \in 0 .. n /\ u[k - 1] = t[k - 1]
    BY <1>1, <1>5
  <2>2. CASE k = n + 1
    <3>1. k - 1 = n
      BY <2>2, <1>1
    <3> QED BY <3>1, <2>1, <2>2, <1>2, <1>5, <1>6
  <2>3. CASE k # n + 1
    <3>1. k \in 1 .. n /\ k \in 0 .. n
      BY <2>3, <1>1
    <3>2. u[k] = t[k] /\ new[k] = stk[k] /\ t[k] = t[k - 1] + FrameWords(stk[k], X)
      BY <3>1, <1>2, <1>5, <1>6
    <3> QED BY <3>2, <2>1
  <2> QED BY <2>2, <2>3
<1> QED BY <1>5, <1>6, <1>7 DEF Total, new

LEMMA TotalFront ==
    ASSUME NEW stk \in Seq(Frames), stk # <<>>, NEW X, NEW m \in Nat, Total(stk, X, m)
    PROVE  \E r \in Nat : m = r + FrameWords(Last(stk), X) /\ Total(Front(stk), X, r)
<1> DEFINE n == Len(stk)
           new == Front(stk)
<1>1. n \in Nat /\ n >= 1
  OBVIOUS
<1>2. PICK t \in [0 .. n -> Nat] :
        /\ t[0] = 0
        /\ \A k \in 1 .. n : t[k] = t[k - 1] + FrameWords(stk[k], X)
        /\ t[n] = m
  BY DEF Total
<1> DEFINE u == [k \in 0 .. n - 1 |-> t[k]]
<1>4. n - 1 \in 0 .. n /\ t[n - 1] \in Nat
  BY <1>1
<1>5. u \in [0 .. n - 1 -> Nat] /\ u[0] = 0 /\ u[n - 1] = t[n - 1]
      /\ \A k \in 0 .. n - 1 : u[k] = t[k]
  BY <1>1, <1>2, <1>4
<1>6. Len(new) = n - 1 /\ Last(stk) = stk[n] /\ \A k \in 1 .. n - 1 : new[k] = stk[k]
  BY FrontLast
<1> HIDE DEF u, new, n
<1>7. ASSUME NEW k \in 1 .. n - 1 PROVE u[k] = u[k - 1] + FrameWords(new[k], X)
  <2>1. k - 1 \in 0 .. n - 1 /\ k \in 0 .. n - 1 /\ k \in 1 .. n
    BY <1>1
  <2>2. u[k] = t[k] /\ u[k - 1] = t[k - 1] /\ new[k] = stk[k] /\ t[k] = t[k - 1] + FrameWords(stk[k], X)
    BY <2>1, <1>2, <1>5, <1>6
  <2> QED BY <2>2
<1>8. Total(new, X, t[n - 1])
  BY <1>5, <1>6, <1>7 DEF Total
<1>9. m = t[n - 1] + FrameWords(Last(stk), X)
  BY <1>1, <1>2, <1>6
<1> QED BY <1>4, <1>8, <1>9 DEF new

-----------------------------------------------------------------------------

(* A move of the top call keeps Within, Settled, Present and the sum.      *)
LEMMA WithinReplaced ==
    ASSUME NEW stk \in Seq(Frames), stk # <<>>, NEW fr \in Frames, NEW in, NEW D,
           Moved(Last(stk), fr, in), Within(stk, D)
    PROVE  Within(Replaced(stk, fr), D)
<1> DEFINE n == Len(stk)
           new == Replaced(stk, fr)
<1>1. n \in Nat /\ n >= 1 /\ Last(stk) = stk[n]
  BY DEF Last
<1>2. Len(new) = n /\ new[n] = fr /\ \A k \in 1 .. n - 1 : new[k] = stk[k]
  BY ReplacedProperties
<1> HIDE DEF n, new
<1>3. ASSUME NEW k \in 1 .. n
      PROVE  /\ new[k].pass = "input" =>
                    \A d \in Range(new[k].left) : d.is = "input" => Named(new[k].base, d) \subseteq D
             /\ \A d \in Held(new[k]) : d.is = "bibliography" => Bibliography(d.arg) \subseteq D
  <2>1. /\ stk[k].pass = "input" =>
                \A d \in Range(stk[k].left) : d.is = "input" => Named(stk[k].base, d) \subseteq D
        /\ \A d \in Held(stk[k]) : d.is = "bibliography" => Bibliography(d.arg) \subseteq D
    BY DEF Within, n
  <2>2. CASE k # n
    BY <2>1, <2>2, <1>1, <1>2
  <2>3. CASE k = n
    BY <2>1, <2>3, <1>1, <1>2 DEF Moved
  <2> QED BY <2>2, <2>3
<1> QED BY <1>2, <1>3 DEF Within, new

LEMMA SettledReplaced ==
    ASSUME NEW stk \in Seq(Frames), stk # <<>>, NEW fr \in Frames, NEW G, NEW in, NEW more,
           Moved(Last(stk), fr, more), Settled(stk, G, in), in \subseteq more
    PROVE  Settled(Replaced(stk, fr), G, more)
<1> DEFINE n == Len(stk)
           new == Replaced(stk, fr)
<1>1. n \in Nat /\ n >= 1 /\ Last(stk) = stk[n]
  BY DEF Last
<1>2. Len(new) = n /\ new[n] = fr /\ \A k \in 1 .. n - 1 : new[k] = stk[k]
  BY ReplacedProperties
<1> HIDE DEF new
<1>3. ASSUME NEW g \in G, NEW d \in Range(paper.text[g]), d.is \in {"input", "bibliography"},
             ~(Named(Parent(g), d) \subseteq more)
      PROVE  \E k \in 1 .. n : PendingIn(new[k], Parent(g), d)
  <2>1. ~(Named(Parent(g), d) \subseteq in)
    BY <1>3
  <2>2. PICK k \in 1 .. n : PendingIn(stk[k], Parent(g), d)
    BY <2>1, <1>3 DEF Settled
  <2> HIDE DEF n
  <2>3. CASE k # n
    BY <2>2, <2>3, <1>1, <1>2
  <2>4. CASE k = n
    <3>1. PendingIn(fr, Parent(g), d) \/ Named(Parent(g), d) \subseteq more
      BY <2>2, <2>4, <1>1, Zenon DEF Moved
    <3> QED BY <3>1, <1>3, <1>1, <1>2
  <2> QED BY <2>3, <2>4
<1>4. Len(new) = n
  BY <1>2
<1> HIDE DEF n
<1>5. Settled(new, G, more)
  BY <1>3, <1>4, Zenon DEF Settled
<1> QED BY <1>5 DEF new

LEMMA PresentReplaced ==
    ASSUME NEW stk \in Seq(Frames), stk # <<>>, NEW fr \in Frames, NEW G, NEW in,
           Moved(Last(stk), fr, in), Present(stk, G)
    PROVE  Present(Replaced(stk, fr), G)
<1> DEFINE n == Len(stk)
           new == Replaced(stk, fr)
<1>1. n \in Nat /\ n >= 1 /\ Last(stk) = stk[n]
  BY DEF Last
<1>2. Len(new) = n /\ new[n] = fr /\ \A k \in 1 .. n - 1 : new[k] = stk[k]
  BY ReplacedProperties
<1> HIDE DEF new
<1>3. ASSUME NEW g \in G, NEW d \in Range(paper.text[g]), ~Moves(d.is)
      PROVE  \E k \in 1 .. n : d \in Held(new[k])
  <2>2. PICK k \in 1 .. n : d \in Held(stk[k])
    BY <1>3 DEF Present
  <2> HIDE DEF n
  <2>3. CASE k # n
    BY <2>2, <2>3, <1>1, <1>2
  <2>4. CASE k = n
    BY <2>2, <2>4, <1>1, <1>2, <1>3 DEF Moved
  <2> QED BY <2>3, <2>4
<1>4. Len(new) = n
  BY <1>2
<1> HIDE DEF n
<1>5. Present(new, G)
  BY <1>3, <1>4, Zenon DEF Present
<1> QED BY <1>5 DEF new

LEMMA TotalMoved ==
    ASSUME NEW stk \in Seq(Frames), stk # <<>>, NEW fr \in Frames, NEW in, NEW f, NEW m \in Nat,
           Moved(Last(stk), fr, in), Total(stk, OwnWords(f), m)
    PROVE  Total(Replaced(stk, fr), OwnWords(f), m)
<1>1. PICK r \in Nat : /\ m = r + FrameWords(Last(stk), OwnWords(f))
                       /\ Total(Replaced(stk, fr), OwnWords(f), r + FrameWords(fr, OwnWords(f)))
  BY TotalReplaced
<1>2. FrameWords(fr, OwnWords(f)) = FrameWords(Last(stk), OwnWords(f))
  BY DEF Moved
<1> QED BY <1>1, <1>2

(* The stack after a call returns, and after another begins.               *)
LEMMA SettledAppend ==
    ASSUME NEW stk \in Seq(Frames), NEW G, NEW in, NEW f,
           paper.text[f] \in Seq(Items), Parent(f) \in Seq(STRING), Settled(stk, G, in)
    PROVE  Settled(Append(stk, Call(paper.text[f], Parent(f))), G \cup {f}, in)
<1> DEFINE n == Len(stk)
           fr == Call(paper.text[f], Parent(f))
           new == Append(stk, fr)
<1>1. fr \in Frames /\ fr.left = paper.text[f] /\ fr.base = Parent(f) /\ fr.pass = "input"
  BY DEF Call, Frames
<1> HIDE DEF fr
<1>2. n \in Nat /\ Len(new) = n + 1 /\ new[n + 1] = fr /\ \A k \in 1 .. n : new[k] = stk[k]
  BY <1>1
<1> HIDE DEF new
<1>3. ASSUME NEW g \in G \cup {f}, NEW d \in Range(paper.text[g]), d.is \in {"input", "bibliography"},
             ~(Named(Parent(g), d) \subseteq in)
      PROVE  \E k \in 1 .. n + 1 : PendingIn(new[k], Parent(g), d)
  <2>1. CASE g = f
    <3>1. PendingIn(fr, Parent(g), d)
      BY <2>1, <1>1, <1>3, Zenon DEF PendingIn
    <3> QED BY <3>1, <1>2
  <2>2. CASE g \in G
    <3>1. PICK k \in 1 .. n : PendingIn(stk[k], Parent(g), d)
      BY <2>2, <1>3 DEF Settled
    <3> HIDE DEF n
    <3> QED BY <3>1, <1>2
  <2> QED BY <2>1, <2>2
<1>4. Len(new) = n + 1
  BY <1>2
<1> HIDE DEF n
<1>5. Settled(new, G \cup {f}, in)
  BY <1>3, <1>4, Zenon DEF Settled
<1> QED BY <1>5 DEF new, fr

LEMMA PresentAppend ==
    ASSUME NEW stk \in Seq(Frames), NEW G, NEW f, paper.text[f] \in Seq(Items), Parent(f) \in Seq(STRING),
           Present(stk, G)
    PROVE  Present(Append(stk, Call(paper.text[f], Parent(f))), G \cup {f})
<1> DEFINE n == Len(stk)
           fr == Call(paper.text[f], Parent(f))
           new == Append(stk, fr)
<1>1. fr \in Frames /\ fr.left = paper.text[f]
  BY DEF Call, Frames
<1> HIDE DEF fr
<1>2. n \in Nat /\ Len(new) = n + 1 /\ new[n + 1] = fr /\ \A k \in 1 .. n : new[k] = stk[k]
  BY <1>1
<1> HIDE DEF new
<1>3. ASSUME NEW g \in G \cup {f}, NEW d \in Range(paper.text[g]), ~Moves(d.is)
      PROVE  \E k \in 1 .. n + 1 : d \in Held(new[k])
  <2>1. CASE g = f
    BY <2>1, <1>1, <1>2 DEF Held
  <2>2. CASE g \in G
    <3>1. PICK k \in 1 .. n : d \in Held(stk[k])
      BY <2>2, <1>3 DEF Present
    <3> HIDE DEF n
    <3> QED BY <3>1, <1>2
  <2> QED BY <2>1, <2>2
<1>4. Len(new) = n + 1
  BY <1>2
<1> HIDE DEF n
<1>5. Present(new, G \cup {f})
  BY <1>3, <1>4, Zenon DEF Present
<1> QED BY <1>5 DEF new, fr

-----------------------------------------------------------------------------

(* The call fr with s added to what is done, as when a call returns to it. *)
Extended(fr, s) == Frame(fr.left, fr.done \o s, fr.pass, fr.base)

LEMMA ExtendedProperties ==
    ASSUME NEW fr \in Frames, NEW s \in Seq(Items)
    PROVE  /\ Extended(fr, s) \in Frames
           /\ Extended(fr, s).left = fr.left /\ Extended(fr, s).pass = fr.pass
                     /\ Extended(fr, s).base = fr.base
           /\ Extended(fr, s).done = fr.done \o s
           /\ Range(Extended(fr, s).done) = Range(fr.done) \cup Range(s)
           /\ Held(Extended(fr, s)) = Held(fr) \cup Range(s)
           /\ \A X : FrameWords(Extended(fr, s), X) = FrameWords(fr, X) + Count(s, X)
<1>1. fr.left \in Seq(Items) /\ fr.done \in Seq(Items) /\ fr.pass \in {"input", "bibliography"}
          /\ fr.base \in Seq(STRING)
  BY FrameFields
<1>2. fr.done \o s \in Seq(Items) /\ Range(fr.done \o s) = Range(fr.done) \cup Range(s)
  BY <1>1, RangeConcat
<1>3. /\ Extended(fr, s) \in Frames
      /\ Extended(fr, s).left = fr.left /\ Extended(fr, s).pass = fr.pass /\ Extended(fr, s).base
                = fr.base
      /\ Extended(fr, s).done = fr.done \o s
  BY <1>1, <1>2 DEF Extended, Frame, Frames
<1> DEFINE e == Extended(fr, s)
<1> HIDE DEF e
<1>4. e.left = fr.left /\ e.done = fr.done \o s
  BY <1>3 DEF e
<1>5. Held(e) = Held(fr) \cup Range(s)
  BY <1>2, <1>4 DEF Held
<1>6. ASSUME NEW X PROVE FrameWords(e, X) = FrameWords(fr, X) + Count(s, X)
  <2>1. Count(fr.done \o s, X) = Count(fr.done, X) + Count(s, X)
    BY <1>1, CountConcat
  <2>2. Count(fr.done, X) \in Nat /\ Count(s, X) \in Nat /\ Count(fr.left, X) \in Nat
    BY <1>1, CountType
  <2>3. FrameWords(e, X) = Count(fr.left, X) + Count(fr.done \o s, X)
    BY <1>4 DEF FrameWords
  <2> QED BY <2>1, <2>2, <2>3 DEF FrameWords
<1> QED BY <1>2, <1>3, <1>5, <1>6 DEF e

LEMMA StackExtended ==
    ASSUME NEW stk \in Seq(Frames), stk # <<>>, NEW s \in Seq(Items)
    PROVE  LET new == Replaced(stk, Extended(Last(stk), s)) IN
           /\ new \in Seq(Frames) /\ new # <<>> /\ Len(new) = Len(stk)
           /\ \A k \in 1 .. Len(stk) : /\ new[k].left = stk[k].left /\ new[k].pass = stk[k].pass
                                       /\ new[k].base = stk[k].base
                                       /\ Range(stk[k].done) \subseteq Range(new[k].done)
                                       /\ Held(stk[k]) \subseteq Held(new[k])
                                       /\ Held(new[k]) \subseteq Held(stk[k]) \cup Range(s)
           /\ Range(s) \subseteq Held(new[Len(stk)])
<1> DEFINE n == Len(stk)
           fr == Extended(Last(stk), s)
           new == Replaced(stk, fr)
<1>1. n \in Nat /\ n >= 1 /\ Last(stk) = stk[n] /\ Last(stk) \in Frames
  BY FrontLast
<1>2. /\ fr \in Frames
      /\ fr.left = Last(stk).left /\ fr.pass = Last(stk).pass /\ fr.base = Last(stk).base
      /\ Range(fr.done) = Range(Last(stk).done) \cup Range(s)
      /\ Held(fr) = Held(Last(stk)) \cup Range(s)
  BY <1>1, ExtendedProperties
<1>3. /\ new \in Seq(Frames) /\ Len(new) = n /\ new # <<>> /\ new[n] = fr
      /\ \A k \in 1 .. n - 1 : new[k] = stk[k]
  BY <1>2, ReplacedProperties
<1> HIDE DEF n, fr, new
<1>4. ASSUME NEW k \in 1 .. n
      PROVE  /\ new[k].left = stk[k].left /\ new[k].pass = stk[k].pass
             /\ new[k].base = stk[k].base
             /\ Range(stk[k].done) \subseteq Range(new[k].done)
             /\ Held(stk[k]) \subseteq Held(new[k])
             /\ Held(new[k]) \subseteq Held(stk[k]) \cup Range(s)
  <2>1. CASE k = n
    BY <2>1, <1>1, <1>2, <1>3
  <2>2. CASE k # n
    <3>1. new[k] = stk[k]
      BY <2>2, <1>1, <1>3
    <3> QED BY <3>1
  <2> QED BY <2>1, <2>2
<1>5. Range(s) \subseteq Held(new[n])
  BY <1>2, <1>3
<1> QED BY <1>3, <1>4, <1>5 DEF n, new, fr

(* It keeps Within and Settled, and holds what s holds.                    *)
LEMMA WithinExtended ==
    ASSUME NEW stk \in Seq(Frames), stk # <<>>, NEW s \in Seq(Items), NEW D, Within(stk, D),
           \A d \in Range(s) : d.is = "bibliography" => Bibliography(d.arg) \subseteq D
    PROVE  Within(Replaced(stk, Extended(Last(stk), s)), D)
<1> DEFINE new == Replaced(stk, Extended(Last(stk), s))
<1>1. /\ Len(new) = Len(stk)
      /\ \A k \in 1 .. Len(stk) : /\ new[k].left = stk[k].left /\ new[k].pass = stk[k].pass
                                  /\ new[k].base = stk[k].base
                                  /\ Held(new[k]) \subseteq Held(stk[k]) \cup Range(s)
  BY StackExtended
<1> HIDE DEF new
<1>2. Within(new, D)
  BY <1>1 DEF Within
<1> QED BY <1>2 DEF new

LEMMA SettledExtended ==
    ASSUME NEW stk \in Seq(Frames), stk # <<>>, NEW s \in Seq(Items), NEW G, NEW in, Settled(stk, G, in)
    PROVE  Settled(Replaced(stk, Extended(Last(stk), s)), G, in)
<1> DEFINE new == Replaced(stk, Extended(Last(stk), s))
<1>1. /\ Len(new) = Len(stk)
      /\ \A k \in 1 .. Len(stk) : /\ new[k].left = stk[k].left /\ new[k].pass = stk[k].pass
                                  /\ new[k].base = stk[k].base
                                  /\ Range(stk[k].done) \subseteq Range(new[k].done)
  BY StackExtended
<1> HIDE DEF new
<1>2. ASSUME NEW k \in 1 .. Len(stk), NEW base, NEW d, PendingIn(stk[k], base, d)
      PROVE  PendingIn(new[k], base, d)
  BY <1>1, <1>2 DEF PendingIn
<1>3. Settled(new, G, in)
  BY <1>1, <1>2, Zenon DEF Settled
<1> QED BY <1>3 DEF new

LEMMA PresentExtended ==
    ASSUME NEW stk \in Seq(Frames), stk # <<>>, NEW s \in Seq(Items), NEW G,
           \A g \in G : \A d \in Range(paper.text[g]) :
                ~Moves(d.is) => d \in Range(s) \/ \E k \in 1 .. Len(stk) : d \in Held(stk[k])
    PROVE  Present(Replaced(stk, Extended(Last(stk), s)), G)
<1> DEFINE new == Replaced(stk, Extended(Last(stk), s))
           n == Len(stk)
<1>1. /\ Len(new) = n
      /\ \A k \in 1 .. n : Held(stk[k]) \subseteq Held(new[k])
      /\ Range(s) \subseteq Held(new[n])
  BY StackExtended
<1>2. n \in 1 .. n
  OBVIOUS
<1> HIDE DEF new, n
<1>3. ASSUME NEW g \in G, NEW d \in Range(paper.text[g]), ~Moves(d.is)
      PROVE  \E k \in 1 .. n : d \in Held(new[k])
  <2>1. d \in Range(s) \/ \E k \in 1 .. n : d \in Held(stk[k])
    BY <1>3 DEF n
  <2> QED BY <2>1, <1>1, <1>2
<1>4. Present(new, G)
  BY <1>1, <1>3, Zenon DEF Present
<1> QED BY <1>4 DEF new

LEMMA TotalExtended ==
    ASSUME NEW stk \in Seq(Frames), stk # <<>>, NEW s \in Seq(Items), NEW X,
              NEW m \in Nat, Total(stk, X, m)
    PROVE  Total(Replaced(stk, Extended(Last(stk), s)), X, m + Count(s, X))
<1> DEFINE fr == Extended(Last(stk), s)
<1>1. Last(stk) \in Frames
  BY FrontLast
<1>2. fr \in Frames /\ FrameWords(fr, X) = FrameWords(Last(stk), X) + Count(s, X)
  BY <1>1, ExtendedProperties
<1> HIDE DEF fr
<1>3. PICK r \in Nat : m = r + FrameWords(Last(stk), X)
          /\ Total(Replaced(stk, fr), X, r + FrameWords(fr, X))
  BY <1>2, TotalReplaced
<1>4. r + FrameWords(fr, X) = m + Count(s, X)
  <2>1. FrameWords(Last(stk), X) \in Nat /\ Count(s, X) \in Nat
    BY <1>1, FrameWordsType, CountType
  <2> QED BY <2>1, <1>2, <1>3
<1> QED BY <1>3, <1>4 DEF fr

(* A call that is done has no directive left to read.                      *)
LEMMA SettledFront ==
    ASSUME NEW stk \in Seq(Frames), stk # <<>>, NEW G, NEW in, Settled(stk, G, in),
           Last(stk).left = <<>>, Last(stk).pass = "bibliography"
    PROVE  Settled(Front(stk), G, in)
<1> DEFINE n == Len(stk)
           new == Front(stk)
<1>1. n \in Nat /\ n >= 1 /\ Len(new) = n - 1 /\ Last(stk) = stk[n]
          /\ \A k \in 1 .. n - 1 : new[k] = stk[k]
  BY FrontLast
<1> HIDE DEF new, n
<1>2. ASSUME NEW base, NEW d, PendingIn(stk[n], base, d) PROVE FALSE
  BY <1>1, <1>2, RangeEmpty DEF PendingIn
<1>3. ASSUME NEW base, NEW d, NEW k \in 1 .. n, PendingIn(stk[k], base, d)
      PROVE  k \in 1 .. n - 1 /\ PendingIn(new[k], base, d)
  <2>1. k # n
    BY <1>2, <1>3
  <2>2. k \in 1 .. n - 1
    BY <2>1, <1>1
  <2> QED BY <2>2, <1>1, <1>3
<1>4. Settled(new, G, in)
  <2>1. ASSUME NEW g \in G, NEW d \in Range(paper.text[g]), d.is \in {"input", "bibliography"},
               ~(Named(Parent(g), d) \subseteq in)
        PROVE  \E k \in 1 .. n - 1 : PendingIn(new[k], Parent(g), d)
    <3>1. PICK k \in 1 .. n : PendingIn(stk[k], Parent(g), d)
      BY <2>1, Zenon DEF Settled, n
    <3> QED BY <3>1, <1>3
  <2>2. Len(new) = n - 1
    BY <1>1
  <2> QED BY <2>1, <2>2, Zenon DEF Settled
<1> QED BY <1>4 DEF new

-----------------------------------------------------------------------------
(* The invariant.                                                          *)
Inlined == seen \cup {main}

(* The sets that hold the main file and what their members name.           *)
ClosedSets == {D \in SUBSET Files : main \in D /\ \A f \in D : Names(f) \subseteq D}

(* How often f has been taken up: as the main file, as an input.           *)
Times(f) == (IF f = main THEN 1 ELSE 0) + (IF f \in seen THEN 1 ELSE 0)

(* The inductive invariant of the expansion, part by part.  The types, and *)
(* which calls there are at which time.                                    *)
SourceType ==
    /\ \E family \in Families : paper \in family
    /\ outcome \in {"download", "choose", "expand", "tex", "pdf_only", "error"}
    /\ stack \in Seq(Frames)
    /\ seen \subseteq Files
    /\ cut \in BOOLEAN
    /\ main = <<>> => stack = <<>> /\ seen = {}
    /\ outcome \in {"download", "choose"} => main = <<>>
    /\ main # <<>> => main \in Files /\ stack # <<>>
    /\ outcome = "expand" => main # <<>>
    /\ (main # <<>> /\ outcome # "expand") =>
            Len(stack) = 1 /\ top.left = <<>> /\ top.pass = "bibliography"

(* Nothing but files of the document is inlined or will be.                *)
OnlyDocument == main # <<>> => \A D \in ClosedSets : Inlined \subseteq D /\ Within(stack, D)

(* Every file that a file inlined names is inlined, or its directive is    *)
(* still to be read.                                                       *)
AllFound == main # <<>> /\ ~cut => Settled(stack, Inlined, Inlined)

(* Every other item of the files inlined is held by some call.             *)
NothingDropped == main # <<>> => Present(stack, Inlined)

(* The words that stand for f are those of f, once for each time it was    *)
(* taken up.                                                               *)
Counted == main # <<>> =>
    \A f \in Files : Total(stack, OwnWords(f), Count(paper.text[f], OwnWords(f)) * Times(f))

SourceInv == SourceType /\ OnlyDocument /\ AllFound /\ NothingDropped /\ Counted

(* What SourceConstants says of the paper at hand: a word that stands for  *)
(* a file stands in that file alone.                                       *)
LEMMA PaperFacts ==
    ASSUME \E family \in Families : paper \in family
    PROVE  /\ paper.kind \in Payloads
           /\ paper.bbl \in Seq(Seq(STRING))
           /\ paper.kind = "plain" => paper.tex # {}
           /\ \A f \in Files : /\ f \in Seq(STRING) /\ f # <<>>
                               /\ paper.text[f] \in Seq(Items) /\ Parent(f) \in Seq(STRING)
                               /\ \A g \in Files : g # f => Count(paper.text[f], OwnWords(g)) = 0
           /\ paper.tex \subseteq Files /\ Range(paper.bbl) \subseteq Files
<1>1. PICK family \in Families : paper \in family
  OBVIOUS
<1>2. /\ paper.kind \in Payloads
      /\ paper.bbl \in Seq(Seq(STRING))
      /\ paper.kind = "plain" => paper.tex # {}
      /\ \A f \in Files : /\ f \in Seq(STRING) \ {<<>>}
                          /\ paper.text[f] \in Seq(Items)
                          /\ \A i \in Positions(paper.text[f], "word") :
                                paper.text[f][i].arg \in Files => paper.text[f][i].arg = f
  BY <1>1, SourceConstants DEF Files
<1>3. ASSUME NEW f \in Files
      PROVE  /\ f \in Seq(STRING) /\ f # <<>>
             /\ paper.text[f] \in Seq(Items) /\ Parent(f) \in Seq(STRING)
             /\ \A g \in Files : g # f => Count(paper.text[f], OwnWords(g)) = 0
  <2>1. f \in Seq(STRING) /\ f # <<>> /\ paper.text[f] \in Seq(Items)
    BY <1>2
  <2>2. Parent(f) \in Seq(STRING)
    BY <2>1, FrontLast DEF Parent
  <2>3. ASSUME NEW g \in Files, g # f PROVE Count(paper.text[f], OwnWords(g)) = 0
    <3> DEFINE s == paper.text[f]
    <3>1. ASSUME NEW i \in 1 .. Len(s), s[i] \in OwnWords(g) PROVE FALSE
      <4>1. s[i].is = "word" /\ s[i].arg = g
        BY <3>1 DEF OwnWords
      <4>2. i \in Positions(s, "word")
        BY <4>1 DEF Positions
      <4> QED BY <4>1, <4>2, <2>3, <1>2
    <3>2. {i \in 1 .. Len(s) : s[i] \in OwnWords(g)} = {}
      BY <3>1
    <3> QED BY <3>2, FS_EmptySet DEF Count
  <2> QED BY <2>1, <2>2, <2>3
<1>4. paper.tex \subseteq Files /\ Range(paper.bbl) \subseteq Files
  BY DEF Files, FilesOf
<1> QED BY <1>2, <1>3, <1>4

(* The files that the directives of g name are the Names of g.             *)
LEMMA NamesDirectives ==
    ASSUME NEW g, paper.text[g] \in Seq(Items)
    PROVE  /\ \A d \in Range(paper.text[g]) :
                d.is \in {"input", "bibliography"} => Named(Parent(g), d) \subseteq Names(g)
           /\ \A h \in Names(g) : \E d \in Range(paper.text[g]) :
                d.is \in {"input", "bibliography"} /\ h \in Named(Parent(g), d)
<1> DEFINE s == paper.text[g]
           P == Positions(s, "input") \cup Positions(s, "bibliography")
<1>1. Names(g) = UNION {Named(Parent(g), s[i]) : i \in P}
  BY DEF Names
<1>2. ASSUME NEW d \in Range(s), d.is \in {"input", "bibliography"}
      PROVE  \E i \in P : s[i] = d
  <2>1. PICK i \in 1 .. Len(s) : s[i] = d
    BY SeqRange
  <2> QED BY <2>1, <1>2 DEF Positions
<1>3. ASSUME NEW i \in P
      PROVE  s[i] \in Range(s) /\ s[i].is \in {"input", "bibliography"}
  <2>1. i \in 1 .. Len(s) /\ s[i].is \in {"input", "bibliography"}
    BY DEF Positions
  <2> QED BY <2>1, SeqRange
<1> HIDE DEF P
<1>4. ASSUME NEW d \in Range(s), d.is \in {"input", "bibliography"}
          PROVE Named(Parent(g), d) \subseteq Names(g)
  BY <1>1, <1>2, <1>4
<1>5. ASSUME NEW h \in Names(g)
      PROVE  \E d \in Range(s) : d.is \in {"input", "bibliography"} /\ h \in Named(Parent(g), d)
  <2>1. PICK i \in P : h \in Named(Parent(g), s[i])
    BY <1>1
  <2> QED BY <2>1, <1>3
<1> QED BY <1>4, <1>5

LEMMA NamesNext ==
    ASSUME NEW g, (paper.text[g] \in Seq(Items))'
    PROVE  (\A d \in Range(paper.text[g]) :
                d.is \in {"input", "bibliography"} => Named(Parent(g), d) \subseteq Names(g))'
<1> DEFINE s == paper'.text[g]
           P == {i \in 1 .. Len(s) : s[i].is = "input"} \cup {i \in 1 .. Len(s) : s[i].is
                     = "bibliography"}
<1>1. Names(g)' = UNION {(Named(Parent(g), paper.text[g][i]))' : i \in P}
  BY DEF Names, Positions
<1>2. ASSUME NEW d \in Range(s), d.is \in {"input", "bibliography"}
      PROVE  \E i \in P : s[i] = d
  <2>1. PICK i \in 1 .. Len(s) : s[i] = d
    BY SeqRange
  <2> QED BY <2>1, <1>2
<1>3. ASSUME NEW d \in Range(s), d.is \in {"input", "bibliography"}
          PROVE (Named(Parent(g), d) \subseteq Names(g))'
  <2>1. PICK i \in P : s[i] = d
    BY <1>2, <1>3
  <2>2. Named(Parent(g), d)' = (Named(Parent(g), paper.text[g][i]))'
    BY <2>1
  <2> HIDE DEF P
  <2> QED BY <1>1, <2>2
<1> QED BY <1>3

(* A directive names one file of the archive at most.                      *)
LEMMA NamedOne ==
    ASSUME \E family \in Families : paper \in family, NEW base, NEW d
    PROVE  /\ Named(base, d) \subseteq Files
           /\ \A f, g \in Named(base, d) : f = g
           /\ d.is = "bibliography" => Named(base, d) = Bibliography(d.arg)
<1>1. /\ paper.bbl \in Seq(Seq(STRING)) /\ paper.tex \subseteq Files /\ Range(paper.bbl) \subseteq Files
  BY PaperFacts
<1>2. Resolved(base, d.arg) \subseteq Files /\ \A f, g \in Resolved(base, d.arg) : f = g
  BY DEF Resolved, Files
<1>3. Bibliography(d.arg) \subseteq Range(paper.bbl) /\ \A f, g \in Bibliography(d.arg) : f = g
  <2> DEFINE all == {i \in 1 .. Len(paper.bbl) : IsPrefix(Parent(main), paper.bbl[i])}
             there == {k \in 1 .. Len(d.arg) :
                          \E i \in all : Last(paper.bbl[i]) = d.arg[k]}
             named == IF there = {} THEN all
                      ELSE {i \in all : Last(paper.bbl[i]) = d.arg[First(there)]}
  <2>1. Bibliography(d.arg) = IF named = {} THEN {} ELSE {paper.bbl[First(named)]}
    BY DEF Bibliography
  <2>2. named \in SUBSET Nat /\ named \subseteq 1 .. Len(paper.bbl)
    <3>1. all \subseteq 1 .. Len(paper.bbl) /\ named \subseteq all
      OBVIOUS
    <3>2. (1 .. Len(paper.bbl)) \subseteq Nat
      BY <1>1
    <3> QED BY <3>1, <3>2, Zenon
  <2>3. \A i \in 1 .. Len(paper.bbl) : paper.bbl[i] \in Range(paper.bbl)
    BY <1>1, SeqRange
  <2> HIDE DEF all, there, named
  <2>4. CASE named # {}
    <3>1. First(named) \in named
      BY <2>2, <2>4, FirstProperties
    <3>2. Bibliography(d.arg) = {paper.bbl[First(named)]} /\ First(named) \in 1 .. Len(paper.bbl)
      BY <2>1, <2>2, <2>4, <3>1
    <3> QED BY <2>3, <3>2
  <2>5. CASE named = {}
    BY <2>1, <2>5
  <2> QED BY <2>4, <2>5
<1>4. CASE d.is = "input"
  <2>1. Named(base, d) = Resolved(base, d.arg) /\ d.is # "bibliography"
    BY <1>4 DEF Named
  <2> QED BY <2>1, <1>1, <1>2
<1>5. CASE d.is # "input"
  <2>1. Named(base, d) = Bibliography(d.arg)
    BY <1>5 DEF Named
  <2> QED BY <2>1, <1>1, <1>3
<1> QED BY <1>4, <1>5

-----------------------------------------------------------------------------
(* What each step does to the call on top.                                 *)
LEMMA TopFacts ==
    ASSUME SourceType, stack # <<>>
    PROVE  /\ top \in Frames /\ stack \in Seq(Frames)
           /\ top.left \in Seq(Items) /\ top.done \in Seq(Items)
           /\ top.pass \in {"input", "bibliography"} /\ top.base \in Seq(STRING)
           /\ top = stack[Len(stack)]
<1>1. top \in Frames /\ stack \in Seq(Frames) /\ top = stack[Len(stack)]
  BY FrontLast DEF SourceType, top
<1> QED BY <1>1, FrameFields

(* The updates of the module are Frames.                                   *)
LEMMA FrameExcept ==
    ASSUME NEW fr \in Frames, NEW l, NEW d
    PROVE  [fr EXCEPT !.left = l, !.done = d] = Frame(l, d, fr.pass, fr.base)
<1> DEFINE D == {"left", "done", "pass", "base"}
           V == {l, d, fr.pass, fr.base}
           f == [fr EXCEPT !.left = l, !.done = d]
           g == Frame(l, d, fr.pass, fr.base)
<1>1. f \in [D -> V] /\ f["left"] = l /\ f["done"] = d /\ f["pass"] = fr.pass /\ f["base"] = fr.base
  BY DEF Frames
<1>2. g \in [D -> V] /\ g["left"] = l /\ g["done"] = d /\ g["pass"] = fr.pass /\ g["base"] = fr.base
  BY DEF Frame
<1>3. \A x \in D : f[x] = g[x]
  BY <1>1, <1>2
<1> HIDE DEF f, g, D, V
<1>4. f = g
  BY <1>1, <1>2, <1>3
<1> QED BY <1>4 DEF f, g

LEMMA FramePass ==
    ASSUME NEW fr \in Frames, NEW l, NEW d, NEW p
    PROVE  [fr EXCEPT !.left = l, !.done = d, !.pass = p] = Frame(l, d, p, fr.base)
<1> DEFINE D == {"left", "done", "pass", "base"}
           V == {l, d, p, fr.base}
           f == [fr EXCEPT !.left = l, !.done = d, !.pass = p]
           g == Frame(l, d, p, fr.base)
<1>1. f \in [D -> V] /\ f["left"] = l /\ f["done"] = d /\ f["pass"] = p /\ f["base"] = fr.base
  BY DEF Frames
<1>2. g \in [D -> V] /\ g["left"] = l /\ g["done"] = d /\ g["pass"] = p /\ g["base"] = fr.base
  BY DEF Frame
<1>3. \A x \in D : f[x] = g[x]
  BY <1>1, <1>2
<1> HIDE DEF f, g, D, V
<1>4. f = g
  BY <1>1, <1>2, <1>3
<1> QED BY <1>4 DEF f, g

LEMMA FrameDone ==
    ASSUME NEW fr \in Frames, NEW d
    PROVE  [fr EXCEPT !.done = d] = Frame(fr.left, d, fr.pass, fr.base)
<1> DEFINE D == {"left", "done", "pass", "base"}
           V == {fr.left, d, fr.pass, fr.base}
           f == [fr EXCEPT !.done = d]
           g == Frame(fr.left, d, fr.pass, fr.base)
<1>1. f \in [D -> V] /\ f["left"] = fr.left /\ f["done"] = d /\ f["pass"] = fr.pass /\ f["base"]
          = fr.base
  BY DEF Frames
<1>2. g \in [D -> V] /\ g["left"] = fr.left /\ g["done"] = d /\ g["pass"] = fr.pass /\ g["base"]
          = fr.base
  BY DEF Frame
<1>3. \A x \in D : f[x] = g[x]
  BY <1>1, <1>2
<1> HIDE DEF f, g, D, V
<1>4. f = g
  BY <1>1, <1>2, <1>3
<1> QED BY <1>4 DEF f, g

LEMMA SetTopIs ==
    ASSUME SourceType, stack # <<>>, NEW left \in Seq(Items), NEW done \in Seq(Items)
    PROVE  LET fr == Frame(left, done, top.pass, top.base) IN
           fr \in Frames /\ SetTop(left, done) = Replaced(stack, fr)
<1>1. top \in Frames /\ top = stack[Len(stack)]
  BY TopFacts
<1> DEFINE fr == Frame(left, done, top.pass, top.base)
<1>2. fr \in Frames
  BY TopFacts, FrameType
<1>3. [top EXCEPT !.left = left, !.done = done] = fr
  BY <1>1, FrameExcept
<1>4. SetTop(left, done) = [stack EXCEPT ![Len(stack)] = [top EXCEPT !.left = left, !.done = done]]
  BY <1>1 DEF SetTop
<1> HIDE DEF fr
<1>5. SetTop(left, done) = Replaced(stack, fr)
  BY <1>3, <1>4 DEF Replaced
<1> QED BY <1>2, <1>5 DEF fr

LEMMA ItemFacts ==
    ASSUME SourceType, stack # <<>>, top.left # <<>>
    PROVE  /\ item \in Items /\ Tail(top.left) \in Seq(Items)
           /\ Range(top.left) = {item} \cup Range(Tail(top.left))
           /\ \A X : Count(top.left, X) = (IF item \in X THEN 1 ELSE 0) + Count(Tail(top.left), X)
<1>1. top.left \in Seq(Items)
  BY TopFacts
<1> QED BY <1>1, HeadTail, CountTail DEF item

(* Keep, Unresolved, Drop and SecondPass move the top call; so does the    *)
(* part of Inline that consumes the directive.                             *)
LEMMA KeepMoves ==
    ASSUME SourceType, stack # <<>>, Keep, NEW in
    PROVE  \E fr \in Frames : stack' = Replaced(stack, fr) /\ Moved(top, fr, in)
<1> DEFINE ahead == Positions(top.left, top.pass)
           kept == IF ahead = {} THEN Len(top.left) ELSE First(ahead) - 1
           A == SubSeq(top.left, 1, kept)
           B == SubSeq(top.left, kept + 1, Len(top.left))
           fr == Frame(B, top.done \o A, top.pass, top.base)
<1>1. /\ top \in Frames /\ top.left \in Seq(Items) /\ top.done \in Seq(Items)
      /\ top.pass \in {"input", "bibliography"} /\ top.base \in Seq(STRING)
  BY TopFacts
<1>2. stack' = SetTop(B, top.done \o A)
  BY DEF Keep
<1>3. kept \in 0 .. Len(top.left) /\ \A i \in 1 .. kept : top.left[i].is # top.pass
  <2>0. PICK n \in Nat : n = Len(top.left)
    BY <1>1
  <2>1. ahead \subseteq 1 .. n /\ \A i \in 1 .. n : top.left[i].is = top.pass => i \in ahead
    BY <2>0 DEF Positions
  <2> HIDE DEF ahead
  <2>2. CASE ahead = {}
    BY <2>0, <2>1, <2>2
  <2>3. CASE ahead # {}
    <3>1. First(ahead) \in ahead /\ \A j \in ahead : First(ahead) <= j
      <4>1. ahead \in SUBSET Nat
        BY <2>1, <2>0
      <4> QED BY <4>1, <2>3, FirstProperties
    <3>2. First(ahead) \in 1 .. n
      BY <3>1, <2>1
    <3>3. PICK m \in 1 .. n : m = First(ahead)
      BY <3>2
    <3>4. ASSUME NEW i \in 1 .. m - 1 PROVE top.left[i].is # top.pass
      <4>1. i \in 1 .. n /\ ~(m <= i)
        BY <2>0, <3>3
      <4> QED BY <4>1, <3>1, <3>3, <2>1
    <3>5. kept = m - 1 /\ m - 1 \in 0 .. n
      BY <2>3, <3>3, <2>0
    <3> QED BY <3>4, <3>5, <2>0
  <2> QED BY <2>2, <2>3
<1> HIDE DEF kept
<1>4. /\ A \in Seq(Items) /\ B \in Seq(Items) /\ top.left = A \o B
      /\ Len(A) = kept /\ \A i \in 1 .. kept : A[i] = top.left[i]
  BY <1>1, <1>3, Split
<1> HIDE DEF A, B
<1>5. /\ Range(top.left) = Range(A) \cup Range(B)
      /\ top.done \o A \in Seq(Items) /\ Range(top.done \o A) = Range(top.done) \cup Range(A)
  <2>1. Range(A \o B) = Range(A) \cup Range(B)
    BY <1>4, RangeConcat
  <2>2. top.done \o A \in Seq(Items) /\ Range(top.done \o A) = Range(top.done) \cup Range(A)
    BY <1>1, <1>4, RangeConcat
  <2> QED BY <2>1, <2>2, <1>4
<1>6. \A d \in Range(A) : d.is # top.pass
  <2> SUFFICES ASSUME NEW d \in Range(A) PROVE d.is # top.pass
    OBVIOUS
  <2>1. PICK i \in 1 .. kept : A[i] = d
    BY <1>4, SeqRange
  <2> QED BY <2>1, <1>3, <1>4
<1>7. /\ fr \in Frames /\ stack' = Replaced(stack, fr)
      /\ fr.left = B /\ fr.done = top.done \o A /\ fr.pass = top.pass /\ fr.base = top.base
  <2>1. fr \in Frames /\ SetTop(B, top.done \o A) = Replaced(stack, fr)
    BY <1>4, <1>5, SetTopIs
  <2> QED BY <2>1, <1>2 DEF Frame
<1> HIDE DEF fr
<1>8. ASSUME NEW d, NEW base, PendingIn(top, base, d) PROVE PendingIn(fr, base, d)
  BY <1>8, <1>1, <1>5, <1>6, <1>7 DEF PendingIn
<1>9. ASSUME NEW X PROVE FrameWords(fr, X) = FrameWords(top, X)
  <2>1. Count(A \o B, X) = Count(A, X) + Count(B, X)
    BY <1>4, CountConcat
  <2>2. Count(top.done \o A, X) = Count(top.done, X) + Count(A, X)
    BY <1>1, <1>4, CountConcat
  <2>3. Count(A, X) \in Nat /\ Count(B, X) \in Nat /\ Count(top.done, X) \in Nat
    BY <1>1, <1>4, CountType
  <2>4. FrameWords(fr, X) = Count(B, X) + Count(top.done \o A, X) /\ FrameWords(top, X)
            = Count(A \o B, X) + Count(top.done, X)
    BY <1>4, <1>7 DEF FrameWords
  <2> QED BY <2>1, <2>2, <2>3, <2>4
<1>10. Held(fr) = Held(top)
  BY <1>5, <1>7 DEF Held
<1>11. Moved(top, fr, in)
  BY <1>5, <1>7, <1>8, <1>9, <1>10 DEF Moved
<1> QED BY <1>7, <1>11

LEMMA UnresolvedMoves ==
    ASSUME SourceType, stack # <<>>, Unresolved, NEW in
    PROVE  \E fr \in Frames : stack' = Replaced(stack, fr) /\ Moved(top, fr, in)
<1> DEFINE B == Tail(top.left)
           done == Append(top.done, item)
           fr == Frame(B, done, top.pass, top.base)
<1>1. /\ top.left # <<>> /\ item.is = top.pass /\ Named(top.base, item) = {} /\ stack' = SetTop(B, done)
  BY DEF Unresolved, AtDirective, Targets
<1>2. /\ top.left \in Seq(Items) /\ top.done \in Seq(Items) /\ top.pass \in {"input", "bibliography"}
  BY TopFacts
<1>3. /\ item \in Items /\ B \in Seq(Items) /\ Range(top.left) = {item} \cup Range(B)
      /\ \A X : Count(top.left, X) = (IF item \in X THEN 1 ELSE 0) + Count(B, X)
  BY <1>1, ItemFacts
<1>4. done \in Seq(Items) /\ Range(done) = Range(top.done) \cup {item}
  BY <1>2, <1>3, AppendRange
<1>5. ASSUME NEW X PROVE Count(done, X) = Count(top.done, X) + IF item \in X THEN 1 ELSE 0
  BY <1>2, <1>3, CountAppend
<1> HIDE DEF B, done
<1>6. /\ fr \in Frames /\ stack' = Replaced(stack, fr)
      /\ fr.left = B /\ fr.done = done /\ fr.pass = top.pass /\ fr.base = top.base
  <2>1. fr \in Frames /\ SetTop(B, done) = Replaced(stack, fr)
    BY <1>3, <1>4, SetTopIs
  <2> QED BY <2>1, <1>1 DEF Frame
<1> HIDE DEF fr
<1>7. ASSUME NEW d, NEW base, PendingIn(top, base, d)
      PROVE  PendingIn(fr, base, d) \/ Named(base, d) \subseteq in
  <2>1. CASE d = item
    <3>1. Named(base, d) = {}
      <4>1. CASE d.is = "input"
        BY <4>1, <1>1, <1>7, <2>1 DEF PendingIn
      <4>2. CASE d.is = "bibliography"
        BY <4>2, <1>1, <2>1 DEF Named
      <4> QED BY <4>1, <4>2, <1>7 DEF PendingIn
    <3> QED BY <3>1
  <2>2. CASE d # item
    BY <2>2, <1>7, <1>3, <1>4, <1>6 DEF PendingIn
  <2> QED BY <2>1, <2>2
<1>8. ASSUME NEW X PROVE FrameWords(fr, X) = FrameWords(top, X)
  <2>1. Count(B, X) \in Nat /\ Count(top.done, X) \in Nat
    BY <1>2, <1>3, CountType
  <2>2. Count(top.left, X) = (IF item \in X THEN 1 ELSE 0) + Count(B, X)
    BY <1>3
  <2>3. FrameWords(fr, X) = Count(B, X) + Count(done, X) /\ FrameWords(top, X)
            = Count(top.left, X) + Count(top.done, X)
    BY <1>6 DEF FrameWords
  <2> QED BY <2>1, <2>2, <2>3, <1>5
<1>9. Held(fr) = Held(top)
  BY <1>3, <1>4, <1>6 DEF Held
<1>10. Moved(top, fr, in)
  BY <1>3, <1>6, <1>7, <1>8, <1>9 DEF Moved
<1> QED BY <1>6, <1>10

(* A directive goes, and s stands in its place.                            *)
LEMMA DirectiveMoves ==
    ASSUME SourceType, stack # <<>>, AtDirective, NEW in, Named(top.base, item) \subseteq in,
           NEW s \in Seq(Items), \A d \in Range(s) : d.is \notin {"bibliography", "word"}
    PROVE  LET fr == Frame(Tail(top.left), top.done \o s, top.pass, top.base) IN
           fr \in Frames /\ SetTop(Tail(top.left), top.done \o s) = Replaced(stack, fr)
                     /\ Moved(top, fr, in)
<1> DEFINE B == Tail(top.left)
           done == top.done \o s
           fr == Frame(B, done, top.pass, top.base)
<1>1. top.left # <<>> /\ item.is = top.pass
  BY DEF AtDirective
<1>2. /\ top.left \in Seq(Items) /\ top.done \in Seq(Items) /\ top.pass \in {"input", "bibliography"}
  BY TopFacts
<1>3. /\ item \in Items /\ B \in Seq(Items) /\ Range(top.left) = {item} \cup Range(B)
      /\ \A X : Count(top.left, X) = (IF item \in X THEN 1 ELSE 0) + Count(B, X)
  BY <1>1, ItemFacts
<1>4. done \in Seq(Items) /\ Range(done) = Range(top.done) \cup Range(s)
  BY <1>2, RangeConcat
<1>5. ASSUME NEW X PROVE Count(done, X) = Count(top.done, X) + Count(s, X)
  BY <1>2, CountConcat
<1> HIDE DEF B, done
<1>6. /\ fr \in Frames /\ SetTop(B, done) = Replaced(stack, fr)
      /\ fr.left = B /\ fr.done = done /\ fr.pass = top.pass /\ fr.base = top.base
  <2>1. fr \in Frames /\ SetTop(B, done) = Replaced(stack, fr)
    BY <1>3, <1>4, SetTopIs
  <2> QED BY <2>1, <1>1 DEF Frame
<1> HIDE DEF fr
<1>7. ASSUME NEW d, NEW base, PendingIn(top, base, d)
      PROVE  PendingIn(fr, base, d) \/ Named(base, d) \subseteq in
  <2>1. CASE d = item
    <3>1. Named(base, d) = Named(top.base, item)
      <4>1. CASE d.is = "input"
        BY <4>1, <1>1, <1>7, <2>1 DEF PendingIn
      <4>2. CASE d.is = "bibliography"
        BY <4>2, <1>1, <2>1 DEF Named
      <4> QED BY <4>1, <4>2, <1>7 DEF PendingIn
    <3> QED BY <3>1
  <2>2. CASE d # item
    BY <2>2, <1>7, <1>3, <1>4, <1>6 DEF PendingIn
  <2> QED BY <2>1, <2>2
<1>8. ASSUME NEW f PROVE FrameWords(fr, OwnWords(f)) = FrameWords(top, OwnWords(f))
  <2> DEFINE X == OwnWords(f)
  <2>0. item \notin X
    BY <1>1, <1>2 DEF OwnWords
  <2>1. Count(B, X) \in Nat /\ Count(top.done, X) \in Nat
    BY <1>2, <1>3, CountType
  <2>2. Count(top.left, X) = (IF item \in X THEN 1 ELSE 0) + Count(B, X)
    BY <1>3
  <2>3. Count(s, X) = 0
    <3>1. ASSUME NEW i \in 1 .. Len(s), s[i] \in X PROVE FALSE
      <4>1. s[i] \in Range(s)
        BY SeqRange
      <4> QED BY <4>1, <3>1 DEF OwnWords
    <3>2. {i \in 1 .. Len(s) : s[i] \in X} = {}
      BY <3>1
    <3> QED BY <3>2, FS_EmptySet DEF Count
  <2>4. FrameWords(fr, X) = Count(B, X) + Count(done, X) /\ FrameWords(top, X)
            = Count(top.left, X) + Count(top.done, X)
    BY <1>6 DEF FrameWords
  <2>5. Count(done, X) = Count(top.done, X) + Count(s, X)
    BY <1>5
  <2> HIDE DEF X
  <2>6. FrameWords(fr, X) = FrameWords(top, X)
    BY <2>0, <2>1, <2>2, <2>3, <2>4, <2>5
  <2> QED BY <2>6 DEF X
<1>9. /\ Held(fr) \subseteq Held(top) \cup Range(s)
      /\ Held(top) \subseteq Held(fr) \cup {item}
  BY <1>3, <1>4, <1>6 DEF Held
<1>10. Moved(top, fr, in)
  <2>1. \A d \in Held(fr) : d.is = "bibliography" => d \in Held(top)
    BY <1>9
  <2>2. \A d \in Held(top) : ~Moves(d.is) => d \in Held(fr)
    BY <1>1, <1>2, <1>9 DEF Moves
  <2>3. /\ fr.pass = "input" => top.pass = "input" /\ fr.base = top.base
        /\ fr.pass = "input" => \A d \in Range(fr.left) : d.is = "input" => d \in Range(top.left)
    BY <1>3, <1>6
  <2> QED BY <2>1, <2>2, <2>3, <1>7, <1>8 DEF Moved
<1> QED BY <1>6, <1>10 DEF fr, B, done

LEMMA SecondPassMoves ==
    ASSUME SourceType, stack # <<>>, SecondPass, NEW in
    PROVE  \E fr \in Frames : stack' = Replaced(stack, fr) /\ Moved(top, fr, in)
<1> DEFINE S == 1 .. Len(top.done) \ Positions(top.done, "bibliographystyle")
           text == At(top.done, S)
           fr == Frame(text, <<>>, "bibliography", top.base)
<1>1. /\ top \in Frames /\ top.left \in Seq(Items) /\ top.done \in Seq(Items)
          /\ top.base \in Seq(STRING)
      /\ top = stack[Len(stack)]
  BY TopFacts
<1>2. /\ top.left = <<>> /\ top.pass = "input"
      /\ stack' = [stack EXCEPT ![Len(stack)] = [@ EXCEPT !.left = text, !.done = <<>>, !.pass
                = "bibliography"]]
  BY DEF SecondPass
<1>3. S \in SUBSET (1 .. Len(top.done))
          /\ \A i \in 1 .. Len(top.done) : top.done[i].is # "bibliographystyle" => i \in S
  BY DEF Positions
<1> HIDE DEF S
<1>4. text \in Seq(Items) /\ Range(text) = {top.done[i] : i \in S}
  BY <1>1, <1>3, AtProperties
<1>5. Range(text) \subseteq Range(top.done)
          /\ \A d \in Range(top.done) : d.is # "bibliographystyle" => d \in Range(text)
  <2>1. \A d : d \in Range(top.done) <=> \E i \in 1 .. Len(top.done) : top.done[i] = d
    BY <1>1, SeqRange
  <2> QED BY <2>1, <1>3, <1>4
<1>6. ASSUME NEW f PROVE Count(text, OwnWords(f)) = Count(top.done, OwnWords(f))
  <2>1. \A i \in 1 .. Len(top.done) : top.done[i] \in OwnWords(f) => i \in S
    BY <1>3 DEF OwnWords
  <2> QED BY <2>1, <1>1, <1>3, CountAt
<1> HIDE DEF text
<1>7. /\ fr \in Frames /\ fr.left = text /\ fr.done = <<>> /\ fr.pass = "bibliography" /\ fr.base
          = top.base
  BY <1>1, <1>4 DEF Frames, Frame
<1>8. stack' = Replaced(stack, fr)
  <2>1. [top EXCEPT !.left = text, !.done = <<>>, !.pass = "bibliography"] = fr
    BY <1>1, FramePass
  <2>2. stack' = [stack EXCEPT ![Len(stack)] = [top EXCEPT !.left = text, !.done = <<>>, !.pass
            = "bibliography"]]
    BY <1>1, <1>2
  <2> HIDE DEF fr
  <2> QED BY <2>1, <2>2 DEF Replaced
<1> HIDE DEF fr
<1>9. Held(fr) = Range(text) /\ Held(top) = Range(top.done)
  BY <1>2, <1>7, RangeEmpty DEF Held
<1>10. ASSUME NEW d, NEW base, PendingIn(top, base, d) PROVE PendingIn(fr, base, d)
  <2>1. d.is = "bibliography" /\ d \in Range(top.done)
    BY <1>10, <1>2, RangeEmpty DEF PendingIn
  <2> QED BY <2>1, <1>5, <1>7 DEF PendingIn
<1>11. ASSUME NEW f PROVE FrameWords(fr, OwnWords(f)) = FrameWords(top, OwnWords(f))
  <2>1. Count(<<>>, OwnWords(f)) = 0 /\ Count(text, OwnWords(f)) \in Nat
    BY <1>4, CountEmpty, CountType
  <2> QED BY <2>1, <1>2, <1>6, <1>7 DEF FrameWords
<1>12. Moved(top, fr, in)
  BY <1>5, <1>7, <1>9, <1>10, <1>11 DEF Moved, Moves
<1> QED BY <1>7, <1>8, <1>12

-----------------------------------------------------------------------------
(* What does not depend on the step.                                       *)
LEMMA SamePaper ==
    ASSUME paper' = paper, main' = main
    PROVE  /\ Files' = Files /\ ClosedSets' = ClosedSets
           /\ \A f : Names(f)' = Names(f)
           /\ \A base, d : Named(base, d)' = Named(base, d)
           /\ \A arg : Bibliography(arg)' = Bibliography(arg)
<1>1. Files' = Files
  BY DEF Files
<1>2. \A arg : Bibliography(arg)' = Bibliography(arg)
  BY DEF Bibliography
<1>3. \A base, d : Named(base, d)' = Named(base, d)
  BY <1>2 DEF Named, Resolved
<1>4. \A f : Names(f)' = Names(f)
  BY <1>3 DEF Names
<1>5. ClosedSets' = ClosedSets
  BY <1>1, <1>4 DEF ClosedSets
<1> QED BY <1>1, <1>2, <1>3, <1>4, <1>5

LEMMA SameStack ==
    ASSUME paper' = paper, main' = main
    PROVE  /\ \A D : Within(stack, D)' <=> Within(stack', D)
           /\ Settled(stack, Inlined, Inlined)' <=> Settled(stack', Inlined', Inlined')
           /\ Present(stack, Inlined)' <=> Present(stack', Inlined')
<1>1. \A D : Within(stack, D)' <=> Within(stack', D)
  BY SamePaper DEF Within
<1>2. Settled(stack, Inlined, Inlined)' <=> Settled(stack', Inlined', Inlined')
  BY SamePaper DEF Settled
<1>3. Present(stack, Inlined)' <=> Present(stack', Inlined')
  BY DEF Present
<1> QED BY <1>1, <1>2, <1>3

-----------------------------------------------------------------------------
(* Each step keeps the invariant.                                          *)
Expands == outcome = "expand" /\ outcome' = "expand" /\ paper' = paper /\ main' = main

(* What the steps of the expansion have to show.                           *)

(* A step of the expansion keeps SourceInv when it keeps each of its       *)
(* parts.                                                                  *)
LEMMA ExpandStep ==
    ASSUME SourceInv, Expands, stack' \in Seq(Frames), stack' # <<>>, seen' \subseteq Files, cut' \in BOOLEAN,
           \A D \in ClosedSets : Inlined' \subseteq D /\ Within(stack', D),
           ~cut' => Settled(stack', Inlined', Inlined'),
           Present(stack', Inlined'),
           \A f \in Files : Total(stack', OwnWords(f), Count(paper.text[f], OwnWords(f)) * Times(f)')
    PROVE  SourceInv'
<1>1. /\ paper' = paper /\ main' = main /\ outcome' = "expand" /\ main # <<>>
      /\ Files' = Files /\ ClosedSets' = ClosedSets
  BY SamePaper DEF Expands, SourceInv, SourceType
<1>2. SourceType'
  BY <1>1 DEF SourceInv, SourceType
<1>3. OnlyDocument'
  BY <1>1, SameStack DEF OnlyDocument
<1>4. AllFound'
  BY <1>1, SameStack DEF AllFound
<1>5. NothingDropped'
  BY <1>1, SameStack DEF NothingDropped
<1>6. Counted'
  BY <1>1 DEF Counted, Total, Times
<1> QED BY <1>2, <1>3, <1>4, <1>5, <1>6 DEF SourceInv

LEMMA ExpandFacts ==
    ASSUME SourceInv, outcome = "expand"
    PROVE  /\ SourceType /\ main \in Files /\ stack # <<>> /\ stack \in Seq(Frames) /\ Last(stack) = top
           /\ \A D \in ClosedSets : Inlined \subseteq D /\ Within(stack, D)
           /\ ~cut => Settled(stack, Inlined, Inlined)
           /\ Present(stack, Inlined)
           /\ \A f \in Files : /\ Count(paper.text[f], OwnWords(f)) * Times(f) \in Nat
                               /\ Total(stack, OwnWords(f), Count(paper.text[f], OwnWords(f)) * Times(f))
           /\ \E family \in Families : paper \in family
<1>1. SourceType /\ main # <<>>
  BY DEF SourceInv, SourceType
<1>2. ASSUME NEW f \in Files
      PROVE  /\ Count(paper.text[f], OwnWords(f)) * Times(f) \in Nat
             /\ Total(stack, OwnWords(f), Count(paper.text[f], OwnWords(f)) * Times(f))
  <2>1. paper.text[f] \in Seq(Items)
    BY <1>1, PaperFacts DEF SourceType
  <2>2. Count(paper.text[f], OwnWords(f)) \in Nat
    BY <2>1, CountType
  <2>3. Times(f) \in Nat
    BY DEF Times
  <2>4. \A a, b \in Nat : a * b \in Nat
    OBVIOUS
  <2> QED BY <2>2, <2>3, <2>4, <1>1 DEF SourceInv, Counted
<1>3. Last(stack) = top
  BY DEF top
<1> QED BY <1>1, <1>2, <1>3 DEF SourceInv, SourceType, OnlyDocument, AllFound, NothingDropped

(* A move of the top call keeps SourceInv.                                 *)
LEMMA MovedStep ==
    ASSUME SourceInv, Expands, seen' = seen, cut' = cut,
           NEW fr \in Frames, stack' = Replaced(stack, fr), Moved(top, fr, Inlined)
    PROVE  SourceInv'
<1>1. outcome = "expand"
  BY DEF Expands
<1>2. Inlined' = Inlined /\ \A f : Times(f)' = Times(f)
  BY DEF Inlined, Times, Expands
<1>3. stack \in Seq(Frames) /\ stack # <<>> /\ Last(stack) = top
  BY <1>1, ExpandFacts
<1>4. stack' \in Seq(Frames) /\ stack' # <<>>
  BY <1>3, ReplacedProperties
<1>5. seen' \subseteq Files /\ cut' \in BOOLEAN
  BY DEF SourceInv, SourceType
<1>6. \A D \in ClosedSets : Inlined' \subseteq D /\ Within(stack', D)
  BY <1>1, <1>2, <1>3, ExpandFacts, WithinReplaced
<1>7. ~cut' => Settled(stack', Inlined', Inlined')
  BY <1>1, <1>2, <1>3, ExpandFacts, SettledReplaced
<1>8. Present(stack', Inlined')
  BY <1>1, <1>2, <1>3, ExpandFacts, PresentReplaced
<1>9. \A f \in Files : Total(stack', OwnWords(f), Count(paper.text[f], OwnWords(f)) * Times(f)')
  BY <1>1, <1>2, <1>3, ExpandFacts, TotalMoved
<1> QED BY <1>4, <1>5, <1>6, <1>7, <1>8, <1>9, ExpandStep

(* The steps, one by one.                                                  *)
LEMMA KeepStep == ASSUME SourceInv, Keep PROVE SourceInv'
<1>1. Expands /\ seen' = seen /\ cut' = cut
  BY DEF Keep, Expands
<1>2. SourceType /\ stack # <<>>
  BY <1>1, ExpandFacts DEF Expands
<1>3. PICK fr \in Frames : stack' = Replaced(stack, fr) /\ Moved(top, fr, Inlined)
  BY <1>2, KeepMoves
<1> QED BY <1>1, <1>3, MovedStep

LEMMA UnresolvedStep == ASSUME SourceInv, Unresolved PROVE SourceInv'
<1>1. Expands /\ seen' = seen /\ cut' = cut
  BY DEF Unresolved, AtDirective, Expands
<1>2. SourceType /\ stack # <<>>
  BY <1>1, ExpandFacts DEF Expands
<1>3. PICK fr \in Frames : stack' = Replaced(stack, fr) /\ Moved(top, fr, Inlined)
  BY <1>2, UnresolvedMoves
<1> QED BY <1>1, <1>3, MovedStep

LEMMA DropStep == ASSUME SourceInv, Drop PROVE SourceInv'
<1>1. Expands /\ seen' = seen /\ cut' = cut
  BY DEF Drop, AtDirective, Expands
<1>2. SourceType /\ stack # <<>> /\ AtDirective
  BY <1>1, ExpandFacts DEF Expands, Drop
<1>3. Named(top.base, item) \subseteq Inlined
  BY DEF Drop, Targets, Inlined
<1>4. stack' = SetTop(Tail(top.left), top.done) /\ top.done \in Seq(Items)
  BY <1>2, TopFacts DEF Drop
<1>5. <<>> \in Seq(Items) /\ top.done \o <<>> = top.done
          /\ \A d \in Range(<<>>) : d.is \notin {"bibliography", "word"}
  BY <1>4, RangeEmpty, ConcatEmptySeq
<1>6. PICK fr \in Frames : stack' = Replaced(stack, fr) /\ Moved(top, fr, Inlined)
  <2> DEFINE fr == Frame(Tail(top.left), top.done \o <<>>, top.pass, top.base)
  <2>1. fr \in Frames /\ SetTop(Tail(top.left), top.done \o <<>>) = Replaced(stack, fr)
            /\ Moved(top, fr, Inlined)
    BY <1>2, <1>3, <1>5, DirectiveMoves
  <2> HIDE DEF fr
  <2> QED BY <2>1, <1>4, <1>5
<1> QED BY <1>1, <1>6, MovedStep

LEMMA SecondPassStep == ASSUME SourceInv, SecondPass PROVE SourceInv'
<1>1. Expands /\ seen' = seen /\ cut' = cut
  BY DEF SecondPass, Expands
<1>2. SourceType /\ stack # <<>>
  BY <1>1, ExpandFacts DEF Expands
<1>3. PICK fr \in Frames : stack' = Replaced(stack, fr) /\ Moved(top, fr, Inlined)
  BY <1>2, SecondPassMoves
<1> QED BY <1>1, <1>3, MovedStep

LEMMA WithinAppend ==
    ASSUME NEW stk \in Seq(Frames), NEW fr \in Frames, NEW D, Within(stk, D),
           \A d \in Range(fr.left) : d.is = "input" => Named(fr.base, d) \subseteq D,
           \A d \in Held(fr) : d.is = "bibliography" => Bibliography(d.arg) \subseteq D
    PROVE  Within(Append(stk, fr), D)
<1> DEFINE n == Len(stk)
           new == Append(stk, fr)
<1>1. n \in Nat /\ Len(new) = n + 1 /\ new[n + 1] = fr /\ \A k \in 1 .. n : new[k] = stk[k]
  OBVIOUS
<1> HIDE DEF new
<1>2. ASSUME NEW k \in 1 .. n + 1
      PROVE  /\ new[k].pass = "input" =>
                    \A d \in Range(new[k].left) : d.is = "input" => Named(new[k].base, d) \subseteq D
             /\ \A d \in Held(new[k]) : d.is = "bibliography" => Bibliography(d.arg) \subseteq D
  <2>1. CASE k = n + 1
    BY <2>1, <1>1
  <2>2. CASE k # n + 1
    <3>1. k \in 1 .. n
      BY <2>2, <1>1
    <3>2. new[k] = stk[k]
      BY <3>1, <1>1
    <3> QED BY <3>1, <3>2 DEF Within
  <2> QED BY <2>1, <2>2
<1>3. Within(new, D)
  BY <1>1, <1>2 DEF Within
<1> QED BY <1>3 DEF new

LEMMA ReplacedTwice ==
    ASSUME NEW stk \in Seq(Frames), stk # <<>>, NEW fr \in Frames, NEW e \in Frames
    PROVE  Replaced(Replaced(stk, fr), e) = Replaced(stk, e)
<1> DEFINE a == Replaced(stk, fr)
           b == Replaced(a, e)
           c == Replaced(stk, e)
<1>1. a \in Seq(Frames) /\ a # <<>> /\ Len(a) = Len(stk) /\ \A k \in 1 .. Len(stk) - 1 : a[k] = stk[k]
  BY ReplacedProperties
<1>2. c \in Seq(Frames) /\ Len(c) = Len(stk) /\ c[Len(stk)] = e
          /\ \A k \in 1 .. Len(stk) - 1 : c[k] = stk[k]
  BY ReplacedProperties
<1> HIDE DEF a
<1>3. b \in Seq(Frames) /\ Len(b) = Len(a) /\ b[Len(a)] = e /\ \A k \in 1 .. Len(a) - 1 : b[k] = a[k]
  BY <1>1, ReplacedProperties
<1> HIDE DEF b, c
<1>4. \A k \in 1 .. Len(stk) : b[k] = c[k]
  <2>1. PICK n \in Nat : n = Len(stk) /\ n >= 1
    OBVIOUS
  <2>2. ASSUME NEW k \in 1 .. n PROVE k = n \/ k \in 1 .. n - 1
    BY <2>1
  <2> QED BY <1>1, <1>2, <1>3, <2>1, <2>2
<1>5. b = c
  BY <1>1, <1>2, <1>3, <1>4, SeqEqual
<1> QED BY <1>5 DEF a, b, c

LEMMA HeadingFacts ==
    ASSUME TRUE
    PROVE  Heading \in Seq(Items) /\ \A d \in Range(Heading) : d.is \notin {"bibliography", "word"}
<1>1. CASE item.is = "input"
  <2>1. Heading = <<>>
    BY <1>1 DEF Heading
  <2> QED BY <2>1, RangeEmpty
<1>2. CASE item.is # "input"
  <2> DEFINE a == Item("references")
             b == Item("newline")
  <2>1. Heading = <<a, b>>
    BY <1>2 DEF Heading
  <2>2. a \in Items /\ b \in Items /\ a.is = "references" /\ b.is = "newline"
    BY DEF Item, Items, Kinds
  <2> HIDE DEF a, b
  <2>3. Heading \in Seq(Items) /\ Len(Heading) = 2 /\ Heading[1] = a /\ Heading[2] = b
    BY <2>1, <2>2
  <2>4. \A d \in Range(Heading) : \E i \in 1 .. Len(Heading) : Heading[i] = d
    BY <2>3, SeqRange
  <2> QED BY <2>2, <2>3, <2>4
<1> QED BY <1>1, <1>2

(* A file that is inlined belongs to the document, and so does what its    *)
(* directives name.                                                        *)
LEMMA TargetFacts ==
    ASSUME SourceInv, AtDirective, NEW f \in Targets
    PROVE  /\ f \in Files /\ paper.text[f] \in Seq(Items) /\ Parent(f) \in Seq(STRING)
           /\ Named(top.base, item) = {f}
           /\ \A D \in ClosedSets :
                /\ f \in D
                /\ \A d \in Range(paper.text[f]) : d.is = "input" => Named(Parent(f), d) \subseteq D
                /\ \A d \in Range(paper.text[f]) : d.is = "bibliography"
                          => Bibliography(d.arg) \subseteq D
<1>0. outcome = "expand" /\ top.left # <<>> /\ item.is = top.pass
  BY DEF AtDirective
<1>1. /\ SourceType /\ stack # <<>> /\ stack \in Seq(Frames)
          /\ \E family \in Families : paper \in family
      /\ \A D \in ClosedSets : Inlined \subseteq D /\ Within(stack, D)
  BY <1>0, ExpandFacts
<1>2. f \in Files /\ Named(top.base, item) = {f}
  <2>1. f \in Named(top.base, item)
    BY DEF Targets
  <2>2. Named(top.base, item) \subseteq Files /\ \A a, b \in Named(top.base, item) : a = b
    BY <1>1, NamedOne
  <2> QED BY <2>1, <2>2
<1>3. paper.text[f] \in Seq(Items) /\ Parent(f) \in Seq(STRING)
  BY <1>1, <1>2, PaperFacts
<1>4. ASSUME NEW D \in ClosedSets
      PROVE  /\ f \in D
             /\ \A d \in Range(paper.text[f]) : d.is = "input" => Named(Parent(f), d) \subseteq D
             /\ \A d \in Range(paper.text[f]) : d.is = "bibliography" => Bibliography(d.arg) \subseteq D
  <2>1. /\ top.pass = "input" =>
                \A d \in Range(top.left) : d.is = "input" => Named(top.base, d) \subseteq D
        /\ \A d \in Held(top) : d.is = "bibliography" => Bibliography(d.arg) \subseteq D
    <3>1. top = stack[Len(stack)]
      BY <1>1, TopFacts
    <3>3. Len(stack) \in 1 .. Len(stack)
      BY <1>1
    <3>2. Within(stack, D)
      BY <1>1
    <3> QED BY <3>1, <3>2, <3>3 DEF Within
  <2>2. item \in Range(top.left) /\ top.pass \in {"input", "bibliography"} /\ item \in Held(top)
    BY <1>0, <1>1, TopFacts, ItemFacts DEF Held
  <2>3. Named(top.base, item) \subseteq D
    <3>1. CASE item.is = "input"
      BY <3>1, <2>1, <2>2, <1>0
    <3>2. CASE item.is = "bibliography"
      <4>1. Named(top.base, item) = Bibliography(item.arg)
        BY <1>1, <3>2, NamedOne
      <4> QED BY <4>1, <3>2, <2>1, <2>2
    <3> QED BY <3>1, <3>2, <2>2, <1>0
  <2>4. f \in D
    BY <2>3, <1>2
  <2>5. Names(f) \subseteq D
    BY <2>4 DEF ClosedSets
  <2>6. \A d \in Range(paper.text[f]) : d.is \in {"input", "bibliography"}
            => Named(Parent(f), d) \subseteq Names(f)
    BY <1>3, NamesDirectives
  <2>7. ASSUME NEW d \in Range(paper.text[f]), d.is = "bibliography"
            PROVE Bibliography(d.arg) \subseteq D
    <3>1. Named(Parent(f), d) = Bibliography(d.arg)
      BY <1>1, <2>7, NamedOne
    <3> QED BY <3>1, <2>5, <2>6, <2>7
  <2> QED BY <2>4, <2>5, <2>6, <2>7
<1> QED BY <1>2, <1>3, <1>4

(* The count after f is inlined.                                           *)
LEMMA InlineTimes ==
    ASSUME SourceInv, outcome = "expand", main' = main, NEW f \in Files, f \notin seen, seen'
              = seen \cup {f}, NEW g \in Files
    PROVE  Count(paper.text[g], OwnWords(g)) * Times(g)' =
               Count(paper.text[g], OwnWords(g)) * Times(g) + Count(paper.text[f], OwnWords(g))
<1> DEFINE c == Count(paper.text[g], OwnWords(g))
<1>2. c \in Nat
  <2>1. paper.text[g] \in Seq(Items)
    BY ExpandFacts, PaperFacts
  <2> QED BY <2>1, CountType
<1>3. ASSUME g = f PROVE c * Times(g)' = c * Times(g) + Count(paper.text[f], OwnWords(g))
  <2>1. Count(paper.text[f], OwnWords(g)) = c
    BY <1>3
  <2>2. \/ Times(g) = 0 /\ Times(g)' = 1
        \/ Times(g) = 1 /\ Times(g)' = 2
    BY <1>3 DEF Times
  <2> HIDE DEF c
  <2>3. c * 0 = 0 /\ c * 1 = c /\ c * 2 = c + c
    BY <1>2
  <2> QED BY <2>1, <2>2, <2>3, <1>2
<1>4. ASSUME g # f PROVE c * Times(g)' = c * Times(g) + Count(paper.text[f], OwnWords(g))
  <2>1. Times(g)' = Times(g) /\ Times(g) \in Nat
    BY <1>4 DEF Times
  <2>2. Count(paper.text[f], OwnWords(g)) = 0
    <3>1. \E family \in Families : paper \in family
      BY ExpandFacts
    <3> QED BY <3>1, <1>4, PaperFacts
  <2>3. c * Times(g) \in Nat
    BY ExpandFacts
  <2> HIDE DEF c
  <2> QED BY <2>1, <2>2, <2>3
<1> QED BY <1>3, <1>4

(* Inline: the call of the file is added, or its text goes to what is      *)
(* done.                                                                   *)
LEMMA InlineStep == ASSUME SourceInv, Inline PROVE SourceInv'
<1>1. AtDirective /\ outcome = "expand" /\ Expands
  BY DEF Inline, AtDirective, Expands
<1>2. PICK f \in Targets : f \notin seen /\ InlineFile(f) /\ seen' = seen \cup {f}
  BY DEF Inline
<1>3. /\ SourceType /\ stack # <<>> /\ stack \in Seq(Frames) /\ Last(stack) = top
      /\ \A D \in ClosedSets : Inlined \subseteq D /\ Within(stack, D)
      /\ ~cut => Settled(stack, Inlined, Inlined)
      /\ Present(stack, Inlined)
      /\ \A g \in Files : /\ Count(paper.text[g], OwnWords(g)) * Times(g) \in Nat
                          /\ Total(stack, OwnWords(g), Count(paper.text[g], OwnWords(g)) * Times(g))
      /\ \E family \in Families : paper \in family
  BY <1>1, ExpandFacts
<1> DEFINE text == paper.text[f]
           more == Inlined \cup {f}
           fr == Frame(Tail(top.left), top.done \o Heading, top.pass, top.base)
           stk == Replaced(stack, fr)
<1>4. /\ f \in Files /\ text \in Seq(Items) /\ Parent(f) \in Seq(STRING)
          /\ Named(top.base, item) \subseteq more
      /\ \A D \in ClosedSets :
            /\ f \in D
            /\ \A d \in Range(text) : d.is = "input" => Named(Parent(f), d) \subseteq D
            /\ \A d \in Range(text) : d.is = "bibliography" => Bibliography(d.arg) \subseteq D
  BY <1>1, TargetFacts
<1>5. /\ fr \in Frames /\ SetTop(Tail(top.left), top.done \o Heading) = stk /\ Moved(top, fr, more)
  BY <1>1, <1>3, <1>4, HeadingFacts, DirectiveMoves
<1>6. /\ fr.left = Tail(top.left) /\ fr.done = top.done \o Heading /\ fr.pass = top.pass
          /\ fr.base = top.base
  BY DEF Frame
<1> HIDE DEF fr
<1>7. stk \in Seq(Frames) /\ stk # <<>> /\ Last(stk) = fr
  BY <1>3, <1>5, ReplacedProperties
<1>8. Inlined' = more /\ seen' \subseteq Files
  <2>1. seen \subseteq Files /\ main' = main
    BY <1>1, <1>3 DEF SourceType, Expands
  <2> QED BY <2>1, <1>2, <1>4 DEF Inlined
<1>9. \A D \in ClosedSets : Within(stk, D)
  BY <1>3, <1>5, WithinReplaced
<1>10. ~cut => Settled(stk, Inlined, more)
  BY <1>3, <1>5, SettledReplaced
<1>11. Present(stk, Inlined)
  BY <1>3, <1>5, PresentReplaced
<1>12. ASSUME NEW g \in Files PROVE Total(stk, OwnWords(g), Count(paper.text[g], OwnWords(g)) * Times(g))
  BY <1>3, <1>5, TotalMoved
<1>13. \A g \in Files : Count(paper.text[g], OwnWords(g)) * Times(g)' =
                        Count(paper.text[g], OwnWords(g)) * Times(g) + Count(text, OwnWords(g))
  BY <1>1, <1>2, <1>3, <1>4, InlineTimes DEF Expands
<1>14. \A D \in ClosedSets : Inlined' \subseteq D
  BY <1>3, <1>4, <1>8
<1> HIDE DEF stk
<1>15. CASE Len(stack) <= MaxInputDepth
  <2> DEFINE call == Call(text, Parent(f))
  <2>1. stack' = Append(stk, call) /\ cut' = cut
    BY <1>2, <1>5, <1>15 DEF InlineFile
  <2>2. /\ call \in Frames /\ call.left = text /\ call.done = <<>> /\ call.base = Parent(f)
        /\ Held(call) = Range(text)
    BY <1>4, RangeEmpty DEF Call, Frames, Held
  <2>3. ASSUME NEW g \in Files
        PROVE  Total(stack', OwnWords(g), Count(paper.text[g], OwnWords(g)) * Times(g)')
    <3> HIDE DEF call
    <3>1. FrameWords(call, OwnWords(g)) = Count(text, OwnWords(g))
      <4>1. Count(<<>>, OwnWords(g)) = 0 /\ Count(text, OwnWords(g)) \in Nat
        BY <1>4, CountEmpty, CountType
      <4> QED BY <4>1, <2>2 DEF FrameWords
    <3>2. Total(Append(stk, call), OwnWords(g), Count(paper.text[g], OwnWords(g)) * Times(g) + FrameWords(call, OwnWords(g)))
      BY <1>3, <1>7, <1>12, <2>2, TotalAppend
    <3> QED BY <3>1, <3>2, <2>1, <1>13
  <2>4. Settled(stk, Inlined, more) => Settled(Append(stk, call), Inlined \cup {f}, more)
    BY <1>4, <1>7, SettledAppend
  <2>5. Present(Append(stk, call), Inlined \cup {f})
    BY <1>4, <1>7, <1>11, PresentAppend
  <2> HIDE DEF call
  <2>6. \A D \in ClosedSets : Within(stack', D)
    BY <1>4, <1>7, <1>9, <2>1, <2>2, WithinAppend
  <2>7. ~cut' => Settled(stack', Inlined', Inlined')
    BY <1>8, <1>10, <2>1, <2>4
  <2>8. Present(stack', Inlined')
    BY <1>8, <2>1, <2>5
  <2>9. stack' \in Seq(Frames) /\ stack' # <<>> /\ cut' \in BOOLEAN
    <3>1. cut \in BOOLEAN
      BY <1>3 DEF SourceType
    <3> QED BY <3>1, <1>7, <2>1, <2>2
  <2> QED BY <1>1, <1>8, <1>14, <2>3, <2>6, <2>7, <2>8, <2>9, ExpandStep
<1>16. CASE ~(Len(stack) <= MaxInputDepth)
  <2> DEFINE e == Extended(fr, text)
  <2>1. stack' = Replaced(stack, e) /\ cut' = TRUE
    <3>1. stack' = SetTop(Tail(top.left), top.done \o Heading \o text) /\ cut' = TRUE
      BY <1>2, <1>16 DEF InlineFile
    <3>2. top.done \in Seq(Items) /\ Tail(top.left) \in Seq(Items) /\ Heading \in Seq(Items)
      BY <1>1, <1>3, TopFacts, ItemFacts, HeadingFacts DEF AtDirective
    <3>3. (top.done \o Heading) \o text \in Seq(Items)
      BY <3>2, <1>4
    <3>4. SetTop(Tail(top.left), (top.done \o Heading) \o text) =
              Replaced(stack, Frame(Tail(top.left), (top.done \o Heading) \o text, top.pass, top.base))
      BY <3>2, <3>3, <1>3, SetTopIs
    <3>5. e = Frame(Tail(top.left), (top.done \o Heading) \o text, top.pass, top.base)
      BY <1>6 DEF Extended
    <3> QED BY <3>1, <3>4, <3>5
  <2>2. e \in Frames
    BY <1>4, <1>5, ExtendedProperties
  <2>3. stack' = Replaced(stk, Extended(Last(stk), text))
    <3>1. Replaced(stk, e) = Replaced(stack, e)
      BY <1>3, <1>5, <2>2, ReplacedTwice DEF stk
    <3> QED BY <3>1, <2>1, <1>7
  <2>4. \A D \in ClosedSets : Within(stack', D)
    BY <1>4, <1>7, <1>9, <2>3, WithinExtended
  <2>5. Present(stack', Inlined')
    <3>1. \A g \in more : \A d \in Range(paper.text[g]) :
                ~Moves(d.is) => d \in Range(text) \/ \E k \in 1 .. Len(stk) : d \in Held(stk[k])
      BY <1>11 DEF Present
    <3>2. Present(Replaced(stk, Extended(Last(stk), text)), more)
      BY <1>4, <1>7, <3>1, PresentExtended
    <3> QED BY <3>2, <2>3, <1>8
  <2>6. ASSUME NEW g \in Files
        PROVE  Total(stack', OwnWords(g), Count(paper.text[g], OwnWords(g)) * Times(g)')
    <3>1. Total(Replaced(stk, Extended(Last(stk), text)), OwnWords(g),
                Count(paper.text[g], OwnWords(g)) * Times(g) + Count(text, OwnWords(g)))
      BY <1>3, <1>4, <1>7, <1>12, TotalExtended
    <3> QED BY <3>1, <2>3, <1>13
  <2>7. stack' \in Seq(Frames) /\ stack' # <<>>
    BY <1>3, <2>1, <2>2, ReplacedProperties
  <2> QED BY <1>1, <1>8, <1>14, <2>1, <2>4, <2>5, <2>6, <2>7, ExpandStep
<1> QED BY <1>15, <1>16

(* Return: what the top call has done goes to the call below.              *)
LEMMA ReturnStep == ASSUME SourceInv, Return PROVE SourceInv'
<1>1. /\ Expands /\ seen' = seen /\ cut' = cut /\ outcome = "expand" /\ top.left = <<>>
          /\ top.pass = "bibliography"
      /\ Len(stack) > 1
      /\ stack' = [Front(stack) EXCEPT ![Len(stack) - 1].done = @ \o top.done]
  BY DEF Return, CallDone, Expands
<1>2. /\ SourceType /\ stack # <<>> /\ stack \in Seq(Frames) /\ Last(stack) = top
      /\ \A D \in ClosedSets : Inlined \subseteq D /\ Within(stack, D)
      /\ ~cut => Settled(stack, Inlined, Inlined)
      /\ Present(stack, Inlined)
      /\ \A g \in Files : /\ Count(paper.text[g], OwnWords(g)) * Times(g) \in Nat
                          /\ Total(stack, OwnWords(g), Count(paper.text[g], OwnWords(g)) * Times(g))
  BY <1>1, ExpandFacts
<1> DEFINE stk == Front(stack)
           n == Len(stack)
           s == top.done
<1>3. /\ stk \in Seq(Frames) /\ Len(stk) = n - 1 /\ top = stack[n] /\ \A k \in 1 .. n - 1 : stk[k]
          = stack[k]
  BY <1>2, FrontLast
<1>4. n \in Nat /\ n > 1 /\ stk # <<>> /\ Last(stk) = stk[n - 1]
  <2>1. n \in Nat /\ n > 1
    BY <1>1, <1>2
  <2> HIDE DEF n, stk
  <2>2. stk # <<>>
    BY <2>1, <1>3
  <2> QED BY <2>1, <2>2, <1>3 DEF Last
<1>5. s \in Seq(Items) /\ top \in Frames
  BY <1>2, TopFacts
<1>6. stack' = Replaced(stk, Extended(Last(stk), s))
  <2> DEFINE b == stk[n - 1]
  <2>1. b \in Frames
    <3>1. n - 1 \in 1 .. Len(stk)
      BY <1>3, <1>4
    <3> QED BY <3>1, <1>3
  <2>2. [b EXCEPT !.done = b.done \o s] = Frame(b.left, b.done \o s, b.pass, b.base)
    BY <2>1, FrameDone
  <2>3. stack' = [stk EXCEPT ![n - 1] = [b EXCEPT !.done = b.done \o s]]
    BY <1>1
  <2>4. Extended(b, s) = Frame(b.left, b.done \o s, b.pass, b.base)
    BY DEF Extended
  <2> QED BY <2>2, <2>3, <2>4, <1>3, <1>4 DEF Replaced
<1> HIDE DEF stk, n, s
<1>7. Inlined' = Inlined /\ (\A f : Times(f)' = Times(f)) /\ seen' \subseteq Files /\ cut' \in BOOLEAN
  BY <1>1, <1>2 DEF Inlined, Times, Expands, SourceType
<1>8. ASSUME NEW D \in ClosedSets PROVE Within(stack', D)
  <2>1. Within(stack, D)
    BY <1>2
  <2>2. Within(stk, D)
    <3>1. \A k \in 1 .. n - 1 : k \in 1 .. Len(stack) /\ stk[k] = stack[k]
      BY <1>3, <1>4 DEF n
    <3> QED BY <2>1, <3>1, <1>3 DEF Within
  <2>3. \A d \in Range(s) : d.is = "bibliography" => Bibliography(d.arg) \subseteq D
    <3>1. Range(s) \subseteq Held(stack[n]) /\ n \in 1 .. Len(stack)
      BY <1>3, <1>4 DEF Held, s, n
    <3> QED BY <2>1, <3>1 DEF Within
  <2> QED BY <2>2, <2>3, <1>3, <1>4, <1>5, <1>6, WithinExtended
<1>9. ~cut' => Settled(stack', Inlined', Inlined')
  <2>1. ~cut => Settled(stk, Inlined, Inlined)
    BY <1>1, <1>2, SettledFront DEF stk
  <2>2. ~cut => Settled(Replaced(stk, Extended(Last(stk), s)), Inlined, Inlined)
    BY <2>1, <1>3, <1>4, <1>5, SettledExtended
  <2> QED BY <2>2, <1>1, <1>6, <1>7
<1>10. Present(stack', Inlined')
  <2>1. ASSUME NEW g \in Inlined, NEW d \in Range(paper.text[g]), ~Moves(d.is)
        PROVE  d \in Range(s) \/ \E k \in 1 .. Len(stk) : d \in Held(stk[k])
    <3>1. PICK k \in 1 .. n : d \in Held(stack[k])
      BY <2>1, <1>2 DEF Present, n
    <3>2. CASE k = n
      BY <3>1, <3>2, <1>1, <1>3, RangeEmpty DEF Held, s
    <3>3. CASE k # n
      <4>1. k \in 1 .. n - 1 /\ stk[k] = stack[k]
        BY <3>3, <1>3, <1>4
      <4> QED BY <4>1, <3>1, <1>3
    <3> QED BY <3>2, <3>3
  <2>2. Present(Replaced(stk, Extended(Last(stk), s)), Inlined)
    BY <2>1, <1>3, <1>4, <1>5, PresentExtended
  <2> QED BY <2>2, <1>6, <1>7
<1>11. ASSUME NEW g \in Files PROVE Total(stack', OwnWords(g), Count(paper.text[g], OwnWords(g)) * Times(g)')
  <2> DEFINE X == OwnWords(g)
             m == Count(paper.text[g], X) * Times(g)
  <2>1. PICK r \in Nat : m = r + FrameWords(top, X) /\ Total(stk, X, r)
    BY <1>2, TotalFront DEF stk
  <2>2. FrameWords(top, X) = Count(s, X)
    <3>1. Count(<<>>, X) = 0 /\ Count(s, X) \in Nat
      BY <1>5, CountEmpty, CountType
    <3> QED BY <3>1, <1>1 DEF FrameWords, s
  <2> HIDE DEF X, m
  <2>3. Total(Replaced(stk, Extended(Last(stk), s)), X, r + Count(s, X))
    BY <2>1, <1>3, <1>4, <1>5, TotalExtended
  <2> QED BY <2>1, <2>2, <2>3, <1>6, <1>7 DEF X, m
<1>12. stack' \in Seq(Frames) /\ stack' # <<>>
  BY <1>3, <1>4, <1>5, <1>6, StackExtended
<1> QED BY <1>1, <1>2, <1>7, <1>8, <1>9, <1>10, <1>11, <1>12, ExpandStep

LEMMA DownloadStep == ASSUME SourceInv, Download PROVE SourceInv'
<1>1. /\ outcome = "download" /\ outcome' \in {"tex", "pdf_only", "choose", "error"}
      /\ paper' = paper /\ main' = main /\ stack' = stack /\ seen' = seen /\ cut' = cut
  BY DEF Download
<1>2. SourceType /\ main = <<>>
  BY <1>1 DEF SourceInv, SourceType
<1>3. SourceType'
  BY <1>1, <1>2 DEF SourceType, Files
<1> QED BY <1>1, <1>2, <1>3 DEF SourceInv, OnlyDocument, AllFound, NothingDropped, Counted

LEMMA CandidateFiles == Candidates \subseteq paper.tex
BY DEF Candidates

(* The call on the main file.                                              *)
LEMMA ChooseMainStep == ASSUME SourceInv, ChooseMain PROVE SourceInv'
<1>1. /\ outcome = "choose" /\ outcome' = "expand" /\ paper' = paper /\ seen' = seen /\ cut' = cut
      /\ \E f \in Candidates : main' = f /\ stack' = <<Call(paper.text[f], Parent(f))>>
  BY DEF ChooseMain
<1>2. /\ SourceType /\ main = <<>> /\ stack = <<>> /\ seen = {} /\ cut \in BOOLEAN
      /\ \E family \in Families : paper \in family
  BY <1>1 DEF SourceInv, SourceType
<1>3. PICK f \in Files : main' = f /\ stack' = <<Call(paper.text[f], Parent(f))>>
  <2>1. paper.tex \subseteq Files
    BY <1>2, PaperFacts
  <2> QED BY <2>1, <1>1, CandidateFiles
<1>4. /\ f # <<>> /\ paper.text[f] \in Seq(Items) /\ Parent(f) \in Seq(STRING)
      /\ \A g \in Files : g # f => Count(paper.text[f], OwnWords(g)) = 0
  <2>1. /\ f # <<>> /\ paper.text[f] \in Seq(Items) /\ Parent(f) \in Seq(STRING)
    BY <1>2, PaperFacts
  <2>2. \A g \in Files : g # f => Count(paper.text[f], OwnWords(g)) = 0
    BY <1>2, PaperFacts
  <2> QED BY <2>1, <2>2
<1> DEFINE call == Call(paper.text[f], Parent(f))
<1>5. /\ call \in Frames /\ call.left = paper.text[f] /\ call.done = <<>> /\ call.pass = "input"
          /\ call.base = Parent(f)
      /\ Held(call) = Range(paper.text[f])
  BY <1>4, RangeEmpty DEF Call, Frames, Held
<1>6. stack' = Append(<<>>, call) /\ <<>> \in Seq(Frames)
  BY <1>3
<1> HIDE DEF call
<1>7. stack' \in Seq(Frames) /\ stack' # <<>> /\ Len(stack') = 1 /\ stack'[1] = call
  BY <1>5, <1>6
<1>8. Inlined' = {f} /\ Files' = Files
  BY <1>1, <1>2, <1>3 DEF Inlined, Files
<1>9. SourceType'
  BY <1>1, <1>2, <1>3, <1>4, <1>7, <1>8 DEF SourceType
<1>10. OnlyDocument'
  <2> SUFFICES ASSUME NEW D \in ClosedSets' PROVE Inlined' \subseteq D /\ Within(stack, D)'
    BY DEF OnlyDocument
  <2>1. f \in D /\ (Names(f) \subseteq D)'
    BY <1>3 DEF ClosedSets
  <2>2. (\A d \in Range(paper.text[f]) : d.is \in {"input", "bibliography"} =>
            Named(Parent(f), d) \subseteq Names(f))'
    BY <1>1, <1>4, NamesNext
  <2>3. (\A d \in Range(paper.text[f]) : d.is = "bibliography" =>
            Bibliography(d.arg) = Named(Parent(f), d))'
    BY DEF Named
  <2>4. Within(stack, D)'
    BY <1>1, <1>5, <1>7, <2>1, <2>2, <2>3 DEF Within
  <2> QED BY <1>8, <2>1, <2>4
<1>11. AllFound'
  <2>1. (\A d \in Range(paper.text[f]) : d.is \in {"input", "bibliography"} =>
            PendingIn(stack[1], Parent(f), d))'
    BY <1>1, <1>5, <1>7 DEF PendingIn
  <2>2. Settled(stack, Inlined, Inlined)'
    BY <1>7, <1>8, <2>1 DEF Settled
  <2> QED BY <2>2 DEF AllFound
<1>12. NothingDropped'
  BY <1>1, <1>5, <1>7, <1>8 DEF NothingDropped, Present
<1>13. Counted'
  <2> SUFFICES ASSUME NEW g \in Files
               PROVE  Total(stack, OwnWords(g), Count(paper.text[g], OwnWords(g)) * Times(g))'
    BY <1>8 DEF Counted
  <2> DEFINE X == OwnWords(g)
             c == Count(paper.text[f], X)
             t == [k \in 0 .. 1 |-> IF k = 0 THEN 0 ELSE c]
  <2>1. c \in Nat /\ Count(<<>>, X) = 0
    BY <1>4, CountType, CountEmpty
  <2>2. FrameWords(call, X) = c
    BY <1>5, <2>1 DEF FrameWords
  <2>3. Count(paper.text[g], X) * Times(g)' = c
    <3>1. Times(g)' = IF g = f THEN 1 ELSE 0
      BY <1>1, <1>2, <1>3 DEF Times
    <3>2. Count(paper.text[g], X) \in Nat
      <4>1. paper.text[g] \in Seq(Items)
        BY <1>2, PaperFacts
      <4> QED BY <4>1, CountType
    <3>3. \A n \in Nat : n * 1 = n /\ n * 0 = 0
      OBVIOUS
    <3>4. CASE g = f
      BY <3>1, <3>2, <3>3, <3>4
    <3>5. CASE g # f
      <4>1. c = 0
        BY <1>4, <3>5
      <4> QED BY <4>1, <3>1, <3>2, <3>3, <3>5
    <3> QED BY <3>4, <3>5
  <2> HIDE DEF c
  <2>4. t \in [0 .. 1 -> Nat] /\ t[0] = 0 /\ t[1] = c
    BY <2>1
  <2> HIDE DEF t
  <2>5. Total(stack', X, c)
    <3>1. \A k \in 1 .. 1 : k = 1 /\ k - 1 = 0
      OBVIOUS
    <3>2. \A k \in 1 .. 1 : t[k] = t[k - 1] + FrameWords(stack'[k], X)
      BY <3>1, <2>1, <2>2, <2>4, <1>7
    <3> QED BY <3>2, <2>4, <1>7 DEF Total
  <2>6. Total(stack', X, Count(paper.text[g], X) * Times(g)')
    BY <2>3, <2>5
  <2> QED BY <2>6, <1>1 DEF Total
<1> QED BY <1>9, <1>10, <1>11, <1>12, <1>13 DEF SourceInv

LEMMA FinishStep == ASSUME SourceInv, Finish PROVE SourceInv'
<1>1. /\ outcome = "expand" /\ outcome' \in {"tex", "pdf_only"}
      /\ top.left = <<>> /\ top.pass = "bibliography" /\ Len(stack) = 1
      /\ paper' = paper /\ main' = main /\ stack' = stack /\ seen' = seen /\ cut' = cut
  BY DEF Finish, CallDone
<1>2. Files' = Files /\ ClosedSets' = ClosedSets /\ top' = top /\ Inlined' = Inlined
  BY <1>1, SamePaper DEF top, Inlined
<1>3. SourceType'
  BY <1>1, <1>2 DEF SourceInv, SourceType
<1>4. OnlyDocument' /\ AllFound' /\ NothingDropped'
  <2>1. Within(stack', 1) <=> Within(stack, 1)
    BY <1>1
  <2> QED BY <1>1, <1>2, SameStack DEF SourceInv, OnlyDocument, AllFound, NothingDropped
<1>5. Counted'
  BY <1>1, <1>2 DEF SourceInv, Counted, Total, Times
<1> QED BY <1>3, <1>4, <1>5 DEF SourceInv

LEMMA SameSource == ASSUME SourceInv, UNCHANGED sourceVars PROVE SourceInv'
<1>1. outcome' = outcome /\ paper' = paper /\ main' = main /\ stack' = stack /\ seen' = seen
          /\ cut' = cut
  BY DEF sourceVars
<1>2. Files' = Files /\ ClosedSets' = ClosedSets /\ top' = top /\ Inlined' = Inlined
  BY <1>1, SamePaper DEF top, Inlined
<1>3. SourceType'
  BY <1>1, <1>2 DEF SourceInv, SourceType
<1>4. OnlyDocument' /\ AllFound' /\ NothingDropped'
  BY <1>1, <1>2, SameStack DEF SourceInv, OnlyDocument, AllFound, NothingDropped
<1>5. Counted'
  BY <1>1, <1>2 DEF SourceInv, Counted, Total, Times
<1> QED BY <1>3, <1>4, <1>5 DEF SourceInv

LEMMA SourceStart == ASSUME SourceInit PROVE SourceInv
<1>1. SourceType
  <2>1. <<>> \in Seq(Frames)
    OBVIOUS
  <2> QED BY <2>1 DEF SourceInit, SourceType
<1> QED BY <1>1 DEF SourceInit, SourceInv, OnlyDocument, AllFound, NothingDropped, Counted

(* Every step of the fetch keeps SourceInv.                                *)
LEMMA FetchStep == ASSUME SourceInv, Fetch PROVE SourceInv'
BY DownloadStep, ChooseMainStep, KeepStep, UnresolvedStep, DropStep, InlineStep, SecondPassStep, ReturnStep, FinishStep
   DEF Fetch

-----------------------------------------------------------------------------
LEMMA WordsCount ==
    ASSUME NEW s \in Seq(Items), NEW f
    PROVE  Cardinality(Words(s, f)) = Count(s, OwnWords(f)) /\ Count(s, OwnWords(f)) \in Nat
<1>1. Words(s, f) = {i \in 1 .. Len(s) : s[i] \in OwnWords(f)}
  <2>1. \A i \in 1 .. Len(s) : s[i] \in Items
    OBVIOUS
  <2> QED BY <2>1 DEF Words, Positions, OwnWords
<1>2. Count(s, OwnWords(f)) \in Nat
  BY CountType
<1> QED BY <1>1, <1>2 DEF Count

(* When the expansion is over, one call is left, which has read            *)
(* everything: the files inlined are those of the document.                *)
LEMMA ExpandedFacts ==
    ASSUME SourceInv, Expanded
    PROVE  /\ stack \in Seq(Frames) /\ Len(stack) = 1 /\ stack[1] = top
           /\ top \in Frames /\ top.left = <<>> /\ top.pass = "bibliography" /\ top.done \in Seq(Items)
           /\ main \in Files /\ seen \subseteq Files
           /\ \E family \in Families : paper \in family
           /\ Inlined \subseteq Document
           /\ ~cut => Document \subseteq Inlined
<1>1. /\ main # <<>> /\ SourceType /\ stack \in Seq(Frames) /\ stack # <<>> /\ Len(stack) = 1
      /\ top.left = <<>> /\ top.pass = "bibliography" /\ main \in Files /\ seen \subseteq Files
      /\ \E family \in Families : paper \in family
  BY DEF Expanded, SourceInv, SourceType
<1>2. stack[1] = top /\ top \in Frames /\ top.done \in Seq(Items)
  BY <1>1, TopFacts
<1>3. Document = {f \in Files : \A D \in ClosedSets : f \in D}
  BY DEF Document, ClosedSets
<1>4. Inlined \subseteq Files /\ main \in Inlined
  BY <1>1 DEF Inlined
<1>5. Inlined \subseteq Document
  BY <1>1, <1>3, <1>4 DEF SourceInv, OnlyDocument
<1>6. ASSUME ~cut PROVE Document \subseteq Inlined
  <2>1. Settled(stack, Inlined, Inlined)
    BY <1>1, <1>6 DEF SourceInv, AllFound
  <2>2. ASSUME NEW base, NEW d, NEW k \in 1 .. Len(stack), PendingIn(stack[k], base, d) PROVE FALSE
    <3>1. k = 1
      BY <1>1
    <3>2. PendingIn(top, base, d)
      BY <2>2, <3>1, <1>2
    <3> QED BY <3>2, <1>1, RangeEmpty DEF PendingIn
  <2>3. ASSUME NEW g \in Inlined, NEW d \in Range(paper.text[g]), d.is \in {"input", "bibliography"}
        PROVE  Named(Parent(g), d) \subseteq Inlined
    BY <2>1, <2>2, <2>3, Zenon DEF Settled
  <2>4. ASSUME NEW g \in Inlined PROVE Names(g) \subseteq Inlined
    <3>1. paper.text[g] \in Seq(Items)
      BY <1>1, <1>4, PaperFacts
    <3> QED BY <3>1, <2>3, NamesDirectives
  <2>5. Inlined \in ClosedSets
    BY <1>4, <2>4 DEF ClosedSets
  <2> QED BY <2>5, <1>3
<1> QED BY <1>1, <1>2, <1>5, <1>6

(* So the text holds each file of the document, as often as it was taken   *)
(* up, and no other ...                                                    *)
LEMMA SourceIsWhole == SourceInv => EachFileOnce
<1> SUFFICES ASSUME SourceInv, Expanded, NEW f \in Files
             PROVE  LET times == Cardinality(Words(top.done, f))
                        once == Cardinality(Words(paper.text[f], f))
                    IN  /\ (f \in Document /\ ~cut) => times >= once
                        /\ times <= once * (IF f \notin Document THEN 0 ELSE IF f = main THEN 2 ELSE 1)
  BY DEF EachFileOnce
<1> DEFINE X == OwnWords(f)
           times == Cardinality(Words(top.done, f))
           once == Cardinality(Words(paper.text[f], f))
<1>1. /\ Len(stack) = 1 /\ stack[1] = top /\ top.left = <<>> /\ top.done \in Seq(Items)
      /\ Inlined \subseteq Document /\ (~cut => Document \subseteq Inlined)
      /\ \E family \in Families : paper \in family
  BY ExpandedFacts
<1>2. paper.text[f] \in Seq(Items)
  BY <1>1, PaperFacts
<1>3. once = Count(paper.text[f], X) /\ once \in Nat /\ times = Count(top.done, X) /\ times \in Nat
  BY <1>1, <1>2, WordsCount
<1>4. Total(stack, X, once * Times(f))
  BY <1>3 DEF SourceInv, Counted, Expanded
<1>5. times = once * Times(f)
  <2>1. FrameWords(top, X) = times
    BY <1>1, <1>3, CountEmpty DEF FrameWords
  <2>2. PICK t \in [0 .. 1 -> Nat] : t[0] = 0 /\ t[1] = once * Times(f)
                                     /\ \A k \in 1 .. 1 : t[k] = t[k - 1] + FrameWords(stack[k], X)
    BY <1>1, <1>4 DEF Total
  <2>3. t[1] = t[0] + FrameWords(top, X)
    <3>1. 1 \in 1 .. 1 /\ 1 - 1 = 0
      OBVIOUS
    <3> QED BY <3>1, <2>2, <1>1
  <2> QED BY <2>1, <2>2, <2>3, <1>3
<1>6. /\ Times(f) \in {0, 1, 2} /\ (f # main => Times(f) \in {0, 1})
      /\ (f \in Inlined => Times(f) \in {1, 2}) /\ (f \notin Inlined => Times(f) = 0)
  BY DEF Times, Inlined
<1> HIDE DEF times, once, X
<1>7. once * 0 = 0 /\ once * 1 = once /\ once * 2 = once + once
  BY <1>3
<1>8. (f \in Document /\ ~cut) => times >= once
  BY <1>1, <1>3, <1>5, <1>6, <1>7
<1>9. times <= once * (IF f \notin Document THEN 0 ELSE IF f = main THEN 2 ELSE 1)
  <2>1. CASE f \notin Document
    BY <2>1, <1>1, <1>3, <1>5, <1>6, <1>7
  <2>2. CASE f \in Document /\ f = main
    BY <2>2, <1>3, <1>5, <1>6, <1>7
  <2>3. CASE f \in Document /\ f # main
    BY <2>3, <1>3, <1>5, <1>6, <1>7
  <2> QED BY <2>1, <2>2, <2>3
<1> QED BY <1>8, <1>9 DEF times, once

(* ... and each item of these files that is no directive.                  *)
LEMMA SourceIsKept == SourceInv => NothingIsLost
<1> SUFFICES ASSUME SourceInv, Expanded, ~cut, NEW f \in Document,
          NEW d \in Range(paper.text[f]), ~Moves(d.is)
             PROVE  d \in Range(top.done)
  BY DEF NothingIsLost, Moves
<1>1. /\ Len(stack) = 1 /\ stack[1] = top /\ top.left = <<>> /\ f \in Inlined
  BY ExpandedFacts
<1>2. Present(stack, Inlined)
  BY DEF SourceInv, NothingDropped, Expanded
<1>3. PICK k \in 1 .. Len(stack) : d \in Held(stack[k])
  BY <1>1, <1>2 DEF Present
<1>4. k = 1
  BY <1>1
<1> QED BY <1>1, <1>3, <1>4, RangeEmpty DEF Held

-----------------------------------------------------------------------------
(* The figures.                                                            *)

(* The parts of a name; the files with a stem and a suffix.                *)
Part == STRING \cup {"png"}

FigureFile == {f \in [dir : STRING, name : Seq(Part)] : Len(f.name) > 1}

IsPdf(f) == Suffix(f.name) = "pdf"

(* The PNG a PDF is converted to, and the file that f is packed as.        *)
Png(f) == [dir |-> f.dir, name |-> Append(Front(f.name), "png")]

Packed(f) == IF IsPdf(f) /\ f \notin failed THEN Png(f) ELSE f

(* The inductive invariant of the figures, part by part.  The types; the   *)
(* archive lists no file twice.                                            *)
FiguresType ==
    /\ archive \in Seq(FigureFile)
    /\ IsInjective(archive)
    /\ next \in 1 .. Len(archive) + 1
    /\ images \in Seq(FigureFile)
    /\ DOMAIN disk \subseteq FigureFile

(* The figures not yet dealt with are where the archive put them.          *)
WaitingAreThere ==
    \A i \in next .. Len(archive) : archive[i] \in DOMAIN disk /\ archive[i] \notin failed

(* Every file shows itself or, as the PNG of its name, the PDF.            *)
FilesShowFigures ==
    \A d \in DOMAIN disk :
        /\ disk[d] \in Range(archive)
        /\ disk[d] = d \/ (IsPdf(disk[d]) /\ d = Png(disk[d]))

(* The figures dealt with are packed, and a converted one shows its PDF.   *)
DoneArePacked ==
    \A i \in 1 .. next - 1 :
        Len(archive[i].name) = 2 =>
            /\ Packed(archive[i]) \in DOMAIN disk \cap Range(images)
            /\ Packed(archive[i]) # archive[i] => disk[Packed(archive[i])] = archive[i]

(* A PNG that shows a PDF is of one that was converted, and did not fail.  *)
PngsAreDone ==
    \A d \in DOMAIN disk :
        disk[d] # d => disk[d] \in {archive[i] : i \in 1 .. next - 1} \ failed

FiguresInv ==
    FiguresType /\ WaitingAreThere /\ FilesShowFigures /\ DoneArePacked /\ PngsAreDone

(* Stems and suffixes; names of PNG files, different for different PDFs.   *)
LEMMA NameLemma ==
    ASSUME NEW f \in FigureFile
    PROVE  /\ f.name \in Seq(Part) /\ f.name # <<>>
           /\ Stem(f.name) = Front(f.name) /\ Front(f.name) \in Seq(Part)
           /\ Len(Front(f.name)) = Len(f.name) - 1 /\ Front(f.name) # <<>>
           /\ Len(f.name) = 2 => Len(Front(f.name)) = 1
           /\ Suffix(f.name) = Last(f.name)
           /\ f.name = Append(Front(f.name), Last(f.name))
<1>1. f.name \in Seq(Part) /\ Len(f.name) > 1
  BY DEF FigureFile
<1>2. f.name # <<>>
  BY <1>1
<1>3. /\ Front(f.name) \in Seq(Part) /\ Len(Front(f.name)) = Len(f.name) - 1
      /\ f.name = Append(Front(f.name), Last(f.name))
  BY <1>1, <1>2, FrontLast
<1>4. Front(f.name) # <<>>
  <2>1. Len(Front(f.name)) >= 1
    BY <1>1, <1>3
  <2> QED BY <2>1
<1>5. Len(f.name) = 2 => Len(Front(f.name)) = 1
  BY <1>3
<1> QED BY <1>1, <1>2, <1>3, <1>4, <1>5 DEF Stem, Suffix

LEMMA PngLemma ==
    ASSUME NEW f \in FigureFile
    PROVE  /\ Png(f) \in FigureFile
           /\ Png(f).dir = f.dir
           /\ Png(f).name = Append(Front(f.name), "png")
           /\ Front(Png(f).name) = Front(f.name)
           /\ Suffix(Png(f).name) = "png"
           /\ Len(Png(f).name) = Len(f.name)
<1>1. f \in [dir : STRING, name : Seq(Part)] /\ Len(f.name) > 1
  BY DEF FigureFile
<1> DEFINE n == Append(Front(f.name), "png")
<1>2. /\ n \in Seq(Part) /\ Len(n) = Len(f.name)
      /\ Front(n) = Front(f.name) /\ Last(n) = "png"
  <2>1. Front(f.name) \in Seq(Part) /\ Len(Front(f.name)) = Len(f.name) - 1 /\ Len(f.name) \in Nat
    BY NameLemma, <1>1
  <2>2. "png" \in Part
    BY DEF Part
  <2> QED BY <2>1, <2>2, AppendFront
<1> HIDE DEF n
<1>3. Png(f) = [dir |-> f.dir, name |-> n]
  BY <1>1 DEF Png, n
<1>4. Png(f) \in [dir : STRING, name : Seq(Part)] /\ Png(f).name = n /\ Png(f).dir = f.dir
  BY <1>1, <1>2, <1>3
<1>5. Png(f) \in FigureFile
  BY <1>1, <1>2, <1>4 DEF FigureFile
<1> QED BY <1>1, <1>2, <1>4, <1>5 DEF Suffix, n

LEMMA PngInjective ==
    ASSUME NEW f \in FigureFile, NEW g \in FigureFile, IsPdf(f), IsPdf(g), Png(f) = Png(g)
    PROVE  f = g
<1>1. f.dir = g.dir /\ Front(f.name) = Front(g.name)
  BY PngLemma
<1>2. f.name = g.name
  BY <1>1, NameLemma DEF IsPdf
<1> QED BY <1>1, <1>2 DEF FigureFile

LEMMA Injective ==
    ASSUME FiguresType, NEW i \in 1 .. Len(archive), NEW j \in 1 .. Len(archive), i # j
    PROVE  /\ archive[i] \in FigureFile /\ archive[i] # archive[j]
           /\ archive[i] \in Range(archive)
BY DEF FiguresType, IsInjective, Range

(* The invariant holds at first, and every step keeps it.                  *)
LEMMA FiguresStart ==
    ASSUME NEW listed \in Seq(FigureFile), IsInjective(listed), FiguresInit(listed)
    PROVE  FiguresInv
<1> USE DEF FiguresInit
<1>1. FiguresType
  BY DEF FiguresType, Range
<1>2. WaitingAreThere
  BY DEF WaitingAreThere, Range
<1>3. FilesShowFigures
  BY DEF FilesShowFigures
<1>4. DoneArePacked
  BY DEF DoneArePacked
<1>5. PngsAreDone
  BY DEF PngsAreDone
<1> QED BY <1>1, <1>2, <1>3, <1>4, <1>5 DEF FiguresInv

LEMMA NoPopplerStep == FiguresInv /\ NoPoppler => FiguresInv'
<1> SUFFICES ASSUME FiguresInv, NoPoppler PROVE FiguresInv'
  OBVIOUS
<1> USE DEF FiguresInv, NoPoppler
<1>1. FiguresType'
  BY DEF FiguresType
<1>2. WaitingAreThere'
  BY DEF WaitingAreThere, FiguresType
<1>3. FilesShowFigures'
  BY DEF FilesShowFigures
<1>4. DoneArePacked'
  <2> SUFFICES ASSUME NEW i \in 1 .. Len(archive)
               PROVE  Packed(archive[i])' = archive[i] /\ archive[i] \in DOMAIN disk \cap Range(archive)
    BY DEF DoneArePacked, FiguresType
  <2>1. archive[i] \in Range(archive)
    BY DEF Range, FiguresType
  <2>2. archive[i] \in DOMAIN disk
    BY DEF WaitingAreThere
  <2> QED BY <2>1, <2>2 DEF Packed, IsPdf
<1>5. PngsAreDone'
  BY DEF PngsAreDone
<1> QED BY <1>1, <1>2, <1>3, <1>4, <1>5

LEMMA SourceLemma ==
    ASSUME FiguresInv, ~Converted
    PROVE  /\ next \in 1 .. Len(archive) /\ source = archive[next] /\ source \in FigureFile
           /\ source \in DOMAIN disk /\ source \in Range(archive) /\ source \notin failed
           /\ \A i \in 1 .. Len(archive) : i # next => archive[i] # source
           /\ \A i \in 1 .. Len(archive) : archive[i] \in FigureFile
<1>1. next \in 1 .. Len(archive)
  BY DEF FiguresInv, FiguresType, Converted
<1> QED BY <1>1 DEF FiguresInv, FiguresType, WaitingAreThere, source, IsInjective, Range

(* A file that is not converted goes to the list as it is.                 *)
LEMMA AsItIsStep ==
    ASSUME FiguresInv, PassThrough \/ ConvertFails
    PROVE  FiguresInv'
<1> USE DEF FiguresInv
<1>0. ~Converted
  BY DEF PassThrough, ConvertFails
<1>s. /\ next \in 1 .. Len(archive) /\ source = archive[next] /\ source \in FigureFile
      /\ source \in DOMAIN disk /\ source \in Range(archive) /\ source \notin failed
      /\ \A i \in 1 .. Len(archive) : i # next => archive[i] # source
  BY <1>0, SourceLemma
<1>e. /\ images' = Append(images, source) /\ next' = next + 1
      /\ archive' = archive /\ disk' = disk
      /\ (~IsPdf(source) /\ failed' = failed) \/ failed' = failed \cup {source}
  BY DEF PassThrough, ConvertFails, IsPdf
<1>r. images \in Seq(FigureFile) /\ Range(images') = Range(images) \cup {source}
  BY <1>s, <1>e, AppendRange DEF FiguresType
<1>1. FiguresType'
  BY <1>s, <1>e DEF FiguresType
<1>2. WaitingAreThere'
  BY <1>s, <1>e DEF WaitingAreThere, FiguresType
<1>3. FilesShowFigures'
  BY <1>e DEF FilesShowFigures
<1>4. DoneArePacked'
  <2> SUFFICES ASSUME NEW i \in 1 .. next, Len(archive[i].name) = 2
               PROVE  /\ Packed(archive[i])' \in DOMAIN disk \cap Range(images)'
                      /\ Packed(archive[i])' # archive[i] => disk[Packed(archive[i])'] = archive[i]
    BY <1>e, <1>s DEF DoneArePacked
  <2>1. CASE i = next
    BY <2>1, <1>s, <1>e, <1>r DEF Packed, IsPdf
  <2>2. CASE i # next
    <3>1. i \in 1 .. next - 1 /\ i \in 1 .. Len(archive) /\ archive[i] # source
      BY <2>2, <1>s
    <3>2. Packed(archive[i])' = Packed(archive[i])
      BY <3>1, <1>e DEF Packed, IsPdf
    <3> QED BY <3>1, <3>2, <1>e, <1>r DEF DoneArePacked
  <2> QED BY <2>1, <2>2
<1>5. PngsAreDone'
  <2> SUFFICES ASSUME NEW d \in DOMAIN disk, disk[d] # d
               PROVE  disk[d] \in {archive[i] : i \in 1 .. next} \ failed'
    BY <1>e, <1>s DEF PngsAreDone
  <2>1. PICK i \in 1 .. next - 1 : disk[d] = archive[i] /\ archive[i] \notin failed
    BY DEF PngsAreDone
  <2>2. i \in 1 .. Len(archive) /\ i # next /\ i \in 1 .. next
    BY <1>s
  <2> QED BY <2>1, <2>2, <1>s, <1>e
<1> QED BY <1>1, <1>2, <1>3, <1>4, <1>5

(* A conversion may overwrite a PNG of the archive, and the PDF may go;    *)
(* what is packed for the other figures stays, for no other PDF has that   *)
(* PNG.                                                                    *)
LEMMA ConvertStep == FiguresInv /\ Convert => FiguresInv'
<1> SUFFICES ASSUME FiguresInv, Convert PROVE FiguresInv'
  OBVIOUS
<1> USE DEF FiguresInv
<1>0. ~Converted /\ IsPdf(source)
  BY DEF Convert, IsPdf
<1>s. /\ next \in 1 .. Len(archive) /\ source = archive[next] /\ source \in FigureFile
      /\ source \in DOMAIN disk /\ source \in Range(archive) /\ source \notin failed
      /\ \A i \in 1 .. Len(archive) : i # next => archive[i] # source
      /\ \A i \in 1 .. Len(archive) : archive[i] \in FigureFile
  BY <1>0, SourceLemma
<1> DEFINE out == Stem(source.name)
           written == [source EXCEPT !.name = Append(out, "png")]
           expected == [source EXCEPT !.name = WithSuffix(out, "png")]
           there == DOMAIN disk \cup {written}
           found == expected \in there
<1>e. /\ next' = next + 1 /\ archive' = archive /\ failed' = failed
      /\ images' = Append(images, IF found THEN expected ELSE source)
      /\ \E kept \in {there} \cup (IF found THEN {there \ {source}} ELSE {}) :
            disk' = [f \in kept |-> IF f = written THEN disk[source] ELSE disk[f]]
  BY DEF Convert
<1>n. /\ source \in [dir : STRING, name : Seq(Part)]
      /\ out = Front(source.name) /\ out \in Seq(Part) /\ out # <<>>
      /\ Len(source.name) = 2 => Len(out) = 1
  BY <1>s, NameLemma DEF FigureFile
<1>w. written = Png(source) /\ written \in FigureFile
  <2> DEFINE n == Append(out, "png")
  <2>0. written = [source EXCEPT !.name = n]
    OBVIOUS
  <2> HIDE DEF n
  <2>1. written = [dir |-> source.dir, name |-> n]
    BY <1>n, <2>0
  <2>2. n = Append(Front(source.name), "png")
    BY <1>n DEF n
  <2> HIDE DEF written
  <2>3. written = Png(source)
    BY <2>1, <2>2 DEF Png
  <2> QED BY <2>3, <1>s, PngLemma
<1>x. expected \in FigureFile /\ (Len(source.name) = 2 => expected = written)
  <2>1. Stem(out) \in Seq(Part) /\ Stem(out) # <<>> /\ (Len(source.name) = 2 => Stem(out) = out)
    <3>1. CASE Len(out) > 1
      <4>1. Front(out) \in Seq(Part) /\ Len(Front(out)) = Len(out) - 1
        BY <1>n, FrontLast
      <4>2. Front(out) # <<>>
        BY <4>1, <3>1
      <4> QED BY <4>1, <4>2, <3>1, <1>n DEF Stem
    <3>2. CASE ~(Len(out) > 1)
      BY <3>2, <1>n DEF Stem
    <3> QED BY <3>1, <3>2
  <2> DEFINE e == Append(Stem(out), "png")
  <2>2. e \in Seq(Part) /\ Len(e) > 1
    <3>1. "png" \in Part
      BY DEF Part
    <3>2. Len(Stem(out)) \in Nat /\ Len(Stem(out)) >= 1
      BY <2>1
    <3>3. e \in Seq(Part) /\ Len(e) = Len(Stem(out)) + 1
      BY <3>1, <2>1, AppendFront
    <3> QED BY <3>2, <3>3
  <2>3. expected = [source EXCEPT !.name = e]
    BY DEF WithSuffix
  <2> HIDE DEF e
  <2>4. expected \in FigureFile
    BY <1>n, <2>2, <2>3 DEF FigureFile
  <2>5. Len(source.name) = 2 => expected = written
    BY <2>1 DEF WithSuffix
  <2> QED BY <2>4, <2>5
<1>d. written # source
  BY <1>w, <1>s, <1>0, PngLemma DEF IsPdf
<1> HIDE DEF out, written, expected, there, found
<1>p. PICK kept \in {there} \cup (IF found THEN {there \ {source}} ELSE {}) :
            disk' = [f \in kept |-> IF f = written THEN disk[source] ELSE disk[f]]
  BY <1>e
<1>k. /\ kept \subseteq there /\ there \ {source} \subseteq kept /\ DOMAIN disk' = kept
      /\ written \in kept
  BY <1>p, <1>d DEF there
<1>f. \A f \in kept : disk'[f] = IF f = written THEN disk[source] ELSE disk[f]
  BY <1>p
<1>r. /\ images \in Seq(FigureFile) /\ images' \in Seq(FigureFile)
      /\ Range(images') = Range(images) \cup {IF found THEN expected ELSE source}
  <2>1. (IF found THEN expected ELSE source) \in FigureFile /\ images \in Seq(FigureFile)
    BY <1>x, <1>s DEF FiguresType
  <2> QED BY <2>1, <1>e, AppendRange, AppendFront
<1>y. disk[source] = source
  BY <1>s, <1>0, PngLemma DEF FilesShowFigures, IsPdf, FiguresType, Range
<1>1. FiguresType'
  BY <1>s, <1>e, <1>r, <1>k, <1>w DEF FiguresType, there
<1>2. WaitingAreThere'
  BY <1>s, <1>e, <1>k DEF WaitingAreThere, there, FiguresType
<1>3. FilesShowFigures'
  <2> SUFFICES ASSUME NEW d \in kept
               PROVE  /\ disk'[d] \in Range(archive)
                      /\ disk'[d] = d \/ (IsPdf(disk'[d]) /\ d = Png(disk'[d]))
    BY <1>k, <1>e DEF FilesShowFigures
  <2>1. CASE d = written
    BY <2>1, <1>f, <1>y, <1>w, <1>0, <1>s
  <2>2. CASE d # written
    BY <2>2, <1>f, <1>k DEF FilesShowFigures, there
  <2> QED BY <2>1, <2>2
<1>4. DoneArePacked'
  <2> SUFFICES ASSUME NEW i \in 1 .. next, Len(archive[i].name) = 2
               PROVE  /\ Packed(archive[i]) \in kept \cap Range(images')
                      /\ Packed(archive[i]) # archive[i] => disk'[Packed(archive[i])] = archive[i]
    BY <1>e, <1>s, <1>k DEF DoneArePacked, Packed
  <2>1. CASE i = next
    <3>1. Packed(archive[i]) = written /\ expected = written
      BY <2>1, <1>s, <1>0, <1>w, <1>x DEF Packed
    <3>2. found
      BY <3>1 DEF found, there
    <3> QED BY <3>1, <3>2, <1>r, <1>k, <1>f, <1>y, <2>1, <1>s
  <2>2. CASE i # next
    <3>1. i \in 1 .. next - 1 /\ i \in 1 .. Len(archive) /\ archive[i] # source
              /\ archive[i] \in FigureFile
      BY <2>2, <1>s
    <3>2. /\ Packed(archive[i]) \in DOMAIN disk \cap Range(images)
          /\ Packed(archive[i]) # archive[i] => disk[Packed(archive[i])] = archive[i]
      BY <3>1 DEF DoneArePacked
    <3>3. Packed(archive[i]) # source
      BY <3>1, <1>s, <1>0, PngLemma DEF Packed, IsPdf
    <3>4. Packed(archive[i]) # archive[i] => Packed(archive[i]) # written
      BY <3>1, <1>s, <1>0, <1>w, PngInjective DEF Packed
    <3> QED BY <3>2, <3>3, <3>4, <1>r, <1>k, <1>f DEF there
  <2> QED BY <2>1, <2>2
<1>5. PngsAreDone'
  <2> SUFFICES ASSUME NEW d \in kept, disk'[d] # d
               PROVE  disk'[d] \in {archive[i] : i \in 1 .. next} \ failed
    BY <1>e, <1>s, <1>k DEF PngsAreDone
  <2>1. CASE d = written
    BY <2>1, <1>f, <1>y, <1>s
  <2>2. CASE d # written
    <3>1. disk[d] # d /\ d \in DOMAIN disk /\ disk'[d] = disk[d]
      BY <2>2, <1>f, <1>k DEF there
    <3>2. PICK i \in 1 .. next - 1 : disk[d] = archive[i] /\ archive[i] \notin failed
      BY <3>1 DEF PngsAreDone
    <3>3. i \in 1 .. next
      BY <1>s
    <3> QED BY <3>1, <3>2, <3>3
  <2> QED BY <2>1, <2>2
<1> QED BY <1>1, <1>2, <1>3, <1>4, <1>5

(* The link the Markdown gets is the name that the figure is packed as, or *)
(* that of a PNG that is not the figure.                                   *)
LEMMA LinkLemma ==
    ASSUME NEW f \in FigureFile, Len(f.name) = 2, NEW ref \in References(f)
    PROVE  /\ Resolves(f, ref) => Link(ref) = Packed(f).name
           /\ ~Resolves(f, ref) =>
                 Link(ref) = Png(f).name /\ ~IsConverted(f) /\ Suffix(f.name) # "png"
<1>1. /\ f.name # <<>> /\ f.name \in Seq(Part) /\ Len(f.name) = 2
      /\ Suffix(f.name) = Last(f.name) /\ Front(f.name) \in Seq(Part)
      /\ Len(Front(f.name)) = 1
      /\ f.name = Append(Front(f.name), Last(f.name))
  BY NameLemma
<1>2. Png(f).name = Append(Front(f.name), "png")
  BY DEF Png
<1>3. CASE ref = f.name
  <2>1. Suffix(f.name) \in {"pdf", "eps"} => Link(ref) = Png(f).name
    BY <1>3, <1>1, <1>2 DEF Link
  <2>2. Suffix(f.name) \notin {"pdf", "eps"} => Link(ref) = f.name
    BY <1>3, <1>1 DEF Link
  <2> QED BY <2>1, <2>2, <1>3 DEF Resolves, IsConverted, IsRenderable, Packed, IsPdf
<1>4. CASE ref # f.name
  <2>1. ref = Front(f.name)
    BY <1>4 DEF References
  <2>2. Link(ref) = Png(f).name
    BY <2>1, <1>1, <1>2 DEF Link
  <2>3. Suffix(f.name) = "png" => Png(f).name = f.name
    BY <1>1, <1>2
  <2> QED BY <2>2, <2>3, <1>4 DEF Resolves, IsConverted, IsRenderable, Packed, IsPdf
<1> QED BY <1>3, <1>4

(* So a link shows the figure it stands for, or nothing.                   *)
LEMMA FiguresShown == FiguresInv => LinkShowsFigure
<1> SUFFICES ASSUME FiguresInv, Converted, NEW f \in Range(archive), HasOwnName(f), Len(f.name) = 2
             PROVE  /\ \E m \in ZipMembers : m.shows = f
                    /\ \A ref \in References(f) :
                        ShownBy(Link(ref)) = IF Resolves(f, ref) THEN {f} ELSE {}
  BY DEF LinkShowsFigure
<1>1. PICK i \in 1 .. next - 1 : f = archive[i]
  BY DEF FiguresInv, FiguresType, Range, Converted
<1>2. f \in FigureFile /\ Range(archive) \subseteq FigureFile /\ DOMAIN disk \subseteq FigureFile
  BY DEF FiguresInv, FiguresType, Range
<1>3. /\ Packed(f) \in DOMAIN disk \cap Range(images)
      /\ Packed(f) # f => disk[Packed(f)] = f
  BY <1>1 DEF FiguresInv, DoneArePacked
<1>4. ASSUME NEW d \in DOMAIN disk, Front(d.name) = Front(f.name)
      PROVE  disk[d] = f
  <2>1. disk[d] \in Range(archive) /\ Front(disk[d].name) = Front(d.name)
    BY <1>2, PngLemma DEF FiguresInv, FilesShowFigures
  <2> QED BY <2>1, <1>4 DEF HasOwnName
<1>5. Front(Packed(f).name) = Front(f.name)
  BY <1>2, PngLemma DEF Packed
<1>6. disk[Packed(f)] = f
  BY <1>3, <1>4, <1>5
<1> DEFINE member == [name |-> Packed(f).name, shows |-> f]
<1>7. member \in ZipMembers
  <2>1. Packed(f) \in {images[n] : n \in 1 .. Len(images)} \cap DOMAIN disk
    BY <1>3 DEF FiguresInv, FiguresType, Range
  <2> QED BY <2>1, <1>6 DEF ZipMembers
<1>8. \E m \in ZipMembers : m.shows = f
  BY <1>7
<1>9. ASSUME NEW z \in ZipMembers
      PROVE  \E d \in DOMAIN disk : z = [name |-> d.name, shows |-> disk[d]]
  BY DEF ZipMembers
<1>10. ASSUME NEW ref \in References(f), Resolves(f, ref)
       PROVE  ShownBy(Link(ref)) = {f}
  <2>1. Link(ref) = Packed(f).name
    BY <1>2, <1>10, LinkLemma
  <2>2. ASSUME NEW z \in ZipMembers, z.name = Link(ref)
        PROVE  z.shows = f
    <3>1. PICK d \in DOMAIN disk : z = [name |-> d.name, shows |-> disk[d]]
      BY <1>9
    <3>2. Front(d.name) = Front(f.name)
      BY <3>1, <2>2, <2>1, <1>5
    <3> QED BY <3>1, <3>2, <1>4
  <2>3. \E z \in ZipMembers : z.name = Link(ref) /\ z.shows = f
    BY <1>7, <2>1
  <2> QED BY <2>2, <2>3 DEF ShownBy
<1>11. ASSUME NEW ref \in References(f), ~Resolves(f, ref)
       PROVE  ShownBy(Link(ref)) = {}
  <2>1. Link(ref) = Png(f).name /\ ~IsConverted(f) /\ Suffix(f.name) # "png"
    BY <1>2, <1>11, LinkLemma
  <2>2. ASSUME NEW z \in ZipMembers, z.name = Link(ref)
        PROVE  FALSE
    <3>1. PICK d \in DOMAIN disk : z = [name |-> d.name, shows |-> disk[d]]
      BY <1>9
    <3>2. d.name = Png(f).name
      BY <3>1, <2>2, <2>1
    <3>3. disk[d] = f /\ Suffix(d.name) = "png"
      BY <3>2, <1>2, <1>4, PngLemma
    <3>4. d # f
      BY <3>3, <2>1
    <3>5. IsPdf(f) /\ f \notin failed
      BY <3>3, <3>4 DEF FiguresInv, FilesShowFigures, PngsAreDone
    <3> QED BY <3>5, <2>1 DEF IsConverted, IsPdf
  <2> QED BY <2>2 DEF ShownBy
<1> QED BY <1>8, <1>10, <1>11

-----------------------------------------------------------------------------
(* The scans.                                                              *)

(* Lines as pandoc gives them and as the captions leave them, and the      *)
(* states of the two scans.                                                *)
Raw == {Line(is) : is \in LineKinds}
Numbered == [is : LineKinds, number : Nat]
DivState == [out : Seq(Raw), pending : Nat]
CaptionState == [out : Seq(Numbered), afterRow : BOOLEAN, tables : Nat]

LEMMA RawLine ==
    ASSUME NEW line \in Raw
    PROVE  /\ line \in Numbered /\ line.is \in LineKinds /\ line.number = 0
           /\ line = [is |-> line.is, number |-> 0]
BY DEF Raw, Numbered, Line

LEMMA DivStepType == ASSUME NEW r \in DivState, NEW line \in Raw PROVE DivStep(r, line) \in DivState
<1>1. r.pending \in Nat /\ r.out \in Seq(Raw) /\ Append(r.out, line) \in Seq(Raw)
  BY DEF DivState
<1>2. /\ [r EXCEPT !.pending = @ + 1] \in DivState
      /\ r.pending > 0 => [r EXCEPT !.pending = @ - 1] \in DivState
      /\ [r EXCEPT !.out = Append(@, line)] \in DivState
  <2> DEFINE p1 == r.pending + 1
             p2 == r.pending - 1
             o == Append(r.out, line)
  <2>1. p1 \in Nat /\ (r.pending > 0 => p2 \in Nat) /\ o \in Seq(Raw)
            /\ r \in [out : Seq(Raw), pending : Nat]
    BY <1>1 DEF DivState
  <2> HIDE DEF p1, p2, o
  <2>2. /\ [r EXCEPT !.pending = p1] \in [out : Seq(Raw), pending : Nat]
        /\ r.pending > 0 => [r EXCEPT !.pending = p2] \in [out : Seq(Raw), pending : Nat]
        /\ [r EXCEPT !.out = o] \in [out : Seq(Raw), pending : Nat]
    BY <2>1
  <2> QED BY <2>2 DEF DivState, p1, p2, o
<1> QED BY <1>2 DEF DivStep

(* DivScan is what its recursion says: the state after each line.          *)
LEMMA DivScanned ==
    ASSUME NEW lines \in Seq(Raw)
    PROVE  /\ DivScan(lines) \in [0 .. Len(lines) -> DivState]
           /\ DivScan(lines)[0] = [out |-> <<>>, pending |-> 0]
           /\ \A n \in 1 .. Len(lines) : DivScan(lines)[n] = DivStep(DivScan(lines)[n - 1], lines[n])
<1> DEFINE b == [out |-> <<>>, pending |-> 0]
           N == Len(lines)
           F == [rn \in DivState \X (1 .. N) |-> DivStep(rn[1], lines[rn[2]])]
           Is(f) == f = [n \in 0 .. N |-> IF n = 0 THEN b ELSE DivStep(f[n - 1], lines[n])]
<1>1. b \in DivState /\ N \in Nat
  <2>1. <<>> \in Seq(Raw)
    OBVIOUS
  <2> QED BY <2>1 DEF DivState
<1>2. F \in [DivState \X (1 .. N) -> DivState]
  <2>1. \A rn \in DivState \X (1 .. N) : DivStep(rn[1], lines[rn[2]]) \in DivState
    BY DivStepType
  <2> QED BY <2>1
<1>3. PICK f \in [0 .. N -> DivState] : Follows(f, b, N, F)
  <2> HIDE DEF F, b, N
  <2> QED BY <1>1, <1>2, Recursion
<1>4. Is(f)
  <2>1. \A n \in 0 .. N : f[n] = IF n = 0 THEN b ELSE DivStep(f[n - 1], lines[n])
    <3> SUFFICES ASSUME NEW n \in 0 .. N PROVE f[n] = IF n = 0 THEN b ELSE DivStep(f[n - 1], lines[n])
      OBVIOUS
    <3>1. CASE n = 0
      BY <3>1, <1>3 DEF Follows
    <3>2. CASE n # 0
      <4>1. n - 1 \in 0 .. N /\ n \in 1 .. N
        BY <3>2
      <4>2. <<f[n - 1], n>> \in DivState \X (1 .. N)
        BY <4>1
      <4>3. F[<<f[n - 1], n>>] = DivStep(f[n - 1], lines[n])
        BY <4>2
      <4> HIDE DEF F
      <4> QED BY <4>1, <4>3, <3>2, <1>3 DEF Follows
    <3> QED BY <3>1, <3>2
  <2> HIDE DEF b, N
  <2> QED BY <2>1
<1>5. DivScan(lines) = CHOOSE f1 : Is(f1)
  BY DEF DivScan
<1>6. Is(DivScan(lines))
  <2> HIDE DEF Is
  <2> QED BY <1>4, <1>5
<1> DEFINE g == DivScan(lines)
<1>7. /\ DOMAIN g = 0 .. N /\ g[0] = b
      /\ \A n \in 1 .. N : g[n] = DivStep(g[n - 1], lines[n])
  <2> HIDE DEF g, b
  <2>1. g = [n \in 0 .. N |-> IF n = 0 THEN b ELSE DivStep(g[n - 1], lines[n])]
    BY <1>6 DEF g
  <2> DEFINE T(n) == IF n = 0 THEN b ELSE DivStep(g[n - 1], lines[n])
  <2>2. DOMAIN g = 0 .. N /\ \A n \in 0 .. N : g[n] = T(n)
    <3> HIDE DEF T
    <3>1. g = [n \in 0 .. N |-> T(n)]
      BY <2>1 DEF T
    <3> QED BY <3>1
  <2>3. 0 \in 0 .. N /\ \A n \in 1 .. N : n \in 0 .. N /\ n # 0
    OBVIOUS
  <2> QED BY <2>2, <2>3
<1>8. \A n \in 0 .. N : g[n] \in DivState
  <2> DEFINE T == {n \in 0 .. N : g[n] \in DivState}
  <2>1. 0 \in T
    <3> HIDE DEF g, b
    <3> QED BY <1>1, <1>7
  <2>2. \A n \in 0 .. N : n \in T /\ n < N => n + 1 \in T
    <3> SUFFICES ASSUME NEW n \in 0 .. N, n \in T, n < N PROVE n + 1 \in T
      OBVIOUS
    <3>1. n + 1 \in 1 .. N /\ (n + 1) - 1 = n /\ n + 1 \in 0 .. N
      OBVIOUS
    <3>2. g[n + 1] = DivStep(g[n], lines[n + 1])
      BY <3>1, <1>7
    <3>3. lines[n + 1] \in Raw
      BY <3>1
    <3>4. DivStep(g[n], lines[n + 1]) \in DivState
      <4> HIDE DEF g
      <4> QED BY <3>3, DivStepType
    <3> QED BY <3>1, <3>2, <3>4
  <2> HIDE DEF T
  <2>3. \A n \in 0 .. N : n \in T
    BY <2>1, <2>2, <1>1, Induction
  <2> QED BY <2>3 DEF T
<1>9. g \in [0 .. N -> DivState]
  <2>1. g = [n \in 0 .. N |-> g[n]]
    <3>1. Is(g)
      BY <1>6
    <3> HIDE DEF g
    <3> DEFINE T(n) == IF n = 0 THEN b ELSE DivStep(g[n - 1], lines[n])
    <3>2. g = [n \in 0 .. N |-> T(n)]
      BY <3>1
    <3> HIDE DEF T
    <3> QED BY <3>2
  <2> HIDE DEF g
  <2> QED BY <2>1, <1>8
<1> QED BY <1>7, <1>9

LEMMA CaptionStepType ==
    ASSUME NEW r \in CaptionState, NEW line \in Numbered
    PROVE  CaptionStep(r, line) \in CaptionState
<1>1. r.out \in Seq(Numbered) /\ r.afterRow \in BOOLEAN /\ r.tables \in Nat
          /\ r \in [out : Seq(Numbered), afterRow : BOOLEAN, tables : Nat]
  BY DEF CaptionState
<1> DEFINE t == r.tables + 1
           marked == [line EXCEPT !.number = t]
           o == Append(r.out, line)
           a == line.is = "row" \/ (r.afterRow /\ line.is = "blank")
<1>2. t \in Nat /\ o \in Seq(Numbered)
  BY <1>1
<1>3. marked \in Numbered
  <2> HIDE DEF t
  <2> QED BY <1>2 DEF Numbered
<1>4. a \in BOOLEAN
  OBVIOUS
<1>5. Append(r.out, marked) \in Seq(Numbered)
  <2> HIDE DEF marked
  <2> QED BY <1>1, <1>3
<1>6. [out |-> Append(r.out, marked), afterRow |-> FALSE, tables |-> t] \in CaptionState
  <2> HIDE DEF marked, t
  <2> QED BY <1>5, <1>2 DEF CaptionState
<1>7. [r EXCEPT !.out = o, !.afterRow = a] \in CaptionState
  <2> HIDE DEF o, a
  <2> QED BY <1>1, <1>2, <1>4 DEF CaptionState
<1> QED BY <1>6, <1>7 DEF CaptionStep

(* And so is CaptionScan.                                                  *)
LEMMA CaptionScanned ==
    ASSUME NEW lines \in Seq(Numbered)
    PROVE  /\ CaptionScan(lines) \in [0 .. Len(lines) -> CaptionState]
           /\ CaptionScan(lines)[0] = [out |-> <<>>, afterRow |-> FALSE, tables |-> 0]
           /\ \A n \in 1 .. Len(lines) : CaptionScan(lines)[n]
                     = CaptionStep(CaptionScan(lines)[n - 1], lines[n])
<1> DEFINE b == [out |-> <<>>, afterRow |-> FALSE, tables |-> 0]
           N == Len(lines)
           F == [rn \in CaptionState \X (1 .. N) |-> CaptionStep(rn[1], lines[rn[2]])]
           Is(f) == f = [n \in 0 .. N |-> IF n = 0 THEN b ELSE CaptionStep(f[n - 1], lines[n])]
<1>1. b \in CaptionState /\ N \in Nat
  <2>1. <<>> \in Seq(Numbered)
    OBVIOUS
  <2> QED BY <2>1 DEF CaptionState
<1>2. F \in [CaptionState \X (1 .. N) -> CaptionState]
  <2>1. \A rn \in CaptionState \X (1 .. N) : CaptionStep(rn[1], lines[rn[2]]) \in CaptionState
    BY CaptionStepType
  <2> QED BY <2>1
<1>3. PICK f \in [0 .. N -> CaptionState] : Follows(f, b, N, F)
  <2> HIDE DEF F, b, N
  <2> QED BY <1>1, <1>2, Recursion
<1>4. Is(f)
  <2>1. \A n \in 0 .. N : f[n] = IF n = 0 THEN b ELSE CaptionStep(f[n - 1], lines[n])
    <3> SUFFICES ASSUME NEW n \in 0 .. N PROVE f[n] = IF n = 0 THEN b
              ELSE CaptionStep(f[n - 1], lines[n])
      OBVIOUS
    <3>1. CASE n = 0
      BY <3>1, <1>3 DEF Follows
    <3>2. CASE n # 0
      <4>1. n - 1 \in 0 .. N /\ n \in 1 .. N
        BY <3>2
      <4>2. <<f[n - 1], n>> \in CaptionState \X (1 .. N)
        BY <4>1
      <4>3. F[<<f[n - 1], n>>] = CaptionStep(f[n - 1], lines[n])
        BY <4>2
      <4> HIDE DEF F
      <4> QED BY <4>1, <4>3, <3>2, <1>3 DEF Follows
    <3> QED BY <3>1, <3>2
  <2> HIDE DEF b, N
  <2> QED BY <2>1
<1>5. CaptionScan(lines) = CHOOSE f1 : Is(f1)
  BY DEF CaptionScan
<1>6. Is(CaptionScan(lines))
  <2> HIDE DEF Is
  <2> QED BY <1>4, <1>5
<1> DEFINE g == CaptionScan(lines)
<1>7. /\ DOMAIN g = 0 .. N /\ g[0] = b
      /\ \A n \in 1 .. N : g[n] = CaptionStep(g[n - 1], lines[n])
  <2> HIDE DEF g, b
  <2>1. g = [n \in 0 .. N |-> IF n = 0 THEN b ELSE CaptionStep(g[n - 1], lines[n])]
    BY <1>6 DEF g
  <2> DEFINE T(n) == IF n = 0 THEN b ELSE CaptionStep(g[n - 1], lines[n])
  <2>2. DOMAIN g = 0 .. N /\ \A n \in 0 .. N : g[n] = T(n)
    <3> HIDE DEF T
    <3>1. g = [n \in 0 .. N |-> T(n)]
      BY <2>1 DEF T
    <3> QED BY <3>1
  <2>3. 0 \in 0 .. N /\ \A n \in 1 .. N : n \in 0 .. N /\ n # 0
    OBVIOUS
  <2> QED BY <2>2, <2>3
<1>8. \A n \in 0 .. N : g[n] \in CaptionState
  <2> DEFINE T == {n \in 0 .. N : g[n] \in CaptionState}
  <2>1. 0 \in T
    <3> HIDE DEF g, b
    <3> QED BY <1>1, <1>7
  <2>2. \A n \in 0 .. N : n \in T /\ n < N => n + 1 \in T
    <3> SUFFICES ASSUME NEW n \in 0 .. N, n \in T, n < N PROVE n + 1 \in T
      OBVIOUS
    <3>1. n + 1 \in 1 .. N /\ (n + 1) - 1 = n /\ n + 1 \in 0 .. N
      OBVIOUS
    <3>2. g[n + 1] = CaptionStep(g[n], lines[n + 1])
      BY <3>1, <1>7
    <3>3. lines[n + 1] \in Numbered
      BY <3>1
    <3>4. CaptionStep(g[n], lines[n + 1]) \in CaptionState
      <4> HIDE DEF g
      <4> QED BY <3>3, CaptionStepType
    <3> QED BY <3>1, <3>2, <3>4
  <2> HIDE DEF T
  <2>3. \A n \in 0 .. N : n \in T
    BY <2>1, <2>2, <1>1, Induction
  <2> QED BY <2>3 DEF T
<1>9. g \in [0 .. N -> CaptionState]
  <2>1. g = [n \in 0 .. N |-> g[n]]
    <3>1. Is(g)
      BY <1>6
    <3> HIDE DEF g
    <3> DEFINE T(n) == IF n = 0 THEN b ELSE CaptionStep(g[n - 1], lines[n])
    <3>2. g = [n \in 0 .. N |-> T(n)]
      BY <3>1
    <3> HIDE DEF T
    <3> QED BY <3>2
  <2> HIDE DEF g
  <2> QED BY <2>1, <1>8
<1> QED BY <1>7, <1>9

-----------------------------------------------------------------------------
(* The numbers of the captions.                                            *)

(* The last line up to n that is not blank is a row.                       *)
AfterRow(lines, n) ==
    \E j \in 1 .. n : lines[j].is = "row" /\ \A k \in j + 1 .. n : lines[k].is = "blank"

(* What the scan has done after n lines.                                   *)
CaptionsUpTo(lines, r, n) ==
    /\ Len(r.out) = n
    /\ r.afterRow <=> AfterRow(lines, n)
    /\ r.tables = Upto(Captions(lines), n)
    /\ \A i \in 1 .. n :
        /\ r.out[i].is = lines[i].is
        /\ r.out[i].number = IF i \in Captions(lines) THEN Upto(Captions(lines), i) ELSE 0

LEMMA AfterRowStep ==
    ASSUME NEW lines, NEW n \in Nat
    PROVE  /\ ~AfterRow(lines, 0)
           /\ AfterRow(lines, n + 1) <=> \/ lines[n + 1].is = "row"
                                         \/ lines[n + 1].is = "blank" /\ AfterRow(lines, n)
<1> DEFINE Below(j, m) == lines[j].is = "row" /\ \A k \in j + 1 .. m : lines[k].is = "blank"
<1>1. ASSUME AfterRow(lines, n + 1)
      PROVE  lines[n + 1].is = "row" \/ (lines[n + 1].is = "blank" /\ AfterRow(lines, n))
  <2>1. PICK j \in 1 .. n + 1 : lines[j].is = "row" /\ \A k \in j + 1 .. n + 1 : lines[k].is = "blank"
    BY <1>1 DEF AfterRow
  <2>2. CASE j = n + 1
    BY <2>1, <2>2
  <2>3. CASE j # n + 1
    <3>1. j \in 1 .. n /\ n + 1 \in j + 1 .. n + 1 /\ \A k \in j + 1 .. n : k \in j + 1 .. n + 1
      BY <2>3
    <3> QED BY <3>1, <2>1 DEF AfterRow
  <2> QED BY <2>2, <2>3
<1>2. ASSUME lines[n + 1].is = "row" PROVE AfterRow(lines, n + 1)
  <2>1. n + 1 \in 1 .. n + 1 /\ \A k \in (n + 1) + 1 .. n + 1 : FALSE
    OBVIOUS
  <2> QED BY <2>1, <1>2 DEF AfterRow
<1>3. ASSUME lines[n + 1].is = "blank", AfterRow(lines, n) PROVE AfterRow(lines, n + 1)
  <2>1. PICK j \in 1 .. n : lines[j].is = "row" /\ \A k \in j + 1 .. n : lines[k].is = "blank"
    BY <1>3 DEF AfterRow
  <2>2. j \in 1 .. n + 1 /\ \A k \in j + 1 .. n + 1 : k \in j + 1 .. n \/ k = n + 1
    OBVIOUS
  <2> QED BY <2>1, <2>2, <1>3 DEF AfterRow
<1>4. ~AfterRow(lines, 0)
  BY DEF AfterRow
<1> QED BY <1>1, <1>2, <1>3, <1>4

LEMMA CaptionIs ==
    ASSUME NEW lines \in Seq(Numbered), NEW n \in Nat, n + 1 \in 1 .. Len(lines)
    PROVE  n + 1 \in Captions(lines) <=> lines[n + 1].is = "colon" /\ AfterRow(lines, n)
<1>1. (n + 1) - 1 = n
  OBVIOUS
<1> QED BY <1>1 DEF Captions, AfterRow

(* It holds at first, after each line, and so at the end.                  *)
LEMMA CaptionsStart ==
    ASSUME NEW lines \in Seq(Numbered)
    PROVE  CaptionsUpTo(lines, [out |-> <<>>, afterRow |-> FALSE, tables |-> 0], 0)
<1>1. ~AfterRow(lines, 0)
  BY AfterRowStep
<1>2. Upto(Captions(lines), 0) = 0
  <2>1. Captions(lines) \cap (1 .. 0) = {}
    OBVIOUS
  <2> QED BY <2>1, FS_EmptySet DEF Upto
<1>3. Len(<<>>) = 0
  OBVIOUS
<1> QED BY <1>1, <1>2, <1>3 DEF CaptionsUpTo

LEMMA CaptionsStep ==
    ASSUME NEW lines \in Seq(Raw), NEW n \in Nat, n + 1 \in 1 .. Len(lines),
           NEW r \in CaptionState, CaptionsUpTo(lines, r, n)
    PROVE  CaptionsUpTo(lines, CaptionStep(r, lines[n + 1]), n + 1)
<1> DEFINE line == lines[n + 1]
           C == Captions(lines)
           t == r.tables + 1
           marked == [line EXCEPT !.number = t]
           after == CaptionStep(r, line)
<1>1. /\ r.out \in Seq(Numbered) /\ r.afterRow \in BOOLEAN /\ r.tables \in Nat
      /\ line \in Numbered /\ line.is \in LineKinds /\ line.number = 0 /\ lines \in Seq(Numbered)
  <2>1. Raw \in SUBSET Numbered
    BY RawLine
  <2>2. line \in Raw
    OBVIOUS
  <2>3. lines \in Seq(Numbered)
    BY <2>1
  <2>4. line \in Numbered /\ line.is \in LineKinds /\ line.number = 0
    <3> HIDE DEF line
    <3> QED BY <2>2, RawLine
  <2> QED BY <2>3, <2>4 DEF CaptionState
<1>2. n + 1 \in C <=> line.is = "colon" /\ r.afterRow
  BY <1>1, CaptionIs DEF CaptionsUpTo
<1>3. Upto(C, n) \in Nat /\ Upto(C, n + 1) = Upto(C, n) + IF n + 1 \in C THEN 1 ELSE 0
  BY UptoStep
<1>4. AfterRow(lines, n + 1) <=> line.is = "row" \/ (line.is = "blank" /\ r.afterRow)
  BY AfterRowStep DEF CaptionsUpTo
<1>5. /\ Len(r.out) = n /\ r.tables = Upto(C, n)
      /\ \A i \in 1 .. n : /\ r.out[i].is = lines[i].is
                           /\ r.out[i].number = IF i \in C THEN Upto(C, i) ELSE 0
  BY DEF CaptionsUpTo
<1>6. marked \in Numbered /\ marked.is = line.is /\ marked.number = t /\ t \in Nat
  <2>1. t \in Nat
    BY <1>1
  <2> HIDE DEF t, line
  <2> QED BY <2>1, <1>1 DEF Numbered
<1> HIDE DEF line, C, t, marked
<1>7. ASSUME NEW x \in Numbered, after.out = Append(r.out, x), x.is = line.is,
             x.number = IF n + 1 \in C THEN Upto(C, n + 1) ELSE 0
      PROVE  /\ Len(after.out) = n + 1
             /\ \A i \in 1 .. n + 1 : /\ after.out[i].is = lines[i].is
                                      /\ after.out[i].number = IF i \in C THEN Upto(C, i) ELSE 0
  <2> HIDE DEF after
  <2>1. Len(after.out) = n + 1 /\ after.out[n + 1] = x /\ \A i \in 1 .. n : after.out[i] = r.out[i]
    BY <1>1, <1>5, <1>7
  <2>2. \A i \in 1 .. n + 1 : i \in 1 .. n \/ i = n + 1
    OBVIOUS
  <2> QED BY <2>1, <2>2, <1>5, <1>7 DEF line
<1>8. CASE r.afterRow /\ line.is = "colon"
  <2>1. after.out = Append(r.out, marked) /\ after.afterRow = FALSE /\ after.tables = t
    BY <1>8 DEF CaptionStep, marked, t
  <2>2. marked.number = Upto(C, n + 1) /\ n + 1 \in C /\ after.tables = Upto(C, n + 1)
    BY <2>1, <1>2, <1>3, <1>5, <1>6, <1>8 DEF t
  <2>3. ~AfterRow(lines, n + 1)
    BY <1>4, <1>8
  <2> HIDE DEF after
  <2> QED BY <2>1, <2>2, <2>3, <1>6, <1>7 DEF CaptionsUpTo, C, line, after
<1>9. CASE ~(r.afterRow /\ line.is = "colon")
  <2> DEFINE a == line.is = "row" \/ (r.afterRow /\ line.is = "blank")
             o == Append(r.out, line)
  <2>1. after = [r EXCEPT !.out = o, !.afterRow = a]
    BY <1>9 DEF CaptionStep
  <2>2. after.out = o /\ after.afterRow = a /\ after.tables = r.tables
    <3> HIDE DEF o, a, after
    <3> QED BY <2>1 DEF CaptionState
  <2>3. n + 1 \notin C /\ r.tables = Upto(C, n + 1)
    BY <1>2, <1>3, <1>5, <1>9
  <2>4. after.afterRow <=> AfterRow(lines, n + 1)
    BY <2>2, <1>4
  <2> HIDE DEF after
  <2> QED BY <2>2, <2>3, <2>4, <1>1, <1>7 DEF CaptionsUpTo, C, line, after
<1> QED BY <1>8, <1>9 DEF line

LEMMA CaptionsAll ==
    ASSUME NEW lines \in Seq(Raw)
    PROVE  /\ NumberCaptions(lines) \in Seq(Numbered)
           /\ \E r \in CaptionState : r.out = NumberCaptions(lines)
                     /\ CaptionsUpTo(lines, r, Len(lines))
<1> DEFINE g == CaptionScan(lines)
           N == Len(lines)
           T == {n \in 0 .. N : CaptionsUpTo(lines, g[n], n)}
           b == [out |-> <<>>, afterRow |-> FALSE, tables |-> 0]
<1>1. lines \in Seq(Numbered)
  <2>1. Raw \in SUBSET Numbered
    BY RawLine
  <2> QED BY <2>1
<1>2. /\ g \in [0 .. N -> CaptionState] /\ g[0] = b
      /\ \A n \in 1 .. N : g[n] = CaptionStep(g[n - 1], lines[n])
  <2> HIDE DEF g, N
  <2> QED BY <1>1, CaptionScanned DEF g, N
<1>3. CaptionsUpTo(lines, b, 0)
  BY <1>1, CaptionsStart
<1> HIDE DEF g, b
<1>4. 0 \in T
  BY <1>2, <1>3
<1>5. \A n \in 0 .. N : n \in T /\ n < N => n + 1 \in T
  <2> SUFFICES ASSUME NEW n \in 0 .. N, n \in T, n < N PROVE n + 1 \in T
    OBVIOUS
  <2>1. n \in Nat /\ n + 1 \in 1 .. N /\ (n + 1) - 1 = n /\ n + 1 \in 0 .. N
    OBVIOUS
  <2>2. g[n] \in CaptionState /\ g[n + 1] = CaptionStep(g[n], lines[n + 1])
            /\ CaptionsUpTo(lines, g[n], n)
    BY <2>1, <1>2
  <2>3. CaptionsUpTo(lines, CaptionStep(g[n], lines[n + 1]), n + 1)
    BY <2>1, <2>2, CaptionsStep
  <2> QED BY <2>1, <2>2, <2>3
<1> HIDE DEF T
<1>6. N \in Nat /\ N \in 0 .. N
  OBVIOUS
<1>7. N \in T
  BY <1>4, <1>5, <1>6, Induction
<1>8. NumberCaptions(lines) = g[N].out
  BY DEF NumberCaptions, g
<1>9. g[N] \in CaptionState /\ CaptionsUpTo(lines, g[N], N)
  BY <1>2, <1>6, <1>7 DEF T
<1>10. g[N].out \in Seq(Numbered)
  BY <1>9 DEF CaptionState
<1> QED BY <1>8, <1>9, <1>10

(* The lines keep their kind, and the captions their place.                *)
LEMMA Captioned ==
    ASSUME NEW lines \in Seq(Raw)
    PROVE  LET m == NumberCaptions(lines)
           IN  /\ m \in Seq(Numbered) /\ Len(m) = Len(lines) /\ Captions(m) = Captions(lines)
               /\ \A i \in 1 .. Len(m) :
                    /\ m[i].is = lines[i].is
                    /\ m[i].number = IF i \in Captions(m) THEN Cardinality({j \in Captions(m) : j <= i}) ELSE 0
<1> DEFINE m == NumberCaptions(lines)
<1>1. PICK r \in CaptionState : r.out = m /\ CaptionsUpTo(lines, r, Len(lines))
  BY CaptionsAll
<1>2. m \in Seq(Numbered)
  BY CaptionsAll
<1>3. /\ Len(m) = Len(lines)
      /\ \A i \in 1 .. Len(m) :
            /\ m[i].is = lines[i].is
            /\ m[i].number = IF i \in Captions(lines) THEN Upto(Captions(lines), i) ELSE 0
  BY <1>1 DEF CaptionsUpTo
<1> HIDE DEF m
<1>4. Captions(m) = Captions(lines)
  <2>1. \A i \in 1 .. Len(m) : \A j \in 1 .. i - 1 : \A k \in j + 1 .. i - 1 :
            i \in 1 .. Len(m) /\ j \in 1 .. Len(m) /\ k \in 1 .. Len(m)
    OBVIOUS
  <2> DEFINE Mark(x, i) == /\ x[i].is = "colon"
                           /\ \E j \in 1 .. i - 1 :
                                x[j].is = "row" /\ \A k \in j + 1 .. i - 1 : x[k].is = "blank"
  <2>2. ASSUME NEW i \in 1 .. Len(m) PROVE Mark(m, i) <=> Mark(lines, i)
    <3>1. m[i].is = lines[i].is
      BY <1>3
    <3>2. \A j \in 1 .. i - 1 : j \in 1 .. Len(m) /\ m[j].is = lines[j].is
      BY <2>1, <1>3
    <3>3. \A j \in 1 .. i - 1 : \A k \in j + 1 .. i - 1 : m[k].is = lines[k].is
      BY <2>1, <1>3
    <3> QED BY <3>1, <3>2, <3>3
  <2> HIDE DEF Mark
  <2>3. {i \in 1 .. Len(m) : Mark(m, i)} = {i \in 1 .. Len(lines) : Mark(lines, i)}
    BY <2>2, <1>3
  <2> QED BY <2>3 DEF Captions, Mark
<1>5. \A i \in 1 .. Len(m) : Captions(m) \cap (1 .. i) = {j \in Captions(m) : j <= i}
  <2>1. Captions(m) \in SUBSET (1 .. Len(m))
    BY DEF Captions
  <2> HIDE DEF m
  <2> QED BY <2>1
<1>6. \A i \in 1 .. Len(m) :
        m[i].number = IF i \in Captions(m) THEN Cardinality({j \in Captions(m) : j <= i}) ELSE 0
  BY <1>3, <1>4, <1>5 DEF Upto
<1>7. /\ m \in Seq(Numbered) /\ Len(m) = Len(lines) /\ Captions(m) = Captions(lines)
      /\ \A i \in 1 .. Len(m) :
            /\ m[i].is = lines[i].is
            /\ m[i].number = IF i \in Captions(m) THEN Cardinality({j \in Captions(m) : j <= i}) ELSE 0
  BY <1>2, <1>3, <1>4, <1>6
<1> QED BY <1>7 DEF m

(* Without their numbers, they are the lines again.                        *)
LEMMA Unnumbered ==
    ASSUME NEW lines \in Seq(Raw)
    PROVE  LET m == NumberCaptions(lines)
           IN  [n \in 1 .. Len(m) |-> [m[n] EXCEPT !.number = 0]] = lines
<1> DEFINE m == NumberCaptions(lines)
           u == [n \in 1 .. Len(m) |-> [m[n] EXCEPT !.number = 0]]
<1>1. m \in Seq(Numbered) /\ Len(m) = Len(lines) /\ \A i \in 1 .. Len(m) : m[i].is = lines[i].is
  <2>1. m \in Seq(Numbered)
    BY Captioned
  <2>2. Len(m) = Len(lines)
    BY Captioned
  <2>3. \A i \in 1 .. Len(m) : m[i].is = lines[i].is
    BY Captioned
  <2> QED BY <2>1, <2>2, <2>3
<1> HIDE DEF m
<1>2. \A n \in 1 .. Len(m) : u[n] = lines[n] /\ u[n] \in Raw
  <2> SUFFICES ASSUME NEW n \in 1 .. Len(m) PROVE u[n] = lines[n] /\ u[n] \in Raw
    OBVIOUS
  <2> DEFINE x == m[n]
             y == lines[n]
  <2>1. x \in Numbered /\ y \in Raw /\ x.is = y.is
    BY <1>1
  <2> HIDE DEF x, y
  <2>2. [x EXCEPT !.number = 0] = [is |-> x.is, number |-> 0]
    BY <2>1 DEF Numbered
  <2>3. y = [is |-> y.is, number |-> 0]
    BY <2>1, RawLine
  <2>4. u[n] = [x EXCEPT !.number = 0]
    BY DEF x
  <2> QED BY <2>1, <2>2, <2>3, <2>4 DEF y
<1>3. u \in Seq(Raw) /\ Len(u) = Len(lines)
  <2>1. Len(m) \in Nat
    BY <1>1
  <2>2. u \in [1 .. Len(m) -> Raw]
    BY <1>2
  <2> HIDE DEF u
  <2> QED BY <2>1, <2>2, <1>1
<1>4. \A n \in 1 .. Len(u) : u[n] = lines[n]
  BY <1>1, <1>2, <1>3
<1> HIDE DEF u
<1>5. u = lines
  BY <1>3, <1>4, SeqEqual
<1> QED BY <1>5 DEF u, m

-----------------------------------------------------------------------------
(* The depth of the tags.                                                  *)

(* Depth is the height of the opening tags over the ends.                  *)
Opens(lines) == {i \in 1 .. Len(lines) : Opening(lines[i])}
Closes(lines) == {i \in 1 .. Len(lines) : lines[i].is = "close"}

LEMMA TagsUpTo ==
    ASSUME NEW lines \in Seq(Raw), NEW n \in 0 .. Len(lines)
    PROVE  /\ Cardinality({j \in 1 .. n : Opening(lines[j])}) = Upto(Opens(lines), n)
           /\ Cardinality({j \in 1 .. n : lines[j].is = "close"}) = Upto(Closes(lines), n)
           /\ Upto(Opens(lines), n) \in Nat /\ Upto(Closes(lines), n) \in Nat
           /\ Depth(lines, n) = Height(Opens(lines), Closes(lines), n)
<1>1. /\ {j \in 1 .. n : Opening(lines[j])} = Opens(lines) \cap (1 .. n)
      /\ {j \in 1 .. n : lines[j].is = "close"} = Closes(lines) \cap (1 .. n)
  BY DEF Opens, Closes
<1>2. Upto(Opens(lines), n) \in Nat /\ Upto(Closes(lines), n) \in Nat
  <2>1. n \in Nat
    OBVIOUS
  <2> QED BY <2>1, UptoStep
<1> QED BY <1>1, <1>2 DEF Upto, Height, Depth

LEMMA Apart == ASSUME NEW lines PROVE Opens(lines) \cap Closes(lines) = {}
BY DEF Opens, Closes, Opening

LEMMA DepthSteps ==
    ASSUME NEW lines \in Seq(Raw)
    PROVE  /\ Depth(lines, 0) = 0
           /\ \A n \in 0 .. Len(lines) : Depth(lines, n) \in Int
           /\ \A n \in 1 .. Len(lines) :
                Depth(lines, n) = Depth(lines, n - 1) + IF Opening(lines[n]) THEN 1
                                                        ELSE IF lines[n].is = "close" THEN -1 ELSE 0
<1> DEFINE P == Opens(lines)
           Q == Closes(lines)
<1>1. P \cap Q = {}
  BY Apart
<1>2. \A n \in 0 .. Len(lines) : Depth(lines, n) = Height(P, Q, n)
  BY TagsUpTo
<1>3. \A n \in 1 .. Len(lines) : (n \in P <=> Opening(lines[n])) /\ (n \in Q <=> lines[n].is = "close")
  BY DEF Opens, Closes
<1> HIDE DEF P, Q
<1>4. Height(P, Q, 0) = 0 /\ \A n \in Nat : Height(P, Q, n) \in Int
  BY HeightStart
<1>5. ASSUME NEW n \in 1 .. Len(lines)
      PROVE  Depth(lines, n) = Depth(lines, n - 1) + IF Opening(lines[n]) THEN 1
                                                     ELSE IF lines[n].is = "close" THEN -1 ELSE 0
  <2>1. n \in Nat \ {0} /\ n \in 0 .. Len(lines) /\ n - 1 \in 0 .. Len(lines)
    OBVIOUS
  <2>2. Height(P, Q, n) = Height(P, Q, n - 1) + IF n \in P THEN 1 ELSE IF n \in Q THEN -1 ELSE 0
    BY <2>1, <1>1, HeightBelow
  <2> QED BY <2>1, <2>2, <1>2, <1>3
<1>6. 0 \in 0 .. Len(lines) /\ \A n \in 0 .. Len(lines) : n \in Nat
  OBVIOUS
<1> QED BY <1>2, <1>4, <1>5, <1>6

LEMMA BalancedIs ==
    ASSUME NEW lines \in Seq(Raw)
    PROVE  Balanced(lines) <=> Depth(lines, Len(lines)) = 0
              /\ \A n \in 1 .. Len(lines) : 0 <= Depth(lines, n)
<1> DEFINE opened(n) == Cardinality({j \in 1 .. n : Opening(lines[j])})
           closed(n) == Cardinality({j \in 1 .. n : lines[j].is = "close"})
<1>1. \A n \in 1 .. Len(lines) : opened(n) \in Nat /\ closed(n) \in Nat
  <2> SUFFICES ASSUME NEW n \in 1 .. Len(lines) PROVE opened(n) \in Nat /\ closed(n) \in Nat
    OBVIOUS
  <2>1. n \in 0 .. Len(lines)
    OBVIOUS
  <2> QED BY <2>1, TagsUpTo
<1>2. \A n \in 1 .. Len(lines) : Depth(lines, n) = opened(n) - closed(n)
  BY DEF Depth
<1>3. Balanced(lines) <=> Depth(lines, Len(lines)) = 0
          /\ \A n \in 1 .. Len(lines) : closed(n) <= opened(n)
  BY DEF Balanced
<1> HIDE DEF opened, closed
<1>4. ASSUME NEW n \in 1 .. Len(lines) PROVE closed(n) <= opened(n) <=> 0 <= Depth(lines, n)
  BY <1>1, <1>2
<1> QED BY <1>3, <1>4

LEMMA DepthAppend ==
    ASSUME NEW lines \in Seq(Raw), NEW x \in Raw
    PROVE  /\ Append(lines, x) \in Seq(Raw) /\ Len(Append(lines, x)) = Len(lines) + 1
           /\ \A n \in 0 .. Len(lines) : Depth(Append(lines, x), n) = Depth(lines, n)
           /\ Depth(Append(lines, x), Len(lines) + 1) =
                Depth(lines, Len(lines)) + IF Opening(x) THEN 1 ELSE IF x.is = "close" THEN -1 ELSE 0
<1> DEFINE a == Append(lines, x)
<1>0. PICK L \in Nat : L = Len(lines)
  OBVIOUS
<1>1. a \in Seq(Raw) /\ Len(a) = L + 1 /\ a[L + 1] = x /\ \A j \in 1 .. L : a[j] = lines[j]
  BY <1>0
<1> HIDE DEF a
<1>2. ASSUME NEW n \in 0 .. L PROVE Depth(a, n) = Depth(lines, n)
  <2>1. \A j \in 1 .. n : a[j] = lines[j]
    BY <1>1
  <2>2. /\ {j \in 1 .. n : Opening(a[j])} = {j \in 1 .. n : Opening(lines[j])}
        /\ {j \in 1 .. n : a[j].is = "close"} = {j \in 1 .. n : lines[j].is = "close"}
    BY <2>1
  <2> QED BY <2>2 DEF Depth
<1>3. Depth(a, L + 1) = Depth(a, L) + IF Opening(x) THEN 1 ELSE IF x.is = "close" THEN -1 ELSE 0
  <2>1. L + 1 \in 1 .. Len(a) /\ (L + 1) - 1 = L
    BY <1>1
  <2>2. \A n \in 1 .. Len(a) :
            Depth(a, n) = Depth(a, n - 1) + IF Opening(a[n]) THEN 1 ELSE IF a[n].is = "close"
                      THEN -1 ELSE 0
    BY <1>1, DepthSteps
  <2>3. Depth(a, L + 1) = Depth(a, (L + 1) - 1) + IF Opening(a[L + 1]) THEN 1 ELSE IF a[L + 1].is
            = "close" THEN -1 ELSE 0
    BY <2>1, <2>2
  <2> QED BY <2>1, <2>3, <1>1
<1>4. L \in 0 .. L
  OBVIOUS
<1>5. /\ Append(lines, x) \in Seq(Raw) /\ Len(Append(lines, x)) = L + 1
      /\ \A n \in 0 .. L : Depth(Append(lines, x), n) = Depth(lines, n)
      /\ Depth(Append(lines, x), L + 1) =
            Depth(lines, L) + IF Opening(x) THEN 1 ELSE IF x.is = "close" THEN -1 ELSE 0
  BY <1>1, <1>2, <1>3, <1>4 DEF a
<1> QED BY <1>5, <1>0

-----------------------------------------------------------------------------
(* What is left is balanced.                                               *)
StillNested(lines, r, n) ==
    /\ r.pending <= Depth(lines, n)
    /\ Depth(r.out, Len(r.out)) = Depth(lines, n) - r.pending
    /\ \A i \in 1 .. Len(r.out) : 0 <= Depth(r.out, i)

LEMMA NestedStep ==
    ASSUME NEW lines \in Seq(Raw), Balanced(lines), NEW n \in 1 .. Len(lines),
           NEW r \in DivState, StillNested(lines, r, n - 1)
    PROVE  StillNested(lines, DivStep(r, lines[n]), n)
<1> DEFINE line == lines[n]
           out == r.out
           p == r.pending
           before == Depth(lines, n - 1)
           after == Depth(lines, n)
<1>1. /\ out \in Seq(Raw) /\ p \in Nat /\ line \in Raw
      /\ r \in [out : Seq(Raw), pending : Nat]
  BY DEF DivState
<1>2. /\ before \in Int /\ 0 <= after /\ after \in Int
      /\ after = before + IF Opening(line) THEN 1 ELSE IF line.is = "close" THEN -1 ELSE 0
  <2>1. n - 1 \in 0 .. Len(lines) /\ n \in 0 .. Len(lines)
    OBVIOUS
  <2> QED BY <2>1, DepthSteps, BalancedIs
<1>3. p <= before /\ Depth(out, Len(out)) = before - p /\ \A i \in 1 .. Len(out) : 0 <= Depth(out, i)
  BY DEF StillNested
<1>4. Opening(line) <=> line.is \in {"wrapper", "div"}
  BY DEF Opening
<1> HIDE DEF line, out, p, before, after
<1>5. CASE line.is = "wrapper"
  <2> DEFINE q == p + 1
  <2>1. DivStep(r, line) = [r EXCEPT !.pending = q]
    BY <1>5 DEF DivStep, p
  <2>2. q \in Nat /\ q <= after /\ before - p = after - q
    BY <1>1, <1>2, <1>3, <1>4, <1>5
  <2> HIDE DEF q
  <2>3. DivStep(r, line).pending = q /\ DivStep(r, line).out = out
    BY <2>1, <1>1 DEF out
  <2> QED BY <2>2, <2>3, <1>3 DEF StillNested, line, after
<1>6. CASE line.is = "close" /\ p > 0
  <2> DEFINE q == p - 1
  <2>1. DivStep(r, line) = [r EXCEPT !.pending = q]
    BY <1>6 DEF DivStep, p
  <2>2. q \in Nat /\ q <= after /\ before - p = after - q
    BY <1>1, <1>2, <1>3, <1>4, <1>6
  <2> HIDE DEF q
  <2>3. DivStep(r, line).pending = q /\ DivStep(r, line).out = out
    BY <2>1, <1>1 DEF out
  <2> QED BY <2>2, <2>3, <1>3 DEF StillNested, line, after
<1>7. CASE line.is # "wrapper" /\ ~(line.is = "close" /\ p > 0)
  <2> DEFINE a == Append(out, line)
  <2>0. PICK L \in Nat : L = Len(out)
    BY <1>1
  <2>1. DivStep(r, line) = [r EXCEPT !.out = a]
    BY <1>7 DEF DivStep, p, out
  <2>2. /\ Len(a) = L + 1 /\ \A i \in 0 .. L : Depth(a, i) = Depth(out, i)
        /\ Depth(a, L + 1) = Depth(out, L) + IF Opening(line) THEN 1 ELSE IF line.is = "close"
                  THEN -1 ELSE 0
    BY <2>0, <1>1, DepthAppend
  <2> HIDE DEF a
  <2>3. DivStep(r, line).pending = p /\ DivStep(r, line).out = a
    BY <2>1, <1>1 DEF p
  <2>4. p <= after
    BY <1>1, <1>2, <1>3, <1>4, <1>7
  <2>5. Depth(a, L + 1) = after - p
    <3>1. Depth(out, L) = before - p
      BY <2>0, <1>3
    <3> QED BY <3>1, <2>2, <1>1, <1>2
  <2>6. \A i \in 1 .. L + 1 : 0 <= Depth(a, i)
    <3>1. \A i \in 1 .. L + 1 : i = L + 1 \/ (i \in 1 .. L /\ i \in 0 .. L)
      OBVIOUS
    <3>2. 0 <= Depth(a, L + 1)
      BY <2>4, <2>5, <1>1, <1>2
    <3>3. \A i \in 1 .. L : 0 <= Depth(out, i)
      BY <2>0, <1>3
    <3> QED BY <3>1, <3>2, <3>3, <2>2
  <2> QED BY <2>2, <2>3, <2>4, <2>5, <2>6 DEF StillNested, line, after
<1> QED BY <1>5, <1>6, <1>7 DEF line

(* What is left of lines that balance balances.                            *)
LEMMA StaysBalanced ==
    ASSUME NEW lines \in Seq(Raw), Balanced(lines)
    PROVE  StripDivs(lines) \in Seq(Raw) /\ Balanced(StripDivs(lines))
<1> DEFINE g == DivScan(lines)
           N == Len(lines)
           T == {n \in 0 .. N : StillNested(lines, g[n], n)}
           b == [out |-> <<>>, pending |-> 0]
<1>1. g \in [0 .. N -> DivState] /\ g[0] = b /\ \A n \in 1 .. N : g[n] = DivStep(g[n - 1], lines[n])
  <2> HIDE DEF g, N
  <2> QED BY DivScanned DEF g, N
<1>2. StillNested(lines, b, 0)
  <2>1. <<>> \in Seq(Raw) /\ Len(<<>>) = 0 /\ b.pending = 0 /\ b.out = <<>>
    OBVIOUS
  <2>2. Depth(<<>>, 0) = 0 /\ Depth(lines, 0) = 0
    BY <2>1, DepthSteps
  <2> HIDE DEF b
  <2> QED BY <2>1, <2>2 DEF StillNested
<1> HIDE DEF g, b
<1>3. 0 \in T
  BY <1>1, <1>2
<1>4. \A n \in 0 .. N : n \in T /\ n < N => n + 1 \in T
  <2> SUFFICES ASSUME NEW n \in 0 .. N, n \in T, n < N PROVE n + 1 \in T
    OBVIOUS
  <2> DEFINE m == n + 1
  <2>1. m \in 1 .. N /\ m - 1 = n /\ m \in 0 .. N
    OBVIOUS
  <2> HIDE DEF m
  <2>2. g[m - 1] \in DivState /\ g[m] = DivStep(g[m - 1], lines[m])
            /\ StillNested(lines, g[m - 1], m - 1)
    BY <2>1, <1>1
  <2>3. StillNested(lines, DivStep(g[m - 1], lines[m]), m)
    BY <2>1, <2>2, NestedStep
  <2> QED BY <2>1, <2>2, <2>3 DEF m
<1> HIDE DEF T
<1>5. N \in Nat /\ N \in 0 .. N
  OBVIOUS
<1>6. N \in T
  BY <1>3, <1>4, <1>5, Induction
<1> DEFINE r == g[N]
<1>7. r \in DivState /\ StillNested(lines, r, N) /\ StripDivs(lines) = r.out
  BY <1>1, <1>5, <1>6 DEF T, StripDivs, g
<1>8. r.out \in Seq(Raw) /\ r.pending \in Nat
  <2> HIDE DEF r
  <2> QED BY <1>7 DEF DivState
<1>9. Depth(lines, N) = 0
  BY BalancedIs
<1> HIDE DEF r
<1>10. Depth(r.out, Len(r.out)) = 0 /\ \A i \in 1 .. Len(r.out) : 0 <= Depth(r.out, i)
  BY <1>7, <1>8, <1>9 DEF StillNested
<1> QED BY <1>7, <1>8, <1>10, BalancedIs

-----------------------------------------------------------------------------
(* What closes a tag.                                                      *)
EndsAt(lines, i, j) ==
    /\ lines[j].is = "close"
    /\ Depth(lines, j) = Depth(lines, i) - 1
    /\ \A k \in i .. j - 1 : Depth(lines, k) >= Depth(lines, i)

LEMMA ClosedAtEnds ==
    ASSUME NEW lines \in Seq(Raw), Balanced(lines), NEW i \in Opens(lines)
    PROVE  /\ ClosedAt(lines, i) \in i + 1 .. Len(lines) /\ EndsAt(lines, i, ClosedAt(lines, i))
           /\ \A j \in i + 1 .. Len(lines) : EndsAt(lines, i, j) => j = ClosedAt(lines, i)
<1> DEFINE P == Opens(lines)
           Q == Closes(lines)
           N == Len(lines)
           d(n) == Depth(lines, n)
<1>1. P \cap Q = {} /\ i \in 1 .. N /\ N \in Nat
  BY Apart DEF Opens
<1>2. \A n \in 0 .. N : d(n) = Height(P, Q, n) /\ d(n) \in Int
  BY TagsUpTo, DepthSteps
<1>3. \A n \in 1 .. N : /\ 0 <= d(n)
                        /\ d(n) = d(n - 1) + IF Opening(lines[n]) THEN 1
                                             ELSE IF lines[n].is = "close" THEN -1 ELSE 0
  <2>1. \A n \in 1 .. N : 0 <= d(n)
    BY BalancedIs
  <2>2. \A n \in 1 .. N : d(n) = d(n - 1) + IF Opening(lines[n]) THEN 1
                                            ELSE IF lines[n].is = "close" THEN -1 ELSE 0
    BY DepthSteps
  <2> QED BY <2>1, <2>2
<1>4. d(N) = 0 /\ d(0) = 0
  BY DepthSteps, BalancedIs
<1>5. Opening(lines[i])
  BY DEF Opens
<1> HIDE DEF P, Q, N, d
<1>6. 1 <= d(i) /\ d(i) \in Int
  <2>1. i - 1 \in 0 .. N /\ i \in 0 .. N /\ (i - 1 = 0 \/ i - 1 \in 1 .. N)
    BY <1>1
  <2>2. 0 <= d(i - 1) /\ d(i - 1) \in Int /\ d(i) \in Int
    BY <2>1, <1>2, <1>3, <1>4
  <2>3. d(i) = d(i - 1) + 1
    BY <1>1, <1>3, <1>5
  <2> QED BY <2>2, <2>3
<1> DEFINE v == d(i) - 1
<1>7. v \in Int /\ v <= d(i) /\ d(N) <= v /\ i \in Nat /\ N \in Nat /\ i <= N /\ v < d(i)
  BY <1>1, <1>4, <1>6
<1> HIDE DEF v
<1>8. PICK j \in i .. N : Height(P, Q, j) = v /\ \A m \in i .. j - 1 : v < Height(P, Q, m)
  <2>1. v <= Height(P, Q, i) /\ Height(P, Q, N) <= v
    <3>1. i \in 0 .. N /\ N \in 0 .. N
      BY <1>1
    <3> QED BY <3>1, <1>2, <1>7
  <2> QED BY <2>1, <1>1, <1>7, Fall
<1>9. \A n \in i .. N : n \in 0 .. N
  BY <1>1
<1>10. d(j) = v /\ j \in i + 1 .. N
  <2>1. d(j) = v
    BY <1>2, <1>8, <1>9
  <2>2. j # i
    BY <2>1, <1>7
  <2> QED BY <2>1, <2>2, <1>1
<1>11. \A k \in i .. j - 1 : v < d(k) /\ d(k) \in Int
  <2>1. \A k \in i .. j - 1 : k \in 0 .. N
    BY <1>1
  <2> QED BY <2>1, <1>2, <1>8
<1>12. \A k \in i .. j - 1 : d(k) >= d(i)
  BY <1>11, <1>6 DEF v
<1>13. lines[j].is = "close"
  <2>1. j \in 1 .. N /\ j - 1 \in i .. j - 1
    BY <1>1, <1>10
  <2>2. v < d(j - 1) /\ d(j - 1) \in Int
    BY <2>1, <1>11
  <2>3. d(j) = d(j - 1) + IF Opening(lines[j]) THEN 1 ELSE IF lines[j].is = "close" THEN -1 ELSE 0
    BY <2>1, <1>3
  <2> QED BY <2>2, <2>3, <1>7, <1>10
<1>14. EndsAt(lines, i, j)
  BY <1>10, <1>12, <1>13 DEF EndsAt, d, v
<1>15. ASSUME NEW a \in i + 1 .. N, NEW b \in i + 1 .. N, EndsAt(lines, i, a), EndsAt(lines, i, b), a < b
       PROVE  FALSE
  <2>1. a \in i .. b - 1
    BY <1>1, <1>15
  <2>2. d(a) = d(i) - 1 /\ d(a) >= d(i)
    BY <2>1, <1>15 DEF EndsAt, d
  <2> QED BY <2>2, <1>6
<1>16. ClosedAt(lines, i) = CHOOSE k \in i + 1 .. N : EndsAt(lines, i, k)
  BY DEF ClosedAt, EndsAt, N
<1>17. ClosedAt(lines, i) \in i + 1 .. N /\ EndsAt(lines, i, ClosedAt(lines, i))
  BY <1>10, <1>14, <1>16
<1>18. ASSUME NEW k \in i + 1 .. N, EndsAt(lines, i, k) PROVE k = ClosedAt(lines, i)
  <2> DEFINE c == ClosedAt(lines, i)
  <2>1. c \in i + 1 .. N /\ EndsAt(lines, i, c)
    BY <1>17
  <2> HIDE DEF c
  <2>2. ~(c < k) /\ ~(k < c)
    BY <2>1, <1>15, <1>18
  <2>3. c \in Int /\ k \in Int
    BY <2>1, <1>1
  <2>4. k = c
    BY <2>2, <2>3
  <2> QED BY <2>4 DEF c
<1> QED BY <1>17, <1>18 DEF N

(* A closing tag inside a pair closes a tag of that pair.                  *)
LEMMA ClosesInside ==
    ASSUME NEW lines \in Seq(Raw), Balanced(lines), NEW w \in Opens(lines),
           NEW q \in w + 1 .. ClosedAt(lines, w), lines[q].is = "close"
    PROVE  \E k \in w .. q - 1 : k \in Opens(lines) /\ ClosedAt(lines, k) = q
<1> DEFINE P == Opens(lines)
           Q == Closes(lines)
           N == Len(lines)
           d(n) == Depth(lines, n)
<1>1. P \cap Q = {} /\ w \in 1 .. N /\ N \in Nat /\ P \in SUBSET (1 .. N)
  BY Apart DEF Opens
<1>2. \A n \in 0 .. N : d(n) = Height(P, Q, n) /\ d(n) \in Int
  BY TagsUpTo, DepthSteps
<1>3. \A n \in 1 .. N : d(n) = d(n - 1) + IF Opening(lines[n]) THEN 1
                                          ELSE IF lines[n].is = "close" THEN -1 ELSE 0
  BY DepthSteps
<1>4. ClosedAt(lines, w) \in w + 1 .. N /\ \A k \in w .. ClosedAt(lines, w) - 1 : d(k) >= d(w)
  BY ClosedAtEnds DEF EndsAt
<1>5. Opening(lines[w]) /\ ~Opening(lines[q])
  BY DEF Opens, Opening
<1> HIDE DEF P, Q, N, d
<1> DEFINE u == w - 1
           e == q - 1
           v == d(e)
<1>6. /\ u \in Nat /\ e \in Nat /\ u <= e /\ u \in 0 .. N /\ w \in 0 .. N
      /\ e \in w .. ClosedAt(lines, w) - 1 /\ e \in 0 .. N /\ q \in 1 .. N /\ u + 1 = w /\ e + 1 = q
      /\ w \in Int /\ q \in Int
  BY <1>1, <1>4
<1>7. v \in Int /\ d(w) <= v /\ d(w) = d(u) + 1 /\ d(u) \in Int
  <2>1. d(w) = d(u) + 1
    BY <1>1, <1>3, <1>5
  <2> QED BY <2>1, <1>2, <1>4, <1>6
<1>8. d(q) = v - 1
  <2>1. d(q) = d(q - 1) + (-1)
    BY <1>3, <1>5, <1>6
  <2> QED BY <2>1, <1>7
<1> HIDE DEF u, e, v
<1>9. Height(P, Q, u) < v /\ v <= Height(P, Q, e)
  <2>1. d(u) < v
    BY <1>7
  <2>2. d(e) = v
    BY DEF v
  <2> QED BY <2>1, <2>2, <1>2, <1>6, <1>7
<1>10. PICK k \in u + 1 .. e : k \in P /\ Height(P, Q, k) = v /\ \A m \in k .. e : v <= Height(P, Q, m)
  BY <1>1, <1>6, <1>7, <1>9, Rise
<1>11. k \in w .. e /\ k \in Int /\ k \in 0 .. N /\ \A m \in k .. e : m \in 0 .. N
  <2>1. u + 1 = w
    BY <1>6
  <2>2. k \in w .. e
    BY <2>1
  <2>3. w \in 0 .. N /\ e \in 0 .. N /\ N \in Nat
    BY <1>1, <1>6
  <2> QED BY <2>2, <2>3
<1>12. d(k) = v /\ \A m \in k .. e : d(m) >= v
  <2>1. d(k) = v
    BY <1>10, <1>11, <1>2
  <2>2. \A m \in k .. e : v <= d(m) /\ d(m) \in Int
    BY <1>10, <1>11, <1>2
  <2> QED BY <2>1, <2>2, <1>7
<1>13. q - 1 = e /\ q \in k + 1 .. N
  BY <1>6, <1>11
<1>14. EndsAt(lines, k, q)
  BY <1>12, <1>13, <1>8 DEF EndsAt, d
<1>15. q = ClosedAt(lines, k)
  BY <1>10, <1>13, <1>14, ClosedAtEnds DEF P, N
<1> QED BY <1>10, <1>11, <1>13, <1>15 DEF P

-----------------------------------------------------------------------------
(* The wrappers go whole.                                                  *)
Gone(lines) == Wrappers(lines) \cup {ClosedAt(lines, i) : i \in Wrappers(lines)}

(* The wrapper around everything that is open after n lines.               *)

(* After n lines w is the outermost wrapper that is open.                  *)
Outermost(lines, w, n) ==
    /\ w \in Wrappers(lines) /\ w <= n /\ n < ClosedAt(lines, w)
    /\ \A v \in Wrappers(lines) : v < w => ClosedAt(lines, v) <= n

(* What the scan has done after n lines, when no wrapper wraps a div.      *)
Unwrapping(lines, r, n) ==
    /\ r.out = At(lines, (1 .. n) \ Gone(lines))
    /\ \/ r.pending = 0 /\ \A v \in Wrappers(lines) : v <= n => ClosedAt(lines, v) <= n
       \/ \E w \in Wrappers(lines) :
            Outermost(lines, w, n) /\ r.pending = Depth(lines, n) - Depth(lines, w) + 1

LEMMA WrapperOpens ==
    ASSUME NEW lines \in Seq(Raw)
    PROVE  /\ Wrappers(lines) \in SUBSET Opens(lines) /\ Opens(lines) \in SUBSET (1 .. Len(lines))
           /\ \A i \in Opens(lines) : lines[i].is \in {"wrapper", "div"}
           /\ \A i \in 1 .. Len(lines) : i \in Wrappers(lines) <=> lines[i].is = "wrapper"
BY DEF Wrappers, Opens, Opening

(* The lines kept, the step of the scan, and the step outside and inside   *)
(* the wrappers.                                                           *)
LEMMA KeptStep ==
    ASSUME NEW lines \in Seq(Raw), NEW n \in 1 .. Len(lines)
    PROVE  At(lines, (1 .. n) \ Gone(lines)) =
                IF n \in Gone(lines) THEN At(lines, (1 .. n - 1) \ Gone(lines))
                ELSE Append(At(lines, (1 .. n - 1) \ Gone(lines)), lines[n])
<1> DEFINE G == Gone(lines)
           S == (1 .. n - 1) \ G
<1> HIDE DEF G
<1>1. CASE n \in G
  <2>1. (1 .. n) \ G = S
    BY <1>1
  <2> QED BY <2>1, <1>1 DEF G
<1>2. CASE n \notin G
  <2>1. (1 .. n) \ G = S \cup {n} /\ S \in SUBSET (1 .. n - 1)
    BY <1>2
  <2> HIDE DEF S
  <2>2. At(lines, S \cup {n}) = Append(At(lines, S), lines[n])
    BY <2>1, AtAppend
  <2> QED BY <2>1, <2>2, <1>2 DEF G, S
<1> QED BY <1>1, <1>2 DEF G

(* What the step does to a line.                                           *)
LEMMA DivStepIs ==
    ASSUME NEW r \in DivState, NEW line \in Raw
    PROVE  LET s == DivStep(r, line)
           IN  /\ line.is = "wrapper" => s.out = r.out /\ s.pending = r.pending + 1
               /\ line.is = "close" /\ r.pending > 0 => s.out = r.out /\ s.pending = r.pending - 1
               /\ line.is # "wrapper" /\ ~(line.is = "close" /\ r.pending > 0)
                    => s.out = Append(r.out, line) /\ s.pending = r.pending
<1>1. r \in [out : Seq(Raw), pending : Nat]
  BY DEF DivState
<1> DEFINE a == Append(r.out, line)
           p == r.pending + 1
           q == r.pending - 1
<1>2. DivStep(r, line) = IF line.is = "wrapper" THEN [r EXCEPT !.pending = p]
                         ELSE IF line.is = "close" /\ r.pending > 0 THEN [r EXCEPT !.pending = q]
                         ELSE [r EXCEPT !.out = a]
  BY DEF DivStep
<1> HIDE DEF a, p, q
<1>3. /\ [r EXCEPT !.pending = p].out = r.out /\ [r EXCEPT !.pending = p].pending = p
      /\ [r EXCEPT !.pending = q].out = r.out /\ [r EXCEPT !.pending = q].pending = q
      /\ [r EXCEPT !.out = a].out = a /\ [r EXCEPT !.out = a].pending = r.pending
  BY <1>1
<1> DEFINE s == DivStep(r, line)
<1>4. line.is = "wrapper" => s.out = r.out /\ s.pending = p
  BY <1>2, <1>3
<1>5. line.is = "close" /\ r.pending > 0 => s.out = r.out /\ s.pending = q
  BY <1>2, <1>3
<1>6. line.is # "wrapper" /\ ~(line.is = "close" /\ r.pending > 0) => s.out = a /\ s.pending = r.pending
  BY <1>2, <1>3
<1> HIDE DEF s
<1> QED BY <1>4, <1>5, <1>6 DEF s, a, p, q

(* Outside every wrapper.                                                  *)
LEMMA OutsideStep ==
    ASSUME NEW lines \in Seq(Raw), Balanced(lines), NEW n \in 1 .. Len(lines), NEW r \in DivState,
           r.out = At(lines, (1 .. n - 1) \ Gone(lines)), r.pending = 0,
           \A v \in Wrappers(lines) : v <= n - 1 => ClosedAt(lines, v) <= n - 1
    PROVE  Unwrapping(lines, DivStep(r, lines[n]), n)
<1> DEFINE W == Wrappers(lines)
           c(v) == ClosedAt(lines, v)
           line == lines[n]
           s == DivStep(r, line)
<1>1. \A v \in W : /\ v \in 1 .. Len(lines) /\ c(v) \in v + 1 .. Len(lines) /\ lines[c(v)].is = "close"
  <2>1. \A v \in W : v \in Opens(lines) /\ v \in 1 .. Len(lines)
    BY WrapperOpens
  <2> QED BY <2>1, ClosedAtEnds DEF EndsAt
<1>2. n \in W <=> line.is = "wrapper"
  BY WrapperOpens
<1>3. line \in Raw
  OBVIOUS
<1>4. \A v \in W : v <= n - 1 => c(v) <= n - 1
  OBVIOUS
<1>5. n \in Gone(lines) <=> n \in W \/ \E v \in W : c(v) = n
  BY DEF Gone
<1>6. At(lines, (1 .. n) \ Gone(lines)) = IF n \in Gone(lines) THEN r.out ELSE Append(r.out, line)
  BY KeptStep
<1>7. CASE line.is = "wrapper"
  <2>1. s.out = r.out /\ s.pending = 1
    <3>1. s.out = r.out /\ s.pending = r.pending + 1
      BY <1>3, <1>7, DivStepIs
    <3> QED BY <3>1
  <2>2. s.out = At(lines, (1 .. n) \ Gone(lines))
    BY <2>1, <1>2, <1>5, <1>6, <1>7
  <2>3. Outermost(lines, n, n)
    <3>1. n < c(n)
      BY <1>1, <1>2, <1>7
    <3>2. \A v \in W : v < n => c(v) <= n
      BY <1>1, <1>4
    <3> QED BY <3>1, <3>2, <1>2, <1>7 DEF Outermost
  <2>4. Depth(lines, n) \in Int
    BY DepthSteps
  <2>5. s.pending = Depth(lines, n) - Depth(lines, n) + 1
    BY <2>1, <2>4
  <2> HIDE DEF s
  <2> QED BY <2>2, <2>3, <2>5, <1>2, <1>7 DEF Unwrapping, s, line
<1>8. CASE line.is # "wrapper"
  <2>1. s.out = Append(r.out, line) /\ s.pending = 0
    <3>1. ~(line.is = "close" /\ r.pending > 0)
      OBVIOUS
    <3>2. s.out = Append(r.out, line) /\ s.pending = r.pending
      <4> HIDE DEF line
      <4> QED BY <3>1, <1>3, <1>8, DivStepIs
    <3> QED BY <3>2
  <2>2. n \notin Gone(lines)
    <3> SUFFICES ASSUME NEW v \in W, c(v) = n PROVE FALSE
      BY <1>2, <1>5, <1>8
    <3>1. v <= n - 1
      BY <1>1
    <3> QED BY <3>1, <1>4
  <2>3. \A v \in W : v <= n => c(v) <= n
    <3>1. \A v \in W : v <= n => v <= n - 1
      BY <1>1, <1>2, <1>8
    <3> QED BY <3>1, <1>1, <1>4
  <2> HIDE DEF s
  <2> QED BY <2>1, <2>2, <2>3, <1>6 DEF Unwrapping, s, line
<1> QED BY <1>7, <1>8

(* Inside a wrapper, which wraps no other <div>.                           *)
LEMMA InsideStep ==
    ASSUME NEW lines \in Seq(Raw), Balanced(lines), ~WrapsDiv(lines), NEW n \in 1 .. Len(lines),
           NEW r \in DivState, r.out = At(lines, (1 .. n - 1) \ Gone(lines)),
           NEW w \in Wrappers(lines), Outermost(lines, w, n - 1),
           r.pending = Depth(lines, n - 1) - Depth(lines, w) + 1
    PROVE  Unwrapping(lines, DivStep(r, lines[n]), n)
<1> DEFINE W == Wrappers(lines)
           c(v) == ClosedAt(lines, v)
           d(k) == Depth(lines, k)
           line == lines[n]
           s == DivStep(r, line)
<1>1. \A v \in W : /\ v \in 1 .. Len(lines) /\ c(v) \in v + 1 .. Len(lines) /\ lines[c(v)].is = "close"
                   /\ d(c(v)) = d(v) - 1 /\ \A k \in v .. c(v) - 1 : d(k) >= d(v)
                   /\ v \in Opens(lines)
  <2>1. \A v \in W : v \in Opens(lines) /\ v \in 1 .. Len(lines)
    BY WrapperOpens
  <2> QED BY <2>1, ClosedAtEnds DEF EndsAt
<1>2. n \in W <=> line.is = "wrapper"
  BY WrapperOpens
<1>3. line \in Raw
  OBVIOUS
<1>4. w <= n - 1 /\ n - 1 < c(w) /\ \A v \in W : v < w => c(v) <= n - 1
  BY DEF Outermost
<1>5. n \in Gone(lines) <=> n \in W \/ \E v \in W : c(v) = n
  BY DEF Gone
<1>6. At(lines, (1 .. n) \ Gone(lines)) = IF n \in Gone(lines) THEN r.out ELSE Append(r.out, line)
  BY KeptStep
<1>7. line.is # "div"
  <2>1. n \in w .. c(w)
    BY <1>1, <1>4
  <2> QED BY <2>1 DEF WrapsDiv
<1>8. /\ d(n - 1) \in Int /\ d(w) \in Int /\ d(n) \in Int
      /\ d(n) = d(n - 1) + IF Opening(line) THEN 1 ELSE IF line.is = "close" THEN -1 ELSE 0
  <2>1. n - 1 \in 0 .. Len(lines) /\ w \in 0 .. Len(lines) /\ n \in 0 .. Len(lines)
    BY <1>1
  <2> QED BY <2>1, DepthSteps
<1>9. r.pending = d(n - 1) - d(w) + 1 /\ r.pending > 0
  <2>1. n - 1 \in w .. c(w) - 1
    BY <1>1, <1>4
  <2>2. d(n - 1) >= d(w)
    BY <2>1, <1>1
  <2> QED BY <2>2, <1>8
<1>10. Opening(line) <=> line.is = "wrapper"
  BY <1>7 DEF Opening
<1>11. ASSUME n # c(w) PROVE Outermost(lines, w, n)
  <2>1. w <= n /\ n < c(w) /\ \A v \in W : v < w => c(v) <= n
    BY <1>1, <1>4, <1>11
  <2> QED BY <2>1 DEF Outermost
<1>12. CASE line.is = "wrapper"
  <2>1. s.out = r.out /\ s.pending = r.pending + 1
    BY <1>3, <1>12, DivStepIs
  <2>2. s.pending = d(n) - d(w) + 1
    BY <2>1, <1>8, <1>9, <1>10, <1>12
  <2>3. s.out = At(lines, (1 .. n) \ Gone(lines))
    BY <2>1, <1>2, <1>5, <1>6, <1>12
  <2>4. Outermost(lines, w, n)
    BY <1>1, <1>11, <1>12
  <2> HIDE DEF s
  <2> QED BY <2>2, <2>3, <2>4 DEF Unwrapping, s, line
<1>13. CASE line.is = "close"
  <2>1. s.out = r.out /\ s.pending = r.pending - 1
    BY <1>3, <1>9, <1>13, DivStepIs
  <2>2. s.pending = d(n) - d(w) + 1
    BY <2>1, <1>8, <1>9, <1>10, <1>13
  <2>3. n \in w + 1 .. c(w)
    BY <1>1, <1>4
  <2>4. PICK k \in w .. n - 1 : k \in Opens(lines) /\ c(k) = n
    BY <2>3, <1>1, <1>13, ClosesInside
  <2>5. k \in W
    <3>1. k \in w .. c(w)
      BY <1>1, <1>4, <2>4
    <3>2. lines[k].is # "div"
      BY <3>1 DEF WrapsDiv
    <3> QED BY <3>2, <2>4, WrapperOpens
  <2>6. s.out = At(lines, (1 .. n) \ Gone(lines))
    BY <2>1, <2>4, <2>5, <1>5, <1>6
  <2>7. CASE n # c(w)
    <3>1. Outermost(lines, w, n)
      BY <2>7, <1>11
    <3> HIDE DEF s
    <3> QED BY <3>1, <2>2, <2>6 DEF Unwrapping, s, line
  <2>8. CASE n = c(w)
    <3>1. d(n) = d(w) - 1
      BY <2>8, <1>1
    <3>2. s.pending = 0
      BY <3>1, <2>2, <1>8
    <3>3. ASSUME NEW v \in W, v <= n PROVE c(v) <= n
      <4>1. CASE v < w
        BY <4>1, <1>1, <1>4
      <4>2. CASE v = w
        BY <4>2, <2>8, <1>1
      <4>3. CASE w < v
        <5> SUFFICES ASSUME n < c(v) PROVE FALSE
          BY <1>1
        <5>1. n \in v .. c(v) - 1
          BY <3>3, <1>1
        <5>2. d(n) >= d(v)
          BY <5>1, <1>1
        <5>3. v \in w .. c(w) - 1
          BY <4>3, <3>3, <2>8, <1>1, <1>2, <1>13
        <5>4. d(v) >= d(w) /\ d(v) \in Int
          <6>1. v \in 0 .. Len(lines)
            BY <1>1
          <6>2. d(v) \in Int
            BY <6>1, DepthSteps
          <6> QED BY <6>2, <5>3, <1>1
        <5> QED BY <5>2, <5>4, <3>1, <1>8
      <4> QED BY <4>1, <4>2, <4>3, <1>1
    <3> HIDE DEF s
    <3> QED BY <3>2, <3>3, <2>6 DEF Unwrapping, s, line
  <2> QED BY <2>7, <2>8
<1>14. CASE line.is # "wrapper" /\ line.is # "close"
  <2>1. s.out = Append(r.out, line) /\ s.pending = r.pending
    BY <1>3, <1>14, DivStepIs
  <2>2. s.pending = d(n) - d(w) + 1
    BY <2>1, <1>8, <1>9, <1>10, <1>14
  <2>3. n \notin Gone(lines)
    BY <1>1, <1>2, <1>5, <1>14
  <2>4. Outermost(lines, w, n)
    BY <1>1, <1>11, <1>14
  <2> HIDE DEF s
  <2> QED BY <2>1, <2>2, <2>3, <2>4, <1>6 DEF Unwrapping, s, line
<1> QED BY <1>12, <1>13, <1>14

(* Unless one wraps a div, exactly the wrappers go, and what closes them.  *)
LEMMA WrappersGo ==
    ASSUME NEW lines \in Seq(Raw), Balanced(lines), ~WrapsDiv(lines)
    PROVE  StripDivs(lines) = WithoutWrappers(lines)
<1> DEFINE g == DivScan(lines)
           N == Len(lines)
           T == {n \in 0 .. N : Unwrapping(lines, g[n], n)}
           b == [out |-> <<>>, pending |-> 0]
<1>1. g \in [0 .. N -> DivState] /\ g[0] = b /\ \A n \in 1 .. N : g[n] = DivStep(g[n - 1], lines[n])
  <2> HIDE DEF g, N
  <2> QED BY DivScanned DEF g, N
<1>2. \A v \in Wrappers(lines) : v \in 1 .. N
  BY WrapperOpens
<1>3. Unwrapping(lines, b, 0)
  <2>1. (1 .. 0) \ Gone(lines) = {} /\ b.out = <<>> /\ b.pending = 0
    OBVIOUS
  <2>2. \A v \in Wrappers(lines) : ~(v <= 0)
    BY <1>2
  <2> HIDE DEF b
  <2> QED BY <2>1, <2>2, AtEmpty DEF Unwrapping
<1> HIDE DEF g, b
<1>4. 0 \in T
  BY <1>1, <1>3
<1>5. \A n \in 0 .. N : n \in T /\ n < N => n + 1 \in T
  <2> SUFFICES ASSUME NEW n \in 0 .. N, n \in T, n < N PROVE n + 1 \in T
    OBVIOUS
  <2> DEFINE m == n + 1
  <2>1. m \in 1 .. N /\ m - 1 = n /\ m \in 0 .. N
    OBVIOUS
  <2> HIDE DEF m
  <2>2. g[m - 1] \in DivState /\ g[m] = DivStep(g[m - 1], lines[m])
            /\ Unwrapping(lines, g[m - 1], m - 1)
    BY <2>1, <1>1
  <2>3. Unwrapping(lines, DivStep(g[m - 1], lines[m]), m)
    BY <2>1, <2>2, OutsideStep, InsideStep DEF Unwrapping
  <2> QED BY <2>1, <2>2, <2>3 DEF m
<1> HIDE DEF T
<1>6. N \in Nat /\ N \in 0 .. N
  OBVIOUS
<1>7. N \in T
  BY <1>4, <1>5, <1>6, Induction
<1>8. Unwrapping(lines, g[N], N) /\ StripDivs(lines) = g[N].out
  BY <1>7 DEF T, StripDivs, g
<1> QED BY <1>8 DEF Unwrapping, WithoutWrappers, Gone

-----------------------------------------------------------------------------
(* The stages together. The inductive invariant: that of the expansion,    *)
(* that of the figures, and what each stage has left to the next. The text *)
(* is the rewritten expansion, and that of an archive embeds no PDF.       *)
Taken ==
    /\ Expanded => content = Rewritten(top.done)
    /\ (outcome = "tex" /\ paper.kind = "archive") =>
            Expanded /\ Positions(content, "includepdf") = {}

Stages ==
    /\ content \in Seq(Items)
    /\ Taken
    /\ stage # "fetch" => outcome \notin {"download", "choose", "expand"}
    /\ stage = "markdown" => tex = Unwrapped(content) /\ markdown = Passes(paper.pandoc)

PaperInv == SourceInv /\ FiguresInv /\ Stages

(* What PaperConstants says of the paper at hand.                          *)
LEMMA PaperData ==
    ASSUME \E family \in Families : paper \in family
    PROVE  /\ paper.figures \in Seq(FigureFile) /\ IsInjective(paper.figures)
           /\ paper.pandoc \in Seq(Raw)
<1> DEFINE fs == paper.figures
<1>1. /\ fs \in Seq([dir : STRING, name : Seq(STRING)]) /\ IsInjective(fs)
      /\ \A i \in 1 .. Len(fs) : Len(fs[i].name) > 1
      /\ paper.pandoc \in Seq({Line(is) : is \in LineKinds})
  BY PaperConstants
<1> HIDE DEF fs
<1>2. ASSUME NEW i \in 1 .. Len(fs) PROVE fs[i] \in FigureFile
  <2>1. fs[i] \in [dir : STRING, name : Seq(STRING)]
    BY <1>1, ElementOfSeq
  <2>2. fs[i].dir \in STRING /\ fs[i].name \in Seq(STRING) /\ fs[i]
            = [dir |-> fs[i].dir, name |-> fs[i].name]
    BY <2>1
  <2>3. fs[i].name \in Seq(Part)
    BY <2>2 DEF Part
  <2>4. fs[i] \in [dir : STRING, name : Seq(Part)]
    BY <2>2, <2>3
  <2> QED BY <2>4, <1>1 DEF FigureFile
<1>3. fs \in Seq(FigureFile)
  <2>1. PICK n \in Nat : n = Len(fs)
    BY <1>1
  <2>2. fs = [i \in 1 .. n |-> fs[i]]
    BY <1>1, <2>1
  <2>3. fs \in [1 .. n -> FigureFile]
    BY <1>2, <2>1, <2>2
  <2> QED BY <2>3, SeqDef
<1> QED BY <1>1, <1>3 DEF fs, Raw

LEMMA PaperStart == Init => PaperInv
<1> SUFFICES ASSUME Init PROVE PaperInv
  OBVIOUS
<1>1. SourceInv
  BY SourceStart DEF Init
<1>2. FiguresInv
  <2>1. \E family \in Families : paper \in family
    BY DEF Init, SourceInit
  <2> QED BY <2>1, PaperData, FiguresStart DEF Init
<1>3. Stages
  BY DEF Init, SourceInit, Stages, Taken, Expanded
<1> QED BY <1>1, <1>2, <1>3 DEF PaperInv

(* The fetch ends with a sequence of items, whatever it fetched.           *)
LEMMA FetchContent ==
    ASSUME SourceInv, Fetch, content \in Seq(Items)
    PROVE  content' \in Seq(Items)
<1>1. CASE Download
  <2>1. \E family \in Families : paper \in family
    BY DEF SourceInv, SourceType
  <2>2. \A f \in paper.tex : paper.text[f] \in Seq(Items)
    BY <2>1, PaperFacts
  <2> QED BY <1>1, <2>2 DEF Download
<1>2. CASE Finish
  <2>1. stack # <<>> /\ SourceType
    BY <1>2, ExpandFacts DEF Finish, CallDone
  <2>2. top.done \in Seq(Items)
    BY <2>1, TopFacts
  <2> QED BY <1>2, <2>2, RewrittenType DEF Finish
<1>3. CASE content' = content
  BY <1>3
<1>4. ChooseMain \/ Keep \/ Unresolved \/ Drop \/ Inline \/ SecondPass \/ Return => content' = content
  BY DEF ChooseMain, Keep, Unresolved, Drop, Inline, SecondPass, Return
<1> QED BY <1>1, <1>2, <1>3, <1>4 DEF Fetch

(* It ends with the rewritten expansion, if there is one: a plain file is  *)
(* no archive, and Finish alone takes the text of one up.                  *)
LEMMA FetchResult == ASSUME SourceInv, Fetch PROVE Taken'
<1>1. CASE Download
  <2>1. main = <<>> /\ main' = main /\ paper' = paper
    BY <1>1 DEF Download, SourceInv, SourceType
  <2>2. outcome' = "tex" => paper.kind = "plain"
    BY <1>1 DEF Download
  <2> QED BY <2>1, <2>2 DEF Taken, Expanded
<1>2. CASE Finish
  <2>1. main # <<>> /\ main' = main /\ top' = top /\ content' = Rewritten(top.done)
    BY <1>2 DEF Finish, CallDone, SourceInv, SourceType, top
  <2>2. /\ outcome' \in {"tex", "pdf_only"}
        /\ outcome' = "tex" => Positions(content', "includepdf") = {}
    BY <1>2 DEF Finish
  <2> QED BY <2>1, <2>2 DEF Taken, Expanded
<1>3. CASE ChooseMain \/ Keep \/ Unresolved \/ Drop \/ Inline \/ SecondPass \/ Return
  <2>1. outcome' = "expand"
    BY <1>3 DEF ChooseMain, Keep, Unresolved, Drop, Inline, SecondPass, Return, AtDirective, CallDone
  <2> QED BY <2>1 DEF Taken, Expanded
<1> QED BY <1>1, <1>2, <1>3 DEF Fetch

LEMMA SameResult == ASSUME Taken, UNCHANGED sourceVars PROVE Taken'
BY DEF Taken, Expanded, top, sourceVars

(* It does nothing once it has ended.                                      *)
LEMMA FetchEnds ==
    ASSUME Fetch
    PROVE  outcome \in {"download", "choose", "expand"}
BY DEF Fetch, Download, ChooseMain, Keep, Unresolved, Drop, Inline, SecondPass, Return, Finish,
       CallDone, AtDirective

LEMMA FiguresStep ==
    ASSUME FiguresInv, ConvertFigures
    PROVE  FiguresInv'
BY NoPopplerStep, AsItIsStep, ConvertStep DEF ConvertFigures

LEMMA SameFigures ==
    ASSUME FiguresInv, UNCHANGED figureVars
    PROVE  FiguresInv'
BY DEF FiguresInv, FiguresType, WaitingAreThere, FilesShowFigures, DoneArePacked, PngsAreDone,
   Packed, figureVars

LEMMA PaperStep == PaperInv /\ [Next]_vars => PaperInv'
<1> SUFFICES ASSUME PaperInv, [Next]_vars PROVE PaperInv'
  OBVIOUS
<1> USE DEF PaperInv
<1>1. CASE FetchSource
  <2>1. SourceInv'
    BY <1>1, FetchStep DEF FetchSource
  <2>2. FiguresInv'
    BY <1>1, SameFigures DEF FetchSource
  <2>3. content' \in Seq(Items)
    BY <1>1, FetchContent DEF FetchSource, Stages
  <2>4. stage = "fetch" /\ stage' = stage
    BY <1>1, FetchEnds DEF FetchSource, Stages
  <2>5. Taken'
    BY <1>1, FetchResult DEF FetchSource
  <2> QED BY <2>1, <2>2, <2>3, <2>4, <2>5 DEF Stages
<1>2. CASE FetchFigures
  <2>1. SourceInv' /\ UNCHANGED sourceVars
    BY <1>2, SameSource DEF FetchFigures
  <2>2. FiguresInv'
    BY <1>2, FiguresStep DEF FetchFigures
  <2>3. Stages'
    BY <1>2, <2>1, SameResult DEF FetchFigures, Stages, sourceVars
  <2> QED BY <2>1, <2>2, <2>3
<1>3. CASE Fetched \/ Convert2Markdown \/ PandocFails \/ UNCHANGED vars
  <2>1. UNCHANGED sourceVars /\ UNCHANGED figureVars
    BY <1>3 DEF Fetched, Convert2Markdown, PandocFails, vars
  <2>2. SourceInv' /\ FiguresInv'
    BY <2>1, SameSource, SameFigures
  <2>3. Stages'
    BY <1>3, <2>1, SameResult DEF Fetched, Convert2Markdown, PandocFails, vars, Stages, sourceVars
  <2> QED BY <2>2, <2>3
<1> QED BY <1>1, <1>2, <1>3 DEF Next, Done

THEOREM PaperInvariant == Spec => []PaperInv
BY PaperStart, PaperStep, PTL DEF Spec

-----------------------------------------------------------------------------
(* What it implies.                                                        *)

(* The expanded text holds every file of the document, once through cycles *)
(* and common inputs, no other file, and every item that is no directive.  *)
THEOREM ExpansionIsWhole == Spec => []DocumentIsWhole
<1>1. PaperInv => DocumentIsWhole
  BY SourceIsWhole, SourceIsKept DEF PaperInv, DocumentIsWhole
<1> QED BY <1>1, PaperInvariant, PTL

LEMMA TextRendered == PaperInv => TextIsKept
<1> SUFFICES ASSUME PaperInv, Expanded, Regular(top.done), NEW i \in Positions(top.done, "word")
             PROVE  Cardinality({k \in Rendered(content) : content[k].arg = top.done[i].arg}) =
                    Cardinality({k \in Meant(top.done) : top.done[k].arg = top.done[i].arg})
  BY DEF TextIsKept
<1>1. top.done \in Seq(Items)
  BY ExpandedFacts DEF PaperInv
<1>2. content = Rewritten(top.done)
  BY DEF PaperInv, Stages, Taken
<1> DEFINE w == top.done[i].arg
<1>3. Cardinality({k \in Rendered(Rewritten(top.done)) : Rewritten(top.done)[k].arg = w}) =
      Cardinality({k \in Meant(top.done) : top.done[k].arg = w})
  <2> HIDE DEF w
  <2> QED BY <1>1, TextRewritten
<1> QED BY <1>2, <1>3

(* Whatever the main file, the inputs and the depth limit made of a        *)
(* regular source: pandoc renders each of its words as often as a reader   *)
(* is meant to see it, and none that is commented out.                     *)
THEOREM RewritingKeepsText == Spec => []TextIsKept
BY TextRendered, PaperInvariant, PTL

LEMMA WrapperFound == PaperInv => WrapperIsRefused
<1> SUFFICES ASSUME PaperInv, outcome = "tex", paper.kind = "archive", WholeBlock(top.done),
                    NEW k \in Live(top.done, "includepdf")
             PROVE  FALSE
  BY DEF WrapperIsRefused
<1>1. Expanded /\ Positions(content, "includepdf") = {} /\ content = Rewritten(top.done)
  BY DEF PaperInv, Stages, Taken
<1>2. top.done \in Seq(Items)
  BY <1>1, ExpandedFacts DEF PaperInv
<1> QED BY <1>1, <1>2, WrapperKept

(* An archive that embeds a PDF, in its main file or in an input, in the   *)
(* title block or elsewhere, is not taken for a TeX source.                *)
THEOREM WrappersAreRefused == Spec => []WrapperIsRefused
BY WrapperFound, PaperInvariant, PTL

(* Whichever conversions fail, a figure that has one dot and a name of its *)
(* own is in the ZIP; the links to a converted PDF and to a PNG show it,   *)
(* and those to another renderable file with its extension; any other link *)
(* (to an EPS or a PDF that was not converted, or without the extension)   *)
(* shows nothing, and none shows another figure.                           *)
THEOREM LinksShowFigures == Spec => []LinkShowsFigure
<1>1. PaperInv => LinkShowsFigure
  BY FiguresShown DEF PaperInv
<1> QED BY <1>1, PaperInvariant, PTL

(* Pandoc gets the rewritten source without the swallowing commands and    *)
(* their closing braces, and with everything else, however they nest.      *)
LEMMA Unswallowed == PaperInv => NothingIsSwallowed
<1> SUFFICES ASSUME PaperInv, stage = "markdown", \A i \in Commands(content) : Closing(content, i) # 0
             PROVE  tex = At(content, 1 .. Len(content) \ Unwanted(content))
  BY DEF NothingIsSwallowed, Commands, Unwanted
<1>1. content \in Seq(Items) /\ tex = Unwrapped(content)
  BY DEF PaperInv, Stages
<1> QED BY <1>1, UnwrappedIs

THEOREM SwallowersAreUnwrapped == Spec => []NothingIsSwallowed
BY Unswallowed, PaperInvariant, PTL

(* The passes over the Markdown: what they start from.                     *)
LEMMA StrippedType ==
    ASSUME NEW lines \in Seq(Raw)
    PROVE  StripDivs(lines) \in Seq(Raw)
<1> DEFINE g == DivScan(lines)
           N == Len(lines)
<1>1. N \in Nat /\ g \in [0 .. N -> DivState]
  BY DivScanned
<1> HIDE DEF g, N
<1>2. g[N].out \in Seq(Raw)
  BY <1>1 DEF DivState
<1> QED BY <1>2 DEF StripDivs, g, N

LEMMA PassesAre ==
    ASSUME PaperInv, stage = "markdown"
    PROVE  /\ paper.pandoc \in Seq(Raw)
           /\ StripDivs(paper.pandoc) \in Seq(Raw)
           /\ markdown = NumberCaptions(StripDivs(paper.pandoc))
<1>1. markdown = Passes(paper.pandoc) /\ \E family \in Families : paper \in family
  BY DEF PaperInv, Stages, SourceInv, SourceType
<1>2. paper.pandoc \in Seq(Raw)
  BY <1>1, PaperData
<1> QED BY <1>1, <1>2, StrippedType DEF Passes

(* The wrapper tags go in pairs, each with the tag that closes it.         *)
LEMMA WrappersStripped == PaperInv => WrappersGoWhole
<1> DEFINE stripped == [n \in 1 .. Len(markdown) |-> [markdown[n] EXCEPT !.number = 0]]
<1> SUFFICES ASSUME PaperInv, stage = "markdown", Balanced(paper.pandoc)
             PROVE  /\ Balanced(stripped)
                    /\ ~WrapsDiv(paper.pandoc) => stripped = WithoutWrappers(paper.pandoc)
  BY DEF WrappersGoWhole
<1>1. /\ paper.pandoc \in Seq(Raw) /\ StripDivs(paper.pandoc) \in Seq(Raw)
      /\ markdown = NumberCaptions(StripDivs(paper.pandoc))
  BY PassesAre
<1>2. stripped = StripDivs(paper.pandoc)
  BY <1>1, Unnumbered
<1> HIDE DEF stripped
<1>3. Balanced(StripDivs(paper.pandoc))
  BY <1>1, StaysBalanced
<1>4. ~WrapsDiv(paper.pandoc) => StripDivs(paper.pandoc) = WithoutWrappers(paper.pandoc)
  BY <1>1, WrappersGo
<1> QED BY <1>2, <1>3, <1>4

(* What is left of balanced Markdown is balanced, and exactly the wrappers *)
(* and what closes them are gone, unless one wraps another <div>.          *)
THEOREM WrappersAreStripped == Spec => []WrappersGoWhole
BY WrappersStripped, PaperInvariant, PTL

LEMMA Numbering == PaperInv => CaptionsAreNumbered
<1> SUFFICES ASSUME PaperInv, stage = "markdown", NEW i \in 1 .. Len(markdown)
             PROVE  markdown[i].number =
                        IF i \in Captions(markdown)
                        THEN Cardinality({j \in Captions(markdown) : j <= i}) ELSE 0
  BY DEF CaptionsAreNumbered
<1>1. /\ StripDivs(paper.pandoc) \in Seq(Raw)
      /\ markdown = NumberCaptions(StripDivs(paper.pandoc))
  BY PassesAre
<1> QED BY <1>1, Captioned

(* The captions right below a table are numbered one by one, and no other  *)
(* line is.                                                                *)
THEOREM CaptionsGetNumbers == Spec => []CaptionsAreNumbered
BY Numbering, PaperInvariant, PTL
=============================================================================
