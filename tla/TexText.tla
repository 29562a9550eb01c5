------------------------------- MODULE TexText -------------------------------
(***************************************************************************)
(* TeX sources as sequences of items, and the rewritings done to them      *)
(* before pandoc: the title block (_extract_metadata_and_rewrite and its   *)
(* helpers in backend/src/tools/arxiv.py) and the commands that swallow    *)
(* their argument (_unwrap_brace_swallowers in tex_to_markdown.py).        *)
(*                                                                         *)
(* An item is a piece of text the rewritings tell apart; those that open a *)
(* group include the brace.  The ICML commands are treated as the standard *)
(* ones under another name and left out, with \thanks and the spacing.     *)
(***************************************************************************)
EXTENDS Selections, Sequences, SequencesExt

Openers == {"title", "author", "swallower", "open", "section", "emph"}

Kinds ==
    {"word", "input", "bibliography", "bibliographystyle", "documentclass",
     "begin", "includepdf", "references", "abstract", "endabstract",
     "maketitle", "redefined", "percent", "percentsign", "backslash",
     "newline", "close"} \cup Openers

Items == [is : Kinds, arg : Seq(STRING)]

Item(is) == [is |-> is, arg |-> <<>>]

Positions(s, is) == {i \in 1 .. Len(s) : s[i].is = is}

-----------------------------------------------------------------------------
(* Groups and comments.                                                    *)

Opened(s, i, j) == Cardinality({k \in i .. j : s[k].is \in Openers})
Closed(s, i, j) == Cardinality({k \in i .. j : s[k].is = "close"})

(* _match_balanced_brace: where the group opened at i is closed, a comment *)
(* or not; 0 when it never is.                                             *)
Closing(s, i) ==
    LET ends == {j \in i + 1 .. Len(s) : Opened(s, i, j) = Closed(s, i, j)}
    IN  IF ends = {} THEN 0 ELSE First(ends)

(* _is_in_line_comment: a % that is not escaped stands before it on its    *)
(* line.                                                                   *)
InComment(s, i) ==
    \E j \in 1 .. i - 1 :
        s[j].is = "percent" /\ \A k \in j .. i - 1 : s[k].is # "newline"

(* Broken variant: commented-out commands count.                           *)
Inner_AnyLine(s, command) ==
    LET at == {i \in Positions(s, command) : Closing(s, i) # 0}
    IN  IF at = {} THEN <<>> ELSE SubSeq(s, First(at) + 1, Closing(s, First(at)) - 1)

(* _find_command_inner: the argument of the first command outside comments *)
(* that is closed; empty when there is none.                               *)
Inner(s, command) ==
    LET at == {i \in Positions(s, command) : ~InComment(s, i) /\ Closing(s, i) # 0}
    IN  IF at = {} THEN <<>> ELSE SubSeq(s, First(at) + 1, Closing(s, First(at)) - 1)

EndAfter(s, i) == {j \in Positions(s, "endabstract") : j > i}

(* _find_environment_body: no other \begin is tried when the first outside *)
(* comments has no \end.                                                   *)
AbstractBody(s) ==
    LET at == {i \in Positions(s, "abstract") : ~InComment(s, i)}
    IN  IF at = {} \/ EndAfter(s, First(at)) = {} THEN {}
        ELSE {SubSeq(s, First(at) + 1, First(EndAfter(s, First(at))) - 1)}

-----------------------------------------------------------------------------
(* Removals.                                                               *)

(* The items outside the spans, given by start and end, as a scan that     *)
(* never looks back builds it.                                             *)
Without(s, end) ==
    LET starts == InOrder(DOMAIN end)
        scan[n \in 0 .. Cardinality(DOMAIN end)] ==
            IF n = 0 THEN [kept |-> <<>>, last |-> 1]
            ELSE [kept |-> scan[n - 1].kept \o SubSeq(s, scan[n - 1].last, starts[n] - 1),
                  last |-> end[starts[n]] + 1]
        all == scan[Cardinality(DOMAIN end)]
    IN  all.kept \o SubSeq(s, all.last, Len(s))

(* _strip_command, commented-out commands included.                        *)
StripCommand(s, command) ==
    Without(s, [i \in {j \in Positions(s, command) : Closing(s, j) # 0} |-> Closing(s, i)])

(* _strip_environment: the first \begin, the next \end, and on from there. *)
StripAbstract(s) ==
    LET Begins == {i \in Positions(s, "abstract") : EndAfter(s, i) # {}}
        end == [i \in Begins |-> First(EndAfter(s, i))]
        starts == {i \in Begins : ~\E b \in Begins : b < i /\ i < end[b]}
    IN  Without(s, [i \in starts |-> end[i]])

(* _strip_tex_line_comments takes \% for the start of a comment too, which *)
(* leaves the backslash; line breaks become spaces.                        *)
Clean(s) ==
    LET Sign(i) == s[i].is \in {"percent", "percentsign"}
        Cut(i) == \E j \in 1 .. i - 1 :
                      Sign(j) /\ \A k \in j .. i - 1 : s[k].is # "newline"
        kept == At(s, {i \in 1 .. Len(s) : ~Cut(i) /\ s[i].is \notin {"newline", "percent"}})
    IN  [i \in 1 .. Len(kept) |->
            IF kept[i].is = "percentsign" THEN Item("backslash") ELSE kept[i]]

-----------------------------------------------------------------------------
(* _extract_metadata_and_rewrite.                                          *)

TitleBlock(title, author, abstract) ==
    (IF title = <<>> THEN <<>>
     ELSE <<Item("section")>> \o Clean(title) \o <<Item("close"), Item("newline")>>) \o
    (IF Clean(author) = <<>> THEN <<>>
     ELSE <<Item("emph")>> \o Clean(author) \o <<Item("close"), Item("newline")>>) \o
    (IF abstract = {} THEN <<>>
     ELSE <<Item("section"), Item("close"), Item("newline")>> \o
          (CHOOSE body \in abstract : TRUE) \o <<Item("newline")>>)

(* In the place of the first \maketitle that is not being redefined, else  *)
(* after \begin{document}, else in front; comments are not looked at.      *)
Placed(s, block) ==
    LET at == Positions(s, "maketitle")
        begin == Positions(s, "begin")
    IN  IF at # {} THEN SubSeq(s, 1, First(at) - 1) \o block \o SubSeq(s, First(at) + 1, Len(s))
        ELSE IF begin # {}
        THEN SubSeq(s, 1, First(begin)) \o block \o SubSeq(s, First(begin) + 1, Len(s))
        ELSE block \o s

Rewritten(s) ==
    LET title == Inner(s, "title")
        abstract == AbstractBody(s)
    IN  IF title = <<>> /\ abstract = {} THEN s
        ELSE Placed(StripAbstract(StripCommand(StripCommand(s, "title"), "author")),
                    TitleBlock(title, Inner(s, "author"), abstract))

-----------------------------------------------------------------------------
(* _unwrap_brace_swallowers.                                               *)

(* Broken variant: the text between the braces is not searched.            *)
Unwrapped_OneLayer(s) ==
    LET unwrap[lo \in 1 .. Len(s) + 1] ==
            LET at == {i \in Positions(s, "swallower") : lo <= i}
                close == Closing(s, First(at))
            IN  IF at = {} \/ close = 0 THEN SubSeq(s, lo, Len(s))
                ELSE SubSeq(s, lo, First(at) - 1) \o SubSeq(s, First(at) + 1, close - 1)
                     \o unwrap[close + 1]
    IN  unwrap[1]

(* The next command and its brace go with the matching brace, and what is  *)
(* between them is searched in the same way; from a command that is never  *)
(* closed on the text is left alone.                                       *)
Unwrapped(s) ==
    LET unwrap[span \in (1 .. Len(s) + 1) \X (0 .. Len(s))] ==
            LET lo == span[1]
                hi == span[2]
                at == {i \in Positions(s, "swallower") : lo <= i /\ i <= hi}
                close == Closing(s, First(at))
            IN  IF at = {} \/ close = 0 THEN SubSeq(s, lo, hi)
                ELSE SubSeq(s, lo, First(at) - 1) \o unwrap[<<First(at) + 1, close - 1>>]
                     \o unwrap[<<close + 1, hi>>]
    IN  unwrap[<<1, Len(s)>>]
=============================================================================
