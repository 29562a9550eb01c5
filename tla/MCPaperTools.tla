----------------------------- MODULE MCPaperTools -----------------------------
(***************************************************************************)
(* PaperTools for TLC: the families of papers it is checked on.            *)
(***************************************************************************)
EXTENDS PaperTools

Word(w) == [is |-> "word", arg |-> <<w>>]
OwnWord(f) == [is |-> "word", arg |-> f]
Input(arg) == [is |-> "input", arg |-> arg]
Bibs(names) == [is |-> "bibliography", arg |-> names]
Bib == Bibs(<<"refs">>)
Percent == Item("percent")
Newline == Item("newline")
Close == Item("close")

Main == <<"main">>
MainText(body) == <<Item("documentclass"), Item("begin")>> \o body \o <<OwnWord(Main)>>

(* An archive with these texts and nothing special about it otherwise.     *)
Archive(texts, bbl) ==
    [kind |-> "archive", tex |-> DOMAIN texts \ Range(bbl), bbl |-> bbl, text |-> texts,
     figures |-> <<>>, pandoc |-> <<>>]

Simple == Archive(Main :> MainText(<<>>), <<>>)

-----------------------------------------------------------------------------
(* Directives: a main file with two, files that name each other from two   *)
(* directories, one of a name both directories have, a bibliography.       *)

A == <<"a">>
B == <<"sub", "b">>
C == <<"c">>
SubC == <<"sub", "c">>
Refs == <<"refs">>

InMain == {<<>>, <<Input(A)>>, <<Percent, Input(A), Newline>>, <<Input(B)>>,
           <<Input(<<"gone">>)>>, <<Bib>>, <<Item("bibliographystyle"), Bib>>}
InA == {<<>>, <<Input(Main)>>, <<Input(B)>>, <<Bib>>}
InB == {<<>>, <<Input(C)>>, <<Input(A)>>, <<Input(C), Item("includepdf")>>}
InSubC == {<<>>, <<Input(B)>>, <<Item("includepdf")>>}

Nested ==
    {Archive(
        Main :> MainText(m1 \o m2) @@ A :> <<OwnWord(A)>> \o a @@ B :> <<OwnWord(B)>> \o b
            @@ C :> <<OwnWord(C)>> @@ SubC :> <<OwnWord(SubC)>> \o c
            @@ Refs :> <<OwnWord(Refs)>> \o r,
        <<Refs>>) :
        m1 \in InMain, m2 \in InMain, a \in InA, b \in InB, c \in InSubC,
        r \in {<<>>, <<Input(A)>>}}

(* Two bibliographies, the second named, listed after one that is missing, *)
(* not named at all, or read as an input before.                           *)
Other == <<"sub", "other">>

ReadsBib == {<<>>, <<Input(Refs)>>, <<Bibs(<<"gone", "other", "refs">>)>>,
             <<Bibs(<<"refs", "other">>)>>, <<Bibs(<<"gone">>)>>}

Bibliographies ==
    {Archive(
        Main :> MainText(m1 \o m2) @@ Refs :> <<OwnWord(Refs)>> \o r
            @@ Other :> <<OwnWord(Other)>>,
        bbl) :
        m1 \in ReadsBib, m2 \in ReadsBib, r \in {<<>>, <<Input(Other)>>},
        bbl \in {<<Refs, Other>>, <<Other, Refs>>}}

(* Choice of the main file among two, and what is no archive of TeX.       *)
Supplement == <<"supplement">>

MainChoices ==
    {Archive(Main :> m @@ Supplement :> <<OwnWord(Supplement)>> \o s \o <<OwnWord(Supplement)>>, b) :
        m \in {MainText(<<>>), <<OwnWord(Main), Item("includepdf")>>},
        s \in {<<>>, <<Item("documentclass"), Item("includepdf")>>,
               <<Item("documentclass"), Item("begin")>>},
        b \in {<<>>, <<Supplement>>}}

Others == {[Simple EXCEPT !.kind = k] : k \in Payloads} \cup {[Simple EXCEPT !.tex = {}]}

-----------------------------------------------------------------------------
(* Title blocks, with what templates leave in comments, and swallowers.    *)

Group(is, inside) == <<Item(is)>> \o inside \o <<Close, Newline>>

Preamble ==
    {<<>>,
     <<Percent>> \o Group("title", <<Word("placeholder")>>),
     Group("title", <<Word("title")>>),
     Group("title", <<Word("title"), Percent, Word("note"), Newline, Word("subtitle")>>),
     Group("title", <<Item("percentsign"), Word("title")>>),
     Group("title", <<Word("title"), Item("includepdf")>>),
     Group("author", <<Word("author")>>),
     <<Percent>> \o Group("author", <<Word("nobody")>>),
     <<Item("redefined"), Newline>>}

Beginning ==
    {<<>>,
     <<Item("maketitle"), Newline>>,
     <<Percent, Item("maketitle"), Newline>>,
     <<Item("abstract"), Word("abstract"), Newline, Item("endabstract"), Newline>>,
     <<Percent, Item("abstract"), Newline>>}

Body ==
    {<<>>,
     <<Item("abstract"), Word("abstract"), Newline, Item("endabstract"), Newline>>,
     Group("swallower", <<Word("figure")>>),
     Group("swallower", Group("swallower", <<Word("table")>>) \o Group("open", <<Word("text")>>)),
     <<Item("swallower"), Word("open"), Newline>>}

Titled ==
    {Archive(Main :> <<Item("documentclass")>> \o p1 \o p2 \o p3 \o <<Item("begin")>> \o b1 \o b2
                        \o <<OwnWord(Main)>>, <<>>) :
        p1 \in Preamble, p2 \in Preamble,
        p3 \in {<<>>, Group("author", <<Word("author")>>)}, b1 \in Beginning, b2 \in Body}

-----------------------------------------------------------------------------
(* Figures of two directories, and pandoc's Markdown.                      *)

FigureFiles ==
    {[dir |-> "", name |-> <<"fig", "pdf">>], [dir |-> "", name |-> <<"fig", "png">>],
     [dir |-> "", name |-> <<"plot", "pdf">>], [dir |-> "sub", name |-> <<"plot", "jpg">>],
     [dir |-> "sub", name |-> <<"fig", "pdf">>], [dir |-> "", name |-> <<"chart", "v2", "pdf">>],
     [dir |-> "", name |-> <<"logo", "eps">>], [dir |-> "sub", name |-> <<"logo", "svg">>]}

WithFigures ==
    {[Simple EXCEPT !.figures = f] : f \in {g \in SeqOf(FigureFiles, 3) : IsInjective(g)}}

WithMarkdown ==
    {[Simple EXCEPT !.pandoc = [i \in 1 .. Len(l) |-> Line(l[i])]] :
        l \in SeqOf({"wrapper", "div", "close", "text"}, 5)
                \cup SeqOf({"wrapper", "row", "colon", "blank", "text"}, 4)}

MCFamilies == {Nested, Bibliographies, MainChoices, Others, Titled, WithFigures, WithMarkdown}

=============================================================================
