------------------------------ MODULE TexSource ------------------------------
(***************************************************************************)
(* From the e-print archive to one TeX text (backend/src/tools/arxiv.py):  *)
(* the download, the choice of the main file, and the expansion of         *)
(* \input, \include and \bibliography.                                     *)
(*                                                                         *)
(* A path is a sequence of names, and so is the argument of \input: with   *)
(* or without .tex, or with .bbl, it is the path of its file.  A .bbl file *)
(* has a path of its own, whose last name is that of the bibliography; the *)
(* argument of \bibliography is the sequence of the names it lists.  The   *)
(* recursion of _expand_inputs is a stack of calls.                        *)
(***************************************************************************)
EXTENDS TexText

CONSTANTS
    Families,       \* inputs: sets of papers, records of kind, tex, bbl, text and more
    MaxInputDepth   \* _MAX_INPUT_DEPTH

Payloads == {"pdf", "plain", "archive", "unreadable"}

(* What the archive of p holds, by path.                                   *)
FilesOf(p) == p.tex \cup Range(p.bbl)

(* A word that has the path of a file for its label stands in that file.   *)
ASSUME SourceConstants ==
    /\ MaxInputDepth \in Nat
    /\ \A family \in Families : \A p \in family :
        /\ p.kind \in Payloads
        /\ p.bbl \in Seq(Seq(STRING))
        /\ IsFiniteSet(p.tex)
        /\ Range(p.bbl) \cap p.tex = {}
        /\ p.kind = "plain" => p.tex # {}
        /\ \A f \in FilesOf(p) :
            /\ f \in Seq(STRING) \ {<<>>}
            /\ p.text[f] \in Seq(Items)
            /\ \A i \in Positions(p.text[f], "word") :
                    p.text[f][i].arg \in FilesOf(p) => p.text[f][i].arg = f

VARIABLES
    paper,      \* input: kind, .tex files, .bbl files as listed, their texts
    outcome,    \* "download", "choose", "expand", "tex", "pdf_only" or "error"
    main,       \* the main file
    stack,      \* the calls of _expand_inputs: what is left, what is done, base_dir
    seen,       \* files inlined so far
    cut,        \* history: the depth limit was met
    content     \* the text extract_source returns

sourceVars == <<paper, outcome, main, stack, seen, cut, content>>

SourceInit ==
    /\ \E family \in Families : paper \in family
    /\ outcome = "download"
    /\ main = <<>>
    /\ stack = <<>>
    /\ seen = {}
    /\ cut = FALSE
    /\ content = <<>>

-----------------------------------------------------------------------------
(* Download and choice of the main file.                                   *)

Has(f, is) == Positions(paper.text[f], is) # {}

(* download_arxiv_source, and what extract_source does before it chooses:  *)
(* a plain file is the result as it stands, what is no tar.gz raises.      *)
Download ==
    /\ outcome = "download"
    /\ outcome' = CASE paper.kind = "pdf" -> "pdf_only"
                    [] paper.kind = "plain" -> "tex"
                    [] paper.kind = "archive" /\ paper.tex # {} -> "choose"
                    [] OTHER -> "error"
    /\ \/ paper.kind = "plain" /\ \E f \in paper.tex : content' = paper.text[f]
       \/ paper.kind # "plain" /\ UNCHANGED content
    /\ UNCHANGED <<paper, main, stack, seen, cut>>

(* The files of the best class: documentclass and begin{document}, else    *)
(* documentclass, else all.                                                *)
Candidates ==
    LET class == {f \in paper.tex : Has(f, "documentclass")}
        both == {f \in class : Has(f, "begin")}
    IN  IF both # {} THEN both ELSE IF class # {} THEN class ELSE paper.tex

Call(text, base) == [left |-> text, done |-> <<>>, pass |-> "input", base |-> base]

Parent(f) == Front(f)

(* _find_main_tex_file takes the largest candidate, in the order of the    *)
(* directory listing; the expansion of its text begins.                    *)
ChooseMain ==
    /\ outcome = "choose"
    /\ \E f \in Candidates :
        /\ \A g \in Candidates : Len(paper.text[g]) <= Len(paper.text[f])
        /\ main' = f
        /\ stack' = <<Call(paper.text[f], Parent(f))>>
    /\ outcome' = "expand"
    /\ UNCHANGED <<paper, seen, cut, content>>

-----------------------------------------------------------------------------
(* _expand_inputs.                                                         *)

top == Last(stack)
item == Head(top.left)

(* _resolve: first from the directory of the file that is read, then from  *)
(* that of the main file.                                                  *)
Resolved(base, arg) ==
    IF base \o arg \in FilesOf(paper) THEN {base \o arg}
    ELSE {Parent(main) \o arg} \cap FilesOf(paper)

(* The first .bbl of the first name that has one, else the first of all,   *)
(* in the order the search of the main file's directory lists them.        *)
Bibliography(names) ==
    LET all == {i \in 1 .. Len(paper.bbl) : IsPrefix(Parent(main), paper.bbl[i])}
        there == {k \in 1 .. Len(names) : \E i \in all : Last(paper.bbl[i]) = names[k]}
        named == IF there = {} THEN all
                 ELSE {i \in all : Last(paper.bbl[i]) = names[First(there)]}
    IN  IF named = {} THEN {} ELSE {paper.bbl[First(named)]}

(* The file a directive read from base stands for, if there is one.        *)
Named(base, directive) ==
    IF directive.is = "input" THEN Resolved(base, directive.arg)
    ELSE Bibliography(directive.arg)

Targets == Named(top.base, item)

AtDirective == outcome = "expand" /\ top.left # <<>> /\ item.is = top.pass

SetTop(left, done) ==
    [stack EXCEPT ![Len(stack)] = [@ EXCEPT !.left = left, !.done = done]]

(* What stands before the next directive, in a comment or not, is kept.    *)
Keep ==
    /\ outcome = "expand" /\ top.left # <<>> /\ ~AtDirective
    /\ LET next == Positions(top.left, top.pass)
           kept == IF next = {} THEN Len(top.left) ELSE First(next) - 1
       IN  stack' = SetTop(SubSeq(top.left, kept + 1, Len(top.left)),
                           top.done \o SubSeq(top.left, 1, kept))
    /\ UNCHANGED <<paper, outcome, main, seen, cut, content>>

(* So is a directive that names no file.                                   *)
Unresolved ==
    /\ AtDirective
    /\ Targets = {}
    /\ stack' = SetTop(Tail(top.left), Append(top.done, item))
    /\ UNCHANGED <<paper, outcome, main, seen, cut, content>>

(* A file inlined before is dropped, in a cycle or not.                    *)
Drop ==
    /\ AtDirective
    /\ Targets # {} /\ Targets \subseteq seen
    /\ stack' = SetTop(Tail(top.left), top.done)
    /\ UNCHANGED <<paper, outcome, main, seen, cut, content>>

Heading ==
    IF item.is = "input" THEN <<>> ELSE <<Item("references"), Item("newline")>>

(* The recursive call; beyond the limit it returns the text as it is.      *)
InlineFile(f) ==
    IF Len(stack) <= MaxInputDepth
    THEN /\ stack' = Append(SetTop(Tail(top.left), top.done \o Heading),
                            Call(paper.text[f], Parent(f)))
         /\ UNCHANGED cut
    ELSE /\ stack' = SetTop(Tail(top.left), top.done \o Heading \o paper.text[f])
         /\ cut' = TRUE

(* Broken variant: nobody records what is inlined.                         *)
Inline_Forgets ==
    /\ AtDirective
    /\ \E f \in Targets \ seen : InlineFile(f)
    /\ UNCHANGED <<paper, outcome, main, seen, content>>

Inline ==
    /\ AtDirective
    /\ \E f \in Targets \ seen :
        /\ InlineFile(f)
        /\ seen' = seen \cup {f}
    /\ UNCHANGED <<paper, outcome, main, content>>

SecondPass ==
    /\ outcome = "expand" /\ top.left = <<>> /\ top.pass = "input"
    /\ LET text == At(top.done,
                       1 .. Len(top.done) \ Positions(top.done, "bibliographystyle"))
       IN  stack' = [stack EXCEPT ![Len(stack)] =
                        [@ EXCEPT !.left = text, !.done = <<>>, !.pass = "bibliography"]]
    /\ UNCHANGED <<paper, outcome, main, seen, cut, content>>

CallDone == outcome = "expand" /\ top.left = <<>> /\ top.pass = "bibliography"

(* The call returns to the one below it.                                   *)
Return ==
    /\ CallDone
    /\ Len(stack) > 1
    /\ LET below == Len(stack) - 1 IN
        stack' = [Front(stack) EXCEPT ![below].done = @ \o top.done]
    /\ UNCHANGED <<paper, outcome, main, seen, cut, content>>

(* Broken variant: only the main file is searched for includepdf.          *)
Finish_MainOnly ==
    /\ CallDone
    /\ Len(stack) = 1
    /\ content' = Rewritten(top.done)
    /\ outcome' = IF Has(main, "includepdf") THEN "pdf_only" ELSE "tex"
    /\ UNCHANGED <<paper, main, stack, seen, cut>>

(* extract_source: the title block is rewritten, and a text that embeds a  *)
(* PDF is no TeX source.                                                   *)
Finish ==
    /\ CallDone
    /\ Len(stack) = 1
    /\ content' = Rewritten(top.done)
    /\ outcome' = IF Positions(content', "includepdf") # {} THEN "pdf_only" ELSE "tex"
    /\ UNCHANGED <<paper, main, stack, seen, cut>>

Fetch ==
    \/ Download \/ ChooseMain
    \/ Keep \/ Unresolved \/ Drop \/ Inline \/ SecondPass \/ Return \/ Finish

-----------------------------------------------------------------------------
(* Properties.                                                             *)

Words(s, w) == {i \in Positions(s, "word") : s[i].arg = w}

(* The expanded text, once extract_source has taken it up.                 *)
Expanded == main # <<>> /\ outcome \in {"tex", "pdf_only"}

Files == FilesOf(paper)

(* The files the directives of f name.                                     *)
Names(f) ==
    UNION {Named(Parent(f), paper.text[f][i]) :
        i \in Positions(paper.text[f], "input") \cup Positions(paper.text[f], "bibliography")}

(* The main file, the files its directives name, and so on: the files in   *)
(* every set that holds the main file and what its members name.           *)
Document ==
    LET closed == {D \in SUBSET Files : main \in D /\ \A f \in D : Names(f) \subseteq D}
    IN  {f \in Files : \A D \in closed : f \in D}

(* The expanded text has the words of each file the document is made of    *)
(* once, and of no other: not less unless the depth limit was met.  Only   *)
(* the main file, which nobody records as seen, comes twice when one of    *)
(* its inputs names it again.                                              *)
EachFileOnce ==
    Expanded =>
        LET document == Document IN
        \A f \in Files :
            LET times == Cardinality(Words(top.done, f))
                once == Cardinality(Words(paper.text[f], f))
            IN  /\ (f \in document /\ ~cut) => times >= once
                /\ times <= once * (IF f \notin document THEN 0 ELSE IF f = main THEN 2 ELSE 1)

(* Whatever a file of the document holds, its directives aside, stands in  *)
(* it too: no pass and no return of a call loses an item, of whatever      *)
(* kind, unless the depth limit was met.                                   *)
NothingIsLost ==
    (Expanded /\ ~cut) =>
        \A f \in Document : \A d \in Range(paper.text[f]) :
            d.is \notin {"input", "bibliography", "bibliographystyle"} => d \in Range(top.done)

(* The expansion makes the document whole, through cycles, common inputs   *)
(* and the second pass: nothing doubled, lost or foreign.                  *)
DocumentIsWhole == EachFileOnce /\ NothingIsLost

InBody(s, i) == \A b \in Positions(s, "begin") : b < i

Marks == {"title", "author", "abstract", "endabstract", "begin", "maketitle"}

(* The positions of a mark that is not commented out.                      *)
Live(s, is) == {i \in Positions(s, is) : ~InComment(s, i)}

(* The parts of a title block, and where they end.                         *)
Parts(s) == UNION {Positions(s, is) : is \in {"title", "author", "abstract"}}

Ends(s, i) ==
    IF s[i].is = "abstract" THEN EndAfter(s, i) ELSE {Closing(s, i)} \ {0}

PartEnd(s, i) == First(Ends(s, i))

(* A part of a title block that ends, holds no mark of another, is         *)
(* commented out as a whole or not at all, and has no % sign in a title or *)
(* author.                                                                 *)
WholePart(s, i) ==
    /\ Ends(s, i) # {}
    /\ \A k \in i + 1 .. PartEnd(s, i) - 1 : s[k].is \notin Marks
    /\ IF InComment(s, i)
       THEN \A k \in i .. PartEnd(s, i) : s[k].is # "newline"
       ELSE /\ ~InComment(s, PartEnd(s, i))
            /\ s[i].is # "abstract" =>
                    \A k \in i .. PartEnd(s, i) : s[k].is # "percentsign"

(* The conditions under which the title block is taken up whole: at most   *)
(* one part of each kind outside comments, parts that are whole, abstracts *)
(* outside comments, and a title or abstract whenever there is an author.  *)
WholeBlock(s) ==
    /\ \A is \in {"title", "author", "abstract"} : Cardinality(Live(s, is)) <= 1
    /\ \A i \in Parts(s) : WholePart(s, i)
    /\ \A is \in {"abstract", "endabstract"} : Live(s, is) = Positions(s, is)
    /\ Live(s, "author") # {} => Inner(s, "title") # <<>> \/ AbstractBody(s) # {}

(* An archive whose text embeds a PDF outside comments is refused,         *)
(* wherever the command stands: what the rewriting of a whole title block  *)
(* takes away, it puts back.                                               *)
WrapperIsRefused ==
    (outcome = "tex" /\ paper.kind = "archive" /\ WholeBlock(top.done))
        => Live(top.done, "includepdf") = {}

(* It is put where it is rendered if there is one \begin{document} and     *)
(* neither that nor \maketitle, which follows it, stands in a comment.     *)
Regular(s) ==
    /\ WholeBlock(s)
    /\ Cardinality(Positions(s, "begin")) <= 1
    /\ \A is \in {"begin", "maketitle"} : Live(s, is) = Positions(s, is)
    /\ \A i \in Positions(s, "maketitle") : InBody(s, i)

(* In a command or environment that pandoc takes for metadata.             *)
InMetadata(s, i) ==
    \/ \E j \in Positions(s, "title") \cup Positions(s, "author") :
            ~InComment(s, j) /\ j < i /\ i < Closing(s, j)
    \/ \E j \in Positions(s, "abstract") : j < i /\ EndAfter(s, j) \cap 1 .. i = {}

(* What a reader of the paper sees, and what pandoc renders, which drops   *)
(* the preamble and the metadata.                                          *)
Meant(s) ==
    {i \in Positions(s, "word") : ~InComment(s, i) /\ (InMetadata(s, i) \/ InBody(s, i))}

Rendered(s) ==
    {i \in Positions(s, "word") : ~InComment(s, i) /\ ~InMetadata(s, i) /\ InBody(s, i)}

(* Every word a reader of a regular source sees is rendered, as often as   *)
(* it stands there: title, authors and abstract are put where pandoc       *)
(* renders them, the placeholders in comments are not, and no other word   *)
(* goes with them.                                                         *)
TextIsKept ==
    (Expanded /\ Regular(top.done)) =>
        LET meant == Meant(top.done)
            rendered == Rendered(content)
        IN  \A i \in Positions(top.done, "word") :
                Cardinality({k \in rendered : content[k].arg = top.done[i].arg}) =
                Cardinality({k \in meant : top.done[k].arg = top.done[i].arg})
=============================================================================
