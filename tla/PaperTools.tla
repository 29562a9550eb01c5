------------------------------ MODULE PaperTools ------------------------------
(***************************************************************************)
(* The deterministic stages of the pipeline on one paper: fetch_arxiv_paper*)
(* (the TeX source, then its figures) and tex_to_markdown.  Their results  *)
(* meet in the ZIP: the Markdown and the figures it links to.              *)
(***************************************************************************)
EXTENDS TexSource, Figures, MarkdownLines

ASSUME PaperConstants ==
    \A family \in Families : \A p \in family :
        /\ p.figures \in Seq([dir : STRING, name : Seq(STRING)])
        /\ IsInjective(p.figures)
        /\ \A i \in 1 .. Len(p.figures) : Len(p.figures[i].name) > 1
        /\ p.pandoc \in Seq({Line(is) : is \in LineKinds})

VARIABLES
    stage,      \* "fetch", "convert", "markdown" or "failed"
    tex,        \* the text given to pandoc
    markdown    \* the lines tex_to_markdown returns

vars == <<sourceVars, figureVars, stage, tex, markdown>>

Init ==
    /\ SourceInit
    /\ FiguresInit(paper.figures)
    /\ stage = "fetch"
    /\ tex = <<>>
    /\ markdown = <<>>

FetchSource ==
    /\ Fetch
    /\ UNCHANGED <<figureVars, stage, tex, markdown>>

(* fetch_arxiv_paper goes on to the figures.                               *)
FetchFigures ==
    /\ stage = "fetch" /\ outcome = "tex"
    /\ ConvertFigures
    /\ UNCHANGED <<sourceVars, stage, tex, markdown>>

(* fetch_arxiv_paper returns, or has raised.                               *)
Fetched ==
    /\ stage = "fetch"
    /\ \/ outcome = "tex" /\ Converted /\ stage' = "convert"
       \/ outcome \in {"pdf_only", "error"} /\ stage' = "failed"
    /\ UNCHANGED <<sourceVars, figureVars, tex, markdown>>

(* tex_to_markdown: pandoc answers with Markdown, and the passes follow.   *)
Convert2Markdown ==
    /\ stage = "convert"
    /\ stage' = "markdown"
    /\ tex' = Unwrapped(content)
    /\ markdown' = Passes(paper.pandoc)
    /\ UNCHANGED <<sourceVars, figureVars>>

(* It is not installed, rejects the text or exceeds its 120 seconds.       *)
PandocFails ==
    /\ stage = "convert"
    /\ stage' = "failed"
    /\ tex' = Unwrapped(content)
    /\ UNCHANGED <<sourceVars, figureVars, markdown>>

(* The paper is done with.                                                 *)
Done == stage \in {"markdown", "failed"} /\ UNCHANGED vars

Next == FetchSource \/ FetchFigures \/ Fetched \/ Convert2Markdown \/ PandocFails \/ Done

Spec == Init /\ [][Next]_vars

-----------------------------------------------------------------------------
(* Properties.                                                             *)

(* No word is lost to pandoc's reading of \centering{...} and its like:    *)
(* where every such command is closed, the text given to pandoc is the     *)
(* rewritten one without these commands and their closing braces, however  *)
(* deep they nest.                                                         *)
NothingIsSwallowed ==
    LET commands == Positions(content, "swallower")
        gone == commands \cup {Closing(content, i) : i \in commands}
    IN  (stage = "markdown" /\ \A i \in commands : Closing(content, i) # 0)
            => tex = At(content, 1 .. Len(content) \ gone)

(* The removal of the wrappers leaves every remaining </div> with a <div>  *)
(* to close, and takes exactly the wrappers and what closes them unless    *)
(* one wraps another <div>, which then loses its end to the wrapper.       *)
WrappersGoWhole ==
    (stage = "markdown" /\ Balanced(paper.pandoc)) =>
        LET stripped == [n \in 1 .. Len(markdown) |-> [markdown[n] EXCEPT !.number = 0]] IN
        /\ Balanced(stripped)
        /\ ~WrapsDiv(paper.pandoc) => stripped = WithoutWrappers(paper.pandoc)

(* The lines numbered as captions are those right below a table, wrapper   *)
(* tags aside, and they are numbered one by one.                           *)
CaptionsAreNumbered ==
    stage = "markdown" =>
        LET captions == Captions(markdown)
        IN  \A i \in 1 .. Len(markdown) :
                markdown[i].number =
                    IF i \in captions THEN Cardinality({j \in captions : j <= i}) ELSE 0
=============================================================================
