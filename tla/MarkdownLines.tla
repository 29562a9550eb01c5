---------------------------- MODULE MarkdownLines ----------------------------
(***************************************************************************)
(* The passes of tex_to_markdown.py over the lines of pandoc's Markdown    *)
(* that keep a count: the removal of pandoc's <div> wrappers and the       *)
(* numbering of table captions.                                            *)
(*                                                                         *)
(* A line is one of the kinds the passes tell apart: the opening of a      *)
(* wrapper or of another <div>, a closing </div>, a row of a pipe table, a *)
(* line that begins with ": ", a blank line, or other text.  A caption is  *)
(* a line that begins with ": " and has its number.                        *)
(***************************************************************************)
EXTENDS Integers, Selections, Sequences

LineKinds == {"wrapper", "div", "close", "row", "colon", "blank", "text"}

Line(is) == [is |-> is, number |-> 0]

-----------------------------------------------------------------------------
(* The passes.                                                             *)

(* Broken variant: a closing tag goes when any wrapper was seen.           *)
DivStep_NoCount(r, line) ==
    IF line.is = "wrapper" THEN [r EXCEPT !.pending = @ + 1]
    ELSE IF line.is = "close" /\ r.pending > 0 THEN r
    ELSE [r EXCEPT !.out = Append(@, line)]

(* _strip_pandoc_div_wrappers, for one line: the next closing tags go, as  *)
(* many as there were wrappers.                                            *)
DivStep(r, line) ==
    IF line.is = "wrapper" THEN [r EXCEPT !.pending = @ + 1]
    ELSE IF line.is = "close" /\ r.pending > 0 THEN [r EXCEPT !.pending = @ - 1]
    ELSE [r EXCEPT !.out = Append(@, line)]

DivScan(lines) ==
    LET scan[n \in 0 .. Len(lines)] ==
            IF n = 0 THEN [out |-> <<>>, pending |-> 0] ELSE DivStep(scan[n - 1], lines[n])
    IN  scan

StripDivs(lines) == DivScan(lines)[Len(lines)].out

(* Broken variant: the row is not forgotten.                               *)
CaptionStep_AfterAnyRow(r, line) ==
    IF r.afterRow /\ line.is = "colon"
    THEN [out |-> Append(r.out, [line EXCEPT !.number = r.tables + 1]),
          afterRow |-> FALSE, tables |-> r.tables + 1]
    ELSE [r EXCEPT !.out = Append(@, line), !.afterRow = @ \/ line.is = "row"]

(* _convert_table_captions, for one line: the first line after the rows of *)
(* a table, blank ones aside, may be its caption.                          *)
CaptionStep(r, line) ==
    IF r.afterRow /\ line.is = "colon"
    THEN [out |-> Append(r.out, [line EXCEPT !.number = r.tables + 1]),
          afterRow |-> FALSE, tables |-> r.tables + 1]
    ELSE [r EXCEPT
            !.out = Append(@, line),
            !.afterRow = line.is = "row" \/ (@ /\ line.is = "blank")]

CaptionScan(lines) ==
    LET scan[n \in 0 .. Len(lines)] ==
            IF n = 0 THEN [out |-> <<>>, afterRow |-> FALSE, tables |-> 0]
            ELSE CaptionStep(scan[n - 1], lines[n])
    IN  scan

NumberCaptions(lines) == CaptionScan(lines)[Len(lines)].out

Passes(lines) == NumberCaptions(StripDivs(lines))

-----------------------------------------------------------------------------
(* What the passes promise.                                                *)

Opening(line) == line.is \in {"wrapper", "div"}

(* The tags still open before and at line i.                               *)
Depth(lines, i) ==
    Cardinality({j \in 1 .. i : Opening(lines[j])}) -
    Cardinality({j \in 1 .. i : lines[j].is = "close"})

(* Every </div> closes a <div>, and none is left open.                     *)
Balanced(lines) ==
    /\ Depth(lines, Len(lines)) = 0
    /\ \A i \in 1 .. Len(lines) :
            Cardinality({j \in 1 .. i : lines[j].is = "close"}) <=
            Cardinality({j \in 1 .. i : Opening(lines[j])})

(* The line that closes the <div> opened at i.                             *)
ClosedAt(lines, i) ==
    CHOOSE j \in i + 1 .. Len(lines) :
        /\ lines[j].is = "close"
        /\ Depth(lines, j) = Depth(lines, i) - 1
        /\ \A k \in i .. j - 1 : Depth(lines, k) >= Depth(lines, i)

Wrappers(lines) == {i \in 1 .. Len(lines) : lines[i].is = "wrapper"}

(* A wrapper around a <div> that is none.                                  *)
WrapsDiv(lines) ==
    \E i \in Wrappers(lines) : \E j \in i .. ClosedAt(lines, i) : lines[j].is = "div"

(* The lines without the wrappers and what closes them.                    *)
WithoutWrappers(lines) ==
    LET gone == Wrappers(lines) \cup {ClosedAt(lines, i) : i \in Wrappers(lines)}
    IN  At(lines, 1 .. Len(lines) \ gone)

(* The lines that are table captions: a row above, only blank lines in     *)
(* between.                                                                *)
Captions(lines) ==
    {i \in 1 .. Len(lines) :
        /\ lines[i].is = "colon"
        /\ \E j \in 1 .. i - 1 :
            lines[j].is = "row" /\ \A k \in j + 1 .. i - 1 : lines[k].is = "blank"}
=============================================================================
