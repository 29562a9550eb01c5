------------------------------- MODULE Figures -------------------------------
(***************************************************************************)
(* The figures of a paper: the conversion of PDF files to PNG              *)
(* (backend/src/tools/image_convert.py), the ZIP (packaging.py) and the    *)
(* links of the Markdown (_to_renderable_image_path in tex_to_markdown.py).*)
(*                                                                         *)
(* A file is its directory and the parts of its name between the dots.  On *)
(* the disk it shows a figure, named by the file that came in the archive. *)
(***************************************************************************)
EXTENDS Naturals, Sequences, SequencesExt

VARIABLES
    archive,    \* input: _IMAGE_EXTENSIONS files of the archive, as listed
    disk,       \* what each file shows
    images,     \* the list convert_pdf_figures_to_png builds
    next,       \* the position of its loop; after the list it has returned
    failed      \* history: PDF files that were not converted

figureVars == <<archive, disk, images, next, failed>>

(* The figures an archive holds, before their conversion.                  *)
FiguresInit(listed) ==
    /\ archive = listed
    /\ disk = [f \in Range(listed) |-> f]
    /\ images = <<>>
    /\ next = 1
    /\ failed = {}

-----------------------------------------------------------------------------
(* Names, as pathlib has them.                                             *)

Suffix(name) == IF Len(name) > 1 THEN Last(name) ELSE ""
Stem(name) == IF Len(name) > 1 THEN Front(name) ELSE name
WithSuffix(name, ext) == Append(Stem(name), ext)

Converted == next > Len(archive)

source == archive[next]

-----------------------------------------------------------------------------
(* convert_pdf_figures_to_png.                                             *)

(* Without pdftoppm the list is returned as it is.                         *)
NoPoppler ==
    /\ ~Converted /\ next = 1
    /\ images' = archive
    /\ next' = Len(archive) + 1
    /\ failed' = {f \in Range(archive) : Suffix(f.name) = "pdf"}
    /\ UNCHANGED <<archive, disk>>

PassThrough ==
    /\ ~Converted
    /\ Suffix(source.name) # "pdf"
    /\ images' = Append(images, source)
    /\ next' = next + 1
    /\ UNCHANGED <<archive, disk, failed>>

(* pdftoppm exits with an error or exceeds 30 seconds.                     *)
ConvertFails ==
    /\ ~Converted
    /\ Suffix(source.name) = "pdf"
    /\ images' = Append(images, source)
    /\ next' = next + 1
    /\ failed' = failed \cup {source}
    /\ UNCHANGED <<archive, disk>>

(* pdftoppm adds .png to the name without .pdf; the code then looks for    *)
(* that name with what follows its last dot replaced.  Found, the PNG goes *)
(* to the list and the PDF is removed, unless that fails.                  *)
Convert ==
    LET out == Stem(source.name)
        written == [source EXCEPT !.name = Append(out, "png")]
        expected == [source EXCEPT !.name = WithSuffix(out, "png")]
        there == DOMAIN disk \cup {written}
        found == expected \in there
    IN
    /\ ~Converted
    /\ Suffix(source.name) = "pdf"
    /\ next' = next + 1
    /\ images' = Append(images, IF found THEN expected ELSE source)
    /\ \E kept \in {there} \cup (IF found THEN {there \ {source}} ELSE {}) :
            disk' = [f \in kept |-> IF f = written THEN disk[source] ELSE disk[f]]
    /\ UNCHANGED <<archive, failed>>

ConvertFigures == NoPoppler \/ PassThrough \/ ConvertFails \/ Convert

-----------------------------------------------------------------------------
(* create_zip_package.                                                     *)

(* The members under images/: the basename of each file that is there.     *)
ZipMembers ==
    {[name |-> f.name, shows |-> disk[f]] :
        f \in {images[i] : i \in 1 .. Len(images)} \cap DOMAIN disk}

-----------------------------------------------------------------------------
(* _to_renderable_image_path.                                              *)

(* Broken variant: the extension is left.                                  *)
Link_AsIs(ref) == IF Len(ref) > 1 THEN ref ELSE Append(ref, "png")

(* The name under images/ a reference is rewritten to; what follows its    *)
(* last dot counts as extension.                                           *)
Link(ref) ==
    IF Len(ref) = 1 THEN Append(ref, "png")
    ELSE IF Last(ref) \in {"pdf", "eps"} THEN Append(Front(ref), "png")
    ELSE ref

-----------------------------------------------------------------------------
(* Properties.                                                             *)

(* The references of a TeX source to a file: \includegraphics takes the    *)
(* name with its extension or without.                                     *)
References(f) == {f.name, Front(f.name)}

(* No other figure of the archive has the name of f up to the extension.   *)
HasOwnName(f) ==
    \A g \in Range(archive) \ {f} : Front(g.name) # Front(f.name)

(* The formats a figure can be shown from: as it is, or converted.         *)
IsConverted(f) == Suffix(f.name) = "pdf" /\ f \notin failed
IsRenderable(f) == Suffix(f.name) \notin {"pdf", "eps"}

(* The references whose link is not broken: of a converted PDF both, of    *)
(* what is shown as it is the one with the extension, and of a PNG the     *)
(* other too, for an extension left out is taken to be .png.               *)
Resolves(f, ref) ==
    IsConverted(f) \/ (IsRenderable(f) /\ (ref = f.name \/ Suffix(f.name) = "png"))

(* What a reader sees through a link.                                      *)
ShownBy(link) == {m.shows : m \in {z \in ZipMembers : z.name = link}}

(* A figure whose name no other shares up to the extension, and that has   *)
(* one dot, is in the ZIP in one format or the other, whatever failed; and *)
(* the link a reference to it is rewritten to shows it and nothing else,   *)
(* or, for the references that do not resolve, nothing at all: never       *)
(* another figure.  With a second dot the PNG is looked for under another  *)
(* name, and the basenames of two directories meet in images/.             *)
LinkShowsFigure ==
    Converted =>
        \A f \in Range(archive) :
            (HasOwnName(f) /\ Len(f.name) = 2) =>
                /\ \E m \in ZipMembers : m.shows = f
                /\ \A ref \in References(f) :
                    ShownBy(Link(ref)) = IF Resolves(f, ref) THEN {f} ELSE {}
=============================================================================
