---------------------------- MODULE DocxSections ----------------------------
(***************************************************************************)
(* The two readers of a policy document: the parser, which numbers its     *)
(* sections, and the exporter, which walks the same paragraphs again and   *)
(* writes each approved draft over the section with its number.  A         *)
(* document is the stream of paragraphs that iter_docx_blocks yields.      *)
(***************************************************************************)
EXTENDS Lists

CONSTANTS
    Kinds,          \* bound: <<heading level or 0, blank>> of the paragraphs
    MaxLength,      \* bound: paragraphs of a document
    MaxSections,    \* guard_parsed_sections
    Shapes          \* bound: drafts as sequences of 1, a line, and 0, a blank one

ASSUME DocxBounds ==
    /\ Kinds \subseteq (0..9) \X BOOLEAN
    /\ {MaxLength, MaxSections} \subseteq Nat
    /\ Shapes \subseteq Seq({0, 1})

VARIABLES
    phase,      \* "author", "parsed", "rejected", "export" or "exported"
    doc,        \* the paragraphs of the original
    sections,   \* what the parser stored of it
    drafts,     \* section number -> approved draft
    file,       \* the paragraphs of the open copy
    next        \* the section the exporter is at

vars == <<phase, doc, sections, drafts, file, next>>

Blank == <<>>
Body == 0               \* no heading level

(* Every text is its own: the paragraph it was written in, or the draft.    *)
Paragraph(id, level, text) == [id |-> id, level |-> level, text |-> text]
Written(k, blank) == IF blank THEN Blank ELSE <<"p", k, 0>>
Drafted(order, shape) ==
    [i \in DOMAIN shape |-> IF shape[i] = 0 THEN Blank ELSE <<"d", order, i>>]

-----------------------------------------------------------------------------
(* The parser.  Sections are numbered from 0, parents too; None is the      *)
(* parent of a section that has none.                                       *)

None == -1

Section(level, heading, parent) ==
    [level |-> level, heading |-> heading, parent |-> parent, lines |-> <<>>]

Flush(s) ==
    IF s.sections = <<>> THEN s.sections
    ELSE [s.sections EXCEPT ![Len(s.sections)].lines = s.body]

(* The open ancestors after those at or below the level are popped. *)
Popped_Deeper(ancestors, level) ==     \* mutant: a sibling stays open
    SubSeq(ancestors, 1, Max({0} \cup {k \in DOMAIN ancestors : ancestors[k].level <= level}))

Popped(ancestors, level) ==
    SubSeq(ancestors, 1, Max({0} \cup {k \in DOMAIN ancestors : ancestors[k].level < level}))

ParseBody(s, p) ==
    IF p.text = Blank THEN s
    ELSE IF s.sections = <<>>
    THEN [s EXCEPT !.sections = <<Section(0, Blank, None)>>, !.body = <<p.text>>]
    ELSE [s EXCEPT !.body = Append(@, p.text)]

ParseHeading(s, p) ==
    LET open   == Popped(s.ancestors, p.level)
        parent == IF open = <<>> THEN None ELSE Last(open).order
    IN  IF p.text = Blank THEN s
        ELSE [sections  |-> Append(Flush(s), Section(p.level, p.text, parent)),
              ancestors |-> Append(open, [level |-> p.level, order |-> Len(s.sections)]),
              body      |-> <<>>]

ParseParagraph(s, p) ==
    IF p.level = Body THEN ParseBody(s, p) ELSE ParseHeading(s, p)

(* What the parser has read after each paragraph. *)
Reading(paras) ==
    LET after[k \in 0..Len(paras)] ==
            IF k = 0 THEN [sections |-> <<>>, ancestors |-> <<>>, body |-> <<>>]
            ELSE ParseParagraph(after[k - 1], paras[k])
    IN  after

Parsed(paras) == Flush(Reading(paras)[Len(paras)])

-----------------------------------------------------------------------------
(* The exporter's walk: each section's heading and body paragraphs.         *)

WalkBody(s, p) ==
    IF s.headings = <<>> THEN [s EXCEPT !.preamble = Append(@, p.id)]
    ELSE [s EXCEPT !.headings[Len(s.headings)].body = Append(@, p.id)]

WalkHeading_CountsBlank(s, p) ==     \* mutant: spacing opens a section
    [s EXCEPT !.headings = Append(@, [anchor |-> p.id, body |-> <<>>])]

WalkHeading_SpacingIsBody(s, p) ==   \* mutant: spacing is a body paragraph
    IF p.text = Blank THEN WalkBody(s, p)
    ELSE [s EXCEPT !.headings = Append(@, [anchor |-> p.id, body |-> <<>>])]

WalkHeading(s, p) ==
    IF p.text = Blank THEN s
    ELSE [s EXCEPT !.headings = Append(@, [anchor |-> p.id, body |-> <<>>])]

WalkParagraph(s, p) ==
    IF p.level = Body THEN WalkBody(s, p) ELSE WalkHeading(s, p)

Walking(paras) ==
    LET after[k \in 0..Len(paras)] ==
            IF k = 0 THEN [preamble |-> <<>>, headings |-> <<>>]
            ELSE WalkParagraph(after[k - 1], paras[k])
    IN  after

Walked(paras) ==
    LET s == Walking(paras)[Len(paras)]
    IN  IF \E i \in DOMAIN s.preamble : paras[s.preamble[i]].text # Blank
        THEN <<[anchor |-> 0, body |-> s.preamble]>> \o s.headings
        ELSE s.headings

-----------------------------------------------------------------------------
(* The exporter's surgery. *)

Position(paras, id) == CHOOSE k \in DOMAIN paras : paras[k].id = id

Inserted(paras, id, lines) ==
    LET k   == Position(paras, id)
        new == [i \in DOMAIN lines |-> Paragraph(0, Body, lines[i])]
    IN  SubSeq(paras, 1, k) \o new \o SubSeq(paras, k + 1, Len(paras))

(* The body's own paragraphs take the first lines, or are left blank. *)
Reused_KeepsRest(paras, body, lines) ==     \* mutant: a shorter draft
    [k \in DOMAIN paras |->
        IF \E i \in DOMAIN body : body[i] = paras[k].id /\ i <= Len(lines)
        THEN [paras[k] EXCEPT !.text = lines[CHOOSE i \in DOMAIN body : body[i] = paras[k].id]]
        ELSE paras[k]]

Reused(paras, body, lines) ==
    [k \in DOMAIN paras |->
        IF paras[k].id \in Range(body)
        THEN LET i == CHOOSE i \in DOMAIN body : body[i] = paras[k].id
             IN  [paras[k] EXCEPT !.text = IF i <= Len(lines) THEN lines[i] ELSE Blank]
        ELSE paras[k]]

(* A section without body has a heading: a preamble is one for its text. *)
Replaced(paras, section, draft) ==
    LET lines == Select(draft, LAMBDA t : t # Blank)
        body  == section.body
    IN  IF body = <<>> THEN Inserted(paras, section.anchor, lines)
        ELSE Inserted(Reused(paras, body, lines), Last(body),
                      SubSeq(lines, Len(body) + 1, Len(lines)))

(* drafts_by_order: a draft of blank lines only is not exported. *)
Exported == {o \in DOMAIN drafts : \E i \in DOMAIN drafts[o] : drafts[o][i] # Blank}

-----------------------------------------------------------------------------
(* The program *)

Init ==
    /\ phase = "author"
    /\ doc = <<>>
    /\ sections = <<>>
    /\ drafts = <<>>
    /\ file = <<>>
    /\ next = 0

Author(level, blank) ==
    LET k == Len(doc) + 1 IN
    /\ phase = "author"
    /\ k <= MaxLength
    /\ doc' = Append(doc, Paragraph(k, level, Written(k, blank)))
    /\ UNCHANGED <<phase, sections, drafts, file, next>>

Parse ==
    /\ phase = "author"
    /\ IF Len(Parsed(doc)) <= MaxSections
       THEN phase' = "parsed" /\ sections' = Parsed(doc)
       ELSE phase' = "rejected" /\ UNCHANGED sections
    /\ UNCHANGED <<doc, drafts, file, next>>

(* Every section's draft is approved, in any shape; without drafts           *)
(* run_export_job refuses.                                                   *)
Review ==
    /\ phase = "parsed"
    /\ sections # <<>>
    /\ \E shape \in [0..Len(sections) - 1 -> Shapes] :
         drafts' = [o \in DOMAIN shape |-> Drafted(o, shape[o])]
    /\ phase' = "export"
    /\ file' = doc
    /\ next' = 0
    /\ UNCHANGED <<doc, sections>>

ReplaceNext ==
    /\ phase = "export"
    /\ next < Len(Walked(doc))
    /\ file' = IF next \in Exported
               THEN Replaced(file, Walked(doc)[next + 1], drafts[next])
               ELSE file
    /\ next' = next + 1
    /\ UNCHANGED <<phase, doc, sections, drafts>>

Save ==
    /\ phase = "export"
    /\ next = Len(Walked(doc))
    /\ phase' = "exported"
    /\ UNCHANGED <<doc, sections, drafts, file, next>>

Next ==
    \/ \E kind \in Kinds : Author(kind[1], kind[2])
    \/ Parse
    \/ Review
    \/ ReplaceNext
    \/ Save

Spec == Init /\ [][Next]_vars

-----------------------------------------------------------------------------
(* Properties *)

NonBlank(texts) == Select(texts, LAMBDA t : t # Blank)
TextsOf(paras) == [k \in DOMAIN paras |-> paras[k].text]

(* Every variable has its type; a section's parent comes before it. *)
TypeOK ==
    /\ phase \in {"author", "parsed", "rejected", "export", "exported"}
    /\ \A k \in DOMAIN doc : doc[k].id = k /\ doc[k].level \in Body..9
    /\ Len(sections) <= MaxSections
    /\ \A i \in DOMAIN sections :
         /\ sections[i].level \in 0..9
         /\ sections[i].parent \in None..i - 2
    /\ DOMAIN drafts \subseteq 0..Len(sections) - 1
    /\ \A k \in DOMAIN file : file[k].id = 0 => file[k].level = Body
    /\ next \in 0..Len(sections)

(* The exporter counts the sections as the parser numbered them, blank      *)
(* headings and preamble included: or drafts land in the wrong section.     *)
OrdersLineUp ==
    LET p == Parsed(doc)
        w == Walked(doc)
    IN  /\ Len(w) = Len(p)
        /\ \A i \in DOMAIN p :
             /\ p[i].heading = IF w[i].anchor = 0 THEN Blank ELSE doc[w[i].anchor].text
             /\ p[i].lines = NonBlank([j \in DOMAIN w[i].body |-> doc[w[i].body[j]].text])

(* No text of the document is lost or moved on its way into the sections:   *)
(* read in order they are the document without its blank paragraphs.        *)
NothingLost ==
    phase \in {"parsed", "export", "exported"} =>
        NonBlank(FlattenSeq([i \in DOMAIN sections |->
                                <<sections[i].heading>> \o sections[i].lines]))
            = NonBlank(TextsOf(doc))

(* A section's parent is the nearest heading before it of a smaller level:  *)
(* what the stack of ancestors computes when levels are skipped or reopened.*)
ParentEncloses ==
    \A i \in DOMAIN sections :
        LET above == {j \in 1..i - 1 : sections[j].level \in 1..sections[i].level - 1}
        IN  sections[i].parent = IF above = {} THEN None ELSE Max(above) - 1

(* The exported file, parsed like a new upload, has the same headings,      *)
(* levels and parents; every section reads as its draft, and a section      *)
(* whose draft is empty reads as the original.                              *)
ExportReadsBack ==
    phase = "exported" =>
        LET again == Parsed(file) IN
        /\ Len(again) = Len(sections)
        /\ \A i \in DOMAIN sections :
             LET draft == NonBlank(drafts[i - 1])
             IN  again[i] = IF draft = <<>> THEN sections[i]
                            ELSE [sections[i] EXCEPT !.lines = draft]

(* The surgery removes and reorders no paragraph of the original, and       *)
(* touches no heading, those used for spacing included: a table cell keeps  *)
(* the paragraph it must have.                                              *)
LayoutStays ==
    phase \in {"export", "exported"} =>
        LET kept == Select(file, LAMBDA p : p.id # 0) IN
        /\ [k \in DOMAIN kept |-> kept[k].id] = [k \in DOMAIN doc |-> k]
        /\ \A k \in DOMAIN kept : kept[k].level # Body => kept[k] = doc[k]
=============================================================================
