------------------------------ MODULE Whitepaper ------------------------------
(***************************************************************************)
(* The layout of whitepaper.pdf: generateWhitepaper puts the blocks of the *)
(* sections under each other, breaks pages before what does not fit and    *)
(* numbers the pages in footers.  Lengths are in units of 0.8 pt, which    *)
(* makes all of them integers.                                             *)
(***************************************************************************)
EXTENDS Naturals

CONSTANTS Height,    \* heights of figures
          Captions,  \* numbers of lines of captions
          Lines,     \* numbers of lines of paragraphs
          MaxPages   \* bound

VARIABLE w    \* the document being generated

\* pageHeight, margins, BODY_LINE_HEIGHT, HEADING_LINE_HEIGHT; the footer's line.
PageHeight == 990
Margin     == 75
Bottom     == PageHeight - Margin
Body       == 20
Heading    == 32
FooterLine == 933      \* 15 pt below Bottom, rounded down

TypeOK ==
  w \in [pages : 1 .. MaxPages + 3,         \* pages of doc
         pageNum : 1 .. MaxPages + 3,
         cursorY : Margin .. 2 * PageHeight,
         footer : [page : 0 .. MaxPages + 3, num : 0 .. MaxPages + 3],   \* the last one written
         lowest : Nat,                      \* lowest baseline or edge on the page, 0 without any
         blank : BOOLEAN,                   \* whether a page was left blank
         section : BOOLEAN, done : BOOLEAN]

-----------------------------------------------------------------------------

\* doc.addPage() and pageNum++
NewPage(d) ==
  [d EXCEPT !.pages = @ + 1, !.pageNum = @ + 1, !.cursorY = Margin, !.blank = @ \/ d.lowest = 0, !.lowest = 0]

AddPageFooter(d, number) == [d EXCEPT !.footer = [page |-> d.pages, num |-> number]]

\* Mutant: only the cursor is asked, not what is to come.
EnsureSpaceLate(d, needed) ==
  IF d.cursorY > Bottom THEN NewPage(AddPageFooter(d, d.pageNum)) ELSE d

\* ensureSpace
EnsureSpace(d, needed) ==
  IF d.cursorY + needed > Bottom THEN NewPage(AddPageFooter(d, d.pageNum)) ELSE d

\* Something is drawn down to y on the page, and the cursor moves on.
Put(d, y, advance) ==
  [d EXCEPT !.lowest = IF y > @ THEN y ELSE @, !.cursorY = @ + advance]

-----------------------------------------------------------------------------
\* Cover and table of contents; the contents begin on the third page.
Init == w = [pages |-> 3, pageNum |-> 3, cursorY |-> Margin, footer |-> [page |-> 0, num |-> 0],
             lowest |-> 0, blank |-> FALSE, section |-> FALSE, done |-> FALSE]

\* A section starts on a page of its own; the page before it gets no footer.
Section ==
  LET d == EnsureSpace(IF w.section THEN NewPage(w) ELSE w, 3 * Heading)
  IN  w' = Put([d EXCEPT !.section = TRUE], d.cursorY, (3 * Heading) \div 2)

\* A figure with its caption, whose lines are nine tenths of a body size high.
FigureBlock(height, caption) ==
  LET d == EnsureSpace(w, height + Body)
      e == Put(d, d.cursorY + height, height + Body \div 2)
  IN  w' = IF caption = 0 THEN e
           ELSE Put(e, e.cursorY + 13 * (caption - 1), caption * 16 + Body \div 2)

EmptyParagraph == w' = [w EXCEPT !.cursorY = @ + Body \div 2]

SubHeading == LET d == EnsureSpace(w, 2 * Body) IN w' = Put(d, d.cursorY, 28)

Paragraph(lines) ==
  LET d == EnsureSpace(w, lines * Body + Body)
  IN  w' = Put(d, d.cursorY + (lines - 1) * Body, lines * Body + 8)

\* The last page gets its footer, and the bytes are returned.
Output == w' = [AddPageFooter(w, w.pageNum) EXCEPT !.done = TRUE]

Next ==
  /\ ~w.done
  /\ \/ w.pages < MaxPages + 2 /\ Section
     \/ /\ w.section /\ w.pages < MaxPages + 2
        /\ \/ \E h \in Height, c \in Captions : FigureBlock(h, c)
           \/ EmptyParagraph /\ w.cursorY <= Bottom
           \/ SubHeading
           \/ \E l \in Lines : Paragraph(l)
     \/ w.section /\ Output

Spec == Init /\ [][Next]_w

-----------------------------------------------------------------------------
\* A footer carries the number of the page it is on, although the numbers are
\* counted apart from the pages and footers are written when a page is left.
FootersNumberPages == w.footer.page = w.footer.num

\* Nothing is drawn into the footer's line, also by captions, which are not asked
\* for when the space of their figure is.
AboveTheFooter == w.lowest < FooterLine

\* A page is left only with something on it: breaks before what does not fit never
\* come twice in a row, nor before the first block.
NoBlankPage == ~w.blank

-----------------------------------------------------------------------------
\* The inductive invariant: pageNum counts the pages, and before the first section the
\* page is empty.
PagesAreCounted ==
  /\ w.pages = w.pageNum
  /\ IF w.section THEN w.lowest > 0 ELSE w.cursorY = Margin /\ w.lowest = 0

IInv == TypeOK /\ PagesAreCounted /\ FootersNumberPages /\ AboveTheFooter /\ NoBlankPage
=============================================================================
