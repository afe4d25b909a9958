------------------------------ MODULE SitesProofs ------------------------------
(***************************************************************************)
(* TLAPS proofs about what the sites show (MCApps): the answers of the     *)
(* Pages middlewares, the layout of the whitepaper for every choice of     *)
(* blocks, and the tour for every number of slides.                        *)
(***************************************************************************)
EXTENDS ServerProofs

(* What the assumptions say of the constants of the tour and the whitepaper. *)
LEMMA SitesConstants ==
  /\ Slides \in Nat /\ Slides >= 1 /\ PageBound \in Nat
  /\ \A h \in FigureHeights : h \in Nat /\ 1 <= h /\ h <= 820
  /\ \A c \in CaptionLines : c \in Nat /\ c <= 3
  /\ \A l \in ParagraphLines : l \in Nat /\ 1 <= l /\ l <= 41
BY AppsAssumption

-----------------------------------------------------------------------------
(***************************************************************************)
(* The middlewares of the sites.                                           *)
(***************************************************************************)
(* A path asked for keeps its dots, whatever prefix goes before it, and is not index.html. *)
LEMMA DotsOfPaths ==
  /\ SI!Asked.dots = req.dots /\ SI!Asked # SI!Index
  /\ SI!Rewrite(req.host, SI!Asked).dots = req.dots
  /\ SI!ExplorerPath.dots = req.dots
  /\ SI!TourFallback(SI!Asked).dots \in {req.dots, "extension"}
  /\ SI!PreviewFallback(SI!Asked).dots \in {req.dots, "extension"}
<1>1. SI!Asked.dots = req.dots
  BY DEF SI!Asked, SI!Path
<1>2. SI!Rewrite(req.host, SI!Asked).dots = req.dots
  BY DEF SI!Asked, SI!Path, SI!Rewrite
<1>3. SI!Index.dots = "extension" /\ SI!Index.name = "index" /\ SI!Asked.name = "asked"
  BY DEF SI!Index, SI!Asked, SI!Path
<1> QED BY <1>1, <1>2, <1>3 DEF SI!ExplorerPath, SI!TourFallback, SI!PreviewFallback

(* Before an answer nothing was served. *)
LEMMA SitesInit == SI!Init => SI!IInv
BY DEF SI!Init, SI!IInv, SI!TypeOK

(* What a middleware serves follows from the request. *)
LEMMA SitesStep == SI!IInv /\ [SI!Next]_si => SI!IInv'
<1> SUFFICES ASSUME SI!IInv, [SI!Next]_si PROVE SI!IInv'
  OBVIOUS
<1>0. ASSUME req' = req PROVE SI!Served' = SI!Served /\ SI!Lookup(SI!Served)' = SI!Lookup(SI!Served)
  BY <1>0 DEF SI!Served, SI!Rewrite, SI!Asked, SI!Path, SI!ExplorerPath, SI!TourFallback, SI!PreviewFallback,
     SI!Index, SI!IsFile, SI!Lookup
<1>1. CASE UNCHANGED si
  <2>1. req' = req /\ served' = served /\ status' = status
    BY <1>1 DEF si
  <2> QED BY <1>0, <2>1 DEF SI!IInv, SI!TypeOK
<1>2. CASE SI!Next
  <2>1. req' = req
    BY <1>2 DEF SI!Next
  <2>2. CASE req.site = "preview" /\ req.malformed
    <3>1. served' = SI!NoPath /\ status' = 500
      BY <1>2, <2>2 DEF SI!Next, SI!Bridge, SI!Explorer, SI!Tour, SI!Preview
    <3> QED BY <2>1, <2>2, <3>1 DEF SI!IInv, SI!TypeOK
  <2>3. CASE ~(req.site = "preview" /\ req.malformed)
    <3>1. served' = SI!Served /\ status' = SI!Lookup(served') /\ req.site \in {"bridge", "explorer", "tour", "preview"}
      BY <1>2, <2>3 DEF SI!Next, SI!Bridge, SI!Explorer, SI!Tour, SI!Preview, SI!Served
    <3>2. SI!Served.dots \in SI!Dots
      <4>1. req.dots \in SI!Dots /\ "extension" \in SI!Dots
        BY DEF SI!IInv, SI!TypeOK, SI!Request, SI!Dots
      <4> QED BY <3>1, <4>1, DotsOfPaths DEF SI!Served
    <3>3. status' = SI!Lookup(SI!Served) /\ status' \in {200, 404}
      BY <1>0, <2>1, <3>1 DEF SI!Lookup
    <3>4. SI!TypeOK'
      BY <2>1, <3>1, <3>2, <3>3 DEF SI!IInv, SI!TypeOK
    <3> QED BY <1>0, <2>1, <2>3, <3>1, <3>3, <3>4 DEF SI!IInv
  <2> QED BY <2>2, <2>3
<1> QED BY <1>1, <1>2

(* A path is rewritten to one that has the prefix of the subdomain's network once. *)
LEMMA RewrittenOnce ==
  ASSUME req \in SI!Request,
         req.host # "none", NEW q, q = SI!Rewrite(req.host, SI!Asked).prefixes
  PROVE  q[1] = req.host /\ \A i \in 2 .. Len(q) : q[i] # req.host
<1>1. PICK h : h = req.host
  OBVIOUS
<1>2. PICK a : a = SI!Asked.prefixes
  OBVIOUS
<1>3. a = IF req.prefix = "none" THEN <<>> ELSE <<req.prefix>>
  BY <1>2 DEF SI!Asked, SI!Path
<1>4. q = IF a # <<>> /\ a[1] = h THEN a ELSE <<h>> \o a
  BY <1>1, <1>2 DEF SI!Rewrite, SI!Asked, SI!Path
<1>5. req.prefix \in SI!Prefix /\ h \in SI!Prefix
  BY <1>1 DEF SI!Request
<1>6. CASE a # <<>> /\ a[1] = h
  <2>1. q = a /\ a = <<req.prefix>>
    BY <1>3, <1>4, <1>6
  <2>2. Len(q) = 1 /\ q[1] = h
    BY <1>6, <2>1
  <2> QED BY <1>1, <2>2
<1>7. CASE ~(a # <<>> /\ a[1] = h)
  <2>1. q = <<h>> \o a
    BY <1>4, <1>7
  <2>2. a \in Seq(SI!Prefix) /\ Len(a) \in Nat /\ \A i \in 1 .. Len(a) : a[i] # h
    <3>1. CASE req.prefix = "none"
      <4>1. a = <<>>
        BY <1>3, <3>1
      <4> QED BY <4>1, EmptySeq
    <3>2. CASE req.prefix # "none"
      <4>1. a = <<req.prefix>>
        BY <1>3, <3>2
      <4>2. a \in Seq(SI!Prefix) /\ Len(a) = 1 /\ a[1] # h
        BY <1>5, <1>7, <4>1
      <4> QED BY <4>2
    <3> QED BY <3>1, <3>2
  <2>3. Len(q) = Len(a) + 1 /\ q[1] = h /\ \A i \in 1 .. Len(a) : q[i + 1] = a[i]
    BY <1>5, <2>1, <2>2, SegmentBefore
  <2>4. ASSUME NEW i \in 2 .. Len(q) PROVE q[i] # h
    <3>1. i - 1 \in 1 .. Len(a) /\ (i - 1) + 1 = i
      BY <2>2, <2>3
    <3>2. PICK j \in 1 .. Len(a) : j + 1 = i
      BY <3>1
    <3>3. q[j + 1] = a[j] /\ a[j] # h
      BY <2>2, <2>3
    <3> QED BY <3>2, <3>3
  <2> QED BY <1>1, <2>3, <2>4
<1> QED BY <1>6, <1>7

(* The middlewares prefix a path once, leave assets alone and load deep links, as the preview does. *)
LEMMA SitesAnswer == SI!IInv => SI!PrefixedOnce /\ SI!AssetsAreShared /\ SI!DeepLinkLoads /\ SI!PreviewShowsWhatShips
<1> SUFFICES ASSUME SI!IInv PROVE SI!PrefixedOnce /\ SI!AssetsAreShared /\ SI!DeepLinkLoads /\ SI!PreviewShowsWhatShips
  OBVIOUS
<1>1. SI!PrefixedOnce
  <2> SUFFICES ASSUME status # 0, req.host # "none", req.site = "bridge" \/ (req.site = "explorer" /\ req.dots = "none")
               PROVE  /\ served.prefixes[1] = req.host
                      /\ \A i \in 2 .. Len(served.prefixes) : served.prefixes[i] # req.host
    BY DEF SI!PrefixedOnce
  <2>1. served = SI!Rewrite(req.host, SI!Asked)
    BY DEF SI!IInv, SI!Served, SI!ExplorerPath
  <2> QED BY <2>1, RewrittenOnce DEF SI!IInv, SI!TypeOK
<1>2. SI!AssetsAreShared
  BY DEF SI!IInv, SI!Served, SI!ExplorerPath, SI!AssetsAreShared
<1>3. SI!DeepLinkLoads
  <2>1. ASSUME status # 0, req.dots = "none", req.site \in {"tour", "preview"}, ~(req.site = "preview" /\ req.malformed)
        PROVE  status = 200
    BY <2>1, DotsOfPaths DEF SI!IInv, SI!Served, SI!TourFallback, SI!PreviewFallback, SI!Lookup, SI!IsFile
  <2> QED BY <2>1 DEF SI!DeepLinkLoads, SI!IInv
<1>4. SI!PreviewShowsWhatShips
  BY DotsOfPaths DEF SI!PreviewShowsWhatShips, SI!TourFallback, SI!PreviewFallback, SI!Lookup, SI!IsFile
<1> QED BY <1>1, <1>2, <1>3, <1>4

-----------------------------------------------------------------------------
(***************************************************************************)
(* The whitepaper.                                                         *)
(***************************************************************************)
(* The documents; lengths with their values. *)
Pages    == 1 .. PageBound + 3
Cursors  == 75 .. 1980
Footers  == [page : 0 .. PageBound + 3, num : 0 .. PageBound + 3]
Depths   == Nat
Docs     == [pages : Pages, pageNum : Pages, cursorY : Cursors, footer : Footers, lowest : Depths,
             blank : BOOLEAN, section : BOOLEAN, done : BOOLEAN]

(* The document is one of them. *)
LEMMA PaperIsADoc == WP!TypeOK <=> paper \in Docs
BY SitesConstants DEF WP!TypeOK, Docs, Pages, Cursors, Footers, Depths, WP!Margin, WP!PageHeight

(* The parts of the invariant of a document. *)
Laid(d) ==
  /\ d.pages = d.pageNum /\ d.footer.page = d.footer.num
  /\ d.lowest < 933 /\ d.blank = FALSE

(* The inductive invariant, as one of the document. *)
LEMMA PaperInvariant ==
  WP!IInv <=> /\ paper \in Docs /\ Laid(paper)
              /\ IF paper.section THEN paper.lowest > 0 ELSE paper.cursorY = 75 /\ paper.lowest = 0
<1>1. paper \in Docs => paper.blank \in BOOLEAN
  BY DEF Docs
<1> QED BY <1>1, PaperIsADoc DEF WP!IInv, WP!PagesAreCounted, WP!FootersNumberPages, WP!AboveTheFooter,
           WP!NoBlankPage, WP!FooterLine, Laid, WP!Margin

\* The ten units an empty paragraph takes keep the cursor in its range.
LEMMA CursorBelow ==
  ASSUME NEW x \in Nat, 75 <= x, x <= 915
  PROVE  x + 10 \in Cursors
BY DEF Cursors

(* The fields of a document. *)
LEMMA DocFields ==
  ASSUME NEW d \in Docs
  PROVE  /\ d.pages \in Nat /\ 1 <= d.pages /\ d.pages <= PageBound + 3
         /\ d.pageNum \in Nat /\ 1 <= d.pageNum /\ d.pageNum <= PageBound + 3
         /\ d.cursorY \in Nat /\ 75 <= d.cursorY /\ d.cursorY <= 1980
         /\ d.lowest \in Nat /\ PageBound \in Nat
<1>1. d.pages \in Pages /\ d.pageNum \in Pages /\ d.cursorY \in Cursors /\ d.lowest \in Depths
  BY DEF Docs
<1>2. PageBound \in Nat
  BY SitesConstants
<1>3. d.pages \in Nat /\ 1 <= d.pages /\ d.pages <= PageBound + 3
  BY <1>1, <1>2 DEF Pages
<1>4. d.pageNum \in Nat /\ 1 <= d.pageNum /\ d.pageNum <= PageBound + 3
  BY <1>1, <1>2 DEF Pages
<1>5. d.cursorY \in Nat /\ 75 <= d.cursorY /\ d.cursorY <= 1980
  <2>1. PICK c \in Cursors : c = d.cursorY
    BY <1>1
  <2>2. c \in Nat /\ 75 <= c /\ c <= 1980
    BY DEF Cursors
  <2> QED BY <2>1, <2>2
<1> QED BY <1>1, <1>2, <1>3, <1>4, <1>5 DEF Depths

(* A page that has something on it is left for a new one. *)
LEMMA PageBreak ==
  ASSUME NEW d \in Docs, Laid(d), d.lowest > 0, d.pages < PageBound + 2, NEW r, r = WP!NewPage(d)
  PROVE  r \in Docs /\ Laid(r) /\ r.cursorY = 75 /\ r.lowest = 0 /\ r.section = d.section /\ r.done = d.done
<1>1. PICK p \in Pages : p = d.pages + 1
  <2>1. d.pages + 1 \in Pages
    BY DocFields DEF Pages
  <2> QED BY <2>1
<1>2. d.pageNum + 1 = p
  BY <1>1 DEF Laid
<1>3. PICK c, l, b : c = 75 /\ l = 0 /\ b = (d.blank \/ d.lowest = 0)
  OBVIOUS
<1>4. c \in Cursors /\ l \in Depths /\ b = FALSE /\ l < 933
  <2>1. d.lowest # 0 /\ d.blank = FALSE
    BY DocFields DEF Laid
  <2>2. b = FALSE
    BY <1>3, <2>1, Zenon
  <2> QED BY <1>3, <2>2 DEF Cursors, Depths
<1>5. r = [d EXCEPT !.pages = p, !.pageNum = p, !.cursorY = c, !.blank = b, !.lowest = l]
  BY <1>1, <1>2, <1>3 DEF WP!NewPage, WP!Margin
<1>6. r \in Docs
  <2>1. p \in Pages /\ c \in Cursors /\ l \in Depths /\ b \in BOOLEAN
    BY <1>4
  <2> QED BY <1>5, <2>1, ZenonT(60) DEF Docs
<1>7. r.cursorY = c /\ r.lowest = l /\ r.section = d.section /\ r.done = d.done
  BY <1>5 DEF Docs
<1>8. r.pages = p /\ r.pageNum = p /\ r.footer = d.footer /\ r.blank = b
  BY <1>5 DEF Docs
<1>9. Laid(r)
  BY <1>4, <1>7, <1>8 DEF Laid
<1> QED BY <1>3, <1>6, <1>7, <1>9

(* There are pages left; a block has room on the page; the page is fresh or has something on it; *)
(* the heights of blocks. *)
HasPages(d)   == d.pages < PageBound + 2
Fits(d, n)    == d.cursorY + n <= 915
Used(d)       == d.lowest > 0 \/ d.cursorY = 75
BlockHeights  == 0 .. 840

(* ensureSpace: what is asked for fits on the page the document is on afterwards. *)
LEMMA SpaceIsEnsured ==
  ASSUME NEW d \in Docs, Laid(d), NEW needed \in BlockHeights, HasPages(d), Used(d)
  PROVE  /\ WP!EnsureSpace(d, needed) \in Docs /\ Laid(WP!EnsureSpace(d, needed))
         /\ Fits(WP!EnsureSpace(d, needed), needed)
         /\ WP!EnsureSpace(d, needed).section = d.section /\ WP!EnsureSpace(d, needed).done = d.done
<1> DEFINE r == WP!EnsureSpace(d, needed)
<1>0. needed \in Nat /\ needed <= 840 /\ d.pages < PageBound + 2 /\ (d.lowest > 0 \/ d.cursorY = 75)
  BY DEF BlockHeights, HasPages, Used
<1>1. CASE d.cursorY + needed > 915
  <2>1. PICK g \in Footers : g = [page |-> d.pages, num |-> d.pageNum]
    <3>1. [page |-> d.pages, num |-> d.pageNum] \in Footers
      BY DocFields DEF Footers
    <3> QED BY <3>1
  <2>2. PICK f : f = [d EXCEPT !.footer = g]
    OBVIOUS
  <2>3. f \in Docs /\ f.pages = d.pages /\ f.lowest = d.lowest /\ f.section = d.section /\ f.done = d.done
    BY <2>2 DEF Docs
  <2>4. f.pageNum = d.pageNum /\ f.blank = d.blank /\ f.footer = g
    BY <2>2 DEF Docs
  <2>5. g.page = g.num
    BY <2>1 DEF Laid
  <2>6. Laid(f)
    BY <2>3, <2>4, <2>5 DEF Laid
  <2>7. r = WP!NewPage(f)
    BY <1>1, <2>1, <2>2 DEF WP!EnsureSpace, WP!AddPageFooter, WP!Bottom, WP!PageHeight, WP!Margin
  <2>8. f.lowest > 0 /\ f.pages < PageBound + 2
    BY <1>0, <1>1, <2>3, DocFields
  <2>9. r \in Docs /\ Laid(r) /\ r.cursorY = 75 /\ r.section = f.section /\ r.done = f.done
    BY <2>3, <2>6, <2>7, <2>8, PageBreak
  <2>10. 75 + needed <= 915
    BY <1>0
  <2> QED BY <2>3, <2>9, <2>10 DEF Fits
<1>2. CASE ~(d.cursorY + needed > 915)
  <2>1. r = d
    BY <1>2 DEF WP!EnsureSpace, WP!Bottom, WP!PageHeight, WP!Margin
  <2>2. d.cursorY + needed <= 915
    BY <1>0, <1>2, DocFields
  <2> QED BY <2>1, <2>2 DEF Fits
<1> QED BY <1>1, <1>2

(* A document with another depth and cursor. *)
Moved(d, l, c) == [d EXCEPT !.lowest = l, !.cursorY = c]

(* The rest of it is the same. *)
LEMMA DocMoved ==
  ASSUME NEW d \in Docs, NEW l \in Depths, NEW c \in Cursors, NEW r, r = Moved(d, l, c)
  PROVE  /\ r \in Docs /\ r.lowest = l /\ r.cursorY = c /\ r.section = d.section /\ r.done = d.done
         /\ r.pages = d.pages /\ r.pageNum = d.pageNum /\ r.footer = d.footer /\ r.blank = d.blank
<1>1. r \in Docs
  BY DEF Docs, Moved
<1>2. r.lowest = l /\ r.cursorY = c /\ r.section = d.section /\ r.done = d.done
  BY DEF Docs, Moved
<1>3. r.pages = d.pages /\ r.pageNum = d.pageNum /\ r.footer = d.footer /\ r.blank = d.blank
  BY DEF Docs, Moved
<1> QED BY <1>1, <1>2, <1>3

(* Something is drawn above the footer. *)
LEMMA DrawnAbove ==
  ASSUME NEW d \in Docs, Laid(d), NEW y \in Nat, 0 < y, y < 933, NEW advance \in Nat, d.cursorY + advance <= 1980,
         NEW r, r = WP!Put(d, y, advance)
  PROVE  /\ r \in Docs /\ Laid(r) /\ r.lowest > 0 /\ r.section = d.section /\ r.done = d.done
         /\ r.cursorY = d.cursorY + advance
<1>1. PICK l : l = IF y > d.lowest THEN y ELSE d.lowest
  OBVIOUS
<1>2. l \in Depths /\ l > 0 /\ l < 933
  <2>1. PICK m \in Nat : m = d.lowest
    BY DocFields
  <2>2. m < 933
    BY <2>1 DEF Laid
  <2>3. l = IF y > m THEN y ELSE m
    BY <1>1, <2>1
  <2> QED BY <2>2, <2>3 DEF Depths
<1>3. PICK c \in Cursors : c = d.cursorY + advance
  <2>1. PICK x \in Nat : x = d.cursorY
    BY DocFields
  <2>2. 75 <= x /\ x + advance <= 1980
    BY <2>1, DocFields
  <2>3. x + advance \in Nat /\ 75 <= x + advance
    BY <2>2
  <2>4. x + advance \in Cursors
    BY <2>2, <2>3 DEF Cursors
  <2> QED BY <2>1, <2>4
<1>4. r = Moved(d, l, c)
  <2>1. r = [d EXCEPT !.lowest = IF y > d.lowest THEN y ELSE d.lowest, !.cursorY = d.cursorY + advance]
    BY DEF WP!Put
  <2> QED BY <1>1, <1>3, <2>1 DEF Moved
<1>5. /\ r \in Docs /\ r.lowest = l /\ r.cursorY = c /\ r.section = d.section /\ r.done = d.done
      /\ r.pages = d.pages /\ r.pageNum = d.pageNum /\ r.footer = d.footer /\ r.blank = d.blank
  <2>1. l \in Depths
    BY <1>2
  <2> QED BY <1>4, <2>1, DocMoved
<1>6. Laid(r)
  BY <1>2, <1>5 DEF Laid
<1> QED BY <1>2, <1>3, <1>5, <1>6

(* After the cover and the table of contents. *)
LEMMA PaperInit == WP!Init => WP!IInv
<1> SUFFICES ASSUME WP!Init PROVE WP!IInv
  OBVIOUS
<1>1. PICK p, c, g, l : p = 3 /\ c = 75 /\ g = [page |-> 0, num |-> 0] /\ l = 0
  OBVIOUS
<1>2. p \in Pages /\ c \in Cursors /\ g \in Footers /\ l \in Depths /\ l < 933 /\ g.page = g.num
  BY <1>1, SitesConstants DEF Pages, Cursors, Footers, Depths
<1>3. paper = [pages |-> p, pageNum |-> p, cursorY |-> c, footer |-> g, lowest |-> l, blank |-> FALSE,
               section |-> FALSE, done |-> FALSE]
  BY <1>1 DEF WP!Init, WP!Margin
<1>4. paper \in Docs
  BY <1>2, <1>3 DEF Docs
<1>5. Laid(paper) /\ paper.section = FALSE /\ paper.cursorY = c /\ paper.lowest = l
  BY <1>2, <1>3 DEF Laid
<1> QED BY <1>1, <1>4, <1>5, PaperInvariant

(* The inductive invariant after a block. *)
LEMMA PaperAfter ==
  ASSUME NEW d, d = paper', d \in Docs, Laid(d), d.section = TRUE, d.lowest > 0
  PROVE  WP!IInv'
<1>1. WP!TypeOK'
  BY SitesConstants DEF WP!TypeOK, Docs, Pages, Cursors, Footers, Depths, WP!Margin, WP!PageHeight
<1>2. WP!NoBlankPage'
  BY DEF Laid, WP!NoBlankPage
<1>3. WP!PagesAreCounted' /\ WP!FootersNumberPages' /\ WP!AboveTheFooter'
  BY DEF WP!PagesAreCounted, WP!FootersNumberPages, WP!AboveTheFooter, WP!FooterLine, Laid, WP!Margin
<1> QED BY <1>1, <1>2, <1>3 DEF WP!IInv

(* Every block keeps the invariant: ensureSpace has asked for what is drawn, and a caption is not *)
(* longer than the room between the bottom margin and the footer. *)
LEMMA PaperStep == WP!IInv /\ [WP!Next]_paper => WP!IInv'
<1> SUFFICES ASSUME WP!IInv, [WP!Next]_paper PROVE WP!IInv'
  OBVIOUS
<1>0. PICK d : d = paper
  OBVIOUS
<1>1. d \in Docs /\ Laid(d) /\ d.section \in BOOLEAN /\ (d.section => d.lowest > 0) /\ (~d.section => d.cursorY = 75)
  <2>1. d \in Docs /\ Laid(d) /\ IF d.section THEN d.lowest > 0 ELSE d.cursorY = 75 /\ d.lowest = 0
    BY <1>0, PaperInvariant
  <2> QED BY <2>1 DEF Docs
<1>2. PICK e : e = paper'
  OBVIOUS
<1>space. ASSUME NEW n \in BlockHeights, HasPages(d)
          PROVE  /\ WP!EnsureSpace(d, n) \in Docs /\ Laid(WP!EnsureSpace(d, n)) /\ Fits(WP!EnsureSpace(d, n), n)
                 /\ WP!EnsureSpace(d, n).section = d.section
  <2>1. d \in Docs /\ Laid(d)
    BY <1>1
  <2>2. Used(d)
    BY <1>1 DEF Used
  <2> QED BY <1>space, <2>1, <2>2, SpaceIsEnsured
<1>3. ASSUME HasPages(d), WP!Section PROVE WP!IInv'
  <2>1. PICK a : a = IF d.section THEN WP!NewPage(d) ELSE d
    OBVIOUS
  <2>2. a \in Docs /\ Laid(a) /\ a.cursorY = 75
    <3>1. CASE d.section
      BY <1>1, <1>3, <2>1, <3>1, PageBreak DEF HasPages
    <3>2. CASE ~d.section
      BY <1>1, <2>1, <3>2
    <3> QED BY <3>1, <3>2
  <2>3. WP!EnsureSpace(a, 96) = a
    BY <2>2 DEF WP!EnsureSpace, WP!Bottom, WP!PageHeight, WP!Margin
  <2>4. PICK b : b = [a EXCEPT !.section = TRUE]
    OBVIOUS
  <2>5. b \in Docs /\ b.section = TRUE /\ b.cursorY = a.cursorY
    BY <2>2, <2>4 DEF Docs
  <2>6. b.pages = a.pages /\ b.pageNum = a.pageNum /\ b.footer = a.footer /\ b.lowest = a.lowest /\ b.blank = a.blank
    BY <2>2, <2>4 DEF Docs
  <2>7. Laid(b)
    BY <2>2, <2>6 DEF Laid
  <2>8. 3 * WP!Heading = 96 /\ (3 * WP!Heading) \div 2 = 48
    BY DEF WP!Heading
  <2>9. e = WP!Put(b, 75, 48)
    BY <1>0, <1>2, <1>3, <2>1, <2>2, <2>3, <2>4, <2>8 DEF WP!Section
  <2>10. e \in Docs /\ Laid(e) /\ e.lowest > 0 /\ e.section = b.section
    BY <2>2, <2>5, <2>7, <2>9, DrawnAbove
  <2> QED BY <1>2, <2>5, <2>10, PaperAfter
<1>4. ASSUME d.section, HasPages(d), NEW h \in FigureHeights, NEW c \in CaptionLines, WP!FigureBlock(h, c)
      PROVE  WP!IInv'
  <2>0. h \in Nat /\ 1 <= h /\ h <= 820 /\ c \in Nat /\ c <= 3 /\ h + 20 \in Nat /\ h + 20 <= 840
    BY SitesConstants
  <2>n. PICK n \in BlockHeights : n = h + 20
    BY <2>0 DEF BlockHeights
  <2>1. PICK a : a = WP!EnsureSpace(d, n)
    OBVIOUS
  <2>2. a \in Docs /\ Laid(a) /\ Fits(a, n) /\ a.section = d.section
    BY <1>4, <1>space, <2>1
  <2>3. PICK x \in Nat : x = a.cursorY /\ x + h + 20 <= 915
    BY <2>0, <2>n, <2>2, DocFields DEF Fits
  <2>4. PICK b : b = WP!Put(a, x + h, h + 10)
    OBVIOUS
  <2>5. x + h \in Nat /\ 0 < x + h /\ x + h < 933 /\ h + 10 \in Nat /\ x + (h + 10) <= 1980
    BY <2>0, <2>3
  <2>6. b \in Docs /\ Laid(b) /\ b.lowest > 0 /\ b.section = a.section /\ b.cursorY = x + (h + 10)
    BY <2>2, <2>3, <2>4, <2>5, DrawnAbove
  <2>7. CASE c = 0
    <3>1. e = b
      BY <1>0, <1>2, <1>4, <2>n, <2>1, <2>3, <2>4, <2>7 DEF WP!FigureBlock, WP!Body
    <3> QED BY <1>2, <1>4, <2>2, <2>6, <3>1, PaperAfter
  <2>8. CASE c # 0
    <3>1. PICK y, z : y = (x + (h + 10)) + 13 * (c - 1) /\ z = c * 16 + 10
      OBVIOUS
    <3>2. y \in Nat /\ 0 < y /\ y < 933 /\ z \in Nat /\ (x + (h + 10)) + z <= 1980
      BY <2>0, <2>3, <2>8, <3>1
    <3>3. e = WP!Put(b, y, z)
      BY <1>0, <1>2, <1>4, <2>n, <2>1, <2>3, <2>4, <2>6, <2>8, <3>1 DEF WP!FigureBlock, WP!Body
    <3>4. e \in Docs /\ Laid(e) /\ e.lowest > 0 /\ e.section = b.section
      BY <2>6, <3>2, <3>3, DrawnAbove
    <3> QED BY <1>1, <1>2, <1>4, <2>2, <2>6, <3>4, PaperAfter
  <2> QED BY <2>7, <2>8
<1>5. ASSUME d.section, WP!EmptyParagraph, d.cursorY <= 915 PROVE WP!IInv'
  <2>1. PICK x \in Nat : x = d.cursorY /\ 75 <= x /\ x <= 915
    BY <1>1, <1>5, DocFields
  <2>2. PICK c \in Cursors : c = x + 10
    <3>1. x + 10 \in Cursors
      BY <2>1, CursorBelow
    <3> QED BY <3>1
  <2>3. PICK l \in Depths : l = d.lowest
    BY <1>1 DEF Docs
  <2>4. e = [d EXCEPT !.cursorY = c]
    BY <1>0, <1>2, <1>5, <2>1, <2>2 DEF WP!EmptyParagraph, WP!Body
  <2>5. e = Moved(d, l, c)
    BY <1>1, <2>3, <2>4 DEF Moved, Docs
  <2>6. /\ e \in Docs /\ e.lowest = l /\ e.section = d.section
        /\ e.pages = d.pages /\ e.pageNum = d.pageNum /\ e.footer = d.footer /\ e.blank = d.blank
    BY <1>1, <2>5, DocMoved
  <2>7. Laid(e)
    BY <1>1, <2>3, <2>6 DEF Laid
  <2> QED BY <1>1, <1>2, <1>5, <2>3, <2>6, <2>7, PaperAfter
<1>6. ASSUME d.section, HasPages(d), WP!SubHeading PROVE WP!IInv'
  <2>n. PICK n \in BlockHeights : n = 40
    BY DEF BlockHeights
  <2>1. PICK a : a = WP!EnsureSpace(d, n)
    OBVIOUS
  <2>2. a \in Docs /\ Laid(a) /\ Fits(a, n) /\ a.section = d.section
    BY <1>6, <1>space, <2>1
  <2>3. PICK x \in Nat : x = a.cursorY /\ 75 <= x /\ x + 40 <= 915
    BY <2>n, <2>2, DocFields DEF Fits
  <2>4. e = WP!Put(a, x, 28)
    BY <1>0, <1>2, <1>6, <2>n, <2>1, <2>3 DEF WP!SubHeading, WP!Body
  <2>5. x < 933 /\ 0 < x /\ x + 28 <= 1980
    BY <2>3
  <2>6. e \in Docs /\ Laid(e) /\ e.lowest > 0 /\ e.section = a.section
    BY <2>2, <2>3, <2>4, <2>5, DrawnAbove
  <2> QED BY <1>1, <1>2, <1>6, <2>2, <2>6, PaperAfter
<1>7. ASSUME d.section, HasPages(d), NEW l \in ParagraphLines, WP!Paragraph(l) PROVE WP!IInv'
  <2>0. l \in Nat /\ 1 <= l /\ l <= 41
    BY SitesConstants
  <2>1. PICK n \in BlockHeights : n = l * 20 + 20
    BY <2>0 DEF BlockHeights
  <2>2. PICK a : a = WP!EnsureSpace(d, n)
    OBVIOUS
  <2>3. a \in Docs /\ Laid(a) /\ Fits(a, n) /\ a.section = d.section
    BY <1>7, <1>space, <2>2
  <2>4. PICK x \in Nat : x = a.cursorY /\ 75 <= x /\ x + (l * 20 + 20) <= 915
    BY <2>0, <2>1, <2>3, DocFields DEF Fits
  <2>5. PICK y, z : y = x + (l - 1) * 20 /\ z = l * 20 + 8
    OBVIOUS
  <2>6. y \in Nat /\ 0 < y /\ y < 933 /\ z \in Nat /\ x + z <= 1980
    BY <2>0, <2>1, <2>4, <2>5
  <2>7. e = WP!Put(a, y, z)
    BY <1>0, <1>2, <1>7, <2>1, <2>2, <2>4, <2>5 DEF WP!Paragraph, WP!Body
  <2>8. e \in Docs /\ Laid(e) /\ e.lowest > 0 /\ e.section = a.section
    BY <2>3, <2>4, <2>6, <2>7, DrawnAbove
  <2> QED BY <1>1, <1>2, <1>7, <2>3, <2>8, PaperAfter
<1>8. ASSUME d.section, WP!Output PROVE WP!IInv'
  <2>1. PICK g \in Footers : g = [page |-> d.pages, num |-> d.pageNum]
    <3>1. [page |-> d.pages, num |-> d.pageNum] \in Footers
      BY <1>1, DocFields DEF Footers
    <3> QED BY <3>1
  <2>2. e = [d EXCEPT !.footer = g, !.done = TRUE]
    BY <1>0, <1>2, <1>8, <2>1 DEF WP!Output, WP!AddPageFooter
  <2>3. e \in Docs /\ e.footer = g /\ e.section = d.section /\ e.lowest = d.lowest
    BY <1>1, <2>2 DEF Docs
  <2>4. e.pages = d.pages /\ e.pageNum = d.pageNum /\ e.blank = d.blank
    BY <1>1, <2>2 DEF Docs
  <2>5. g.page = g.num
    BY <1>1, <2>1 DEF Laid
  <2>6. Laid(e)
    BY <1>1, <2>3, <2>4, <2>5 DEF Laid
  <2> QED BY <1>1, <1>2, <1>8, <2>3, <2>6, PaperAfter
<1>9. CASE UNCHANGED paper
  BY <1>9 DEF WP!IInv, WP!TypeOK, WP!PagesAreCounted, WP!FootersNumberPages, WP!AboveTheFooter, WP!NoBlankPage
<1> QED BY <1>0, <1>3, <1>4, <1>5, <1>6, <1>7, <1>8, <1>9 DEF WP!Next, HasPages, WP!Bottom, WP!PageHeight, WP!Margin

-----------------------------------------------------------------------------
(***************************************************************************)
(* The tour.                                                               *)
(***************************************************************************)
(* Its states. *)
Shifts == TO!Slide \cup {TO!Untouched}
Spots  == TO!Pos \cup {-9}
Modes  == {"deck", "mobile"}
Tours  == [booted : BOOLEAN, small : BOOLEAN, index : TO!Slide, mode : Modes,
           active : TO!Slide, shift : Shifts, dot : TO!Slide, prevOff : BOOLEAN, nextOff : BOOLEAN,
           scrolled : SUBSET TO!Slide, hash : TO!Hash, hashchange : BOOLEAN,
           touches : [TO!Finger -> Spots], startX : TO!Pos, tracking : BOOLEAN]

(* The parts of the inductive invariant, of a state. *)
Fitting(s) ==
  /\ s.booted => s.mode = IF s.small THEN "mobile" ELSE "deck"
  /\ ~s.booted => s.mode = "deck" /\ s.shift = TO!Untouched
Shows(s) ==
  /\ s.mode = "deck" => s.active = s.index /\ s.shift = TO!Untouched
  /\ s.mode # "deck" => s.shift = s.index
  /\ s.dot = s.index /\ s.prevOff = (s.index = 0) /\ s.nextOff = (s.index = Slides - 1)
Links(s) == s.hash \in 1 .. Slides => s.hash = s.index + 1
AtTop(s) == s.mode = "mobile" => s.scrolled \subseteq {s.index}
Sound(s) ==
  /\ s \in Tours /\ Fitting(s) /\ AtTop(s)
  /\ s.booted => Shows(s)
  /\ s.booted /\ ~s.hashchange => Links(s)

(* They are those of the model. *)
LEMMA TourIsSound == TO!IInv => Sound(tour)
<1> SUFFICES ASSUME TO!IInv PROVE Sound(tour)
  OBVIOUS
<1>1. tour \in Tours
  BY DEF TO!IInv, TO!TypeOK, Tours, Shifts, Spots, Modes
<1>2. Fitting(tour) /\ AtTop(tour)
  BY DEF TO!IInv, TO!LayoutFitsWindow, TO!RevisitAtTop, Fitting, AtTop
<1>3. tour.booted => Shows(tour)
  BY DEF TO!IInv, TO!ShownIsIndex, Shows
<1>4. tour.booted /\ ~tour.hashchange => Links(tour)
  BY DEF TO!IInv, TO!LinkIsShown, Links
<1> QED BY <1>1, <1>2, <1>3, <1>4 DEF Sound

(* The same after a step. *)
LEMMA SoundTourAfter ==
  ASSUME NEW s, s = tour', Sound(s)
  PROVE  TO!IInv'
<1>1. TO!TypeOK'
  BY DEF Sound, TO!TypeOK, Tours, Shifts, Spots, Modes
<1>2. TO!LayoutFitsWindow' /\ TO!RevisitAtTop'
  BY DEF Sound, TO!LayoutFitsWindow, TO!RevisitAtTop, Fitting, AtTop
<1>3. TO!ShownIsIndex'
  BY DEF Sound, TO!ShownIsIndex, Shows
<1>4. TO!LinkIsShown'
  BY DEF Sound, TO!LinkIsShown, Links
<1> QED BY <1>1, <1>2, <1>3, <1>4 DEF TO!IInv

(* A slide is rendered in the layout of the state. *)
Rendered(s, i) ==
  IF s.mode = "deck"
  THEN [s EXCEPT !.index = i, !.dot = i, !.prevOff = i = 0, !.nextOff = i = Slides - 1, !.hash = i + 1, !.active = i]
  ELSE [s EXCEPT !.index = i, !.dot = i, !.prevOff = i = 0, !.nextOff = i = Slides - 1, !.hash = i + 1,
                 !.shift = i, !.scrolled = s.scrolled \cap {i}]

(* render clamps the index to a slide. *)
LEMMA RenderClamps ==
  ASSUME NEW s \in Tours, NEW n \in Int
  PROVE  \E i \in TO!Slide : /\ TO!Render([s EXCEPT !.index = n]) = Rendered(s, i)
                             /\ n \in TO!Slide => i = n
<1>1. PICK i : i = IF n < 0 THEN 0 ELSE IF n > Slides - 1 THEN Slides - 1 ELSE n
  OBVIOUS
<1>2. i \in TO!Slide /\ (n \in TO!Slide => i = n)
  BY <1>1, SitesConstants DEF TO!Slide
<1>3. PICK a, b, h : a = (i = 0) /\ b = (i = Slides - 1) /\ h = i + 1
  OBVIOUS
<1>4. PICK q : q = [s EXCEPT !.index = n]
  OBVIOUS
<1>5. q.index = n /\ q.mode = s.mode /\ q.scrolled = s.scrolled
  BY <1>4 DEF Tours
<1>6. PICK r : r = [q EXCEPT !.index = i, !.dot = i, !.prevOff = a, !.nextOff = b, !.hash = h]
  OBVIOUS
<1>7. r = [s EXCEPT !.index = i, !.dot = i, !.prevOff = a, !.nextOff = b, !.hash = h]
  BY <1>4, <1>6 DEF Tours
<1>8. TO!Render(q) = IF s.mode = "deck" THEN [r EXCEPT !.active = i]
                     ELSE [r EXCEPT !.shift = i, !.scrolled = r.scrolled \cap {i}]
  BY <1>1, <1>3, <1>5, <1>6 DEF TO!Render
<1>9. r.scrolled = s.scrolled
  BY <1>7 DEF Tours
<1>10. TO!Render(q) = Rendered(s, i)
  BY <1>3, <1>7, <1>8, <1>9 DEF Rendered, Tours
<1> QED BY <1>2, <1>4, <1>10

(* The layout shows what was rendered, the hash names it, and another slide is left at its top. *)
LEMMA RenderedIsShown ==
  ASSUME NEW s \in Tours, NEW i \in TO!Slide, s.mode = "deck" => s.shift = TO!Untouched,
         NEW r, r = Rendered(s, i)
  PROVE  /\ r \in Tours /\ Shows(r) /\ Links(r) /\ AtTop(r)
         /\ r.booted = s.booted /\ r.small = s.small /\ r.mode = s.mode /\ r.hashchange = s.hashchange
<1>1. PICK a, b, h : a = (i = 0) /\ b = (i = Slides - 1) /\ h = i + 1
  OBVIOUS
<1>2. a \in BOOLEAN /\ b \in BOOLEAN /\ h \in TO!Hash
  BY <1>1, SitesConstants DEF TO!Slide, TO!Hash
<1>3. s.mode \in Modes
  BY DEF Tours
<1>4. CASE s.mode = "deck"
  <2>1. r = [s EXCEPT !.index = i, !.dot = i, !.prevOff = a, !.nextOff = b, !.hash = h, !.active = i]
    BY <1>1, <1>4 DEF Rendered
  <2>2. r \in Tours
    BY <1>2, <2>1, ZenonT(60) DEF Tours
  <2>3. r.index = i /\ r.dot = i /\ r.prevOff = a /\ r.nextOff = b /\ r.hash = h /\ r.active = i /\ r.shift = s.shift
    BY <2>1 DEF Tours
  <2>4. r.booted = s.booted /\ r.small = s.small /\ r.mode = s.mode /\ r.hashchange = s.hashchange
    BY <2>1 DEF Tours
  <2>5. Shows(r) /\ Links(r) /\ AtTop(r)
    BY <1>1, <1>4, <2>3, <2>4 DEF Shows, Links, AtTop
  <2> QED BY <2>2, <2>4, <2>5
<1>5. CASE s.mode # "deck"
  <2>1. PICK c : c = s.scrolled \cap {i}
    OBVIOUS
  <2>2. r = [s EXCEPT !.index = i, !.dot = i, !.prevOff = a, !.nextOff = b, !.hash = h, !.shift = i, !.scrolled = c]
    BY <1>1, <1>5, <2>1 DEF Rendered
  <2>3. i \in Shifts /\ c \in SUBSET TO!Slide /\ c \subseteq {i}
    BY <2>1 DEF Shifts
  <2>4. r \in Tours
    BY <1>2, <2>2, <2>3, ZenonT(60) DEF Tours
  <2>5. r.index = i /\ r.dot = i /\ r.prevOff = a /\ r.nextOff = b /\ r.hash = h /\ r.shift = i /\ r.scrolled = c
    BY <2>2 DEF Tours
  <2>6. r.booted = s.booted /\ r.small = s.small /\ r.mode = s.mode /\ r.hashchange = s.hashchange
    BY <2>2 DEF Tours
  <2>7. Shows(r) /\ Links(r) /\ AtTop(r)
    BY <1>1, <1>5, <2>3, <2>5, <2>6 DEF Shows, Links, AtTop
  <2> QED BY <2>4, <2>6, <2>7
<1> QED BY <1>4, <1>5

(* A slide is an index. *)
LEMMA SlidesAreIndices == \A s \in Tours : s.index \in TO!Slide /\ s.index \in Int /\ s.mode \in Modes
<1>1. \A i \in TO!Slide : i \in Int
  BY SitesConstants DEF TO!Slide
<1> QED BY <1>1 DEF Tours

(* go keeps a sound state sound. *)
LEMMA GoIsSound ==
  ASSUME NEW s, Sound(s), s.booted, NEW n \in Int, NEW r, r = TO!Go(s, n)
  PROVE  /\ Sound(r) /\ r.booted /\ r.hashchange = s.hashchange
         /\ n # s.index => Links(r)
<1>1. s \in Tours /\ (s.mode = "deck" => s.shift = TO!Untouched)
  BY DEF Sound, Shows
<1>2. CASE n = s.index
  <2>1. r = s
    BY <1>2 DEF TO!Go
  <2> QED BY <1>2, <2>1
<1>3. CASE n # s.index
  <2>1. r = TO!Render([s EXCEPT !.index = n])
    BY <1>3 DEF TO!Go
  <2>2. PICK i \in TO!Slide : r = Rendered(s, i)
    BY <1>1, <2>1, RenderClamps
  <2>3. /\ r \in Tours /\ Shows(r) /\ Links(r) /\ AtTop(r)
        /\ r.booted = s.booted /\ r.small = s.small /\ r.mode = s.mode /\ r.hashchange = s.hashchange
    BY <1>1, <2>2, RenderedIsShown, ZenonT(60)
  <2>4. Fitting(r)
    BY <2>3 DEF Sound, Fitting
  <2> QED BY <2>3, <2>4 DEF Sound
<1> QED BY <1>2, <1>3

(* render of a state. *)
LEMMA RenderOfState ==
  ASSUME NEW s \in Tours
  PROVE  TO!Render(s) = Rendered(s, s.index) /\ s.index \in TO!Slide
<1>1. s.index \in TO!Slide /\ s.index \in Int
  BY SlidesAreIndices
<1>2. PICK n : n = s.index
  OBVIOUS
<1>3. [s EXCEPT !.index = n] = s
  BY <1>2 DEF Tours
<1>4. TO!Render([s EXCEPT !.index = n]) = Rendered(s, n)
  BY <1>1, <1>2, RenderClamps
<1> QED BY <1>1, <1>2, <1>3, <1>4

(* applyMode: the layout is that of the window, and a layout that was not shown before shows the *)
(* slide of the index. *)
LEMMA ModeIsApplied ==
  ASSUME NEW s \in Tours, NEW r, r = TO!ApplyMode(s)
  PROVE  /\ r \in Tours /\ r.mode = IF s.small THEN "mobile" ELSE "deck"
         /\ r.small = s.small /\ r.booted = s.booted /\ r.hashchange = s.hashchange
         /\ r.mode = "deck" => r.shift = TO!Untouched
         /\ r.mode # s.mode => Shows(r) /\ Links(r) /\ AtTop(r)
<1>1. PICK m \in Modes : m = IF s.small THEN "mobile" ELSE "deck"
  BY DEF Modes
<1>2. PICK f : f = IF m = "deck" THEN TO!Untouched ELSE s.shift
  OBVIOUS
<1>3. f \in Shifts
  BY <1>2 DEF Tours, Shifts
<1>4. PICK q : q = [s EXCEPT !.mode = m, !.shift = f]
  OBVIOUS
<1>5. q \in Tours
  BY <1>1, <1>3, <1>4 DEF Tours
<1>6. q.mode = m /\ q.shift = f /\ q.small = s.small /\ q.booted = s.booted /\ q.hashchange = s.hashchange
  BY <1>4 DEF Tours
<1>7. r = IF m # s.mode \/ m = "mobile" THEN TO!Render(q) ELSE q
  BY <1>1, <1>2, <1>4 DEF TO!ApplyMode
<1>8. CASE m # s.mode \/ m = "mobile"
  <2>1. PICK i \in TO!Slide : r = Rendered(q, i)
    BY <1>5, <1>7, <1>8, RenderOfState
  <2>2. q.mode = "deck" => q.shift = TO!Untouched
    BY <1>2, <1>6
  <2>3. /\ r \in Tours /\ Shows(r) /\ Links(r) /\ AtTop(r)
        /\ r.booted = q.booted /\ r.small = q.small /\ r.mode = q.mode /\ r.hashchange = q.hashchange
    BY <1>5, <2>1, <2>2, RenderedIsShown
  <2> QED BY <1>1, <1>6, <2>3 DEF Shows
<1>9. CASE ~(m # s.mode \/ m = "mobile")
  <2>1. r = q
    BY <1>7, <1>9
  <2> QED BY <1>1, <1>2, <1>5, <1>6, <1>9, <2>1
<1> QED BY <1>8, <1>9

(* The hash names a slide, or the index is kept. *)
LEMMA HashNamesSlide ==
  ASSUME NEW s \in Tours
  PROVE  TO!FromHash(s) \in TO!Slide /\ (s.hash \in 1 .. Slides => TO!FromHash(s) = s.hash - 1)
<1>1. PICK h : h = s.hash
  OBVIOUS
<1>2. h \in 1 .. Slides => h - 1 \in TO!Slide
  BY SitesConstants DEF TO!Slide
<1>3. s.index \in TO!Slide
  BY SlidesAreIndices
<1> QED BY <1>1, <1>2, <1>3 DEF TO!FromHash

(* init of tour.js. *)
LEMMA BootIsSound ==
  ASSUME NEW s, Sound(s), ~s.booted,
         NEW r, r = [TO!Render(TO!ApplyMode([s EXCEPT !.index = TO!FromHash(s)])) EXCEPT !.booted = TRUE]
  PROVE  Sound(r)
<1>1. s \in Tours
  BY DEF Sound
<1>2. PICK n \in TO!Slide : n = TO!FromHash(s)
  BY <1>1, HashNamesSlide
<1>3. PICK a : a = [s EXCEPT !.index = n]
  OBVIOUS
<1>4. a \in Tours /\ a.small = s.small
  BY <1>1, <1>3 DEF Tours
<1>5. PICK b : b = TO!ApplyMode(a)
  OBVIOUS
<1>6. b \in Tours /\ b.mode = (IF a.small THEN "mobile" ELSE "deck") /\ b.small = a.small
      /\ (b.mode = "deck" => b.shift = TO!Untouched)
  BY <1>4, <1>5, ModeIsApplied, SMTT(30)
<1>7. PICK c : c = TO!Render(b)
  OBVIOUS
<1>8. PICK i \in TO!Slide : c = Rendered(b, i)
  BY <1>6, <1>7, RenderOfState
<1>9. c \in Tours /\ Shows(c) /\ Links(c) /\ AtTop(c) /\ c.small = b.small /\ c.mode = b.mode
  BY <1>6, <1>8, RenderedIsShown
<1>10. r = [c EXCEPT !.booted = TRUE]
  BY <1>2, <1>3, <1>5, <1>7
<1>11. r \in Tours /\ r.booted = TRUE /\ r.small = c.small /\ r.mode = c.mode /\ r.index = c.index
  BY <1>9, <1>10 DEF Tours
<1>12. r.active = c.active /\ r.shift = c.shift /\ r.dot = c.dot /\ r.prevOff = c.prevOff /\ r.nextOff = c.nextOff
  BY <1>9, <1>10 DEF Tours
<1>13. r.hash = c.hash /\ r.scrolled = c.scrolled
  BY <1>9, <1>10 DEF Tours
<1>14. Shows(r) /\ Links(r) /\ AtTop(r)
  BY <1>9, <1>11, <1>12, <1>13 DEF Shows, Links, AtTop
<1>15. Fitting(r)
  BY <1>6, <1>9, <1>11 DEF Fitting
<1> QED BY <1>11, <1>14, <1>15 DEF Sound

(* A window that is resized or turned. *)
LEMMA ResizeIsSound ==
  ASSUME NEW s, Sound(s), s.booted, NEW r, r = TO!ApplyMode([s EXCEPT !.small = ~s.small])
  PROVE  Sound(r)
<1>1. s \in Tours /\ s.small \in BOOLEAN /\ s.mode = IF s.small THEN "mobile" ELSE "deck"
  BY DEF Sound, Tours, Fitting
<1>2. PICK b \in BOOLEAN : b = ~s.small
  BY <1>1
<1>3. PICK a : a = [s EXCEPT !.small = b]
  OBVIOUS
<1>4. a \in Tours /\ a.small = b /\ a.mode = s.mode /\ a.booted = s.booted
  BY <1>1, <1>2, <1>3 DEF Tours
<1>5. r = TO!ApplyMode(a)
  BY <1>2, <1>3
<1>6. /\ r \in Tours /\ r.mode = IF a.small THEN "mobile" ELSE "deck"
      /\ r.small = a.small /\ r.booted = a.booted
      /\ r.mode # a.mode => Shows(r) /\ Links(r) /\ AtTop(r)
  BY <1>4, <1>5, ModeIsApplied, ZenonT(60)
<1>7. r.mode # a.mode
  BY <1>1, <1>2, <1>4, <1>6
<1>8. Fitting(r)
  BY <1>4, <1>6 DEF Fitting
<1> QED BY <1>6, <1>7, <1>8 DEF Sound

(* A state that shows the same slide in the same layout. *)
Same(r, s) ==
  /\ r.booted = s.booted /\ r.small = s.small /\ r.mode = s.mode /\ r.index = s.index
  /\ r.active = s.active /\ r.shift = s.shift /\ r.dot = s.dot /\ r.prevOff = s.prevOff /\ r.nextOff = s.nextOff

(* It is sound with the hash and the scroll positions. *)
LEMMA SameIsSound ==
  ASSUME NEW s, Sound(s), s.booted, NEW r \in Tours, Same(r, s), AtTop(r), ~r.hashchange => Links(r)
  PROVE  Sound(r)
<1>1. Fitting(r) /\ Shows(r)
  BY DEF Sound, Same, Fitting, Shows
<1> QED BY <1>1 DEF Sound

(* Scrolling, and a hash that is edited or seen. *)
LEMMA ScrollIsSound ==
  ASSUME NEW s, Sound(s), s.booted, NEW r, r = [s EXCEPT !.scrolled = s.scrolled \cup {s.index}]
  PROVE  s.mode = "mobile" => Sound(r)
<1> SUFFICES ASSUME s.mode = "mobile" PROVE Sound(r)
  OBVIOUS
<1>1. s \in Tours /\ s.scrolled \subseteq {s.index}
  BY DEF Sound, AtTop
<1>2. PICK c : c = s.scrolled \cup {s.index}
  OBVIOUS
<1>3. c \in SUBSET TO!Slide /\ c \subseteq {s.index}
  BY <1>1, <1>2, SlidesAreIndices
<1>4. r = [s EXCEPT !.scrolled = c]
  BY <1>2
<1>5. r \in Tours
  BY <1>1, <1>3, <1>4 DEF Tours
<1>6. Same(r, s) /\ r.scrolled = c /\ r.hash = s.hash /\ r.hashchange = s.hashchange
  BY <1>1, <1>4 DEF Tours, Same
<1>7. AtTop(r) /\ (~r.hashchange => Links(r))
  BY <1>3, <1>6 DEF Same, AtTop, Links, Sound
<1> QED BY <1>5, <1>6, <1>7, SameIsSound

(* An edited hash. *)
LEMMA EditIsSound ==
  ASSUME NEW s, Sound(s), s.booted, NEW h \in TO!Hash, NEW r, r = [s EXCEPT !.hash = h, !.hashchange = TRUE]
  PROVE  Sound(r)
<1>1. s \in Tours
  BY DEF Sound
<1>2. r \in Tours /\ r.hashchange = TRUE /\ r.scrolled = s.scrolled
  BY <1>1 DEF Tours
<1>3. Same(r, s)
  BY <1>1 DEF Tours, Same
<1>4. AtTop(r)
  BY <1>2, <1>3 DEF Same, AtTop, Sound
<1> QED BY <1>2, <1>3, <1>4, SameIsSound

(* hashchange: go to the slide of the hash. *)
LEMMA HashChangeIsSound ==
  ASSUME NEW s, Sound(s), s.booted, NEW r, r = [TO!Go(s, TO!FromHash(s)) EXCEPT !.hashchange = FALSE]
  PROVE  Sound(r)
<1>1. s \in Tours
  BY DEF Sound
<1>2. PICK n \in TO!Slide : n = TO!FromHash(s)
  BY <1>1, HashNamesSlide
<1>3. n \in Int /\ (s.hash \in 1 .. Slides => n = s.hash - 1)
  BY <1>1, <1>2, HashNamesSlide, SitesConstants DEF TO!Slide
<1>4. PICK g : g = TO!Go(s, n)
  OBVIOUS
<1>5. Sound(g) /\ g.booted /\ (n # s.index => Links(g))
  BY <1>3, <1>4, GoIsSound
<1>6. Links(g)
  <2>1. CASE n = s.index
    <3>1. g = s
      BY <1>4, <2>1 DEF TO!Go
    <3>2. s.hash \in 1 .. Slides => s.hash = s.index + 1
      <4>1. PICK h : h = s.hash
        OBVIOUS
      <4>2. h \in 1 .. Slides => h = n + 1
        BY <1>3, <4>1, SitesConstants
      <4> QED BY <2>1, <4>1, <4>2
    <3> QED BY <3>1, <3>2 DEF Links
  <2> QED BY <1>5, <2>1
<1>7. r = [g EXCEPT !.hashchange = FALSE] /\ g \in Tours /\ AtTop(g)
  BY <1>2, <1>4, <1>5 DEF Sound
<1>8. r \in Tours /\ r.hash = g.hash /\ r.scrolled = g.scrolled
  BY <1>7 DEF Tours
<1>9. Same(r, g)
  BY <1>7 DEF Tours, Same
<1>10. AtTop(r) /\ Links(r)
  BY <1>6, <1>7, <1>8, <1>9 DEF Same, AtTop, Links
<1> QED BY <1>5, <1>8, <1>9, <1>10, SameIsSound

(* Fingers put down, moved and lifted. *)
LEMMA TouchIsSound ==
  ASSUME NEW s, Sound(s), s.booted, NEW q \in [TO!Finger -> Spots], NEW x \in TO!Pos, NEW b \in BOOLEAN,
         NEW r, r = [s EXCEPT !.touches = q, !.startX = x, !.tracking = b]
  PROVE  Sound(r) /\ r.booted /\ r.index = s.index
<1>1. s \in Tours
  BY DEF Sound
<1>2. r \in Tours /\ r.hash = s.hash /\ r.hashchange = s.hashchange /\ r.scrolled = s.scrolled
  BY <1>1 DEF Tours
<1>3. Same(r, s)
  BY <1>1 DEF Tours, Same
<1>4. AtTop(r) /\ (~r.hashchange => Links(r))
  BY <1>2, <1>3 DEF Same, AtTop, Links, Sound
<1>5. Sound(r)
  BY <1>2, <1>3, <1>4, SameIsSound
<1> QED BY <1>3, <1>5 DEF Same

(* The tour before init of tour.js. *)
LEMMA TourInit == TO!Init => TO!IInv
<1> SUFFICES ASSUME TO!Init PROVE TO!IInv
  OBVIOUS
<1>1. PICK h \in TO!Hash, b \in BOOLEAN :
        tour = [booted |-> FALSE, small |-> b, index |-> 0, mode |-> "deck", active |-> 0,
                shift |-> TO!Untouched, dot |-> 0, prevOff |-> FALSE, nextOff |-> FALSE, scrolled |-> {},
                hash |-> h, hashchange |-> FALSE, touches |-> [f \in TO!Finger |-> -9], startX |-> 0,
                tracking |-> FALSE]
  BY DEF TO!Init
<1>2. PICK z, q, x : z = 0 /\ q = [f \in TO!Finger |-> -9] /\ x = 0
  OBVIOUS
<1>3. z \in TO!Slide /\ x \in TO!Pos
  BY <1>2, SitesConstants DEF TO!Slide, TO!Pos
<1>4. q \in [TO!Finger -> TO!Pos \cup {-9}]
  BY <1>2
<1>5. tour = [booted |-> FALSE, small |-> b, index |-> z, mode |-> "deck", active |-> z,
              shift |-> TO!Untouched, dot |-> z, prevOff |-> FALSE, nextOff |-> FALSE, scrolled |-> {},
              hash |-> h, hashchange |-> FALSE, touches |-> q, startX |-> x, tracking |-> FALSE]
  BY <1>1, <1>2
<1>6. TO!TypeOK
  BY <1>3, <1>4, <1>5 DEF TO!TypeOK
<1>7. TO!LayoutFitsWindow /\ TO!ShownIsIndex /\ TO!LinkIsShown /\ TO!RevisitAtTop
  BY <1>5 DEF TO!LayoutFitsWindow, TO!ShownIsIndex, TO!LinkIsShown, TO!RevisitAtTop
<1> QED BY <1>6, <1>7 DEF TO!IInv

(* Every key, click, swipe, resize and hash keeps it sound. *)
LEMMA TourStep == TO!IInv /\ [TO!Next]_tour => TO!IInv'
<1> SUFFICES ASSUME TO!IInv, [TO!Next]_tour PROVE TO!IInv'
  OBVIOUS
<1>1. PICK s : s = tour
  OBVIOUS
<1>2. PICK r : r = tour'
  OBVIOUS
<1>3. Sound(s) /\ s \in Tours
  BY <1>1, TourIsSound DEF Sound
<1>4. s.index \in Int /\ s.index - 1 \in Int /\ s.index + 1 \in Int /\ 0 \in Int /\ Slides - 1 \in Int
  BY <1>3, SlidesAreIndices, SitesConstants
<1>5. ASSUME NEW n \in Int, s.booted, r = TO!Go(s, n) PROVE Sound(r)
  BY <1>3, <1>5, GoIsSound
<1>6. CASE TO!Boot
  BY <1>1, <1>2, <1>3, <1>6, BootIsSound, SoundTourAfter DEF TO!Boot
<1>7. CASE s.booted /\ TO!Resize
  BY <1>1, <1>2, <1>3, <1>7, ResizeIsSound, SoundTourAfter DEF TO!Resize
<1>8. CASE s.booted /\ (TO!PrevButton \/ TO!NextButton)
  BY <1>1, <1>2, <1>4, <1>5, <1>8, SoundTourAfter DEF TO!PrevButton, TO!NextButton
<1>9. CASE s.booted /\ TO!Scroll
  BY <1>1, <1>2, <1>3, <1>9, ScrollIsSound, SoundTourAfter DEF TO!Scroll
<1>10. CASE s.booted /\ TO!HashChange
  BY <1>1, <1>2, <1>3, <1>10, HashChangeIsSound, SoundTourAfter DEF TO!HashChange
<1>11. ASSUME s.booted, NEW n \in {s.index - 1, s.index + 1, 0, Slides - 1}, TO!Key(n) PROVE TO!IInv'
  BY <1>1, <1>2, <1>4, <1>5, <1>11, SoundTourAfter DEF TO!Key
<1>12. ASSUME s.booted, NEW i \in TO!Slide, TO!Dot(i) PROVE TO!IInv'
  <2>1. i \in Int
    BY SitesConstants DEF TO!Slide
  <2> QED BY <1>1, <1>2, <1>5, <1>12, <2>1, SoundTourAfter DEF TO!Dot
<1>13. ASSUME s.booted, NEW left \in BOOLEAN, TO!Click(left) PROVE TO!IInv'
  BY <1>1, <1>2, <1>4, <1>5, <1>13, SoundTourAfter DEF TO!Click
<1>14. ASSUME s.booted, NEW h \in TO!Hash, TO!EditHash(h) PROVE TO!IInv'
  BY <1>1, <1>2, <1>3, <1>14, EditIsSound, SoundTourAfter DEF TO!EditHash
<1>15. ASSUME s.booted, NEW f \in TO!Finger, NEW x \in TO!Pos, TO!TouchStart(f, x) \/ TO!TouchMove(f, x)
       PROVE  TO!IInv'
  <2>1. s.touches \in [TO!Finger -> Spots] /\ s.startX \in TO!Pos /\ s.tracking \in BOOLEAN
    BY <1>3 DEF Tours
  <2>2. PICK q : q = [s.touches EXCEPT ![f] = x]
    OBVIOUS
  <2>3. q \in [TO!Finger -> Spots]
    BY <1>15, <2>1, <2>2 DEF Spots
  <2>4. PICK a : a = [s EXCEPT !.touches = q]
    OBVIOUS
  <2>5. a = [s EXCEPT !.touches = q, !.startX = s.startX, !.tracking = s.tracking]
    BY <1>3, <2>4 DEF Tours
  <2>6. [a EXCEPT !.startX = x, !.tracking = TRUE] = [s EXCEPT !.touches = q, !.startX = x, !.tracking = TRUE]
    BY <1>3, <2>4 DEF Tours
  <2>7. r \in {a, [a EXCEPT !.startX = x, !.tracking = TRUE]}
    BY <1>1, <1>2, <1>15, <2>2, <2>4 DEF TO!TouchStart, TO!TouchMove
  <2>8. Sound(a)
    BY <1>3, <1>15, <2>1, <2>3, <2>5, TouchIsSound
  <2>9. Sound([a EXCEPT !.startX = x, !.tracking = TRUE])
    <3>1. PICK c : c = [s EXCEPT !.touches = q, !.startX = x, !.tracking = TRUE]
      OBVIOUS
    <3>2. Sound(c)
      BY <1>3, <1>15, <2>3, <3>1, TouchIsSound
    <3> QED BY <2>6, <3>1, <3>2
  <2>10. Sound(r)
    BY <2>7, <2>8, <2>9
  <2> QED BY <1>2, <2>10, SoundTourAfter
<1>16. ASSUME s.booted, NEW f \in TO!Finger, NEW vertical \in BOOLEAN, TO!TouchEnd(f, vertical)
       PROVE  TO!IInv'
  <2>1. s.touches \in [TO!Finger -> Spots] /\ s.startX \in TO!Pos
    BY <1>3 DEF Tours
  <2>2. PICK q : q = [s.touches EXCEPT ![f] = -9]
    OBVIOUS
  <2>3. q \in [TO!Finger -> Spots]
    BY <1>16, <2>1, <2>2 DEF Spots
  <2>4. PICK a : a = [s EXCEPT !.touches = q, !.tracking = FALSE]
    OBVIOUS
  <2>5. a = [s EXCEPT !.touches = q, !.startX = s.startX, !.tracking = FALSE]
    BY <1>3, <2>4 DEF Tours
  <2>6. Sound(a) /\ a.booted
    BY <1>3, <1>16, <2>1, <2>3, <2>5, TouchIsSound
  <2>7. r \in {a, TO!Go(a, s.index + 1), TO!Go(a, s.index - 1)}
    BY <1>1, <1>2, <1>16, <2>2, <2>4 DEF TO!TouchEnd
  <2>8. ASSUME NEW n \in Int PROVE Sound(TO!Go(a, n))
    BY <2>6, GoIsSound
  <2>9. Sound(r)
    BY <1>4, <2>6, <2>7, <2>8
  <2> QED BY <1>2, <2>9, SoundTourAfter
<1>17. CASE UNCHANGED tour
  BY <1>17 DEF TO!IInv, TO!TypeOK, TO!LayoutFitsWindow, TO!ShownIsIndex, TO!LinkIsShown, TO!RevisitAtTop
<1> QED BY <1>1, <1>6, <1>7, <1>8, <1>9, <1>10, <1>11, <1>12, <1>13, <1>14, <1>15, <1>16, <1>17 DEF TO!Next

-----------------------------------------------------------------------------
(***************************************************************************)
(* The behaviours.                                                         *)
(***************************************************************************)
SitesInv ==
  /\ part = "TO" => TO!IInv
  /\ part = "SI" => SI!IInv
  /\ part = "WP" => WP!IInv

(* The inductive invariants of the tour, the middlewares and the whitepaper hold in every reachable *)
(* state. *)
THEOREM SitesInvariance == Spec => []SitesInv
<1>1. Init => SitesInv
  BY TourInit, SitesInit, PaperInit DEF Init, SitesInv
<1>2. SitesInv /\ [Next]_vars => SitesInv'
  BY StepOfPart, TourStep, SitesStep, PaperStep DEF SitesInv
<1> QED BY <1>1, <1>2, PTL DEF Spec

(* With any number of slides and in whatever order keys, swipes, resizes and edited hashes come,   *)
(* the tour shows the slide of its index, a link names the slide shown and a slide is entered at   *)
(* its top (tour.js); the sites' middlewares prefix a path once, share assets and load deep links. *)
THEOREM SitesShowPagesHolds == Spec => []SitesShowPages
<1>1. SitesInv => SitesShowPages
  BY SitesAnswer DEF SitesInv, SitesShowPages, TO!IInv
<1> QED BY <1>1, SitesInvariance, PTL

(* For all figures, captions of three lines and paragraphs that fit on a page, in every order: a   *)
(* footer has the number of its page, nothing is drawn into its line and no page is left blank     *)
(* (whitepaper.pdf.ts). *)
THEOREM PaperIsLaidOutHolds == Spec => []PaperIsLaidOut
<1>1. SitesInv => PaperIsLaidOut
  BY DEF SitesInv, PaperIsLaidOut, WP!IInv
<1> QED BY <1>1, SitesInvariance, PTL

(* The variables of every part but the amounts keep their types. *)
THEOREM TypesHold == Spec => [](part # "AM" => TypeOK)
<1>1. /\ FormsInv /\ PanesInv /\ WalletInv /\ ServerInv /\ SitesInv
      => (part # "AM" => TypeOK)
  BY DEF FormsInv, PanesInv, WalletInv, ServerInv, SitesInv, TypeOK, WD!IInv, WW!IInv, DD!IInv, DW!IInv,
     PO!IInv, DS!IInv, DC!IInv, HB!IInv, TO!IInv, SI!IInv, WP!IInv
<1> QED BY <1>1, FormsInvariance, PanesInvariance, WalletInvariance, ServerInvariance, SitesInvariance, PTL
=============================================================================
