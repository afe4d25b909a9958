------------------------------- MODULE PdfThumbs -------------------------------
(***************************************************************************)
(* The thumbnails of the sidebar: PDFThumbnailView, the part of            *)
(* PDFThumbnailViewer that draws them and their share of the rendering     *)
(* queue.  A thumbnail is drawn on a canvas of its own, or taken from the  *)
(* page when that is drawn first; either canvas becomes an image later,    *)
(* when the browser has encoded it (toBlob, which nothing can cancel and   *)
(* which answers in the order of the calls).                               *)
(* The drawing of pages (PdfRendering) is the page `busy' that the viewer  *)
(* wants to draw.  A rotation is the number of rotations made so far.      *)
(***************************************************************************)
EXTENDS Naturals, Sequences, FiniteSets, FiniteSetsExt, Functions

CONSTANTS NPages, VisibleViews, Broken, MaxRotations, MaxEvents, Missing

VARIABLE t

Page == 1 .. NPages
Rotation == 0 .. MaxRotations

TypeOK ==
  /\ t.rs \in [Page -> {"INITIAL", "RUNNING", "PAUSED", "FINISHED"}]
  /\ t.task \in [Page -> {"none", "running", "held"}]     \* renderTask; held: resume is set
  /\ t.image \in [Page -> Rotation \cup {Missing}]        \* what the <img> shows
  /\ t.loaded \subseteq Page /\ t.loads \subseteq Page    \* pdfPage is set, is asked for
  /\ t.blobs \in Seq([page : Page, rot : Rotation, drawn : BOOLEAN])
  /\ t.rot \in Rotation /\ t.visible \in VisibleViews
  /\ t.enabled \in BOOLEAN                                \* isThumbnailViewEnabled
  /\ t.highest \in 0 .. NPages                            \* 0: no thumbnail
  /\ t.busy \in 0 .. NPages /\ t.canvases \subseteq Page  \* pages to draw, drawn
  /\ t.idle \in BOOLEAN /\ t.events \in 0 .. MaxEvents
  /\ t.kick = FALSE /\ t.quiet \in BOOLEAN

-----------------------------------------------------------------------------
(* PDFThumbnailView *)

\* cancelRendering, of the thumbnails of some pages: a draw that is cancelled ends in
\* renderView's `finally'.
CancelRendering(u, pages) ==
  [u EXCEPT !.task = [p \in Page |-> IF p \in pages THEN "none" ELSE @[p]],
            !.kick = @ \/ \E p \in pages : u.task[p] # "none"]

Reset(u, pages) ==
  [CancelRendering(u, pages) EXCEPT !.rs = [p \in Page |-> IF p \in pages THEN "INITIAL" ELSE @[p]],
                                    !.image = [p \in Page |-> IF p \in pages THEN Missing ELSE @[p]]]

\* update: the viewport follows the rotation.
Update(u, pages) == Reset(u, pages)

SetPdfPage(u, pages) == Reset([u EXCEPT !.loaded = @ \cup pages], pages)

\* #convertCanvasToImage, up to its `await', of some pages in this order.
ConvertCanvasToImage(u, order, drawn) ==
  [u EXCEPT !.rs = [p \in Page |-> IF p \in Range(order) THEN "FINISHED" ELSE @[p]],
            !.blobs = @ \o [i \in DOMAIN order |-> [page |-> order[i], rot |-> u.rot, drawn |-> drawn]]]

\* draw; without a page it throws.
Draw(u, p) ==
  IF p \in u.loaded THEN [u EXCEPT !.rs[p] = "RUNNING", !.task[p] = "running"]
  ELSE [u EXCEPT !.rs[p] = "FINISHED", !.kick = TRUE]

\* setImage for some pages, in any order; large tells that the pages are not drawn smaller
\* than their thumbnails.
Fresh(u, pages) == {p \in pages \cap u.canvases : u.rs[p] = "INITIAL"}

SetImage(u, order, large) ==
  LET w == SetPdfPage(u, Range(order) \ u.loaded)
  IN  IF large THEN ConvertCanvasToImage(w, order, FALSE) ELSE w

Orders(pages) == {order \in [1 .. Cardinality(pages) -> pages] : Range(order) = pages}

-----------------------------------------------------------------------------
(* PDFRenderingQueue and PDFThumbnailViewer *)

\* #getScrollAhead: towards the pages that are left.
ScrollAhead(u) == u.visible[1] = 1

\* getHighestPriority: the visible ones, then the next one in the direction of scrolling.
GetHighestPriority(u) ==
  LET open == {i \in DOMAIN u.visible : u.rs[u.visible[i]] # "FINISHED"}
      next == IF ScrollAhead(u) THEN u.visible[Len(u.visible)] + 1 ELSE u.visible[1] - 1
  IN  IF open # {} THEN u.visible[Min(open)]
      ELSE IF next \in Page /\ u.rs[next] # "FINISHED" THEN next ELSE 0

RenderView(u, p) ==
  LET w == [u EXCEPT !.highest = p]
  IN  CASE u.rs[p] = "FINISHED" -> u
        [] u.rs[p] = "PAUSED"   -> [w EXCEPT !.rs[p] = "RUNNING", !.task[p] = "running"]
        [] u.rs[p] = "RUNNING"  -> w
        [] u.rs[p] = "INITIAL"  -> Draw(w, p)

\* #ensurePdfPageLoaded
EnsurePdfPageLoaded(u, p) ==
  IF p \in u.loaded THEN RenderView(u, p) ELSE [u EXCEPT !.loads = @ \cup {p}]

\* forceRendering
ForceThumbnails(u) ==
  LET p == GetHighestPriority(u) IN IF p = 0 THEN [u EXCEPT !.idle = TRUE] ELSE EnsurePdfPageLoaded(u, p)

\* renderHighestPriority: pages come first, the idle timer last.
RenderHighestPriority(u) ==
  LET w == [u EXCEPT !.kick = FALSE, !.idle = FALSE]
  IN  IF u.busy # 0 THEN [w EXCEPT !.highest = 0]
      ELSE IF u.enabled THEN ForceThumbnails(w) ELSE [w EXCEPT !.idle = TRUE]

\* The `finally' of renderView, before the next event.  What is drawn next has its page, so
\* that its own draw does not end here.
Settle(u) == IF u.kick THEN RenderHighestPriority(u) ELSE u

\* A handler that ends with renderHighestPriority.
Render(u) == Settle([u EXCEPT !.kick = TRUE])

-----------------------------------------------------------------------------
\* The thumbnails are made, the first one has its page; the sidebar is closed.
Start(v) ==
  [rs |-> [p \in Page |-> "INITIAL"], task |-> [p \in Page |-> "none"],
   image |-> [p \in Page |-> Missing], loaded |-> {1}, loads |-> {}, blobs |-> << >>,
   rot |-> 0, visible |-> v, enabled |-> FALSE, highest |-> 0, busy |-> 1,
   canvases |-> {}, idle |-> FALSE, events |-> 0, kick |-> FALSE, quiet |-> FALSE]

Init == \E v \in VisibleViews : t = Start(v)

\* getPage ends, with or without the page.
Loaded(p) ==
  /\ p \in t.loads
  /\ LET u == [t EXCEPT !.loads = @ \ {p}]
         w == IF p \in u.loaded \cup Broken THEN u ELSE SetPdfPage(u, {p})
     IN  t' = Settle(RenderView(w, p))

\* renderContinueCallback, when something else is more urgent.
Pause(p) ==
  /\ t.task[p] = "running" /\ t.highest # p
  /\ t' = [t EXCEPT !.rs[p] = "PAUSED", !.task[p] = "held"]

\* The render task ends, well or not.
Finish(p) ==
  /\ t.task[p] = "running"
  /\ t' = ConvertCanvasToImage([t EXCEPT !.task[p] = "none"], <<p>>, TRUE)

\* toBlob is done: the image is shown, and draw ends.
Encoded ==
  /\ t.blobs # << >>
  /\ LET x == Head(t.blobs)
     IN  t' = Settle([t EXCEPT !.blobs = Tail(@), !.image[x.page] = x.rot, !.kick = x.drawn])

\* onPageRendered, and the `finally' of the page's own draw.
PageDrawn(large) ==
  /\ t.busy # 0
  /\ LET u == [t EXCEPT !.canvases = @ \cup {t.busy}, !.busy = 0]
     IN  \E order \in Orders(IF t.enabled THEN Fresh(u, {t.busy}) ELSE {}) : t' = Render(SetImage(u, order, large))

\* What the user does is bounded.
User  == ~ t.quiet /\ t.events < MaxEvents
Acted == [t EXCEPT !.events = @ + 1]

\* A page that is not drawn yet comes into view.
ScrollPages(p) ==
  /\ User /\ t.busy = 0 /\ p \notin t.canvases \cup Broken
  /\ t' = Render([Acted EXCEPT !.busy = p])

\* #scrollUpdated
ScrollThumbnails(v) ==
  /\ User /\ t.enabled /\ v # t.visible
  /\ t' = Render([Acted EXCEPT !.visible = v])

\* The sidebar is opened: onUpdateThumbnails and onToggled.
ShowThumbnails(large) ==
  /\ User /\ ~ t.enabled
  /\ \E order \in Orders(Fresh(t, Page)) : t' = Render(SetImage([Acted EXCEPT !.enabled = TRUE], order, large))

HideThumbnails == User /\ t.enabled /\ t' = Render([Acted EXCEPT !.enabled = FALSE])

\* Pages are rotated, the visible one is drawn again; the setter of pagesRotation.
Rotate ==
  /\ User /\ t.rot < MaxRotations
  /\ t' = Render(Update([Acted EXCEPT !.rot = @ + 1, !.canvases = {}, !.busy = IF @ = 0 THEN 1 ELSE @], Page))

\* The idle timer: cleanup.
Cleanup ==
  /\ t.idle
  /\ t' = Settle(Reset([t EXCEPT !.idle = FALSE], {p \in Page : t.rs[p] # "FINISHED"}))

Rest == ~ t.quiet /\ t' = [t EXCEPT !.quiet = TRUE]

Next ==
  \/ \E p \in Page : Loaded(p) \/ Pause(p) \/ Finish(p) \/ ScrollPages(p)
  \/ \E large \in BOOLEAN : PageDrawn(large) \/ ShowThumbnails(large)
  \/ \E v \in VisibleViews : ScrollThumbnails(v)
  \/ Encoded \/ HideThumbnails \/ Rotate \/ Cleanup \/ Rest

-----------------------------------------------------------------------------
\* A thumbnail that counts as finished and has its page shows it, as it is rotated now, once all
\* canvases are encoded; the images of canvases from before a rotation are replaced.
ThumbIsUpright ==
  \A p \in t.loaded : t.rs[p] = "FINISHED" /\ (\A i \in DOMAIN t.blobs : t.blobs[i].page # p)
                        => t.image[p] = t.rot

\* The timer of the idle viewer runs only when every thumbnail in view is finished, and no page waits.
IdleIsFinished ==
  t.idle => t.busy = 0 /\ (t.enabled => \A i \in DOMAIN t.visible : t.rs[t.visible[i]] = "FINISHED")

\* A drawing that is held can be resumed, and one under way belongs to a thumbnail that says so.
DrawingsAreKnown ==
  \A p \in Page : /\ (t.rs[p] = "PAUSED") = (t.task[p] = "held")
                  /\ (t.rs[p] = "RUNNING") = (t.task[p] = "running")

\* Every thumbnail in view is finished.
AllDrawn == t.enabled => \A i \in DOMAIN t.visible : t.rs[t.visible[i]] = "FINISHED"

\* What makes these inductive.  A thumbnail without its page was never drawn, or has failed for
\* want of it; a finished one shows the image of the last canvas, or will when that is encoded.
Shape(u) ==
  /\ DOMAIN u = DOMAIN Start(u.visible) /\ u.rs \in [Page -> {"INITIAL", "RUNNING", "PAUSED", "FINISHED"}]
  /\ u.task \in [Page -> {"none", "running", "held"}] /\ DOMAIN u.image = Page
  /\ u.loaded \subseteq Page /\ u.loads \subseteq Page /\ u.canvases \subseteq Page
  /\ u.busy \in Page \cup {0} /\ u.visible \in VisibleViews
  /\ u.blobs \in Seq([page : Page, rot : Nat, drawn : BOOLEAN]) /\ u.rot \in Nat
Shows(u, p) ==
  \/ u.image[p] = u.rot /\ \A i \in DOMAIN u.blobs : u.blobs[i].page # p
  \/ \E i \in DOMAIN u.blobs : /\ u.blobs[i].page = p
                               /\ \A j \in DOMAIN u.blobs : j >= i /\ u.blobs[j].page = p => u.blobs[j].rot = u.rot
ThumbSound(u, p) ==
  /\ (u.rs[p] = "PAUSED") = (u.task[p] = "held") /\ (u.rs[p] = "RUNNING") = (u.task[p] = "running")
  /\ p \notin u.loaded => u.rs[p] \in {"INITIAL", "FINISHED"} /\ (p \in u.loads => u.rs[p] = "INITIAL")
  /\ p \in u.loaded /\ u.rs[p] = "FINISHED" => Shows(u, p)
ThumbsSound(u) == Shape(u) /\ \A p \in Page : ThumbSound(u, p)
IdleSound(u) ==
  u.idle => u.busy = 0 /\ (u.enabled => \A i \in DOMAIN u.visible : u.rs[u.visible[i]] = "FINISHED")
IInv == ThumbsSound(t) /\ IdleSound(t)
=============================================================================
