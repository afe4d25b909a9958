----------------------------- MODULE PdfRendering -----------------------------
(***************************************************************************)
(* How the whitepaper viewer renders pages: PDFRenderingQueue, the page    *)
(* views with their render tasks and canvases, the LRU buffer of drawn     *)
(* pages and the part of PDFViewer that drives them.  A handler is one     *)
(* atomic action: the microtasks it queues (the `then' of a loaded page,   *)
(* the `finally' of a cancelled draw) run before the next event.  The      *)
(* state is one record, which the methods transform as they call each      *)
(* other.  Pages are below the canvas limit, so there is no detail view,   *)
(* and the thumbnail view is closed.                                       *)
(***************************************************************************)
EXTENDS Naturals, Sequences, FiniteSets, SequencesExt, FiniteSetsExt

CONSTANTS NPages,        \* pages of the document
          CacheSize,     \* DEFAULT_CACHE_SIZE
          VisibleViews,  \* the lists of visible pages scrolling can give
          Broken,        \* pages that getPage fails for
          Editable,      \* pages with editable annotations
          PreRenderExtra \* spread mode

Page == 1 .. NPages
Task == 1 .. 3 * NPages   \* numbers of render tasks, used again once free
TasksOf(p) == 3 * p - 2 .. 3 * p

VARIABLE s    \* the viewer

RenderingStates == {"INITIAL", "RUNNING", "PAUSED", "FINISHED"}

TypeOK ==
  /\ s.rs \in [Page -> RenderingStates]
  /\ s.task \in [Page -> Task \cup {0}]        \* renderTask of the view
  /\ s.owner \in [Task -> Page \cup {0}]       \* the view a task under way draws
  /\ s.waiting \subseteq Task                  \* tasks whose continuation is held
  /\ s.resume \in [Page -> Task \cup {0}]      \* the continuation a view holds
  /\ s.canvas \in [Page -> Task \cup {0}]      \* the canvas, named after its task
  /\ s.prev \in [Page -> Task \cup {0}]        \* prevCanvas of the draw under way
  /\ s.shown \in [Page -> SUBSET Task]         \* canvases in the document
  /\ s.buf \in Seq(Page) /\ s.size \in Nat
  /\ s.loaded \subseteq Page                   \* views with a pdfPage
  /\ s.loads \subseteq Page                    \* views drawn as soon as getPage ends
  /\ s.highest \in Page \cup {0}
  /\ s.visible \in VisibleViews /\ s.down \in BOOLEAN
  /\ s.idle \in BOOLEAN /\ s.scaleTimeout \in BOOLEAN /\ s.kick \in BOOLEAN
  /\ s.quiet \in BOOLEAN

-----------------------------------------------------------------------------
(* BasePDFPageView and PDFPageView *)

\* _resetCanvas
ResetCanvas(t, p) == [t EXCEPT !.canvas[p] = 0, !.prev[p] = 0, !.shown[p] = {}]

\* Mutant: the task is forgotten and not cancelled.
CancelForgets(t, p) == [t EXCEPT !.task[p] = 0, !.resume[p] = 0]

\* cancelRendering: the task's onError drops both canvases at once; the
\* `finally' of its draw asks for the next rendering (kick).
CancelRendering(t, p) ==
  IF t.task[p] = 0
  THEN [t EXCEPT !.resume[p] = 0]
  ELSE ResetCanvas([t EXCEPT !.owner[t.task[p]] = 0, !.waiting = @ \ {t.task[p]},
                             !.task[p] = 0, !.resume[p] = 0, !.kick = TRUE], p)

\* reset: with keepCanvasWrapper the old canvas stays until the new one is drawn.
Reset(t, p, keepCanvasWrapper) ==
  LET c == [CancelRendering(t, p) EXCEPT !.rs[p] = "INITIAL"]
  IN  IF keepCanvasWrapper THEN c ELSE ResetCanvas(c, p)

\* update: a zoom with a drawing delay stretches the canvas that is there.
Update(t, p, postpone) ==
  IF t.canvas[p] # 0 /\ postpone
  THEN IF t.rs[p] = "FINISHED" THEN t
       ELSE [CancelRendering(t, p) EXCEPT !.rs[p] = "FINISHED"]
  ELSE Reset(t, p, TRUE)

-----------------------------------------------------------------------------
(* PDFPageViewBuffer *)

DestroyFirstView(t) == [Reset(t, Head(t.buf), FALSE) EXCEPT !.buf = Tail(@)]

Push(t, p) ==
  LET b == [t EXCEPT !.buf = Append(SelectSeq(@, LAMBDA q : q # p), p)]
  IN  IF Len(b.buf) > b.size THEN DestroyFirstView(b) ELSE b

\* resize: the pages to keep move to the end, in their order; the loop drops
\* the first ones until the size is right.
Resize(t, size, keep) ==
  LET buf  == SelectSeq(t.buf, LAMBDA q : q \notin keep) \o SelectSeq(t.buf, LAMBDA q : q \in keep)
      drop == IF Len(buf) > size THEN Len(buf) - size ELSE 0
      init == [t EXCEPT !.buf = buf, !.size = size]
  IN  FoldLeft(LAMBDA acc, i : DestroyFirstView(acc), init, [i \in 1 .. drop |-> i])

-----------------------------------------------------------------------------
(* Drawing *)

\* draw, up to the await: without a pdfPage it gives up; otherwise a new canvas
\* and a new task, and the view goes to the end of the buffer.
Draw(t, p) ==
  IF p \notin t.loaded
  THEN [t EXCEPT !.rs[p] = "FINISHED", !.kick = TRUE]
  ELSE LET id == Min({k \in TasksOf(p) : t.owner[k] = 0 /\ k \notin t.shown[p] \cup {t.canvas[p]}})
       IN  Push([t EXCEPT !.rs[p] = "RUNNING", !.task[p] = id, !.owner[id] = p,
                          !.prev[p] = t.canvas[p], !.canvas[p] = id], p)

\* Mutant: a paused view is only marked as running.
RenderViewMarks(t, p) ==
  CASE t.rs[p] = "FINISHED" -> t
    [] t.rs[p] \in {"RUNNING", "PAUSED"} -> [t EXCEPT !.highest = p, !.rs[p] = "RUNNING"]
    [] t.rs[p] = "INITIAL"  -> Draw([t EXCEPT !.highest = p], p)

\* renderView.  resume is called in the state PAUSED only, so it counts as used up.
RenderView(t, p) ==
  CASE t.rs[p] = "FINISHED" -> t
    [] t.rs[p] = "PAUSED"   -> [t EXCEPT !.highest = p, !.rs[p] = "RUNNING", !.waiting = @ \ {t.resume[p]}, !.resume[p] = 0]
    [] t.rs[p] = "RUNNING"  -> [t EXCEPT !.highest = p]
    [] t.rs[p] = "INITIAL"  -> Draw([t EXCEPT !.highest = p], p)

\* The ids between the first and the last visible page, in scrolling direction.
Holes(first, last, ahead) ==
  [i \in 1 .. Max({1, last - first}) - 1 |-> IF ahead THEN first + i ELSE last - i]

\* #getScrollAhead
ScrollAhead(t, first, last) == first = 1 \/ (last # NPages /\ t.down)

\* getHighestPriority: the visible pages, then the holes between them, then the
\* next page (or two) in scrolling direction; 0 if all of these are finished.
HighestPriority(t, views) ==
  LET first == Min(Range(views))
      last  == Max(Range(views))
      ahead == ScrollAhead(t, first, last)
      step(n) == IF ahead THEN last + n ELSE first - n
      holes == SelectSeq(Holes(first, last, ahead), LAMBDA q : q \notin Range(views))
      todo  == SelectSeq(views \o holes \o <<step(1)>> \o (IF PreRenderExtra THEN <<step(2)>> ELSE <<>>),
                         LAMBDA q : q \in Page /\ t.rs[q] # "FINISHED")
  IN  IF todo = <<>> THEN 0 ELSE Head(todo)

\* renderHighestPriority and forceRendering: the next view is drawn once its
\* pdfPage is there; with nothing left to do the idle timer starts.
Force(t, views) ==
  LET h == HighestPriority(t, views)
  IN  CASE h = 0          -> [t EXCEPT !.idle = TRUE]
        [] h \in t.loaded -> RenderView([t EXCEPT !.idle = FALSE], h)
        [] OTHER          -> [t EXCEPT !.idle = FALSE, !.loads = @ \cup {h}]

\* The event ends: the `finally' of every draw that ended asks for the next
\* rendering.  What it starts may evict a view under way, hence twice.
Settle(t) ==
  LET once(u) == IF u.kick THEN Force([u EXCEPT !.kick = FALSE], u.visible) ELSE u
  IN  [once(once(t)) EXCEPT !.kick = FALSE]

\* PDFViewer.update
ViewerUpdate(t) ==
  LET n == Len(t.visible)
  IN  Force(Resize(t, Max({CacheSize, 2 * n + 1}), Range(t.visible)), t.visible)

-----------------------------------------------------------------------------
Init ==
  \E v \in VisibleViews :
    s = ViewerUpdate(
        [rs |-> [p \in Page |-> "INITIAL"], task |-> [p \in Page |-> 0], owner |-> [k \in Task |-> 0],
         waiting |-> {}, resume |-> [p \in Page |-> 0], canvas |-> [p \in Page |-> 0],
         prev |-> [p \in Page |-> 0], shown |-> [p \in Page |-> {}], buf |-> <<>>, size |-> CacheSize,
         loaded |-> {1}, loads |-> {}, highest |-> 0, visible |-> v, down |-> TRUE,
         idle |-> FALSE, scaleTimeout |-> FALSE, kick |-> FALSE, quiet |-> FALSE])

\* The user scrolls: _scrollUpdate.
Scroll(views) ==
  /\ views # s.visible
  /\ s' = Settle(ViewerUpdate([s EXCEPT !.visible = views, !.down = Min(Range(views)) >= Min(Range(s.visible))]))

\* refresh: every view is updated, the timers are cleared.
Refresh(t, postpone) ==
  FoldLeft(LAMBDA acc, p : Update(acc, p, postpone), [t EXCEPT !.scaleTimeout = FALSE], [p \in Page |-> p])

\* The user zooms, with the wheel (drawing is postponed) or by a button:
\* #setScaleUpdatePages, then `scalechanging' makes the application call update.
Zoom(postpone) ==
  s' = Settle(ViewerUpdate([Refresh(s, postpone) EXCEPT !.scaleTimeout = postpone]))

\* The timer of #setScaleUpdatePages: refresh().
ScaleTimer ==
  /\ s.scaleTimeout
  /\ s' = Settle(ViewerUpdate(Refresh(s, FALSE)))

\* pagesRotation is set; the application calls forceRendering.
Rotate == LET t == Refresh(s, FALSE) IN s' = Settle(Force(t, t.visible))

\* cleanup: what is not finished starts again.
Cleanup(t) ==
  FoldLeft(LAMBDA acc, p : IF acc.rs[p] # "FINISHED" THEN Reset(acc, p, FALSE) ELSE acc, t, [p \in Page |-> p])

\* onIdle, after CLEANUP_TIMEOUT.
Idle ==
  /\ s.idle
  /\ s' = Settle(Cleanup([s EXCEPT !.idle = FALSE]))

\* Annotation editing is switched on or off: cleanup, the pages with editable
\* annotations are reset, the visible ones are rendered first.
ToggleEditing ==
  LET t == Cleanup(s)
      e == {p \in Editable : t.canvas[p] # 0}
      u == FoldLeft(LAMBDA acc, p : IF p \in e THEN Reset(acc, p, TRUE) ELSE acc, t, [p \in Page |-> p])
      v == SelectSeq(u.visible, LAMBDA p : p \in e)
  IN  s' = Settle(IF v = <<>> THEN u ELSE Force(u, v))

\* getPage ends, for the eager initialisation of setDocument or for a view that
\* is to be drawn: setPdfPage resets the view.
PageLoaded(p) ==
  /\ p \notin s.loaded
  /\ LET t == IF p \in Broken THEN s ELSE Reset([s EXCEPT !.loaded = @ \cup {p}], p, FALSE)
         u == [t EXCEPT !.loads = @ \ {p}]
     IN  s' = Settle(IF p \in s.loads THEN RenderView(u, p) ELSE u)

\* #renderContinueCallback: a canvas with no predecessor may be shown already; a
\* view that is not the most important one holds the continuation.
Continue(k, early) ==
  LET p == s.owner[k]
      show == [s EXCEPT !.shown[p] = IF s.prev[p] = 0 THEN @ \cup {s.canvas[p]} ELSE @]
  IN  /\ p # 0 /\ k \notin s.waiting
      /\ s' = IF s.highest # p
              THEN [show EXCEPT !.rs[p] = "PAUSED", !.resume[p] = k, !.waiting = @ \cup {k}]
              ELSE IF early THEN show ELSE s

\* The end of _drawCanvas: the canvas replaces the previous one, if that is in
\* the document.  A rendering error ends in the same state.
Finish(k) ==
  LET p == s.owner[k]
      old == s.prev[p]
      now == IF old = 0 THEN s.shown[p] \cup {s.canvas[p]}
             ELSE IF old \in s.shown[p] THEN (s.shown[p] \ {old}) \cup {s.canvas[p]} ELSE s.shown[p]
  IN  /\ p # 0 /\ k \notin s.waiting
      /\ s' = Settle([s EXCEPT !.owner[k] = 0, !.task[p] = IF @ = k THEN 0 ELSE @,
                               !.rs[p] = "FINISHED", !.shown[p] = now, !.prev[p] = 0, !.kick = TRUE])

-----------------------------------------------------------------------------
\* The user only reads from now on.
Read == /\ ~s.quiet
        /\ s' = [s EXCEPT !.quiet = TRUE]

User ==
  /\ ~s.quiet
  /\ \/ \E v \in VisibleViews : Scroll(v)
     \/ \E postpone \in BOOLEAN : Zoom(postpone)
     \/ Rotate \/ ToggleEditing

Next ==
  \/ User \/ Read
  \/ ScaleTimer \/ Idle
  \/ \E p \in Page : PageLoaded(p)
  \/ \E k \in Task : Finish(k) \/ \E early \in BOOLEAN : Continue(k, early)

Spec == Init /\ [][Next]_s

\* Whether a task of view p is under way and not held.
Draws(p) == \E k \in TasksOf(p) : s.owner[k] = p /\ k \notin s.waiting

-----------------------------------------------------------------------------
\* The rendering state of a view tells what its render task does: a task under way
\* belongs to one view that knows it as its renderTask, RUNNING while it draws and
\* PAUSED with the continuation at hand while it is held; after a reset, an
\* eviction or a postponed zoom nothing is left that could finish the view.
StateMatchesTask ==
  /\ \A k \in Task : s.owner[k] # 0 => s.task[s.owner[k]] = k
  /\ \A p \in Page :
       LET k == s.task[p] IN
       CASE s.rs[p] = "RUNNING" -> k # 0 /\ s.owner[k] = p /\ k \notin s.waiting
         [] s.rs[p] = "PAUSED"  -> k # 0 /\ s.owner[k] = p /\ k \in s.waiting /\ s.resume[p] = k
         [] OTHER               -> k = 0

\* Canvases are what costs memory: only views in the buffer have one, so the
\* number of canvases is bounded by the buffer and not by the document.
CanvasesBuffered ==
  /\ Len(s.buf) <= s.size
  /\ \A p \in Page : s.canvas[p] # 0 \/ s.shown[p] # {} => p \in Range(s.buf)

\* A page that counts as finished shows one complete canvas, unless its document
\* page could not be fetched or the timer of a postponed zoom will draw it again.
FinishedIsShown ==
  \A p \in Page :
    s.rs[p] = "FINISHED" =>
      \/ s.shown[p] = {s.canvas[p]} /\ s.canvas[p] # 0
      \/ s.scaleTimeout
      \/ p \in Broken /\ p \notin s.loaded

\* The clean-up of the idle timer never throws away what the user looks at: while
\* the timer runs, all visible pages are finished.
IdleIsIdle == s.idle => \A p \in Range(s.visible) : s.rs[p] = "FINISHED"

\* Once the user only reads, the visible pages are drawn and stay so, however many
\* stale draws of pages scrolled past take their place in the queue.
Drawn == \A p \in Range(s.visible) : s.rs[p] = "FINISHED" /\ (s.shown[p] = {s.canvas[p]} \/ p \in Broken)
=============================================================================
