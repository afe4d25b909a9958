------------------------------ MODULE PdfDocument ------------------------------
(***************************************************************************)
(* The application opens one document after the other.  To close the old   *)
(* one takes a while: its changes are saved, and until its worker has gone *)
(* the answers to earlier requests still come in, those for pages as       *)
(* errors.  Everything a document sets up waits for such an answer, so     *)
(* each continuation has to find out whether it is still wanted; some do,  *)
(* others rely on open() waiting for the worker.                           *)
(*                                                                         *)
(* The user opens no third document while the second one waits for the     *)
(* first to be closed, and edits nothing while a save is under way.  All   *)
(* pages have the same size, as in the whitepaper.                         *)
(***************************************************************************)
EXTENDS Integers, FiniteSets

CONSTANTS MaxDocs, NPages

VARIABLE u

Doc    == 1 .. MaxDocs
Page   == 1 .. NPages
Maybe  == 0 .. MaxDocs                   \* 0 is null
Answer == {"load", "first", "rest", "meta", "labels", "save", "page"}

TypeOK ==
  /\ u.opens \in Maybe /\ u.opening \in Maybe
  /\ u.closing \in {"no", "saving", "destroying"}
  /\ u.pdfLoadingTask \in Maybe /\ u.destroyed \subseteq Doc
  /\ u.pdfDocument \in Maybe /\ u.viewer \in Maybe /\ u.link \in Maybe   \* of the application, the viewer, the links
  /\ u.flight \subseteq Doc \X Answer \X (0 .. NPages)
  /\ u.pages \in [Page -> Maybe] /\ u.views \in BOOLEAN  \* the document a view has its page from
  /\ u.left \in [Doc -> 0 .. NPages - 1]                 \* getPagesLeft
  /\ u.pagesCapability \in {"pending", "resolved", "rejected"}
  /\ u.find \in Maybe                                    \* findController, _scriptingManager
  /\ u.info \in Maybe /\ u.labels \in Maybe
  /\ u.history \in Maybe /\ u.initial \in Maybe          \* the fingerprint; whose view was set last
  /\ u.modified \in BOOLEAN /\ u.saveInProgress \in BOOLEAN
  /\ u.failed \in BOOLEAN
  /\ u.early \in BOOLEAN                                 \* a document was closed with pages under way

\* A request to the worker of a document; one that was told to terminate answers no more.
Ask(w, d, what) == IF d \in w.destroyed THEN w ELSE [w EXCEPT !.flight = @ \cup {<<d, a, 0>> : a \in what}]

-----------------------------------------------------------------------------
NoPages == [p \in Page |-> 0]

\* PDFViewer._resetView
ResetView(w) ==
  [w EXCEPT !.pages = NoPages, !.views = FALSE, !.labels = 0, !.pagesCapability = "pending", !.early = FALSE]

\* PDFViewer.setDocument
ViewerSetDocument(w, d) ==
  LET x == IF w.viewer = 0 THEN w ELSE [ResetView(w) EXCEPT !.find = 0]
      y == [x EXCEPT !.viewer = d]
  IN  IF d = 0 THEN y ELSE Ask(y, d, {"first"})

\* load
LoadDocument(w, d) ==
  Ask(ViewerSetDocument([w EXCEPT !.pdfDocument = d, !.link = d], d), d, {"labels", "meta"})

\* close, once the changes are saved.
CloseNow(w) ==
  LET old  == w.pdfLoadingTask
      x    == [w EXCEPT !.closing = "destroying", !.destroyed = @ \cup {old}, !.pdfLoadingTask = 0, !.pdfDocument = 0,
                        !.link = 0, !.info = 0, !.history = 0, !.initial = 0, !.modified = FALSE,
                        !.saveInProgress = FALSE]
      y    == IF w.pdfDocument = 0 THEN x ELSE ViewerSetDocument(x, 0)
      late == \E f \in w.flight : f[1] = old /\ f[2] \in {"first", "page"}
  IN  [y EXCEPT !.early = @ \/ late]

\* save, unless it is in progress.
Save(w) == Ask([w EXCEPT !.saveInProgress = TRUE], w.pdfDocument, {"save"})

HasChanges(w) == w.pdfDocument # 0 /\ w.modified

\* close: downloadOrSave first, if there are changes; it returns if a save is in progress.
Close(w) ==
  IF HasChanges(w) /\ ~w.saveInProgress THEN Save([w EXCEPT !.closing = "saving"]) ELSE CloseNow(w)

\* The rest of open.
GetDocument(w, d) ==
  Ask([w EXCEPT !.closing = "no", !.opening = 0, !.pdfLoadingTask = d, !.failed = FALSE], d, {"load"})

-----------------------------------------------------------------------------
Start ==
  [opens |-> 0, opening |-> 0, closing |-> "no", pdfLoadingTask |-> 0, destroyed |-> {}, pdfDocument |-> 0,
   viewer |-> 0, link |-> 0, flight |-> {}, pages |-> NoPages, views |-> FALSE, left |-> [d \in Doc |-> 0],
   pagesCapability |-> "pending", find |-> 0, info |-> 0, labels |-> 0, history |-> 0, initial |-> 0,
   modified |-> FALSE, saveInProgress |-> FALSE, failed |-> FALSE, early |-> FALSE]

Init == u = Start

\* open, by the user or at the start.
Open ==
  /\ u.opens < MaxDocs /\ u.opening = 0
  /\ LET d == u.opens + 1
         w == [u EXCEPT !.opens = d]
     IN  u' = IF u.pdfLoadingTask = 0 THEN GetDocument(w, d) ELSE Close([w EXCEPT !.opening = d])

\* The worker of the old document has gone, and its answers with it.
Destroyed ==
  /\ u.closing = "destroying"
  /\ u' = GetDocument([u EXCEPT !.flight = {f \in @ : f[1] \notin u.destroyed}], u.opening)

\* The document is loaded, or cannot be; nobody asks whether it is still wanted.
Loaded(d, ok) ==
  /\ <<d, "load", 0>> \in u.flight
  /\ LET w == [u EXCEPT !.flight = @ \ {<<d, "load", 0>>}]
     IN  u' = IF ok THEN LoadDocument(w, d) ELSE [w EXCEPT !.failed = @ \/ d = u.pdfLoadingTask]

\* The first page.  The error handler does not ask for the document.
FirstPage(d, ok) ==
  /\ <<d, "first", 0>> \in u.flight
  /\ d \in u.destroyed => ~ok
  /\ LET w == [u EXCEPT !.flight = @ \ {<<d, "first", 0>>}]
     IN  u' = CASE ~ok -> [w EXCEPT !.pagesCapability = IF @ = "pending" THEN "rejected" ELSE @,
                                    !.failed = @ \/ d = u.viewer]
                [] ok /\ d = u.viewer -> Ask([w EXCEPT !.views = TRUE, !.pages[1] = d], d, {"rest"})
                [] OTHER -> w

InitializePdfHistory(w, d) == [w EXCEPT !.history = d]
SetInitialView(w, d) == [w EXCEPT !.initial = d]

\* Layout, mode and action of the document: its history and its first view.
InitialView(d) ==
  /\ <<d, "rest", 0>> \in u.flight
  /\ u' = SetInitialView(InitializePdfHistory([u EXCEPT !.flight = @ \ {<<d, "rest", 0>>}], d), d)

\* #onePageRenderedOrForceFetch has come back, once.
Draws(d) == u.viewer = d /\ u.views /\ u.find # d

\* A page was drawn: the searcher gets the document and all pages are fetched.
OnePageRendered(d) ==
  /\ Draws(d)
  /\ u' = [u EXCEPT !.find = d, !.left[d] = NPages - 1, !.flight = @ \cup {<<d, "page", p>> : p \in 2 .. NPages}]

\* One of the other pages.  Neither handler asks for the document: a page goes into
\* whatever view there is, and the last one resolves the capability of the moment.
PageFetched(d, p, ok) ==
  /\ <<d, "page", p>> \in u.flight
  /\ d \in u.destroyed => ~ok
  /\ LET w == [u EXCEPT !.flight = @ \ {<<d, "page", p>>}, !.left[d] = @ - 1]
         x == IF ok /\ w.pages[p] = 0 THEN [w EXCEPT !.pages[p] = d] ELSE w
     IN  u' = IF x.left[d] = 0 /\ x.pagesCapability = "pending" THEN [x EXCEPT !.pagesCapability = "resolved"] ELSE x

\* PDFViewer.setPageLabels
SetPageLabels(w, d) == IF w.viewer = 0 THEN w ELSE [w EXCEPT !.labels = d]

\* _initializePageLabels and _initializeMetadata
PageLabels(d) ==
  /\ <<d, "labels", 0>> \in u.flight
  /\ LET w == [u EXCEPT !.flight = @ \ {<<d, "labels", 0>>}]
     IN  u' = IF d = u.pdfDocument THEN SetPageLabels(w, d) ELSE w

Metadata(d) ==
  /\ <<d, "meta", 0>> \in u.flight
  /\ u' = [u EXCEPT !.flight = @ \ {<<d, "meta", 0>>}, !.info = IF d = u.pdfDocument THEN d ELSE @]

-----------------------------------------------------------------------------
\* The user edits, and saves.
Modify == u.views /\ u.initial = u.pdfDocument /\ u.closing = "no" /\ ~u.saveInProgress /\ u' = [u EXCEPT !.modified = TRUE]
SaveClick == u.pdfDocument # 0 /\ u.closing = "no" /\ u.modified /\ ~u.saveInProgress /\ u' = Save(u)

\* The rest of save; a document that waits to be closed goes on.
Saved(d) ==
  /\ <<d, "save", 0>> \in u.flight
  /\ LET w == [u EXCEPT !.flight = @ \ {<<d, "save", 0>>}, !.saveInProgress = FALSE,
                        !.modified = IF d = u.pdfDocument THEN FALSE ELSE @]
     IN  u' = IF u.closing = "saving" THEN CloseNow(w) ELSE w

Answered(d, ok) ==
  \/ Loaded(d, ok) \/ FirstPage(d, ok) \/ InitialView(d)
  \/ PageLabels(d) \/ Metadata(d)
  \/ \E p \in 2 .. NPages : PageFetched(d, p, ok)

Waits(d) == \E f \in u.flight : f[1] = d /\ f[2] # "save"

Closes   == u.closing = "destroying" \/ \E d \in Doc : <<d, "save", 0>> \in u.flight

Next ==
  \/ Open \/ Destroyed \/ Modify \/ SaveClick
  \/ \E d \in Doc : OnePageRendered(d) \/ Saved(d) \/ \E ok \in BOOLEAN : Answered(d, ok)

Spec == Init /\ [][Next]_u

-----------------------------------------------------------------------------
\* No view shows a page of another document, although pages are put in unasked.
PagesOfDocument == \A p \in Page : u.pages[p] \in {0, u.viewer}

\* The application, the viewer and the links are at the same document, the searcher
\* at that one or at none.
SameDocument == u.viewer = u.pdfDocument /\ u.link = u.pdfDocument /\ u.find \in {0, u.viewer}

\* Title and labels are those of the document, its history and first view too once
\* they were set: answers of the document before that come late change nothing.
DetailsAreOwn ==
  /\ u.info \in {0, u.pdfDocument} /\ u.labels \in {0, u.pdfDocument}
  /\ u.views /\ <<u.pdfDocument, "rest", 0>> \notin u.flight =>
       u.history = u.pdfDocument /\ u.initial = u.pdfDocument

\* pagesPromise tells that all pages were fetched, or could not be; the exception is a
\* document opened while the one before was still fetching its pages.
PagesPromiseHonest ==
  u.pagesCapability = "resolved" /\ u.viewer # 0 /\ ~u.early =>
    \A p \in 2 .. NPages : <<u.viewer, "page", p>> \notin u.flight

\* A changed document is closed only after it was saved, or while that is under way.
ChangesSaved ==
  u.pdfDocument # 0 /\ u'.pdfDocument = 0 =>
    ~u.modified \/ u.saveInProgress \/ <<u.pdfDocument, "save", 0>> \in u.flight

\* All of the document that was opened last is there, but for pages that failed.
Complete ==
  /\ u.viewer # 0 /\ u.viewer = u.pdfLoadingTask /\ u.views
  /\ \A p \in Page : <<u.viewer, "page", p>> \notin u.flight
  /\ u.find = u.viewer /\ u.initial = u.viewer

\* What makes these inductive.  The documents come one after the other, and Current is
\* the one whose answers come: the last one, or the one that is being closed.
Current(w) == IF w.closing = "no" THEN w.opens ELSE w.opens - 1
Shape(w) ==
  /\ DOMAIN w = DOMAIN Start /\ DOMAIN w.pages = Page /\ DOMAIN w.left = Doc
  /\ w.opens \in Maybe /\ w.closing \in {"no", "saving", "destroying"}
OneAfterTheOther(w) ==
  /\ w.opening = (IF w.closing = "no" THEN 0 ELSE w.opens) /\ (w.closing # "no" => w.opens >= 2)
  /\ w.pdfLoadingTask = IF w.closing = "destroying" THEN 0 ELSE Current(w)
  /\ w.destroyed = 1 .. IF w.closing = "destroying" THEN Current(w) ELSE Current(w) - 1
  /\ w.closing = "saving" => w.saveInProgress

\* Answers of a living document are for the viewer; while it is loaded it has no others.
AnswersExpected(w) ==
  \A f \in w.flight :
    /\ f[1] = Current(w) /\ f[1] # 0
    /\ f[2] = "load" => w.flight = {f}
    /\ f[1] \notin w.destroyed => (f[2] = "load" <=> w.viewer # f[1])
    /\ f[1] \in w.destroyed => w.viewer = 0
    /\ f[2] = "page" => w.find = f[1] \/ f[1] \in w.destroyed
    /\ f[2] \in {"first", "page"} /\ f[1] \in w.destroyed => w.early

\* A document that was loaded too late has nothing but its place in the viewer.
ViewerSound(w) ==
  /\ w.viewer \in 0 .. Current(w) /\ w.viewer = w.pdfDocument /\ w.link = w.pdfDocument
  /\ w.find \in {0, w.viewer} /\ w.info \in {0, w.viewer} /\ w.labels \in {0, w.viewer}
  /\ w.viewer \in w.destroyed \cup {0} => w.find = 0 /\ w.info = 0 /\ w.labels = 0 /\ ~w.views
  /\ w.views /\ <<w.viewer, "rest", 0>> \notin w.flight => w.history = w.viewer /\ w.initial = w.viewer
  /\ \A p \in Page : w.pages[p] \in {0, w.viewer}

\* getPagesLeft counts the pages under way.
Pending(w, d) == {p \in 2 .. NPages : <<d, "page", p>> \in w.flight}
PromiseSound(w) ==
  /\ \A d \in Doc \ w.destroyed : w.left[d] = Cardinality(Pending(w, d))
  /\ ~w.early /\ w.pagesCapability = "resolved" => w.viewer # 0 /\ w.find = w.viewer /\ Pending(w, w.viewer) = {}

Sound(w) == Shape(w) /\ OneAfterTheOther(w) /\ AnswersExpected(w) /\ ViewerSound(w) /\ PromiseSound(w)
IInv == Sound(u)
=============================================================================
