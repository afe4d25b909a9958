----------------------------- MODULE PdfPageEdit -----------------------------
(***************************************************************************)
(* The pages of a document are moved, copied, cut, pasted and deleted in   *)
(* the list of thumbnails (option enableSplitMerge).  The mapper knows the *)
(* new order; thumbnails, page views and the text kept for searching are   *)
(* three lists which follow it, each with copies of its own for the undo   *)
(* bar.  A page keeps its number in the file as its id; a view is an       *)
(* object <<id, number>>, a clone has a number of its own.                 *)
(***************************************************************************)
EXTENDS Integers, Sequences, FiniteSets, SequencesExt

CONSTANTS NPages, MaxPages, MaxEdits

VARIABLE e

Id    == 1 .. NPages
View  == Id \X (0 .. MaxPages * (MaxEdits + 1))
Null  == <<>>                       \* no list, no map and no set in use is empty
Range1(q) == {q[i] : i \in DOMAIN q}
Sorted(S) == SetToSortSeq(S, LAMBDA x, y : x < y)
Pick(q, S) == LET o == Sorted(S) IN [i \in DOMAIN o |-> q[o[i]]]

TypeOK ==
  /\ e.ids \in Seq(Id) /\ e.altered \in BOOLEAN        \* pageNumberToId, null if not altered
  /\ e.prev = Null                                     \* only read while an edit is passed on
  /\ e.savedIds \in Seq(Id)
  /\ e.clip \in Seq(1 .. MaxPages) /\ Len(e.clip) = Len(e.clipIds)
  /\ \A l \in {e.thumbs, e.savedThumbs, e.pages, e.savedPages} : Range1(l) \subseteq View
  /\ \A c \in {e.copiedThumbs, e.copiedPages} : Range1(c) \subseteq View
  /\ e.deleted \subseteq 1 .. MaxPages /\ e.deletedPages \subseteq 1 .. MaxPages
  /\ e.isCut \in BOOLEAN /\ e.paste \in BOOLEAN /\ e.bar \in {"status", "copy", "cut", "delete"}
  /\ e.selected \subseteq 1 .. MaxPages
  /\ e.drag \in [on : BOOLEAN, remove : 0 .. MaxPages]
  /\ e.text \in Seq(0 .. NPages) /\ e.savedText \in Seq(0 .. NPages)  \* of which page; 0: none
  /\ Range1(e.copiedText) \subseteq 0 .. NPages
  /\ e.deadThumbs \subseteq View /\ e.deadPages \subseteq View
  /\ e.failed \in BOOLEAN                             \* a listener threw in an undo
  /\ e.stale \in BOOLEAN                              \* a cut was undone after a search
  /\ e.reused \subseteq View /\ e.edits \in 0 .. MaxEdits

-----------------------------------------------------------------------------
\* Mutant: the deleted copies of a page are not skipped.
UpdatePrevAll(old, new, deleted, at, copied) ==
  [i \in DOMAIN new |->
     IF i > at /\ i <= at + Len(copied) THEN -copied[i - at]
     ELSE LET k == Cardinality({j \in 1 .. i : new[j] = new[i] /\ ~ (j > at /\ j <= at + Len(copied))})
          IN  Sorted({p \in DOMAIN old : old[p] = new[i]})[k]]

\* Where each page was before the last edit, negative for a pasted one: the copies of one page
\* keep their order.
UpdatePrev(old, new, deleted, at, copied) ==
  [i \in DOMAIN new |->
     IF i > at /\ i <= at + Len(copied) THEN -copied[i - at]
     ELSE LET k == Cardinality({j \in 1 .. i : new[j] = new[i] /\ ~ (j > at /\ j <= at + Len(copied))})
          IN  Sorted({p \in DOMAIN old : old[p] = new[i] /\ p \notin deleted})[k]]

MapMove(u, selected, index) ==
  LET rest == Pick(u.ids, DOMAIN u.ids \ selected)
      t0   == index - Cardinality({p \in selected : p <= index})
      t    == IF t0 > Len(rest) THEN Len(rest) ELSE t0
      new  == SubSeq(rest, 1, t) \o Pick(u.ids, selected) \o SubSeq(rest, t + 1, Len(rest))
  IN  [u EXCEPT !.ids = new, !.prev = UpdatePrev(u.ids, new, {}, -1, <<>>),
                !.altered = \E i \in DOMAIN new : new[i] # i]

MapDelete(u, pages) ==
  LET new == Pick(u.ids, DOMAIN u.ids \ pages)
  IN  [u EXCEPT !.ids = new, !.savedIds = u.ids, !.prev = UpdatePrev(u.ids, new, pages, -1, <<>>),
                !.altered = TRUE]

MapCancelDelete(u) ==
  IF u.savedIds = Null THEN u ELSE [u EXCEPT !.ids = u.savedIds, !.savedIds = Null, !.altered = TRUE]

MapCleanSaved(u) == [u EXCEPT !.savedIds = Null]

MapCopy(u, pages) ==
  [u EXCEPT !.altered = TRUE, !.clip = Sorted(pages), !.clipIds = Pick(u.ids, pages)]

MapCancelCopy(u) == [u EXCEPT !.clip = <<>>, !.clipIds = <<>>]

MapPaste(u, index) ==
  LET new == SubSeq(u.ids, 1, index) \o u.clipIds \o SubSeq(u.ids, index + 1, Len(u.ids))
  IN  [u EXCEPT !.ids = new, !.prev = UpdatePrev(u.ids, new, {}, index, u.clip), !.altered = TRUE,
                !.clip = <<>>, !.clipIds = <<>>]

\* The lists handed to the worker: list k has the k-th copy of each page, with its place.
PageMapping(places) ==
  LET most == CHOOSE k \in 0 .. MaxPages : (\A i \in DOMAIN places : Cardinality(places[i]) <= k)
                                            /\ (\E i \in DOMAIN places : Cardinality(places[i]) = k)
  IN  [k \in 1 .. most |-> {<<i, Sorted(places[i])[k]>> : i \in {j \in DOMAIN places : Cardinality(places[j]) >= k}}]

ExtractPages(u, pages) ==
  LET o == Pick(u.ids, pages) IN PageMapping([i \in Range1(o) |-> {p \in DOMAIN o : o[p] = i}])

-----------------------------------------------------------------------------
\* A list after an edit; a pasted page is the copied view itself after a cut, otherwise a clone.
Follow(u, list, copied, cut, fresh) ==
  [i \in DOMAIN u.ids |->
     IF u.prev[i] > 0 THEN list[u.prev[i]]
     ELSE IF cut THEN copied[-u.prev[i]] ELSE <<copied[-u.prev[i]][1], fresh + i>>]

UpdateThumbnails(u) ==
  [u EXCEPT !.savedThumbs = u.thumbs,
            !.thumbs = Follow(u, u.thumbs, u.copiedThumbs, u.isCut, u.edits * MaxPages)]

ViewerRebuild(u, type, cut, pages) ==
  LET del == type \in {"cut", "delete"}
  IN  [u EXCEPT !.savedPages = IF del THEN u.pages ELSE @,
                !.deletedPages = IF del THEN pages ELSE @,
                !.pages = Follow(u, u.pages, u.copiedPages, cut, u.edits * MaxPages),
                !.copiedPages = IF type = "paste" THEN Null ELSE @, !.prev = Null]

\* PDFViewer.onPagesEdited
ViewerEdited(u, type, cut, pages) ==
  CASE type = "copy"       -> [u EXCEPT !.copiedPages = [p \in pages |-> u.pages[p]]]
    [] type = "cancelCopy" -> [u EXCEPT !.copiedPages = Null]
    [] type = "cancelDelete" ->
         IF u.savedPages = Null THEN [u EXCEPT !.deletedPages = {}]
         ELSE [u EXCEPT !.deletedPages = {}, !.pages = u.savedPages, !.savedPages = Null]
    [] type = "cleanSavedData" ->
         IF u.deletedPages = {} THEN u
         ELSE [u EXCEPT !.deletedPages = {}, !.savedPages = Null,
                        !.deadPages = @ \cup IF u.savedPages = Null THEN {}
                                             ELSE {u.savedPages[p] : p \in u.deletedPages}]
    [] OTHER -> ViewerRebuild(u, type, cut, pages)

\* The text kept for a page, none if the list is too short.
TextAt(text, p) == IF p \in DOMAIN text THEN text[p] ELSE 0

\* The text is kept for the undo of a deletion, not for that of a cut.
FindRebuild(u, type) ==
  [u EXCEPT !.savedText = IF type = "delete" THEN u.text ELSE @,
            !.text = [i \in DOMAIN u.ids |->
                        IF u.prev[i] > 0 THEN TextAt(u.text, u.prev[i])
                        ELSE IF -u.prev[i] \in DOMAIN u.copiedText THEN u.copiedText[-u.prev[i]] ELSE 0]]

\* PDFFindController.#onPagesEdited
FindEdited(u, type, pages) ==
  CASE u.text = Null           -> u
    [] type = "copy"           -> [u EXCEPT !.copiedText = [p \in pages |-> TextAt(u.text, p)]]
    [] type = "cancelCopy"     -> [u EXCEPT !.copiedText = Null]
    [] type = "cancelDelete"   -> [u EXCEPT !.text = u.savedText]
    [] type = "cleanSavedData" -> [u EXCEPT !.savedText = Null]
    [] OTHER -> FindRebuild(u, type)

\* `pagesedited': the find controller listens first; what it throws keeps the viewer from hearing.
Edited(u, type, cut, pages) ==
  IF type = "cancelDelete" /\ u.text # Null /\ u.savedText = Null THEN [u EXCEPT !.failed = TRUE]
  ELSE ViewerEdited(FindEdited(u, type, pages), type, cut, pages)

-----------------------------------------------------------------------------
UpdateStatus(u, type) == [u EXCEPT !.bar = type]

ClearSelection(u) == [u EXCEPT !.selected = {}]

CanDelete(u) == u.selected # {} /\ Cardinality(u.selected) < Len(u.thumbs)

TogglePasteMode(u, on) == [u EXCEPT !.paste = on]

DismissUndo(u) ==
  LET w == [u EXCEPT !.copiedThumbs = Null, !.isCut = FALSE, !.deleted = {},
                     !.savedThumbs = IF u.deleted = {} THEN @ ELSE Null,
                     !.deadThumbs = @ \cup IF u.savedThumbs = Null THEN {}
                                           ELSE {u.savedThumbs[p] : p \in u.deleted}]
  IN  Edited(MapCleanSaved(TogglePasteMode(w, FALSE)), "cleanSavedData", FALSE, {})

SelectPage(u, page, checked) ==
  LET w == IF u.bar # "status" THEN DismissUndo(u) ELSE u
  IN  UpdateStatus([w EXCEPT !.selected = IF checked THEN @ \cup {page} ELSE @ \ {page}], "status")

CopyPages(u) ==
  LET w == MapCopy(UpdateStatus(u, IF u.isCut THEN "cut" ELSE "copy"), u.selected)
      x == Edited([w EXCEPT !.savedThumbs = IF u.isCut THEN @ ELSE Null,
                            !.copiedThumbs = [p \in u.selected |-> u.thumbs[p]]], "copy", FALSE, u.selected)
  IN  TogglePasteMode(IF u.isCut THEN x ELSE ClearSelection(x), TRUE)

DeletePages(u, type) ==
  LET w == MapDelete([UpdateStatus(u, type) EXCEPT !.deleted = u.selected, !.edits = @ + 1], u.selected)
  IN  Edited(ClearSelection(UpdateThumbnails(w)), type, FALSE, u.selected)

CutPages(u) == DeletePages(CopyPages([u EXCEPT !.isCut = TRUE]), "cut")

PastePages(u, index) ==
  LET w == UpdateThumbnails(MapPaste([u EXCEPT !.edits = @ + 1], index))
      x == Edited(w, "paste", u.isCut, {})
  IN  UpdateStatus(TogglePasteMode([x EXCEPT !.copiedThumbs = Null, !.isCut = FALSE,
                     !.reused = @ \cup IF u.isCut THEN Range1(u.copiedThumbs) ELSE {}], FALSE), "status")

UndoPages(u) ==
  LET w == UpdateStatus(ClearSelection(u), "status")
      x == IF u.copiedThumbs = Null THEN w
           ELSE Edited(TogglePasteMode(MapCancelCopy([w EXCEPT !.copiedThumbs = Null]), FALSE),
                       "cancelCopy", FALSE, {})
      y == [x EXCEPT !.isCut = FALSE, !.stale = @ \/ (u.isCut /\ u.text # Null)]
  IN  IF u.savedThumbs = Null THEN y
      ELSE Edited(MapCancelDelete([y EXCEPT !.thumbs = u.savedThumbs, !.savedThumbs = Null]),
                  "cancelDelete", FALSE, {})

\* The pages that are dragged are dropped behind page `index'; nowhere for a drag that is cancelled.
StopDragging(u, dropping, index) ==
  LET w     == [u EXCEPT !.drag = [on |-> FALSE, remove |-> 0]]
      stays == Cardinality(u.selected) = 1 /\ {index, index + 1} \cap u.selected # {}
      moved == ClearSelection(UpdateThumbnails(MapMove([w EXCEPT !.edits = @ + 1], u.selected, index)))
  IN  IF dropping /\ ~ stays THEN Edited(UpdateStatus(moved, "status"), "move", FALSE, {})
      ELSE IF u.drag.remove # 0 THEN SelectPage(w, u.drag.remove, FALSE) ELSE w

-----------------------------------------------------------------------------
Init ==
  e = [ids |-> [i \in Id |-> i], altered |-> FALSE, prev |-> Null, savedIds |-> Null,
       clip |-> <<>>, clipIds |-> <<>>, thumbs |-> [i \in Id |-> <<i, 0>>], savedThumbs |-> Null,
       copiedThumbs |-> Null, deleted |-> {}, isCut |-> FALSE, paste |-> FALSE, bar |-> "status",
       selected |-> {}, drag |-> [on |-> FALSE, remove |-> 0], pages |-> [i \in Id |-> <<i, 0>>],
       savedPages |-> Null, copiedPages |-> Null, deletedPages |-> {}, text |-> Null, savedText |-> Null,
       copiedText |-> Null, deadThumbs |-> {}, deadPages |-> {}, failed |-> FALSE, stale |-> FALSE, reused |-> {},
       edits |-> 0]

Page == DOMAIN e.thumbs

\* Of the keys, only Escape is pressed while the pointer drags.
Free == ~ e.drag.on

Select(page) == Free /\ e' = SelectPage(e, page, page \notin e.selected)

Copy == Free /\ e.selected # {} /\ Len(e.ids) + Cardinality(e.selected) <= MaxPages /\ e' = CopyPages(e)

Cut == Free /\ CanDelete(e) /\ e.edits < MaxEdits /\ e' = CutPages(e)

Delete == Free /\ CanDelete(e) /\ ~ e.paste /\ e.edits < MaxEdits /\ e' = DeletePages(e, "delete")

Paste(index) == Free /\ e.paste /\ e.edits < MaxEdits /\ e' = PastePages(e, index)

Undo == Free /\ e.bar # "status" /\ e' = UndoPages(e)

\* The button that closes the bar, which is hidden after a copy.
CloseBar == Free /\ e.bar \in {"cut", "delete"} /\ e' = UpdateStatus(DismissUndo(e), "status")

SaveExtracted == Free /\ e.selected # {} /\ e' = UpdateStatus(ClearSelection(e), "status")

StartDragging(page) ==
  /\ Free /\ ~ e.paste /\ Len(e.thumbs) > 1 /\ e.edits < MaxEdits
  /\ LET w == IF page \in e.selected THEN e ELSE SelectPage(e, page, TRUE)
     IN  e' = [w EXCEPT !.drag = [on |-> TRUE, remove |-> IF page \in e.selected THEN 0 ELSE page]]

EndDragging ==
  /\ e.drag.on
  /\ \/ e' = StopDragging(e, FALSE, 0)
     \/ \E index \in 0 .. Len(e.thumbs) : e.edits < MaxEdits /\ e' = StopDragging(e, TRUE, index)

\* The first search of the document.
Search == e.text = Null /\ e' = [e EXCEPT !.text = e.ids]

\* An undo in which a listener threw leaves fewer page views than thumbnails, and edits that
\* follow read past the end of a list and throw in turn: the model ends with it.
Next ==
  /\ ~ e.failed
  /\ \/ Copy \/ Cut \/ Delete \/ Undo \/ CloseBar \/ SaveExtracted \/ EndDragging \/ Search
     \/ \E page \in Page : Select(page) \/ StartDragging(page)
     \/ \E index \in 0 .. Len(e.thumbs) : Paste(index)

-----------------------------------------------------------------------------
\* Thumbnails are of the pages of the mapper, copies included, in its order, even when a listener
\* threw; the page views are the same ones unless it did.
SamePages ==
  /\ e.ids = [i \in DOMAIN e.thumbs |-> e.thumbs[i][1]]
  /\ ~ e.failed => e.pages = e.thumbs

\* The text is that of the given pages; a page copied before the first search has none.
TextOf(text, ids) == Len(text) = Len(ids) /\ \A i \in DOMAIN ids : text[i] \in {0, ids[i]}

\* A page is searched for its own text, until a cut is undone after a search: the find controller
\* keeps nothing for that undo, and takes back what it kept for an earlier one, or throws.
TextOfPage == e.text # Null /\ ~ e.stale => TextOf(e.text, [i \in DOMAIN e.pages |-> e.pages[i][1]])

\* No thumbnail in use was destroyed, and of the page views in use only such as were cut and pasted
\* back: the page viewer forgets a cut only when the undo bar is dismissed, and then destroys them.
ShownIsAlive ==
  /\ Range1(e.thumbs) \cap e.deadThumbs = {}
  /\ Range1(e.pages) \cap e.deadPages \subseteq e.reused

\* While a cut or a deletion can be undone, mapper, thumbnails and page views have kept what was
\* there before, and no such thumbnail was destroyed; text kept for a deletion is that of its pages.
UndoIsReady ==
  /\ e.bar \in {"cut", "delete"} =>
       /\ e.savedThumbs # Null /\ e.savedThumbs = e.savedPages
       /\ e.savedIds = [i \in DOMAIN e.savedThumbs |-> e.savedThumbs[i][1]]
       /\ Range1(e.savedThumbs) \cap e.deadThumbs = {}
  /\ e.bar = "delete" /\ e.savedText # Null /\ ~ e.stale => TextOf(e.savedText, e.savedIds)

\* What is handed over for saving puts the selected pages together in the order shown; an
\* arrangement that counts as unchanged is the original one (up to pages deleted at the end).
SavedIsShown ==
  /\ \A S \in (SUBSET DOMAIN e.ids) \ {{}} :
       LET lists == ExtractPages(e, S)
           o     == Pick(e.ids, S)
       IN  /\ UNION Range1(lists) = {<<o[p], p>> : p \in DOMAIN o}
           /\ \A k \in DOMAIN lists : \A x, y \in lists[k] : x[1] = y[1] => x = y
  /\ e.altered \/ e.ids = [i \in DOMAIN e.ids |-> i]

=============================================================================
