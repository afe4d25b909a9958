------------------------------ MODULE PdfSidebar ------------------------------
(***************************************************************************)
(* The sidebar of the viewer, with the outline of the document in it, and  *)
(* the history in which the view of each document is kept.  Documents are  *)
(* opened one after the other and some again: `gen' is the document as an  *)
(* object, `file' its fingerprint.  Answers of the worker come late, maybe *)
(* when another document is open.  Promise callbacks run before the next   *)
(* event.  The sidebar opened by one document stays open for the next.     *)
(***************************************************************************)
EXTENDS Integers, Sequences, FiniteSets

CONSTANTS Files, Earlier, MaxOpens, CacheSize, NPages, DestPages

VARIABLE b

View == {"thumbs", "outline", "layers"}      \* attachments are shown like layers
Gen  == 1 .. MaxOpens
Entry == [file : Files, view : View \cup {"none", "unknown"}, page : BOOLEAN]

TypeOK ==
  /\ b.gen \in 0 .. MaxOpens /\ b.opens \in 0 .. MaxOpens /\ b.file \in Files
  /\ b.initial \in BOOLEAN /\ b.rendered \in BOOLEAN          \* of the application
  /\ b.isOpen \in BOOLEAN /\ b.hidden \in BOOLEAN
  /\ b.active \in View /\ b.disabled \subseteq View /\ b.currentDisabled \in BOOLEAN
  /\ b.viewSet \in BOOLEAN /\ b.eventSent \in BOOLEAN
  /\ b.told \in View \cup {"none"} /\ b.thumbs \in BOOLEAN    \* the outline viewer, the rendering queue
  /\ b.asked \subseteq Gen                                    \* outlines that were asked for
  /\ b.outline \in 0 .. MaxOpens /\ b.pagesLoaded \in BOOLEAN \* of which document; 0: none
  /\ b.capability \in {"null", "pending", "resolved"}
  /\ b.hashes \in {"null", "pending", "resolved"} /\ b.loops \subseteq Gen
  /\ b.item \in 0 .. NPages /\ b.page \in 1 .. NPages
  /\ b.memory \in Seq(Entry) /\ b.storage \in Seq(Entry)

-----------------------------------------------------------------------------
\* ViewHistory: the oldest entries go when there are too many, even that of this file.
Forget(files) ==
  IF Len(files) < CacheSize THEN files ELSE SubSeq(files, Len(files) - CacheSize + 2, Len(files))

HistoryOf(files, f) ==
  LET kept == Forget(files)
  IN  IF \E i \in DOMAIN kept : kept[i].file = f THEN kept
      ELSE Append(kept, [file |-> f, view |-> "unknown", page |-> FALSE])

Stored(u) == CHOOSE x \in {u.memory[i] : i \in DOMAIN u.memory} : x.file = u.file

Store(u, x) ==
  LET m == [i \in DOMAIN u.memory |-> IF u.memory[i].file = u.file THEN x ELSE u.memory[i]]
  IN  [u EXCEPT !.memory = m, !.storage = m]

-----------------------------------------------------------------------------
VisibleView(u) == IF u.isOpen THEN u.active ELSE "none"

\* The application hears of the view.
OnSidebarViewChanged(u) ==
  LET w == [u EXCEPT !.thumbs = VisibleView(u) = "thumbs"]
  IN  IF u.initial /\ u.gen # 0 THEN Store(w, [Stored(u) EXCEPT !.view = VisibleView(u)]) ELSE w

DispatchView(u) ==
  OnSidebarViewChanged([u EXCEPT !.told = VisibleView(u), !.eventSent = @ \/ u.viewSet])

\* switchView of a view that is not `none', when the sidebar is not opened by it.
SwitchOnly(u, view) ==
  IF view \in u.disabled THEN u
  ELSE LET w == [u EXCEPT !.active = view, !.thumbs = @ \/ (u.isOpen /\ view = "thumbs")]
       IN  IF view # u.active THEN DispatchView(w) ELSE w

OpenSidebar(u) ==
  IF u.isOpen THEN u
  ELSE LET w == SwitchOnly([u EXCEPT !.isOpen = TRUE, !.hidden = FALSE], u.active)
       IN  DispatchView([w EXCEPT !.thumbs = w.active = "thumbs"])

CloseSidebar(u) ==
  IF ~ u.isOpen THEN u ELSE DispatchView([u EXCEPT !.isOpen = FALSE, !.hidden = TRUE, !.thumbs = FALSE])

SwitchView(u, view, forceOpen) ==
  IF view = "none" THEN CloseSidebar(u)
  ELSE IF view \in u.disabled THEN u
  ELSE IF forceOpen /\ ~ u.isOpen THEN OpenSidebar([u EXCEPT !.active = view])
  ELSE SwitchOnly(u, view)

\* What Sidebar.toggle does to the element is done again, or undone, by these.
ToggleSidebar(u) == IF u.isOpen THEN CloseSidebar(u) ELSE OpenSidebar(u)

SetInitialSidebar(u, view) ==
  IF u.viewSet THEN u
  ELSE LET w == [u EXCEPT !.viewSet = TRUE]
           x == IF view \in {"none", "unknown"} THEN w ELSE SwitchView(w, view, TRUE)
       IN  IF view \in {"none", "unknown"} \/ ~ x.eventSent THEN DispatchView(x) ELSE x

ResetSidebar(u) ==
  LET w == SwitchView([u EXCEPT !.viewSet = FALSE, !.eventSent = FALSE], "thumbs", FALSE)
  IN  [w EXCEPT !.disabled = {}, !.currentDisabled = TRUE]

TreeLoaded(u, view, some) ==
  LET w == [u EXCEPT !.disabled = IF some THEN @ \ {view} ELSE @ \cup {view}]
  IN  IF ~ some /\ u.active = view THEN SwitchView(w, "thumbs", FALSE) ELSE w

-----------------------------------------------------------------------------
\* The capability is resolved, and the button follows unless the sidebar was reset.
CurrentItemKnown(u, enabled) ==
  [u EXCEPT !.capability = "resolved", !.currentDisabled = IF u.viewSet THEN ~ enabled ELSE @]

ResetOutline(u) ==
  LET w == IF u.capability = "pending" THEN CurrentItemKnown(u, FALSE) ELSE u
  IN  [w EXCEPT !.outline = 0, !.item = 0, !.page = 1, !.pagesLoaded = FALSE, !.capability = "null",
                !.hashes = "null"]

OutlineLoaded(u, some) ==
  LET w == TreeLoaded([u EXCEPT !.capability = "pending"], "outline", some)
  IN  IF ~ some THEN CurrentItemKnown(w, FALSE) ELSE IF u.pagesLoaded THEN CurrentItemKnown(w, TRUE) ELSE w

RenderOutline(u, some) ==
  LET w == IF u.outline # 0 THEN ResetOutline(u) ELSE u
  IN  OutlineLoaded([w EXCEPT !.outline = IF some THEN u.gen ELSE 0], some)

\* The rest of _currentOutlineItem: the last item at or before the page that is now current.
SelectCurrent(u) ==
  LET at == {p \in DestPages : p <= u.page}
  IN  [u EXCEPT !.item = IF u.told # "outline" \/ at = {} THEN 0
                         ELSE CHOOSE p \in at : \A q \in at : q <= p]

-----------------------------------------------------------------------------
Start ==
  [gen |-> 0, opens |-> 0, file |-> CHOOSE f \in Files : TRUE, initial |-> FALSE, rendered |-> FALSE,
   isOpen |-> FALSE, hidden |-> TRUE, active |-> "thumbs", disabled |-> {},
   currentDisabled |-> TRUE, viewSet |-> FALSE, eventSent |-> FALSE,
   told |-> "none", thumbs |-> FALSE, asked |-> {}, outline |-> 0, pagesLoaded |-> FALSE,
   capability |-> "null", hashes |-> "null", loops |-> {}, item |-> 0, page |-> 1,
   memory |-> <<>>,
   storage |-> <<[file |-> Earlier, view |-> "outline", page |-> TRUE]>>]   \* of an earlier session

Init == b = Start

Load(f) ==
  /\ b.gen = 0 /\ b.opens < MaxOpens
  /\ b' = [b EXCEPT !.gen = b.opens + 1, !.opens = @ + 1, !.file = f, !.memory = HistoryOf(b.storage, f)]

\* PDFViewerApplication.close
Close ==
  /\ b.gen # 0
  /\ b' = ResetOutline(ResetSidebar([b EXCEPT !.gen = 0, !.initial = FALSE, !.rendered = FALSE, !.memory = <<>>]))

\* The document says how it wants to be shown, if the history says nothing.
InitialView(pageMode) ==
  /\ b.gen # 0 /\ ~ b.initial
  /\ LET view == IF Stored(b).page /\ Stored(b).view # "unknown" THEN Stored(b).view ELSE pageMode
     IN  b' = SetInitialSidebar([b EXCEPT !.initial = TRUE], view)

UpdateViewarea == b.initial /\ ~ Stored(b).page /\ b' = Store(b, [Stored(b) EXCEPT !.page = TRUE])

\* The first page is rendered: the outline and the layers are asked for.
OnePageRendered ==
  b.initial /\ ~ b.rendered /\ b' = [b EXCEPT !.rendered = TRUE, !.asked = @ \cup {b.gen}]

OutlineAnswer(g, some) ==
  LET w == [b EXCEPT !.asked = @ \ {g}]
  IN  g \in b.asked /\ b' = IF g = b.gen THEN RenderOutline(w, some) ELSE w

LayersLoaded(some) == b.rendered /\ "layers" \notin b.disabled /\ b' = TreeLoaded(b, "layers", some)

PagesLoaded ==
  LET w == [b EXCEPT !.pagesLoaded = TRUE]
  IN  b.gen # 0 /\ ~ b.pagesLoaded /\ b' = IF b.capability = "pending" THEN CurrentItemKnown(w, TRUE) ELSE w

PageChanging(p) == b.gen # 0 /\ p # b.page /\ b' = [b EXCEPT !.page = p]

Toggle == b' = ToggleSidebar(b)

Choose(view) == b.isOpen /\ view \notin b.disabled /\ b' = SwitchView(b, view, FALSE)

\* `pagemode' in the address.
PageMode(view) == b.gen # 0 /\ b' = SwitchView(b, view, TRUE)

\* The button for the current item.
CurrentOutlineItem ==
  /\ VisibleView(b) = "outline" /\ ~ b.currentDisabled /\ b.pagesLoaded
  /\ b' = CASE b.outline # 0 /\ b.hashes = "resolved" -> SelectCurrent(b)
            [] b.outline # 0 /\ b.hashes = "null"     -> [b EXCEPT !.hashes = "pending", !.loops = @ \cup {b.gen}]
            [] OTHER                                  -> b

\* Mutant: the loop of a closed document goes on.
DestinationsAny(g) ==
  /\ g \in b.loops
  /\ b' = SelectCurrent([b EXCEPT !.loops = @ \ {g}, !.hashes = "resolved"])

\* The destinations of the items come; a loop for a closed document ends.
Destinations(g) ==
  LET w == [b EXCEPT !.loops = @ \ {g}]
  IN  /\ g \in b.loops
      /\ b' = IF g = b.gen THEN SelectCurrent([w EXCEPT !.hashes = "resolved"]) ELSE w

ClickItem(p) == VisibleView(b) = "outline" /\ b.outline # 0 /\ b.item # p /\ b' = [b EXCEPT !.item = p]

Next ==
  \/ Close \/ UpdateViewarea \/ OnePageRendered \/ PagesLoaded \/ Toggle \/ CurrentOutlineItem
  \/ \E f \in Files : Load(f)
  \/ \E v \in {"unknown", "none", "outline"} : InitialView(v)
  \/ \E g \in Gen : Destinations(g) \/ \E some \in BOOLEAN : OutlineAnswer(g, some)
  \/ \E some \in BOOLEAN : LayersLoaded(some)
  \/ \E p \in 1 .. NPages : PageChanging(p)
  \/ \E v \in View : Choose(v) \/ PageMode(v)
  \/ PageMode("none")
  \/ \E p \in DestPages : ClickItem(p)

-----------------------------------------------------------------------------
\* What is shown has something to show: an empty outline is left when it turns out to be empty.
ActiveIsEnabled == b.active \notin b.disabled

\* Everybody who was told of the view knows the one that is visible.
ToldIsVisible ==
  /\ b.hidden = ~ b.isOpen /\ b.told = VisibleView(b) /\ b.thumbs = (VisibleView(b) = "thumbs")

\* The view kept for the document is the visible one, from the initial view to the end.
StoredIsVisible == b.initial => Stored(b).view = VisibleView(b)

\* The history holds a file once and no more files than it may.
HistoryIsBounded ==
  /\ Len(b.storage) <= CacheSize
  /\ \A i, j \in DOMAIN b.storage : b.storage[i].file = b.storage[j].file => i = j

\* The button for the current item works exactly when there is an outline and all pages are known.
CurrentWhenLoaded == ~ b.currentDisabled <=> b.outline # 0 /\ b.pagesLoaded

\* A selected item belongs to the outline of the open document.
ItemOfOutline == b.item # 0 => b.outline = b.gen /\ b.gen # 0

\* What makes these inductive.  Of the history: it holds the file of the open document.
Bounded(s) == /\ s \in Seq(Entry) /\ Len(s) <= CacheSize
              /\ \A i, j \in DOMAIN s : s[i].file = s[j].file => i = j
HistorySound(u) ==
  /\ Bounded(u.memory) /\ Bounded(u.storage) /\ u.file \in Files
  /\ u.gen # 0 => \E i \in DOMAIN u.memory : u.memory[i].file = u.file

\* Of the sidebar: what it needs to tell its view, and what is right when it has.
Ready(u) ==
  /\ DOMAIN u = DOMAIN Start /\ HistorySound(u) /\ (u.initial => u.gen # 0)
  /\ u.isOpen \in BOOLEAN /\ u.hidden = ~u.isOpen /\ u.active \in View
  /\ u.viewSet \in BOOLEAN /\ u.eventSent \in BOOLEAN
Enabled(u) == u.active \notin u.disabled /\ "thumbs" \notin u.disabled
Told(u) ==
  /\ u.told = VisibleView(u) /\ u.thumbs = (VisibleView(u) = "thumbs")
  /\ u.initial => Stored(u).view = VisibleView(u)

\* Of the documents and their outlines: answers are asked for in the order of the events.
Begun(u) ==
  /\ u.gen \in Nat /\ u.opens \in Nat /\ u.gen <= u.opens
  /\ \A g \in u.asked \cup u.loops : g \in Nat /\ g # 0 /\ g <= u.opens
  /\ u.viewSet = u.initial /\ (u.eventSent => u.viewSet) /\ (u.rendered => u.initial) /\ (u.gen \in u.asked => u.rendered)
OutlineSound(u) ==
  /\ u.outline # 0 => u.outline = u.gen /\ u.gen \notin u.asked /\ u.rendered
  /\ u.gen \in u.loops \/ u.item # 0 => u.outline # 0
  /\ u.capability = "pending" <=> u.outline # 0 /\ ~u.pagesLoaded
  /\ ~u.currentDisabled <=> u.outline # 0 /\ u.pagesLoaded

Sound(u) == Ready(u) /\ Enabled(u) /\ Told(u) /\ Begun(u) /\ OutlineSound(u)
IInv == Sound(b)
=============================================================================
