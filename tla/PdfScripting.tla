------------------------------ MODULE PdfScripting ------------------------------
(***************************************************************************)
(* PDFScriptingManager: the sandbox in which the scripts of a document run,*)
(* made anew for every document.  Setting it up and taking it down are     *)
(* both long chains of promises, and a document may be closed anywhere in  *)
(* the first.  Page events for the sandbox wait until the page is drawn    *)
(* and its actions are fetched.  The library that makes sandboxes is       *)
(* loaded over the network.                                                *)
(***************************************************************************)
EXTENDS Integers, FiniteSets

CONSTANTS MaxDocs, NPages

VARIABLE s

Doc   == 1 .. MaxDocs
Page  == 1 .. NPages
Maybe == 0 .. MaxDocs
Cap   == {"null", "pending", "resolved"}       \* a capability

TypeOK ==
  /\ s.viewer \in Maybe /\ s.docs \in Maybe /\ s.page \in Page /\ s.finished \subseteq Page  \* PDFViewer
  /\ s.pdfDocument \in Maybe /\ s.scripting \in Maybe
  /\ s.library \in {"loading", "ready", "failed"}             \* of this.#scripting
  /\ s.setup \in [Doc -> {"no", "fields", "props", "sandbox", "end"}]  \* how far setDocument is
  /\ s.close \in Cap /\ s.destroy \in Cap
  /\ s.destroying \in {"no", "close", "sandbox"}              \* how far #destroyScripting is
  /\ s.listening \in BOOLEAN /\ s.ready \in BOOLEAN
  /\ s.pageOpenPending \subseteq Page
  /\ s.visitedPages \in [Page -> {"absent", "null", "asked", "done"}]  \* the last promise of the page
  /\ s.asked \subseteq Doc \X Page /\ s.closeAfter \subseteq Doc \X Page
  /\ s.willClose \in BOOLEAN                                  \* the listener of pagesdestroy waits
  /\ s.willPrint \in {"null", "pending"} /\ s.printing \in 0 .. 1 /\ s.queued \in 0 .. 1
  /\ s.last \in [Page -> {"none", "PageOpen", "PageClose"}]   \* in the sandbox
  /\ s.made \in Maybe                                         \* the document the sandbox was made from
  /\ s.refused \in BOOLEAN                                    \* #initScripting threw

-----------------------------------------------------------------------------
\* dispatchEventInSandbox, for a page event.
Dispatch(u, name, p) == IF u.scripting = 0 THEN u ELSE [u EXCEPT !.last[p] = name]

\* #dispatchPageOpen
DispatchPageOpen(u, p) ==
  CASE u.close = "null" -> u
    [] u.close # "null" /\ p \notin u.finished -> [u EXCEPT !.pageOpenPending = @ \cup {p}]
    [] OTHER ->
         LET w == [u EXCEPT !.pageOpenPending = @ \ {p}]
         IN  IF u.visitedPages[p] = "absent"
             THEN [w EXCEPT !.visitedPages[p] = "asked", !.asked = @ \cup {<<u.pdfDocument, p>>}]
             ELSE Dispatch([w EXCEPT !.visitedPages[p] = "done"], "PageOpen", p)

\* #dispatchPageClose: it waits for the actions of the opening.
DispatchPageClose(u, p) ==
  LET w == [u EXCEPT !.visitedPages[p] = "null"]
  IN  CASE u.close = "null" \/ p \in u.pageOpenPending \/ u.visitedPages[p] \in {"absent", "null"} -> u
        [] u.close # "null" /\ p \notin u.pageOpenPending /\ u.visitedPages[p] = "asked" ->
             [w EXCEPT !.closeAfter = @ \cup {<<u.pdfDocument, p>>}]
        [] OTHER -> Dispatch(w, "PageClose", p)

-----------------------------------------------------------------------------

\* The end of #destroyScripting.
DestroyEnd(u) ==
  [u EXCEPT !.willPrint = "null", !.printing = 0, !.queued = 0, !.listening = FALSE, !.pageOpenPending = {},
            !.visitedPages = [p \in Page |-> "absent"], !.scripting = 0, !.made = 0, !.ready = FALSE, !.destroying = "no",
            !.last = [p \in Page |-> "none"], !.destroy = IF @ = "pending" THEN "resolved" ELSE @]

\* The sandbox is destroyed, as soon as there is a library.
DestroySandbox(u) ==
  LET w == [u EXCEPT !.close = "null", !.pdfDocument = 0, !.destroying = "sandbox"]
  IN  IF w.library = "loading" THEN w ELSE DestroyEnd(w)

\* #destroyScripting: it waits for the closing of the document, but no longer than a second.
DestroyScripting(u) ==
  IF u.scripting = 0
  THEN [u EXCEPT !.pdfDocument = 0, !.destroy = IF @ = "pending" THEN "resolved" ELSE @]
  ELSE IF u.close = "pending" THEN [u EXCEPT !.destroying = "close"] ELSE DestroySandbox(u)

\* The listener of pagesdestroy, after the page was closed.
WillClose(u) ==
  LET w == [u EXCEPT !.willClose = FALSE]
  IN  IF u.close = "null" \/ u.library # "ready" THEN w
      ELSE IF u.destroying = "close" THEN DestroySandbox(w) ELSE [w EXCEPT !.close = "resolved"]

\* setDocument, after createSandbox; nothing asks for the document.
SandboxCreated(u, doc) ==
  LET w == DispatchPageOpen([u EXCEPT !.setup[doc] = "end", !.close = "pending",
                                      !.made = IF u.scripting = 0 THEN 0 ELSE doc], u.page)
  IN  [w EXCEPT !.ready = @ \/ doc = w.pdfDocument]

\* createSandbox, with the library as it is.
CreateSandbox(u, doc) ==
  CASE u.library = "loading" -> [u EXCEPT !.setup[doc] = "sandbox"]
    [] u.library = "ready"   -> SandboxCreated(u, doc)
    [] OTHER                 -> DestroyScripting([u EXCEPT !.setup[doc] = "end"])

-----------------------------------------------------------------------------
Start ==
  [viewer |-> 0, docs |-> 0, page |-> 1, finished |-> {}, pdfDocument |-> 0, scripting |-> 0,
   library |-> "loading", setup |-> [d \in Doc |-> "no"], close |-> "null", destroy |-> "null",
   destroying |-> "no", listening |-> FALSE, ready |-> FALSE, pageOpenPending |-> {},
   visitedPages |-> [p \in Page |-> "absent"], asked |-> {}, closeAfter |-> {}, willClose |-> FALSE,
   willPrint |-> "null", printing |-> 0, queued |-> 0, last |-> [p \in Page |-> "none"], made |-> 0,
   refused |-> FALSE]

Init == s = Start

\* The viewer opens a document when the one before, its worker too, has gone: open()
\* awaits destroyPromise.
OpenDocument ==
  /\ s.viewer = 0 /\ s.docs < MaxDocs /\ s.destroy # "pending"
  /\ s' = [s EXCEPT !.viewer = s.docs + 1, !.docs = @ + 1, !.page = 1, !.finished = {}, !.asked = {},
                    !.closeAfter = {}, !.willClose = FALSE,
                    !.setup = [d \in Doc |-> IF @[d] = "fields" THEN "end" ELSE @[d]]]

\* setDocument, when the first page was drawn.
SetDocument(d) ==
  /\ s.viewer = d /\ s.finished # {} /\ s.setup[d] = "no"
  /\ s' = [s EXCEPT !.pdfDocument = d, !.setup[d] = "fields"]

\* The fields and actions of the document: #initScripting, and the listeners.
FieldObjects(d, some) ==
  /\ s.setup[d] = "fields"
  /\ LET u == [s EXCEPT !.setup[d] = "end"]
     IN  s' = CASE ~some -> DestroyScripting(u)
                [] some /\ d # s.pdfDocument -> u
                [] some /\ d = s.pdfDocument /\ s.scripting # 0 ->
                     DestroyScripting([u EXCEPT !.destroy = "pending", !.refused = TRUE])
                [] OTHER -> [s EXCEPT !.setup[d] = "props", !.destroy = "pending", !.scripting = d,
                                      !.library = "loading", !.listening = TRUE]

\* Mutant: the properties are used for whatever document is there.
DocPropertiesAny(d) == s.setup[d] = "props" /\ s' = CreateSandbox(s, d)

\* The properties of the document; they may come when the next one is there.
DocProperties(d) ==
  /\ s.setup[d] = "props"
  /\ s' = IF d # s.pdfDocument THEN [s EXCEPT !.setup[d] = "end"] ELSE CreateSandbox(s, d)

\* The library is loaded, or cannot be.  A sandbox that is to be destroyed goes first.
Library(ok) ==
  /\ s.scripting # 0 /\ s.library = "loading"
  /\ LET u == [s EXCEPT !.library = IF ok THEN "ready" ELSE "failed"]
         w == IF s.destroying = "sandbox" THEN DestroyEnd(u) ELSE u
         d == s.scripting
     IN  s' = IF s.setup[d] = "sandbox" THEN CreateSandbox(w, d) ELSE w

\* The actions of a page come.
PageActions(d, p) ==
  /\ <<d, p>> \in s.asked
  /\ LET u == [s EXCEPT !.asked = @ \ {<<d, p>>}, !.closeAfter = @ \ {<<d, p>>},
                        !.visitedPages[p] = IF @ = "asked" THEN "done" ELSE @]
         w == IF d = s.pdfDocument THEN Dispatch(u, "PageOpen", p) ELSE u
         x == IF <<d, p>> \in s.closeAfter /\ d = s.pdfDocument THEN Dispatch(w, "PageClose", p) ELSE w
     IN  s' = IF <<d, p>> \in s.closeAfter /\ s.willClose THEN WillClose(x) ELSE x

-----------------------------------------------------------------------------
\* A page is drawn, or thrown out of the buffer.
PageRendered(p) ==
  /\ s.viewer # 0 /\ p \notin s.finished
  /\ LET u == [s EXCEPT !.finished = @ \cup {p}]
     IN  s' = IF s.listening /\ p \in s.pageOpenPending /\ p = s.page THEN DispatchPageOpen(u, p) ELSE u

PageEvicted(p) == p \in s.finished /\ p # s.page /\ s' = [s EXCEPT !.finished = @ \ {p}]

PageChanging(p) ==
  /\ s.viewer # 0 /\ p # s.page
  /\ LET u == [s EXCEPT !.page = p]
     IN  s' = IF s.listening THEN DispatchPageOpen(DispatchPageClose(u, s.page), p) ELSE u

\* The viewer closes its document: pagesdestroy, then setDocument(null).
CloseDocument ==
  /\ s.viewer # 0
  /\ LET u == [s EXCEPT !.viewer = 0, !.finished = {}]
         w == DispatchPageClose(u, s.page)
         x == IF w.closeAfter # s.closeAfter THEN [w EXCEPT !.willClose = TRUE] ELSE WillClose(w)
         y == IF s.listening THEN x ELSE u
     IN  s' = IF s.pdfDocument = 0 THEN y ELSE DestroyScripting(y)

\* One second is over.
CloseTimer == s.destroying = "close" /\ s' = DestroySandbox(s)

\* dispatchWillPrint waits until the sandbox says WillPrintFinished, and for an earlier one.
WillPrint ==
  /\ s.scripting # 0 /\ s.queued = 0
  /\ s' = IF s.willPrint = "pending" THEN [s EXCEPT !.queued = 1] ELSE [s EXCEPT !.willPrint = "pending", !.printing = 1]

WillPrintFinished ==
  /\ s.listening /\ s.willPrint = "pending"
  /\ s' = IF s.queued = 1 THEN [s EXCEPT !.queued = 0] ELSE [s EXCEPT !.willPrint = "null", !.printing = 0]

Next ==
  \/ OpenDocument \/ CloseDocument \/ CloseTimer \/ WillPrint \/ WillPrintFinished
  \/ \E d \in Doc : SetDocument(d) \/ DocProperties(d) \/ \E some \in BOOLEAN : FieldObjects(d, some)
  \/ \E ok \in BOOLEAN : Library(ok)
  \/ \E p \in Page : PageRendered(p) \/ PageEvicted(p) \/ PageChanging(p) \/ \E d \in Doc : PageActions(d, p)

Spec == Init /\ [][Next]_s

-----------------------------------------------------------------------------
\* A sandbox is made from the fields and actions of its own document, although the
\* properties asked for one document may come when the next one is there.
SandboxOfDocument == s.made \in {0, s.scripting}

\* #initScripting never finds the sandbox of an earlier document: every document with
\* scripts gets its own.
NeverRefused == ~s.refused

\* A sandbox that hears of the closing of a page has heard of its opening.
ClosedAfterOpened ==
  \A p \in Page : s'.last[p] = "PageClose" /\ s.last[p] # "PageClose" =>
                    s.last[p] = "PageOpen" \/ <<s.pdfDocument, p>> \in s.asked

\* Nobody waits for WillPrint of a sandbox that has gone: printing would never go on.
NoPrintWaits == s.printing + s.queued > 0 => s.scripting # 0

\* Without a sandbox the manager listens to nothing and remembers no visit.
QuietWithout == s.scripting = 0 => ~s.listening /\ ~s.ready /\ \A p \in Page : s.visitedPages[p] = "absent"

\* What makes these inductive.  Viewer, manager and sandbox know the document opened last
\* or none; actions are asked for on its behalf.
Shape(u) ==
  /\ DOMAIN u = DOMAIN Start /\ DOMAIN u.setup = Doc /\ DOMAIN u.visitedPages = Page /\ DOMAIN u.last = Page
  /\ u.docs \in Maybe /\ u.page \in Page /\ ~u.refused
  /\ \A p \in Page : /\ u.last[p] \in {"none", "PageOpen", "PageClose"}
                       /\ u.visitedPages[p] \in {"absent", "null", "asked", "done"}
LastDocument(u) ==
  /\ u.viewer \in {0, u.docs} /\ (u.viewer = 0 => u.finished = {})
  /\ \A a \in u.asked : a[1] = u.docs
  /\ \A d \in Doc : u.setup[d] = "fields" => d = u.docs

\* While there is a sandbox nothing is opened, and its document stays until it is to be destroyed.
WithSandbox(u) ==
  /\ u.scripting = u.docs /\ u.destroy = "pending" /\ u.listening
  /\ u.setup[u.docs] \in {"props", "sandbox", "end"}
  /\ u.pdfDocument = (IF u.destroying = "sandbox" THEN 0 ELSE u.docs) /\ u.made \in {0, u.docs}
  /\ u.destroying = "sandbox" => u.viewer = 0 /\ u.library = "loading"
  /\ u.destroying = "close" /\ u.library = "loading" => u.viewer = 0
  /\ \A p \in Page : u.visitedPages[p] = "done" /\ u.pdfDocument # 0 => u.last[p] # "none"

Without(u) ==
  /\ ~u.listening /\ ~u.ready /\ u.made = 0 /\ u.printing = 0 /\ u.queued = 0 /\ u.destroying = "no"
  /\ \A p \in Page : u.visitedPages[p] = "absent"
  /\ u.pdfDocument = 0 \/ (u.pdfDocument = u.viewer /\ u.setup[u.viewer] \in {"fields", "end"})

Sound(u) == Shape(u) /\ LastDocument(u) /\ IF u.scripting = 0 THEN Without(u) ELSE WithSandbox(u)
IInv == Sound(s)
=============================================================================
