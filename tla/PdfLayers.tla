------------------------------- MODULE PdfLayers -------------------------------
(***************************************************************************)
(* The layers of one page over its canvas: text, annotations, drawings and *)
(* the annotation editor.  When the canvas is finished, draw() goes on     *)
(* asynchronously through several awaits, while the page may be zoomed,    *)
(* evicted and drawn again.  Nothing stops an earlier continuation: it     *)
(* works on whatever layers the view has when it goes on.  The worker      *)
(* answers in order, so continuations end in the order they began.         *)
(***************************************************************************)
EXTENDS Naturals, Sequences

CONSTANT MaxDraws   \* bound: draws of the page
VARIABLES
  rs,        \* renderingState
  n,         \* draws so far; a layer builder is named after the draw that made it
  wrapper,   \* canvasWrapper, 0 if there is none
  text, annot, draw, editor,   \* the builders of the view, 0 if there is none
  annotDiv,  \* annotationLayer.div exists
  textRun,   \* the pending run of textLayer.render, 0 if there is none
  runs,      \* runs started
  textDone,  \* #renderingDone
  parent,    \* the wrapper drawLayer.setParent was last called with
  dom,       \* the layers in the page, by their builders
  hidden,    \* the layers that are hidden
  conts,     \* continuations of draw(), oldest first
  redraw,    \* annotation layers that cssTransform renders again
  postponed  \* a zoom with a drawing delay, its timer still running

vars  == <<rs, n, wrapper, text, annot, draw, editor, annotDiv, textRun, runs, textDone,
           parent, dom, hidden, conts, redraw, postponed>>
Layer == {"text", "annot", "editor"}
Gen   == 0 .. MaxDraws

TypeOK ==
  /\ rs \in {"INITIAL", "RUNNING", "FINISHED"}
  /\ {n, wrapper, text, annot, draw, editor, parent} \subseteq Gen
  /\ {annotDiv, textDone, postponed} \subseteq BOOLEAN
  /\ runs \in Nat /\ textRun \in 0 .. runs
  /\ dom \in [Layer -> Gen] /\ hidden \subseteq Layer
  /\ \A i \in DOMAIN conts : conts[i] \in [at : {"annotation", "links"}, annot : Gen, run : 0 .. runs, wrapper : Gen]
  /\ redraw \subseteq Gen

Init ==
  /\ rs = "INITIAL" /\ n = 0 /\ wrapper = 0
  /\ text = 0 /\ annot = 0 /\ draw = 0 /\ editor = 0 /\ annotDiv = FALSE
  /\ textRun = 0 /\ runs = 0 /\ textDone = FALSE /\ parent = 0
  /\ dom = [l \in Layer |-> 0] /\ hidden = {} /\ conts = <<>> /\ redraw = {} /\ postponed = FALSE

-----------------------------------------------------------------------------
\* draw(), up to the canvas: builders that are missing are made.
Draw ==
  /\ rs = "INITIAL" /\ n < MaxDraws
  /\ rs' = "RUNNING" /\ n' = n + 1
  /\ wrapper' = IF wrapper = 0 THEN n + 1 ELSE wrapper
  /\ text' = IF text = 0 THEN n + 1 ELSE text
  /\ textDone' = (text # 0 /\ textDone)
  /\ annot' = IF annot = 0 THEN n + 1 ELSE annot
  /\ annotDiv' = (annot # 0 /\ annotDiv)
  /\ UNCHANGED <<draw, editor, textRun, runs, parent, dom, hidden, conts, redraw, postponed>>

\* #renderTextLayer: a finished text layer is shown again, another one starts
\* anew, which ends a run under way.
RenderTextLayer ==
  IF textDone
  THEN hidden' = hidden \ {"text"} /\ UNCHANGED <<runs, textRun>>
  ELSE runs' = runs + 1 /\ textRun' = runs + 1 /\ UNCHANGED hidden

\* The canvas is finished, or was cancelled by a zoom that is postponed (which
\* finishes the view all the same): the text layer, then the first await.
StartLayers(a) ==
  /\ RenderTextLayer
  /\ conts' = Append(conts, [at |-> "annotation", annot |-> a, run |-> runs', wrapper |-> wrapper])

Finish ==
  /\ rs = "RUNNING" /\ rs' = "FINISHED"
  /\ StartLayers(annot)
  /\ UNCHANGED <<n, wrapper, text, annot, draw, editor, annotDiv, textDone, parent, dom, redraw, postponed>>

\* AnnotationLayerBuilder.render ends: nothing happens if it was cancelled.
AnnotationRendered(a) ==
  IF a # 0 /\ a = annot
  THEN /\ annotDiv' = TRUE
       /\ dom' = [dom EXCEPT !["annot"] = a]
       /\ hidden' = hidden \ {"annot"}
  ELSE UNCHANGED <<annotDiv, dom, hidden>>

\* Head of the continuations: the annotation layer is there, or was cancelled.
\* With a text layer the links found in the text come next.
Annotations ==
  /\ conts # <<>> /\ Head(conts).at = "annotation"
  /\ AnnotationRendered(Head(conts).annot)
  /\ conts' = <<[Head(conts) EXCEPT !.at = "links"]>> \o Tail(conts)
  /\ UNCHANGED <<rs, n, wrapper, text, annot, draw, editor, textRun, runs, textDone, parent, redraw, postponed>>

\* The editor layer needs the annotation layer the view has now.
Editor ==
  IF annot # 0
  THEN /\ editor' = IF editor = 0 THEN n ELSE editor
       /\ dom' = [dom EXCEPT !["editor"] = editor']
       /\ hidden' = hidden \ {"editor"}
  ELSE UNCHANGED <<editor, dom, hidden>>

\* The run of the text layer has ended, finished or aborted, or there is nothing
\* to wait for: the continuation goes on before any other event.
Ready ==
  /\ conts # <<>> /\ Head(conts).at = "links"
  /\ annot # 0 /\ text # 0 => Head(conts).run # textRun

\* The links are injected into the annotation layer the view has now; the draw
\* layer and the editor follow.
Links ==
  LET c == Head(conts) IN
  /\ Ready
  /\ draw' = IF draw = 0 THEN n ELSE draw
  /\ parent' = c.wrapper
  /\ Editor
  /\ conts' = Tail(conts)
  /\ UNCHANGED <<rs, n, wrapper, text, annot, annotDiv, textRun, runs, textDone, redraw, postponed>>

\* TextLayerBuilder.render ends.
TextRendered ==
  /\ textRun # 0
  /\ textRun' = 0 /\ textDone' = TRUE
  /\ dom' = [dom EXCEPT !["text"] = text]
  /\ UNCHANGED <<rs, n, wrapper, text, annot, draw, editor, annotDiv, runs, parent, hidden, conts, redraw, postponed>>

-----------------------------------------------------------------------------
\* The layers in the page that are hidden by a reset that keeps them.
Hide == {"annot", "editor"} \cup (IF textDone THEN {"text"} ELSE {})

\* cancelRendering with every layer kept: an annotation layer that has no div yet
\* is cancelled all the same.
CancelKeep == annot' = IF annotDiv THEN annot ELSE 0

\* update() or toggleEditingMode: the view is drawn again, its layers wait hidden.
ResetKeep ==
  /\ n > 0
  /\ rs' = "INITIAL" /\ postponed' = FALSE
  /\ CancelKeep
  /\ hidden' = {l \in Layer : dom[l] # 0} \cap Hide
  /\ UNCHANGED <<n, wrapper, text, draw, editor, annotDiv, textRun, runs, textDone, parent, dom, conts, redraw>>

\* cancelRendering with nothing kept; a draw layer goes with the editor only.
CancelAll ==
  /\ text' = 0 /\ textRun' = 0 /\ textDone' = FALSE
  /\ annot' = 0 /\ annotDiv' = FALSE
  /\ editor' = 0
  /\ draw' = IF editor # 0 THEN 0 ELSE draw

\* destroy(), when the buffer evicts the page: everything is removed.
Destroy ==
  /\ n > 0
  /\ rs' = "INITIAL" /\ postponed' = FALSE
  /\ CancelAll
  /\ wrapper' = 0 /\ dom' = [l \in Layer |-> 0] /\ hidden' = {}
  /\ UNCHANGED <<n, runs, parent, conts, redraw>>

\* The state of a view whose drawing a postponed zoom has cancelled.
AfterCancel == "FINISHED"

\* A zoom with a drawing delay.  A canvas under way is cancelled: the view counts
\* as finished and its draw() goes on with the layers.  A finished page keeps its
\* canvas: cssTransform renders the annotations again and hides the text.
PostponedZoom ==
  /\ postponed' = TRUE
  /\ \/ /\ rs = "RUNNING" /\ rs' = AfterCancel
        /\ CancelKeep
        /\ StartLayers(annot')
        /\ UNCHANGED redraw
     \/ /\ rs = "FINISHED" /\ UNCHANGED <<rs, annot, runs, textRun, conts>>
        /\ redraw' = IF annot # 0 THEN redraw \cup {annot} ELSE redraw
        /\ hidden' = (hidden \ {"editor"}) \cup (IF textDone THEN {"text"} ELSE {})
  /\ UNCHANGED <<n, wrapper, text, draw, editor, annotDiv, textDone, parent, dom>>

\* The annotations rendered again by cssTransform are there.
Redrawn(a) ==
  /\ a \in redraw /\ redraw' = redraw \ {a}
  /\ AnnotationRendered(a)
  /\ UNCHANGED <<rs, n, wrapper, text, annot, draw, editor, textRun, runs, textDone, parent, conts, postponed>>

Next ==
  \/ Links
  \/ /\ ~Ready
     /\ \/ Draw \/ Finish \/ Annotations \/ TextRendered
        \/ ResetKeep \/ Destroy \/ PostponedZoom
        \/ \E a \in redraw : Redrawn(a)

Spec == Init /\ [][Next]_vars

-----------------------------------------------------------------------------
\* A continuation of an earlier draw, or a builder whose answer comes late, never
\* puts a layer into the page that the view does not have (any more).
NoOrphanLayer == dom["text"] \in {0, text} /\ dom["annot"] \in {0, annot} /\ dom["editor"] \in {0, editor}

\* When a draw has ended and nothing interrupted it, the page has all its layers,
\* in the wrapper of its canvas, and none was left hidden.
Quiet == rs = "FINISHED" /\ conts = <<>> /\ textRun = 0 /\ redraw = {} /\ ~postponed
LayersComplete == Quiet => /\ \A l \in Layer : dom[l] # 0
                           /\ hidden = {} /\ parent = wrapper

\* What makes these inductive.  A layer is in the page from the end of its rendering until its
\* builder goes; the text and the annotations that are rendered have a builder.
LayersSound ==
  /\ dom \in [Layer -> Nat]
  /\ dom["text"] = (IF textDone THEN text ELSE 0) /\ dom["annot"] = (IF annotDiv THEN annot ELSE 0)
  /\ dom["editor"] \in {0, editor}
  /\ textDone \/ textRun # 0 => text # 0
  /\ annotDiv => annot # 0
  /\ hidden \subseteq {l \in Layer : dom[l] # 0}

\* A view that was drawn has its builders.
Numbers ==
  /\ {n, runs, text, annot, editor, wrapper} \subseteq Nat /\ {textDone, annotDiv, postponed} \subseteq BOOLEAN
  /\ rs \in {"INITIAL", "RUNNING", "FINISHED"} /\ (rs # "FINISHED" => ~postponed)
  /\ rs # "INITIAL" => text # 0
  /\ rs = "RUNNING" => annot # 0
  /\ rs # "INITIAL" \/ conts # <<>> => n > 0
  /\ conts \in Seq([at : {"annotation", "links"}, annot : Nat, run : Nat, wrapper : Nat])

\* The newest continuation of a draw that nothing interrupted is that of this draw, and brings
\* what is missing.
DrawEnds ==
  rs = "FINISHED" /\ ~postponed =>
    /\ annot # 0 /\ (textDone \/ textRun # 0) /\ "text" \notin hidden
    /\ IF conts = <<>>
       THEN annotDiv /\ dom["editor"] # 0 /\ {"annot", "editor"} \cap hidden = {} /\ parent = wrapper
       ELSE LET c == conts[Len(conts)]
            IN  c.annot = annot /\ c.wrapper = wrapper /\ (c.at = "links" => annotDiv /\ "annot" \notin hidden)
IInv == LayersSound /\ Numbers /\ DrawEnds
=============================================================================
