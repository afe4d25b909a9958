------------------------------- MODULE PdfTrees -------------------------------
(***************************************************************************)
(* The attachments and the layers of a document in the sidebar.  Files     *)
(* attached to a page come one by one as the pages are shown, so that "no  *)
(* attachments" is announced with a delay.  Layers are switched by their   *)
(* checkboxes, by links of the document and by a reset that fetches the    *)
(* visibility anew; a configuration is an object, number c, shared by the  *)
(* page views and the tree.  Promise callbacks run before the next event.  *)
(***************************************************************************)
EXTENDS Integers, Sequences, FiniteSets

CONSTANTS MaxOpens, Names, Groups, Radio, MaxConfigs

VARIABLE t

Gen    == 1 .. MaxOpens
Config == 1 .. MaxConfigs
File   == Gen \X Names
AllOn  == [g \in Groups |-> g \notin Radio]

TypeOK ==
  /\ t.gen \in 0 .. MaxOpens /\ t.opens \in 0 .. MaxOpens
  /\ t.asked \subseteq Gen /\ t.rendered \in BOOLEAN          \* whether the attachments were
  /\ t.files \subseteq File /\ t.pending \in BOOLEAN
  /\ t.waits \subseteq Gen                                    \* for an annotation layer, or a second
  /\ t.appends \subseteq File                                 \* until the attachments are rendered
  /\ t.told \in {"unknown", "none", "some"}                   \* what the sidebar knows
  /\ t.configs \in 0 .. MaxConfigs /\ t.visible \in [Config -> [Groups -> BOOLEAN]]
  /\ t.viewer \in 0 .. MaxConfigs /\ t.tree \in 0 .. MaxConfigs
  /\ t.checked \in [Groups -> BOOLEAN]
  /\ t.resets \subseteq Gen

-----------------------------------------------------------------------------
Announce(u, some) == [u EXCEPT !.pending = FALSE, !.told = IF some THEN "some" ELSE "none"]

\* PDFAttachmentViewer._dispatchEvent
DispatchAttachments(u) ==
  LET w == [u EXCEPT !.rendered = TRUE]
  IN  IF u.files = {} /\ ~ u.pending THEN [w EXCEPT !.pending = TRUE, !.waits = @ \cup {u.gen}]
      ELSE Announce(w, u.files # {})

ResetAttachments(u, keep) ==
  [u EXCEPT !.files = {}, !.pending = FALSE, !.rendered = @ /\ keep,
            !.appends = IF keep THEN @ ELSE {}]

RenderAttachments(u, files, keep) ==
  DispatchAttachments([(IF u.files # {} THEN ResetAttachments(u, keep) ELSE u) EXCEPT !.files = files])

\* The callbacks of #appendAttachment, one after the other; a file that is known by its name
\* is left out.  The appended ones are of one document, so their names are different.
AppendAll(u) ==
  LET unknown == {x \in u.appends : \A y \in u.files : y[2] # x[2]}
      w       == [u EXCEPT !.appends = {}]
  IN  IF unknown = {} THEN w ELSE RenderAttachments(w, u.files \cup unknown, TRUE)

-----------------------------------------------------------------------------
\* OptionalContentConfig.setVisibility: of the groups in Radio at most one is visible.
SetVisibility(c, g, on) ==
  [h \in Groups |-> IF h = g THEN on ELSE c[h] /\ ~ (on /\ {g, h} \subseteq Radio)]

\* #updateLayers with a configuration: the boxes follow it.
UpdateLayers(u) == IF u.tree = 0 THEN u ELSE [u EXCEPT !.checked = u.visible[u.viewer]]

\* The setter of PDFViewer.optionalContentConfigPromise.
SetConfig(u, c) == UpdateLayers([u EXCEPT !.viewer = c])

RenderLayers(u, c) == [u EXCEPT !.tree = c, !.checked = u.visible[c]]

-----------------------------------------------------------------------------
Start ==
  [gen |-> 0, opens |-> 0, asked |-> {}, rendered |-> FALSE, files |-> {}, pending |-> FALSE,
   waits |-> {}, appends |-> {}, told |-> "unknown", configs |-> 0,
   visible |-> [c \in Config |-> AllOn], viewer |-> 0, tree |-> 0,
   checked |-> AllOn, resets |-> {}]

Init == t = Start

Open ==
  /\ t.gen = 0 /\ t.opens < MaxOpens /\ t.configs < MaxConfigs
  /\ t' = [t EXCEPT !.gen = t.opens + 1, !.opens = @ + 1, !.configs = @ + 1, !.viewer = t.configs + 1]

Close ==
  /\ t.gen # 0
  /\ t' = [ResetAttachments(t, FALSE) EXCEPT !.gen = 0, !.told = "unknown", !.viewer = 0, !.tree = 0,
                                             !.checked = AllOn]

\* The first page is rendered: attachments are asked for, the layers are there.
OnePageRendered ==
  /\ t.gen # 0 /\ t.tree = 0
  /\ t' = RenderLayers([t EXCEPT !.asked = @ \cup {t.gen}], t.viewer)

AttachmentsAnswer(g, names) ==
  LET w == [t EXCEPT !.asked = @ \ {g}]
  IN  /\ g \in t.asked
      /\ t' = IF g = t.gen THEN AppendAll(RenderAttachments(w, {g} \X names, FALSE)) ELSE w

\* `fileattachmentannotation', for each link to an attached file.
AnnotationFile(name) ==
  LET w == [t EXCEPT !.appends = @ \cup {<<t.gen, name>>}]
  IN  t.gen # 0 /\ t' = IF t.rendered THEN AppendAll(w) ELSE w

\* An annotation layer is rendered, or a second is over.
WaitEnds(g) ==
  LET w == [t EXCEPT !.waits = @ \ {g}]
  IN  g \in t.waits /\ t' = IF t.pending THEN Announce(w, FALSE) ELSE w

\* A click on the box of a layer.
ToggleLayer(g) ==
  /\ t.tree # 0
  /\ LET on == ~ t.checked[g]
     IN  t' = SetConfig([t EXCEPT !.checked[g] = on, !.visible[t.tree] = SetVisibility(@, g, on)], t.tree)

\* A link of the document switches a layer.
SetOCGState(g, on) ==
  t.gen # 0 /\ t' = SetConfig([t EXCEPT !.visible[t.viewer] = SetVisibility(@, g, on)], t.viewer)

ResetLayers == t.tree # 0 /\ t.configs < MaxConfigs /\ t' = [t EXCEPT !.resets = @ \cup {t.gen}]

\* The new configuration comes; for a document that was closed it is not wanted any more.
ResetAnswer(g) ==
  LET c == t.configs + 1
      w == [t EXCEPT !.resets = @ \ {g}, !.configs = c]
  IN  /\ g \in t.resets /\ t.configs < MaxConfigs
      /\ t' = IF g = t.gen THEN RenderLayers(SetConfig(w, c), c) ELSE w

Next ==
  \/ Open \/ Close \/ OnePageRendered \/ ResetLayers
  \/ \E g \in Gen : \/ WaitEnds(g) \/ ResetAnswer(g)
                    \/ \E names \in {{}, Names, {CHOOSE x \in Names : TRUE}} : AttachmentsAnswer(g, names)
  \/ \E name \in Names : AnnotationFile(name)
  \/ \E g \in Groups : ToggleLayer(g) \/ \E on \in BOOLEAN : SetOCGState(g, on)

-----------------------------------------------------------------------------
\* Only files of the open document are listed, each name once.
FilesOfDocument ==
  /\ t.files \subseteq {t.gen} \X Names
  /\ \A x, y \in t.files : x[2] = y[2] => x = y

\* Once the sidebar was told, it knows whether there are attachments.
ToldOfFiles == t.told # "unknown" => (t.told = "some") = (t.files # {})

\* The boxes show the visibility the pages are drawn with, and switch that one.
LayersAsDrawn == t.tree # 0 => t.tree = t.viewer /\ t.checked = t.visible[t.viewer]

\* What makes these inductive.  Documents are numbered as they are opened; before the answer of
\* a document comes, or its first page, there are no files and nothing was told.
Numbers(u) ==
  /\ u.gen \in Nat /\ u.opens \in Nat /\ u.configs \in Nat /\ u.gen <= u.opens
  /\ \A g \in u.asked : g \in Nat /\ g # 0 /\ g <= u.opens
Quiet(u) == ~u.rendered /\ u.files = {} /\ u.told = "unknown" /\ ~u.pending
FilesSound(u) ==
  /\ u.files \subseteq {u.gen} \X Names /\ u.appends \subseteq {u.gen} \X Names
  /\ u.gen = 0 => u.appends = {} /\ u.tree = 0
  /\ u.tree = 0 \/ u.gen \in u.asked => Quiet(u)
  /\ u.gen \in u.asked => u.tree # 0
  /\ u.pending => u.files = {} /\ u.told # "some"
  /\ u.told \in {"unknown", "none", "some"} /\ (u.told = "some" => u.files # {}) /\ (u.told = "none" => u.files = {})
LayersSound(u) ==
  /\ u.gen # 0 => u.viewer # 0
  /\ u.tree # 0 => u.tree = u.viewer /\ u.checked = u.visible[u.viewer]

Sound(u) == DOMAIN u = DOMAIN Start /\ Numbers(u) /\ FilesSound(u) /\ LayersSound(u)
IInv == Sound(t)
=============================================================================
