------------------------------ MODULE PdfAltText -------------------------------
(***************************************************************************)
(* AltTextManager: one dialog, placed beside the image, in which the alt   *)
(* text of an image in the editor is written.  The dialog of a document is *)
(* closed by its buttons, by Escape, by a dialog that may take its place   *)
(* (OverlayManager) and with the document; what follows from that is done  *)
(* when the browser's `close' event comes, later.  A text is the image it  *)
(* was written for, <<document, image>>, or empty.                         *)
(***************************************************************************)
EXTENDS Integers, Sequences, FiniteSetsExt

CONSTANTS Images,            \* images of a document
          MaxDocs,           \* bound: documents
          Windows, Dialog,   \* sizes
          Rects,             \* places of an image, some of it outside of the window
          Margin             \* MARGIN

VARIABLE a

Doc    == 1 .. MaxDocs
Text   == {<< >>} \cup (Doc \X Images)
Data   == [text : Text, decorative : BOOLEAN]
Blank  == [text |-> << >>, decorative |-> FALSE]
AnyRect == CHOOSE r \in Rects : TRUE
Nowhere == [positioned |-> FALSE, left |-> 0, top |-> 0]

TypeOK ==
  /\ a.doc \in Doc /\ a.data \in [Images -> Data]          \* the document and its images
  /\ a.listens \in BOOLEAN                                 \* its edit listeners
  /\ a.overlay \in {"null", "alttext", "other"}            \* OverlayManager.#active
  /\ a.closing \in BOOLEAN                                 \* a `close' event is to come
  /\ a.editor \in {0} \cup Images /\ a.ui \in {0} \cup Doc \* #currentEditor, #uiManager
  /\ a.form \in Data /\ a.resizes \in BOOLEAN              \* the form, #resizeAC
  /\ a.ltr \in BOOLEAN /\ a.window \in Windows /\ a.rect \in Rects
  /\ a.style.positioned \in BOOLEAN /\ a.style.left \in Int /\ a.style.top \in Int

\* What getClientDimensions gives: an image that the user has pointed at is in the window.
InWindow(r, w) == r.x < w.w /\ r.y < w.h /\ r.x + r.w > 0 /\ r.y + r.h > 0

-----------------------------------------------------------------------------
\* Beside the image where there is room, first on the side where reading goes on.
Beside(r, w, ltr) ==
  LET right == r.x + r.w + Margin
      left  == r.x - Dialog.w - Margin
      fitsRight == right + Dialog.w < w.w
      fitsLeft  == left > 0
  IN  IF ltr THEN IF fitsRight THEN {right} ELSE IF fitsLeft THEN {left} ELSE {}
      ELSE IF fitsLeft THEN {left} ELSE IF fitsRight THEN {right} ELSE {}

\* Else above or below it.
AboveOrBelow(r, w) ==
  LET above == r.y - Dialog.h - Margin
      below == r.y + r.h + Margin
  IN  IF above > 0 THEN {above} ELSE IF below + Dialog.h < w.h THEN {below} ELSE {}

\* A place as near to p as a dialog of this size fits into the window.
Inside(p, size, window) == LET q == Max({p, 0}) IN q + Min({window - (q + size), 0})

At(left, top) == [positioned |-> TRUE, left |-> left, top |-> top]

\* #setPosition
Position(r, w, ltr) ==
  IF Beside(r, w, ltr) # {} THEN At(Min(Beside(r, w, ltr)), Inside(r.y, Dialog.h, w.h))
  ELSE IF AboveOrBelow(r, w) # {} THEN At(Inside(r.x, Dialog.w, w.w), Min(AboveOrBelow(r, w)))
  ELSE Nowhere

-----------------------------------------------------------------------------
\* #close; the manager of a document that is gone has no listeners to get back.
Close(b) ==
  [b EXCEPT !.editor = 0, !.ui = 0, !.resizes = FALSE,
            !.listens = @ \/ b.ui = b.doc]

\* OverlayManager.close; the place of a closed dialog is of no account.
CloseDialog(b) ==
  IF b.overlay # "alttext" THEN b
  ELSE [b EXCEPT !.overlay = "null", !.closing = TRUE, !.rect = AnyRect, !.style = Nowhere]

Start(ltr, window) ==
  [doc |-> 1, data |-> [e \in Images |-> Blank], listens |-> TRUE, overlay |-> "null", closing |-> FALSE,
   editor |-> 0, ui |-> 0, form |-> Blank, resizes |-> FALSE, ltr |-> ltr, window |-> window,
   rect |-> AnyRect, style |-> Nowhere]

Init == \E ltr \in BOOLEAN, window \in Windows : a = Start(ltr, window)

FillForm(e) == a.data[e]

\* editAltText; when another dialog is in the way, open rejects.
EditAltText(e, r) ==
  LET b == [a EXCEPT !.form = FillForm(e), !.editor = e, !.ui = a.doc, !.listens = FALSE, !.resizes = TRUE]
  IN  /\ a.editor = 0 /\ InWindow(r, a.window)
      /\ a' = IF a.overlay # "null" THEN Close(b)
              ELSE [b EXCEPT !.overlay = "alttext", !.rect = r, !.style = Position(r, a.window, a.ltr)]

\* The user types, or empties the text; a decorative image has no text to type.
Type(text) ==
  /\ a.overlay = "alttext" /\ ~ a.form.decorative
  /\ text \in {<< >>, <<a.doc, a.editor>>}
  /\ a' = [a EXCEPT !.form.text = text]

Choose == a.overlay = "alttext" /\ a' = [a EXCEPT !.form.decorative = ~ @]

\* #save, then #finish
Save ==
  /\ a.overlay = "alttext"
  /\ a' = CloseDialog([a EXCEPT !.data[a.editor] = a.form])

\* The button, and Escape, whose `cancel' event tells the overlay manager.
Cancel == a.overlay = "alttext" /\ a' = CloseDialog(a)

CloseEvent == a.closing /\ a' = Close([a EXCEPT !.closing = FALSE])

Resize(r, w) ==
  /\ a.overlay = "alttext" /\ InWindow(r, w)
  /\ a' = IF a.resizes /\ a.editor # 0
          THEN [a EXCEPT !.window = w, !.rect = r, !.style = Position(r, w, a.ltr)]
          ELSE [a EXCEPT !.window = w, !.rect = r]

\* A print job or a request for a password: their dialogs take the place of others.
OtherOpens  == a.overlay # "other" /\ a' = [CloseDialog(a) EXCEPT !.overlay = "other"]
OtherCloses == a.overlay = "other" /\ a' = [a EXCEPT !.overlay = "null"]

\* destroy, with the UI manager of a document.
Destroy(b) == CloseDialog([b EXCEPT !.ui = 0])

NewDocument ==
  /\ a.doc < MaxDocs
  /\ a' = [Destroy(a) EXCEPT !.doc = @ + 1, !.data = [e \in Images |-> Blank], !.listens = TRUE]

Next ==
  \/ \E e \in Images, r \in Rects : EditAltText(e, r)
  \/ \E text \in Text : Type(text)
  \/ Choose \/ Save \/ Cancel \/ CloseEvent
  \/ \E r \in Rects, w \in Windows : Resize(r, w)
  \/ OtherOpens \/ OtherCloses \/ NewDocument

-----------------------------------------------------------------------------
\* A text that was typed for an image and not saved never becomes that of another one, also
\* not of one in the next document.
TextOfImage == \A e \in Images : a.data[e].text \in {<< >>, <<a.doc, e>>}

\* A dialog that is on the screen belongs to the document on the screen, which therefore does
\* not listen to keys; and it listens again when no image is edited any more.
KeysComeBack ==
  /\ a.listens = (a.ui # a.doc)
  /\ a.overlay = "alttext" => a.ui = a.doc /\ a.editor # 0

\* A dialog with a place is inside the window and does not cover its image.
BesideTheImage ==
  LET r == a.rect
      s == a.style
  IN  a.overlay = "alttext" /\ s.positioned =>
        /\ s.left >= 0 /\ s.left + Dialog.w <= a.window.w
        /\ s.top >= 0 /\ s.top + Dialog.h <= a.window.h
        /\ \/ s.left + Dialog.w <= r.x \/ r.x + r.w <= s.left
           \/ s.top + Dialog.h <= r.y \/ r.y + r.h <= s.top

\* What makes these inductive: the dialog on the screen is filled in for its own image, its
\* place is the one computed for where the image is now, and no `close' event is under way.
FormOf(u) == DOMAIN u.form = DOMAIN Blank /\ (u.overlay = "alttext" => u.form.text \in {<< >>, <<u.doc, u.editor>>})
TextsSound(u) ==
  /\ u.doc \in Nat /\ u.doc # 0 /\ DOMAIN u.data = Images /\ FormOf(u)
  /\ \A e \in Images : DOMAIN u.data[e] = DOMAIN Blank /\ u.data[e].text \in {<< >>, <<u.doc, e>>}
KeysSound(u) ==
  /\ u.listens = (u.ui # u.doc) /\ (u.closing => u.editor # 0 /\ u.overlay # "alttext")
  /\ u.overlay = "alttext" => u.ui = u.doc /\ u.editor \in Images /\ u.resizes
PlaceSound(u) ==
  /\ u.window \in Windows
  /\ u.overlay = "alttext" => u.rect \in Rects /\ InWindow(u.rect, u.window) /\ u.style = Position(u.rect, u.window, u.ltr)

Sound(u) == DOMAIN u = DOMAIN Start(TRUE, Dialog) /\ TextsSound(u) /\ KeysSound(u) /\ PlaceSound(u)
IInv == Sound(a)
=============================================================================
