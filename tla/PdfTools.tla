------------------------------- MODULE PdfTools --------------------------------
(***************************************************************************)
(* The cursor tools (selecting text, or the hand that drags the page), the *)
(* annotation editor's modes and the presentation mode, each of which      *)
(* takes the hand tool away and gives it back.  Changing the editor's mode *)
(* may first wait until pages with annotations are drawn, and then waits   *)
(* for the editor itself (updateMode, external); modes may be changed      *)
(* again before, and the document may be replaced.  The mouse is modelled  *)
(* with a release that the window does not see.                            *)
(***************************************************************************)
EXTENDS Naturals, Sequences

CONSTANTS MaxSwitches, MaxDocs,
          Visible, Editable   \* the pages in view, and the ones with annotations to edit

VARIABLE x

Mode == {"NONE", "FREETEXT", "INK"}
Tool == {"SELECT", "HAND"}
PresentationState == {"NORMAL", "CHANGING", "FULLSCREEN"}

State ==
  [doc : 1 .. MaxDocs, switches : 0 .. MaxSwitches,
   mode : Mode, editing : BOOLEAN,             \* of the pages
   wait : Mode, ids : SUBSET Visible,          \* for these pages (NONE: no wait)
   timer : Mode,                               \* of the updater
   updates : [Mode -> Nat],                    \* calls of updateMode under way
   layer : BOOLEAN,                            \* an editor layer was rendered
   toolbar : Mode \cup {"DISABLE"},            \* the button that is pressed
   active : Tool, prev : Tool \cup {"null"}, chosen : Tool,
   told : [mode : Mode, state : PresentationState],     \* what the cursor tools know
   buttons : [tool : Tool, disabled : BOOLEAN],
   grab : BOOLEAN, panning : BOOLEAN, scrollAC : BOOLEAN, listeners : Nat, overlay : BOOLEAN,
   mouse : {"up", "down", "lost"},
   state : PresentationState, args : Mode \cup {"null"},
   todo : {"null", "enter", "exit"},           \* a timeout of the presentation mode
   quiet : BOOLEAN]

TypeOK == x \in State

-----------------------------------------------------------------------------
(* GrabToPan *)

\* #endPan
EndPan(u) ==
  [u EXCEPT !.listeners = IF u.panning THEN @ - 1 ELSE @, !.panning = FALSE,
            !.scrollAC = FALSE, !.overlay = FALSE]

Activate(u)   == [u EXCEPT !.grab = TRUE]
Deactivate(u) == IF u.grab THEN [EndPan(u) EXCEPT !.grab = FALSE] ELSE u

-----------------------------------------------------------------------------
(* PDFCursorTools *)

\* #cursorToolChanged of the secondary toolbar
CursorToolChanged(u, tool, disabled) == [u EXCEPT !.buttons = [tool |-> tool, disabled |-> disabled]]

\* #switchTool
SwitchTool(u, tool, disabled) ==
  LET told == CursorToolChanged(u, tool, disabled)
  IN  IF tool = u.active THEN IF u.prev = "null" THEN u ELSE told
      ELSE [(IF tool = "HAND" THEN Activate(told) ELSE Deactivate(told)) EXCEPT !.active = tool]

\* Mutant: the second of two reasons forgets the tool.
DisableActiveAgain(u) == SwitchTool([u EXCEPT !.prev = u.active], "SELECT", TRUE)

DisableActive(u) == SwitchTool([u EXCEPT !.prev = IF @ = "null" THEN u.active ELSE @], "SELECT", TRUE)

EnableActive(u) ==
  IF u.prev # "null" /\ u.told.mode = "NONE" /\ u.told.state = "NORMAL"
  THEN [SwitchTool(u, u.prev, FALSE) EXCEPT !.prev = "null"] ELSE u

\* #editorModeChanged of the toolbar; DISABLE from its reset.
EditorModeChanged(u, mode) == [u EXCEPT !.toolbar = mode]

\* annotationeditormodechanged
ModeChanged(u, mode) ==
  LET w == EditorModeChanged([u EXCEPT !.told.mode = mode], mode)
  IN  IF mode = "NONE" THEN EnableActive(w) ELSE DisableActive(w)

\* presentationmodechanged
NotifyStateChange(u, state) ==
  LET w == [u EXCEPT !.state = state, !.told.state = state]
  IN  CASE state = "NORMAL"     -> EnableActive(w)
        [] state = "FULLSCREEN" -> DisableActive(w)
        [] state = "CHANGING"   -> w

\* switchcursortool with reset, sent by the secondary toolbar.
ResetTool(u) ==
  IF u.prev = "null" THEN u ELSE EnableActive([u EXCEPT !.told = [mode |-> "NONE", state |-> "NORMAL"]])

-----------------------------------------------------------------------------
(* PDFViewer: annotationEditorMode *)

\* #switchToEditAnnotationMode: the pages that have to be drawn again first.
PagesToRefresh == Visible \cap Editable

CleanupSwitch(u) == [u EXCEPT !.wait = "NONE", !.ids = {}, !.timer = "NONE"]

\* updater, up to its `await'.
Updater(u, mode) == [CleanupSwitch(u) EXCEPT !.mode = mode, !.updates[mode] = @ + 1]

\* The setter.
SetMode(u, mode) ==
  IF mode = u.mode THEN u
  ELSE IF "NONE" \notin {mode, u.mode} THEN Updater(u, mode)
  ELSE LET w == [u EXCEPT !.editing = mode # "NONE"]
       IN  IF mode = "NONE" \/ PagesToRefresh = {} THEN Updater(w, mode)
           ELSE [CleanupSwitch(w) EXCEPT !.wait = mode, !.ids = PagesToRefresh]

-----------------------------------------------------------------------------
Start ==
  [doc |-> 1, switches |-> 0, mode |-> "NONE", editing |-> FALSE, wait |-> "NONE", ids |-> {},
   timer |-> "NONE", updates |-> [m \in Mode |-> 0], layer |-> FALSE, toolbar |-> "DISABLE",
   active |-> "SELECT", prev |-> "null", chosen |-> "SELECT",
   told |-> [mode |-> "NONE", state |-> "NORMAL"],
   buttons |-> [tool |-> "SELECT", disabled |-> FALSE],
   grab |-> FALSE, panning |-> FALSE, scrollAC |-> FALSE, listeners |-> 0, overlay |-> FALSE,
   mouse |-> "up", state |-> "NORMAL", args |-> "null", todo |-> "null", quiet |-> FALSE]

Init == x = Start

User  == ~ x.quiet /\ x.switches < MaxSwitches
Acted == [x EXCEPT !.switches = @ + 1]

\* A tool is chosen, in the toolbar or when the viewer starts; switchTool.
ChooseTool(tool) ==
  /\ User /\ tool # x.active
  /\ x' = IF x.prev # "null" THEN Acted
          ELSE [SwitchTool(Acted, tool, FALSE) EXCEPT !.chosen = tool]

\* A button of the toolbar: pressed again, it ends its mode.
ClickEditor(m) ==
  /\ User /\ x.toolbar # "DISABLE" /\ x.state # "FULLSCREEN"
  /\ x' = SetMode(Acted, IF x.toolbar = m THEN "NONE" ELSE m)

\* pagerendered, while a change of mode waits.
PageRendered(p) ==
  /\ x.wait # "NONE" /\ p \in x.ids
  /\ x' = [x EXCEPT !.ids = @ \ {p}, !.timer = IF x.ids = {p} THEN x.wait ELSE @]

UpdaterTimer == x.timer # "NONE" /\ x' = Updater(x, x.timer)

\* updateMode ends: the rest of updater.
Updated(m) ==
  /\ x.updates[m] > 0
  /\ LET u == [x EXCEPT !.updates[m] = @ - 1] IN x' = IF m = x.mode THEN ModeChanged(u, m) ELSE u

\* The first annotationeditorlayerrendered of a document enables the buttons.
LayerRendered == ~ x.layer /\ x' = ModeChanged([x EXCEPT !.layer = TRUE], x.mode)

\* Another document: setDocument, _resetView, the `reset' of both toolbars.
Reopen ==
  /\ ~ x.quiet /\ x.doc < MaxDocs
  /\ LET closed == [CleanupSwitch(x) EXCEPT !.doc = @ + 1, !.mode = "NONE", !.editing = FALSE,
                                            !.updates = [m \in Mode |-> 0], !.layer = FALSE]
     IN  x' = ResetTool(EditorModeChanged(closed, "DISABLE"))

\* PDFPresentationMode.request
Request ==
  /\ User /\ x.state = "NORMAL" /\ x.todo = "null"
  /\ x' = NotifyStateChange([Acted EXCEPT !.args = x.mode], "CHANGING")

Refused == x.state = "CHANGING" /\ x' = NotifyStateChange(x, "NORMAL")

\* #enter, #exit, and what they put off.
Enter == x.state = "CHANGING" /\ x' = [NotifyStateChange(x, "FULLSCREEN") EXCEPT !.todo = "enter"]

Entered == x.todo = "enter" /\ x' = SetMode([x EXCEPT !.todo = "null"], "NONE")

Exit == x.state = "FULLSCREEN" /\ x.todo = "null" /\ x' = [x EXCEPT !.todo = "exit"]

Exited ==
  /\ x.todo = "exit"
  /\ x' = [SetMode(NotifyStateChange([x EXCEPT !.todo = "null"], "NORMAL"), x.args) EXCEPT !.args = "null"]

\* #onMouseDown
MouseDown ==
  /\ ~ x.quiet /\ x.mouse = "up" /\ x.grab
  /\ x' = [x EXCEPT !.mouse = "down", !.panning = TRUE, !.listeners = @ + 1, !.scrollAC = TRUE]

\* #onMouseMove; the window sees here that the button was released outside.
MouseMove ==
  /\ ~ x.quiet /\ (x.listeners > 0 \/ x.mouse = "lost")
  /\ LET u == [x EXCEPT !.scrollAC = FALSE, !.mouse = IF @ = "lost" THEN "up" ELSE @]
     IN  x' = IF x.listeners = 0 THEN u
              ELSE IF x.mouse # "down" THEN EndPan(u) ELSE [u EXCEPT !.overlay = TRUE]

MouseUp == ~ x.quiet /\ x.mouse = "down" /\ x' = [(IF x.listeners > 0 THEN EndPan(x) ELSE x) EXCEPT !.mouse = "up"]

MouseLost == ~ x.quiet /\ x.mouse = "down" /\ x' = [x EXCEPT !.mouse = "lost"]

\* The page scrolls by itself before the mouse has moved.
Scroll == ~ x.quiet /\ x.scrollAC /\ x' = EndPan(x)

Rest == ~ x.quiet /\ x' = [x EXCEPT !.quiet = TRUE]

Next ==
  \/ \E tool \in Tool : ChooseTool(tool)
  \/ \E m \in Mode \ {"NONE"} : ClickEditor(m)
  \/ \E m \in Mode : Updated(m)
  \/ \E p \in PagesToRefresh : PageRendered(p)
  \/ UpdaterTimer \/ LayerRendered \/ Reopen
  \/ Request \/ Refused \/ Enter \/ Entered \/ Exit \/ Exited
  \/ MouseDown \/ MouseMove \/ MouseUp \/ MouseLost \/ Scroll \/ Rest

-----------------------------------------------------------------------------
Switching == x.wait # "NONE" \/ x.timer # "NONE" \/ \E m \in Mode : x.updates[m] > 0

\* The tool that the user has chosen is in use, or it comes back when editing and presenting end.
ToolComesBack == (IF x.prev = "null" THEN x.active ELSE x.prev) = x.chosen

\* The buttons of the tools show the tool in use, and can be pressed exactly when it may be changed.
ButtonsShowTool == x.buttons = [tool |-> x.active, disabled |-> x.prev # "null"]

\* The hand drags the page only when it is the tool in use, and there is neither an editor nor a
\* presentation that the cursor tools were told of.
HandOnlyWhenFree ==
  /\ x.grab = (x.active = "HAND")
  /\ x.told.mode # "NONE" \/ x.told.state = "FULLSCREEN" => ~ x.grab

\* A drag ends with its tool: no listener is left that would move the page.
NoPanWithoutHand ==
  /\ x.listeners <= 1 /\ (x.listeners > 0 => x.grab /\ x.panning)
  /\ x.overlay => x.listeners > 0

\* When no change of mode is under way, pages, toolbar, tools and viewer agree on the mode.
ModesAgree ==
  ~ Switching => /\ x.editing = (x.mode # "NONE")
                 /\ x.layer => x.toolbar = x.mode /\ x.told.mode = x.mode

\* What makes these inductive: of the cursor tools in a state u, ...
CursorSound(u) ==
  /\ DOMAIN u = DOMAIN Start
  /\ u.active \in Tool /\ u.prev \in Tool \cup {"null"} /\ u.panning \in BOOLEAN
  /\ (IF u.prev = "null" THEN u.active ELSE u.prev) = u.chosen
  /\ u.prev # "null" => u.active = "SELECT"
  /\ u.buttons = [tool |-> u.active, disabled |-> u.prev # "null"]
  /\ u.grab = (u.active = "HAND")
  /\ u.listeners = IF u.panning THEN 1 ELSE 0
  /\ u.panning => u.grab /\ u.mouse # "up"
  /\ u.overlay => u.panning

\* of what they were told, ...
ToldSound(u) ==
  /\ DOMAIN u.told = {"mode", "state"}
  /\ u.told.mode # "NONE" \/ u.told.state = "FULLSCREEN" => u.prev # "null"

\* of the mode of the editor, ...
ModeSound(u) ==
  /\ u.mode \in Mode /\ u.wait \in Mode /\ u.updates \in [Mode -> Nat]
  /\ IF u.wait = "NONE" THEN u.editing = (u.mode # "NONE") /\ u.timer = "NONE"
     ELSE u.editing /\ u.mode = "NONE" /\ u.timer \in {"NONE", u.wait}
  /\ u.layer => u.updates[u.mode] > 0 \/ (u.toolbar = u.mode /\ u.told.mode = u.mode)

\* and of the presentation.
PresentSound(u) ==
  /\ u.state \in PresentationState
  /\ u.state # "NORMAL" => u.args \in Mode
  /\ u.todo # "null" => u.state = "FULLSCREEN"

Sound(u) == CursorSound(u) /\ ToldSound(u) /\ ModeSound(u) /\ PresentSound(u)
IInv == Sound(x)
=============================================================================
