----------------------------- MODULE DocumentProofs -----------------------------
(***************************************************************************)
(* What is proved about the parts of the whitepaper viewer that are about  *)
(* the document it shows, laid out as in ViewerProofs: for each part the   *)
(* first state, every step, and what the inductive invariant gives.        *)
(***************************************************************************)
EXTENDS DocumentParts, SequenceTheorems, FiniteSetTheorems, TLAPS

-----------------------------------------------------------------------------
(* PDFCursorTools, the editing modes and presenting. *)

(* What the operations of the cursor tools leave alone. *)
TSame(u, r) ==
  /\ DOMAIN r = DOMAIN TO!Start /\ r.chosen = u.chosen /\ r.told = u.told /\ r.mouse = u.mouse
  /\ r.state = u.state /\ r.args = u.args /\ r.todo = u.todo
  /\ r.mode = u.mode /\ r.editing = u.editing /\ r.wait = u.wait /\ r.timer = u.timer /\ r.updates = u.updates
  /\ r.layer = u.layer /\ r.toolbar = u.toolbar

(* The hand and its drag. *)
TPan(u) ==
  /\ DOMAIN u = DOMAIN TO!Start /\ u.active \in TO!Tool /\ u.panning \in BOOLEAN
  /\ u.grab = (u.active = "HAND")
  /\ u.listeners = IF u.panning THEN 1 ELSE 0
  /\ u.panning => u.grab /\ u.mouse # "up"
  /\ u.overlay => u.panning

TSwitched(u, tool, dis, r) ==
  TSame(u, r) /\ TPan(r) /\ r.prev = u.prev /\ r.active = tool /\ r.buttons = [tool |-> tool, disabled |-> dis]

TEnded(u, r) ==
  /\ TSame(u, r) /\ r.prev = u.prev /\ r.active = u.active /\ r.buttons = u.buttons /\ r.grab = u.grab
  /\ r.panning = FALSE /\ r.listeners = 0 /\ r.overlay = FALSE

(* A drag of the hand ends and leaves no listener. *)
LEMMA TEndPan ==
  ASSUME NEW u, TPan(u), NEW r, r = TO!EndPan(u)
  PROVE  TEnded(u, r)
BY DEF TO!EndPan, TPan, TSame, TEnded, TO!Start

(* switchTool: the tool is the wanted one, and the listeners are those of the hand. *)
LEMMA TSwitch ==
  ASSUME NEW u, TPan(u), NEW tool \in TO!Tool, NEW dis \in BOOLEAN, tool = u.active => u.prev # "null",
         NEW r, r = TO!SwitchTool(u, tool, dis)
  PROVE  TSwitched(u, tool, dis, r)
<1>1. PICK t : t = TO!CursorToolChanged(u, tool, dis)
  OBVIOUS
<1>2. /\ TSame(u, t) /\ t.prev = u.prev /\ t.active = u.active /\ t.buttons = [tool |-> tool, disabled |-> dis] /\ t.grab = u.grab
      /\ t.panning = u.panning /\ t.listeners = u.listeners /\ t.overlay = u.overlay /\ t.mouse = u.mouse
  BY <1>1 DEF TO!CursorToolChanged, TPan, TSame, TO!Start
<1>3. TPan(t)
  BY <1>2 DEF TPan, TSame
<1>4. CASE tool = u.active
  <2>1. r = t
    BY <1>1, <1>4 DEF TO!SwitchTool
  <2> QED BY <1>2, <1>3, <1>4, <2>1 DEF TSwitched
<1>5. CASE tool # u.active
  <2>1. PICK a : a = IF tool = "HAND" THEN TO!Activate(t) ELSE TO!Deactivate(t)
    OBVIOUS
  <2>2. r = [a EXCEPT !.active = tool]
    BY <1>1, <1>5, <2>1 DEF TO!SwitchTool
  <2>3. CASE tool = "HAND"
    <3>1. a = [t EXCEPT !.grab = TRUE]
      BY <2>1, <2>3 DEF TO!Activate
    <3>2. DOMAIN t = DOMAIN TO!Start /\ ~t.panning /\ ~t.overlay /\ t.listeners = 0
      BY <1>2, <1>3, <1>5, <2>3 DEF TPan, TO!Tool
    <3>3. /\ TSame(t, r) /\ r.prev = t.prev /\ r.active = tool /\ r.buttons = t.buttons /\ r.grab = TRUE
          /\ r.panning = t.panning /\ r.listeners = t.listeners /\ r.overlay = t.overlay
      BY <2>2, <3>1, <3>2 DEF TSame, TO!Start
    <3>4. TPan(r)
      BY <1>3, <2>3, <3>2, <3>3 DEF TPan, TSame
    <3> QED BY <1>2, <3>3, <3>4 DEF TSwitched, TSame
  <2>4. CASE tool = "SELECT"
    <3>1. t.grab
      BY <1>2, <1>3, <1>5, <2>4 DEF TPan, TO!Tool
    <3>2. PICK e : e = TO!EndPan(t)
      OBVIOUS
    <3>3. TEnded(t, e)
      BY <1>3, <3>2, TEndPan
    <3>4. r = [[e EXCEPT !.grab = FALSE] EXCEPT !.active = tool]
      BY <2>1, <2>2, <2>4, <3>1, <3>2 DEF TO!Deactivate
    <3>5. DOMAIN e = DOMAIN TO!Start
      BY <3>3 DEF TEnded, TSame
    <3>6. /\ TSame(e, r) /\ r.prev = e.prev /\ r.active = tool /\ r.buttons = e.buttons /\ r.grab = FALSE
          /\ r.panning = e.panning /\ r.listeners = e.listeners /\ r.overlay = e.overlay
      BY <3>4, <3>5 DEF TSame, TO!Start
    <3>7. TPan(r)
      BY <2>4, <3>3, <3>6 DEF TPan, TEnded, TSame, TO!Tool
    <3> QED BY <1>2, <3>3, <3>6, <3>7 DEF TSwitched, TSame, TEnded
  <2> QED BY <2>3, <2>4 DEF TO!Tool
<1> QED BY <1>4, <1>5

TDisabled(u, r) == TSame(u, r) /\ TO!CursorSound(r) /\ r.prev # "null"

(* #disableActiveTool keeps the tool to come back to, also when called again. *)
LEMMA TDisable ==
  ASSUME NEW u, TO!CursorSound(u), NEW r, r = TO!DisableActive(u)
  PROVE  TDisabled(u, r)
<1>1. PICK t : t = [u EXCEPT !.prev = IF @ = "null" THEN u.active ELSE @]
  OBVIOUS
<1>2. DOMAIN u = DOMAIN TO!Start /\ TPan(u)
  BY DEF TO!CursorSound, TPan
<1>3. /\ TSame(u, t) /\ t.prev = (IF u.prev = "null" THEN u.active ELSE u.prev) /\ t.active = u.active /\ t.grab = u.grab
      /\ t.panning = u.panning /\ t.listeners = u.listeners /\ t.overlay = u.overlay /\ t.mouse = u.mouse
  BY <1>1, <1>2 DEF TSame, TO!Start
<1>4. TPan(t) /\ t.prev # "null" /\ t.prev \in TO!Tool
  BY <1>2, <1>3 DEF TPan, TSame, TO!CursorSound, TO!Tool
<1>5. r = TO!SwitchTool(t, "SELECT", TRUE) /\ "SELECT" \in TO!Tool
  BY <1>1 DEF TO!DisableActive, TO!Tool
<1>6. TSwitched(t, "SELECT", TRUE, r)
  BY <1>4, <1>5, TSwitch
<1>7. TSame(u, r) /\ r.prev = t.prev /\ r.active = "SELECT" /\ TPan(r) /\ r.chosen = u.chosen
  BY <1>3, <1>6 DEF TSwitched, TSame
<1>8. r.buttons = [tool |-> r.active, disabled |-> r.prev # "null"]
  BY <1>4, <1>6, <1>7 DEF TSwitched
<1>9. (IF r.prev = "null" THEN r.active ELSE r.prev) = r.chosen
  BY <1>3, <1>4, <1>7 DEF TO!CursorSound
<1> QED BY <1>4, <1>7, <1>8, <1>9 DEF TDisabled, TO!CursorSound, TPan

TEnabled(u, r) ==
  TSame(u, r) /\ TO!CursorSound(r) /\ ((u.told.mode = "NONE" /\ u.told.state = "NORMAL") \/ r.prev = u.prev)

(* #enableActiveTool gives the tool back when nothing else needs the selection. *)
LEMMA TEnable ==
  ASSUME NEW u, TO!CursorSound(u), NEW r, r = TO!EnableActive(u)
  PROVE  TEnabled(u, r)
<1>1. DOMAIN u = DOMAIN TO!Start /\ TPan(u)
  BY DEF TO!CursorSound, TPan
<1>2. CASE ~(u.prev # "null" /\ u.told.mode = "NONE" /\ u.told.state = "NORMAL")
  <2>1. r = u
    BY <1>2 DEF TO!EnableActive
  <2> QED BY <1>1, <2>1 DEF TEnabled, TSame
<1>3. CASE u.prev # "null" /\ u.told.mode = "NONE" /\ u.told.state = "NORMAL"
  <2>1. PICK t : t = TO!SwitchTool(u, u.prev, FALSE)
    OBVIOUS
  <2>2. r = [t EXCEPT !.prev = "null"]
    BY <1>3, <2>1 DEF TO!EnableActive
  <2>3. u.prev \in TO!Tool
    BY <1>3 DEF TO!CursorSound
  <2>4. TSwitched(u, u.prev, FALSE, t)
    BY <1>1, <1>3, <2>1, <2>3, TSwitch
  <2>5. DOMAIN t = DOMAIN TO!Start /\ TPan(t)
    BY <2>4 DEF TSwitched, TPan
  <2>6. /\ TSame(t, r) /\ r.prev = "null" /\ r.active = t.active /\ r.buttons = t.buttons /\ r.grab = t.grab
        /\ r.panning = t.panning /\ r.listeners = t.listeners /\ r.overlay = t.overlay
    BY <2>2, <2>5 DEF TSame, TO!Start
  <2>7. TSame(u, r)
    BY <2>4, <2>6 DEF TSwitched, TSame
  <2>8. TPan(r)
    BY <2>5, <2>6 DEF TPan, TSame
  <2>9. r.buttons = [tool |-> r.active, disabled |-> r.prev # "null"]
    BY <2>4, <2>6 DEF TSwitched
  <2>10. r.active = r.chosen
    BY <1>3, <2>4, <2>6, <2>7 DEF TSwitched, TSame, TO!CursorSound
  <2>11. TO!CursorSound(r)
    BY <2>6, <2>8, <2>9, <2>10 DEF TO!CursorSound, TPan
  <2> QED BY <1>3, <2>7, <2>11 DEF TEnabled
<1> QED BY <1>2, <1>3

(* What the events about modes leave of the mode itself. *)
TModes(u, r) ==
  /\ r.mode = u.mode /\ r.editing = u.editing /\ r.wait = u.wait /\ r.timer = u.timer /\ r.updates = u.updates
  /\ r.layer = u.layer /\ r.args = u.args /\ r.todo = u.todo

(* The fields of the cursor tools. *)
TCursor(u, r) ==
  /\ DOMAIN r = DOMAIN TO!Start /\ r.active = u.active /\ r.prev = u.prev /\ r.chosen = u.chosen /\ r.buttons = u.buttons
  /\ r.grab = u.grab /\ r.panning = u.panning /\ r.listeners = u.listeners /\ r.overlay = u.overlay /\ r.mouse = u.mouse

(* What the cursor tools do not notice. *)
LEMMA TCursorKept ==
  ASSUME NEW u, NEW r, TO!CursorSound(u), TCursor(u, r) PROVE TO!CursorSound(r)
BY DEF TO!CursorSound, TCursor

TModeTold(u, mode, r) ==
  /\ TO!CursorSound(r) /\ TO!ToldSound(r) /\ TModes(u, r) /\ r.state = u.state
  /\ r.told.mode = mode /\ r.toolbar = mode

(* The cursor tools and the toolbar hear of the editing mode. *)
LEMMA TModeChanged ==
  ASSUME NEW u, TO!CursorSound(u), TO!ToldSound(u), NEW mode \in TO!Mode, NEW r, r = TO!ModeChanged(u, mode)
  PROVE  TModeTold(u, mode, r)
<1>1. PICK w : w = [[u EXCEPT !.told.mode = mode] EXCEPT !.toolbar = mode]
  OBVIOUS
<1>2. DOMAIN u = DOMAIN TO!Start /\ DOMAIN u.told = {"mode", "state"}
  BY DEF TO!CursorSound, TO!ToldSound
<1>3. PICK n : n = [u.told EXCEPT !.mode = mode]
  OBVIOUS
<1>4. n.mode = mode /\ n.state = u.told.state /\ DOMAIN n = {"mode", "state"}
  BY <1>2, <1>3
<1>5. TCursor(u, w) /\ TModes(u, w) /\ w.state = u.state /\ w.told = n /\ w.toolbar = mode
  BY <1>1, <1>2, <1>3 DEF TCursor, TModes, TO!Start
<1>6. TO!CursorSound(w)
  BY <1>5, TCursorKept
<1>7. r = IF mode = "NONE" THEN TO!EnableActive(w) ELSE TO!DisableActive(w)
  BY <1>1 DEF TO!ModeChanged, TO!EditorModeChanged
<1>8. CASE mode = "NONE"
  <2>1. TEnabled(w, r)
    BY <1>6, <1>7, <1>8, TEnable
  <2>2. r.told = n /\ TModes(u, r) /\ r.state = u.state /\ r.toolbar = mode /\ TO!CursorSound(r)
    BY <1>5, <2>1 DEF TEnabled, TSame, TModes
  <2>3. r.told.state = "FULLSCREEN" => r.prev # "null"
    BY <1>4, <1>5, <2>1, <2>2 DEF TEnabled, TO!ToldSound, TCursor
  <2> QED BY <1>4, <1>8, <2>2, <2>3 DEF TModeTold, TO!ToldSound
<1>9. CASE mode # "NONE"
  <2>1. TDisabled(w, r)
    BY <1>6, <1>7, <1>9, TDisable
  <2>2. r.told = n /\ TModes(u, r) /\ r.state = u.state /\ r.toolbar = mode /\ TO!CursorSound(r) /\ r.prev # "null"
    BY <1>5, <2>1 DEF TDisabled, TSame, TModes
  <2> QED BY <1>4, <2>2 DEF TModeTold, TO!ToldSound
<1> QED BY <1>8, <1>9

TNotified(u, state, r) ==
  /\ TO!CursorSound(r) /\ TO!ToldSound(r) /\ TModes(u, r) /\ r.state = state
  /\ r.told.mode = u.told.mode /\ r.toolbar = u.toolbar

(* The cursor tools hear of the presentation mode. *)
LEMMA TNotify ==
  ASSUME NEW u, TO!CursorSound(u), TO!ToldSound(u), NEW state \in TO!PresentationState,
         NEW r, r = TO!NotifyStateChange(u, state)
  PROVE  TNotified(u, state, r)
<1>1. PICK w : w = [u EXCEPT !.state = state, !.told.state = state]
  OBVIOUS
<1>2. DOMAIN u = DOMAIN TO!Start /\ DOMAIN u.told = {"mode", "state"}
  BY DEF TO!CursorSound, TO!ToldSound
<1>3. PICK n : n = [u.told EXCEPT !.state = state]
  OBVIOUS
<1>4. n.mode = u.told.mode /\ n.state = state /\ DOMAIN n = {"mode", "state"}
  BY <1>2, <1>3
<1>5. TCursor(u, w) /\ TModes(u, w) /\ w.state = state /\ w.told = n /\ w.toolbar = u.toolbar
  BY <1>1, <1>2, <1>3 DEF TCursor, TModes, TO!Start
<1>6. TO!CursorSound(w)
  BY <1>5, TCursorKept
<1>7. CASE state = "NORMAL"
  <2>1. r = TO!EnableActive(w)
    BY <1>1, <1>7 DEF TO!NotifyStateChange
  <2>2. TEnabled(w, r)
    BY <1>6, <2>1, TEnable
  <2>3. r.told = n /\ TModes(u, r) /\ r.state = state /\ r.toolbar = u.toolbar /\ TO!CursorSound(r)
    BY <1>5, <2>2 DEF TEnabled, TSame, TModes
  <2>4. r.told.mode # "NONE" => r.prev # "null"
    BY <1>4, <1>5, <2>2, <2>3 DEF TEnabled, TO!ToldSound, TCursor
  <2> QED BY <1>4, <1>7, <2>3, <2>4 DEF TNotified, TO!ToldSound
<1>8. CASE state = "FULLSCREEN"
  <2>1. r = TO!DisableActive(w)
    BY <1>1, <1>8 DEF TO!NotifyStateChange
  <2>2. TDisabled(w, r)
    BY <1>6, <2>1, TDisable
  <2>3. r.told = n /\ TModes(u, r) /\ r.state = state /\ r.toolbar = u.toolbar /\ TO!CursorSound(r) /\ r.prev # "null"
    BY <1>5, <2>2 DEF TDisabled, TSame, TModes
  <2> QED BY <1>4, <2>3 DEF TNotified, TO!ToldSound
<1>9. CASE state = "CHANGING"
  <2>1. r = w
    BY <1>1, <1>9 DEF TO!NotifyStateChange
  <2>2. TO!ToldSound(r)
    BY <1>4, <1>5, <1>9, <2>1 DEF TO!ToldSound, TCursor
  <2> QED BY <1>4, <1>5, <1>6, <2>1, <2>2 DEF TNotified
<1> QED BY <1>7, <1>8, <1>9 DEF TO!PresentationState

TModeSet(u, r) ==
  /\ TCursor(u, r) /\ r.told = u.told /\ r.state = u.state /\ r.args = u.args /\ r.todo = u.todo
  /\ TO!ModeSound(r)

(* The updater of the annotation editor mode asks for the pages, or waits for them. *)
LEMMA TUpdater ==
  ASSUME NEW u, DOMAIN u = DOMAIN TO!Start, u.updates \in [TO!Mode -> Nat], NEW mode \in TO!Mode,
         u.editing = (mode # "NONE"),
         NEW r, r = TO!Updater(u, mode)
  PROVE  TModeSet(u, r)
<1>1. DOMAIN u = DOMAIN TO!Start /\ u.updates \in [TO!Mode -> Nat]
  OBVIOUS
<1>2. PICK n : n = [u.updates EXCEPT ![mode] = @ + 1]
  OBVIOUS
<1>a. n \in [TO!Mode -> Nat] /\ n[mode] > 0
  BY <1>1, <1>2
<1>3. r = [[u EXCEPT !.wait = "NONE", !.ids = {}, !.timer = "NONE"] EXCEPT !.mode = mode, !.updates[mode] = @ + 1]
  BY DEF TO!Updater, TO!CleanupSwitch
<1>4. /\ TCursor(u, r) /\ r.told = u.told /\ r.state = u.state /\ r.args = u.args /\ r.todo = u.todo
      /\ r.mode = mode /\ r.wait = "NONE" /\ r.timer = "NONE" /\ r.editing = u.editing /\ r.layer = u.layer
  BY <1>1, <1>3 DEF TCursor, TO!Start
<1>5. r.updates = n
  BY <1>1, <1>2, <1>3 DEF TO!Start
<1>6. "NONE" \in TO!Mode
  BY DEF TO!Mode
<1>7. TO!ModeSound(r)
  BY <1>a, <1>4, <1>5, <1>6 DEF TO!ModeSound
<1> QED BY <1>4, <1>7 DEF TModeSet

(* The setter of annotationEditorMode. *)
LEMMA TSetMode ==
  ASSUME NEW u, DOMAIN u = DOMAIN TO!Start, TO!ModeSound(u), NEW mode \in TO!Mode, NEW r, r = TO!SetMode(u, mode)
  PROVE  TModeSet(u, r)
<1>1. u.updates \in [TO!Mode -> Nat] /\ u.mode \in TO!Mode
  BY DEF TO!ModeSound
<1>2. CASE mode = u.mode
  BY <1>2 DEF TO!SetMode, TModeSet, TCursor
<1>3. CASE mode # u.mode /\ "NONE" \notin {mode, u.mode}
  <2>1. r = TO!Updater(u, mode)
    BY <1>3 DEF TO!SetMode
  <2>2. u.editing = (mode # "NONE")
    BY <1>3 DEF TO!ModeSound
  <2> QED BY <1>1, <2>1, <2>2, TUpdater
<1>4. CASE mode # u.mode /\ "NONE" \in {mode, u.mode}
  <2>1. PICK w : w = [u EXCEPT !.editing = mode # "NONE"]
    OBVIOUS
  <2>2. /\ TCursor(u, w) /\ w.told = u.told /\ w.state = u.state /\ w.args = u.args /\ w.todo = u.todo
        /\ w.mode = u.mode /\ w.updates = u.updates /\ w.layer = u.layer /\ w.toolbar = u.toolbar
        /\ w.editing = (mode # "NONE")
    BY <2>1 DEF TCursor, TO!Start
  <2>3. CASE mode = "NONE" \/ TO!PagesToRefresh = {}
    <3>1. r = TO!Updater(w, mode)
      BY <1>4, <2>1, <2>3 DEF TO!SetMode
    <3>2. TModeSet(w, r)
      BY <1>1, <2>2, <3>1, TUpdater DEF TCursor
    <3> QED BY <2>2, <3>2 DEF TModeSet, TCursor
  <2>4. CASE ~(mode = "NONE" \/ TO!PagesToRefresh = {})
    <3>1. r = [[w EXCEPT !.wait = "NONE", !.ids = {}, !.timer = "NONE"] EXCEPT !.wait = mode, !.ids = TO!PagesToRefresh]
      BY <1>4, <2>1, <2>4 DEF TO!SetMode, TO!CleanupSwitch
    <3>2. DOMAIN w = DOMAIN TO!Start
      BY <2>2 DEF TCursor
    <3>3. /\ TCursor(w, r) /\ r.told = w.told /\ r.state = w.state /\ r.args = w.args /\ r.todo = w.todo
          /\ r.mode = w.mode /\ r.updates = w.updates /\ r.layer = w.layer /\ r.toolbar = w.toolbar
          /\ r.editing = w.editing /\ r.wait = mode /\ r.timer = "NONE"
      BY <3>1, <3>2 DEF TCursor, TO!Start
    <3>4. u.mode = "NONE" /\ mode # "NONE"
      BY <1>4, <2>4
    <3>5. TO!ModeSound(r)
      BY <2>2, <3>3, <3>4 DEF TO!ModeSound
    <3> QED BY <2>2, <3>3, <3>5 DEF TModeSet, TCursor
  <2> QED BY <2>3, <2>4
<1> QED BY <1>2, <1>3, <1>4

(* A change outside of what the invariant speaks of. *)
TNothing(u, r) ==
  /\ TCursor(u, r) /\ r.told = u.told /\ r.state = u.state /\ r.args = u.args /\ r.todo = u.todo
  /\ r.mode = u.mode /\ r.updates = u.updates /\ r.layer = u.layer /\ r.toolbar = u.toolbar
  /\ r.editing = u.editing /\ r.wait = u.wait /\ r.timer = u.timer

(* What no part of the invariant notices. *)
LEMMA TOther ==
  ASSUME NEW u, NEW r, TO!Sound(u), TNothing(u, r)
  PROVE  TO!Sound(r)
<1>1. TO!CursorSound(r)
  BY TCursorKept DEF TNothing, TO!Sound
<1> QED BY <1>1 DEF TO!Sound, TNothing, TCursor, TO!ToldSound, TO!ModeSound, TO!PresentSound

(* Counting the requests of the user changes nothing else. *)
LEMMA TActed ==
  ASSUME TO!Sound(st) PROVE TNothing(st, TO!Acted) /\ TO!Sound(TO!Acted)
<1>1. TNothing(st, TO!Acted)
  BY DEF TNothing, TCursor, TO!Acted, TO!Sound, TO!CursorSound, TO!Start
<1> QED BY <1>1, TOther

(* ChooseTool keeps the invariant. *)
LEMMA TChooseTool ==
  ASSUME TO!Sound(st), NEW tool \in TO!Tool, TO!ChooseTool(tool) PROVE TO!Sound(st')
<1>1. CASE st.prev # "null"
  BY <1>1, TActed DEF TO!ChooseTool
<1>2. CASE st.prev = "null"
  <2>1. PICK a : a = TO!Acted
    OBVIOUS
  <2>2. TNothing(st, a) /\ TO!Sound(a)
    BY <2>1, TActed
  <2>3. PICK w : w = TO!SwitchTool(a, tool, FALSE)
    OBVIOUS
  <2>4. st' = [w EXCEPT !.chosen = tool] /\ tool # st.active
    BY <1>2, <2>1, <2>3 DEF TO!ChooseTool
  <2>5. TPan(a) /\ tool # a.active /\ a.prev = "null"
    BY <1>2, <2>2, <2>4 DEF TNothing, TCursor, TO!Sound, TO!CursorSound, TPan
  <2>6. TSwitched(a, tool, FALSE, w)
    BY <2>3, <2>5, TSwitch
  <2>7. DOMAIN w = DOMAIN TO!Start
    BY <2>6 DEF TSwitched, TSame
  <2>8. /\ DOMAIN st' = DOMAIN TO!Start /\ st'.active = w.active /\ st'.prev = w.prev /\ st'.chosen = tool
        /\ st'.buttons = w.buttons
        /\ st'.grab = w.grab /\ st'.panning = w.panning /\ st'.listeners = w.listeners /\ st'.overlay = w.overlay
        /\ st'.mouse = w.mouse /\ st'.told = w.told /\ st'.state = w.state /\ st'.args = w.args /\ st'.todo = w.todo
        /\ st'.mode = w.mode /\ st'.updates = w.updates /\ st'.layer = w.layer /\ st'.toolbar = w.toolbar
        /\ st'.editing = w.editing /\ st'.wait = w.wait /\ st'.timer = w.timer
    BY <2>4, <2>7 DEF TO!Start
  <2>9. w.active = tool /\ w.prev = "null" /\ w.buttons = [tool |-> tool, disabled |-> FALSE] /\ TPan(w) /\ TSame(a, w)
    BY <2>5, <2>6 DEF TSwitched
  <2>10. TO!CursorSound(st')
    BY <2>8, <2>9 DEF TO!CursorSound, TPan
  <2>11. TO!ToldSound(st') /\ TO!ModeSound(st') /\ TO!PresentSound(st')
    BY <2>2, <2>5, <2>8, <2>9 DEF TSame, TO!Sound, TO!ToldSound, TO!ModeSound, TO!PresentSound
  <2> QED BY <2>10, <2>11 DEF TO!Sound
<1> QED BY <1>1, <1>2

(* The invariant after the setter. *)
LEMMA TModeSetSound ==
  ASSUME NEW u, TO!CursorSound(u), TO!ToldSound(u), TO!PresentSound(u), NEW r, TModeSet(u, r) PROVE TO!Sound(r)
<1>1. TO!CursorSound(r)
  BY TCursorKept DEF TModeSet
<1> QED BY <1>1 DEF TO!Sound, TModeSet, TCursor, TO!ToldSound, TO!PresentSound

(* ClickEditor keeps the invariant. *)
LEMMA TClickEditor ==
  ASSUME TO!Sound(st), NEW m \in TO!Mode, TO!ClickEditor(m) PROVE TO!Sound(st')
<1>1. PICK a : a = TO!Acted
  OBVIOUS
<1>2. TO!Sound(a)
  BY <1>1, TActed
<1>3. PICK k \in TO!Mode : st' = TO!SetMode(a, k)
  BY <1>1 DEF TO!ClickEditor, TO!Mode
<1>4. TModeSet(a, st')
  BY <1>2, <1>3, TSetMode DEF TO!Sound, TO!CursorSound
<1> QED BY <1>2, <1>4, TModeSetSound DEF TO!Sound

(* PageRendered keeps the invariant. *)
LEMMA TPageRendered ==
  ASSUME TO!Sound(st), NEW p, TO!PageRendered(p) PROVE TO!Sound(st')
<1>1. PICK t : t = IF st.ids = {p} THEN st.wait ELSE st.timer
  OBVIOUS
<1>2. PICK i : i = st.ids \ {p}
  OBVIOUS
<1>3. st' = [st EXCEPT !.ids = i, !.timer = t] /\ st.wait # "NONE"
  BY <1>1, <1>2 DEF TO!PageRendered
<1>4. TModeSet(st, st')
  BY <1>1, <1>3 DEF TModeSet, TCursor, TO!Sound, TO!CursorSound, TO!ModeSound, TO!Start
<1> QED BY <1>4, TModeSetSound DEF TO!Sound

(* UpdaterTimer keeps the invariant. *)
LEMMA TUpdaterTimer ==
  ASSUME TO!Sound(st), TO!UpdaterTimer PROVE TO!Sound(st')
<1>1. st.timer # "NONE" /\ st' = TO!Updater(st, st.timer)
  BY DEF TO!UpdaterTimer
<1>2. st.timer \in TO!Mode /\ st.editing = (st.timer # "NONE") /\ DOMAIN st = DOMAIN TO!Start /\ st.updates \in [TO!Mode -> Nat]
  BY <1>1 DEF TO!Sound, TO!ModeSound, TO!CursorSound
<1>3. TModeSet(st, st')
  BY <1>1, <1>2, TUpdater
<1> QED BY <1>3, TModeSetSound DEF TO!Sound

(* Updated keeps the invariant. *)
LEMMA TUpdated ==
  ASSUME TO!Sound(st), NEW m \in TO!Mode, TO!Updated(m) PROVE TO!Sound(st')
<1>1. PICK u : u = [st EXCEPT !.updates[m] = @ - 1]
  OBVIOUS
<1>2. st.updates[m] > 0 /\ st' = IF m = st.mode THEN TO!ModeChanged(u, m) ELSE u
  BY <1>1 DEF TO!Updated
<1>3. DOMAIN st = DOMAIN TO!Start /\ st.updates \in [TO!Mode -> Nat] /\ st.mode \in TO!Mode
  BY DEF TO!Sound, TO!CursorSound, TO!ModeSound
<1>4. PICK k : k = [st.updates EXCEPT ![m] = @ - 1]
  OBVIOUS
<1>5. k \in [TO!Mode -> Nat] /\ \A j \in TO!Mode : j # m => k[j] = st.updates[j]
  BY <1>2, <1>3, <1>4
<1>6. /\ TCursor(st, u) /\ u.told = st.told /\ u.state = st.state /\ u.args = st.args /\ u.todo = st.todo
      /\ u.mode = st.mode /\ u.layer = st.layer /\ u.toolbar = st.toolbar
      /\ u.editing = st.editing /\ u.wait = st.wait /\ u.timer = st.timer
  BY <1>1, <1>3 DEF TCursor, TO!Start
<1>7. u.updates = k
  BY <1>1, <1>3, <1>4 DEF TO!Start
<1>8. TO!CursorSound(u) /\ TO!ToldSound(u) /\ TO!PresentSound(u)
  <2>1. TO!CursorSound(u)
    BY <1>6, TCursorKept DEF TO!Sound
  <2> QED BY <1>6, <2>1 DEF TCursor, TO!Sound, TO!ToldSound, TO!PresentSound
<1>9. CASE m = st.mode
  <2>1. TModeTold(u, m, st')
    BY <1>2, <1>8, <1>9, TModeChanged
  <2>2. TO!ModeSound(st')
    BY <1>5, <1>6, <1>7, <1>9, <2>1 DEF TModeTold, TModes, TO!ModeSound, TO!Sound
  <2>3. TO!PresentSound(st')
    BY <1>8, <2>1 DEF TModeTold, TModes, TO!PresentSound
  <2> QED BY <2>1, <2>2, <2>3 DEF TModeTold, TO!Sound
<1>10. CASE m # st.mode
  <2>1. TO!ModeSound(u)
    BY <1>3, <1>5, <1>6, <1>7, <1>10 DEF TO!ModeSound, TO!Sound
  <2> QED BY <1>2, <1>8, <1>10, <2>1 DEF TO!Sound
<1> QED BY <1>9, <1>10

(* LayerRendered keeps the invariant. *)
LEMMA TLayerRendered ==
  ASSUME TO!Sound(st), TO!LayerRendered PROVE TO!Sound(st')
<1>1. PICK u : u = [st EXCEPT !.layer = TRUE]
  OBVIOUS
<1>2. st' = TO!ModeChanged(u, st.mode)
  BY <1>1 DEF TO!LayerRendered
<1>3. DOMAIN st = DOMAIN TO!Start /\ st.mode \in TO!Mode
  BY DEF TO!Sound, TO!CursorSound, TO!ModeSound
<1>4. /\ TCursor(st, u) /\ u.told = st.told /\ u.state = st.state /\ u.args = st.args /\ u.todo = st.todo
      /\ u.mode = st.mode /\ u.toolbar = st.toolbar /\ u.updates = st.updates
      /\ u.editing = st.editing /\ u.wait = st.wait /\ u.timer = st.timer
  BY <1>1, <1>3 DEF TCursor, TO!Start
<1>5. TO!CursorSound(u) /\ TO!ToldSound(u) /\ TO!PresentSound(u)
  <2>1. TO!CursorSound(u)
    BY <1>4, TCursorKept DEF TO!Sound
  <2> QED BY <1>4, <2>1 DEF TCursor, TO!Sound, TO!ToldSound, TO!PresentSound
<1>6. TModeTold(u, st.mode, st')
  BY <1>2, <1>3, <1>5, TModeChanged
<1>7. TO!ModeSound(st')
  BY <1>4, <1>6 DEF TModeTold, TModes, TO!ModeSound, TO!Sound
<1>8. TO!PresentSound(st')
  BY <1>5, <1>6 DEF TModeTold, TModes, TO!PresentSound
<1> QED BY <1>6, <1>7, <1>8 DEF TModeTold, TO!Sound

(* Reopen keeps the invariant. *)
LEMMA TReopen ==
  ASSUME TO!Sound(st), TO!Reopen PROVE TO!Sound(st')
<1>1. PICK z : z = [m \in TO!Mode |-> 0]
  OBVIOUS
<1>2. PICK u : u = [[[st EXCEPT !.wait = "NONE", !.ids = {}, !.timer = "NONE"] EXCEPT !.doc = @ + 1, !.mode = "NONE",
                     !.editing = FALSE, !.updates = z, !.layer = FALSE] EXCEPT !.toolbar = "DISABLE"]
  OBVIOUS
<1>3. st' = TO!ResetTool(u)
  BY <1>1, <1>2 DEF TO!Reopen, TO!CleanupSwitch, TO!EditorModeChanged
<1>4. DOMAIN st = DOMAIN TO!Start
  BY DEF TO!Sound, TO!CursorSound
<1>5. /\ TCursor(st, u) /\ u.told = st.told /\ u.state = st.state /\ u.args = st.args /\ u.todo = st.todo
      /\ u.mode = "NONE" /\ u.updates = z /\ u.editing = FALSE /\ u.wait = "NONE" /\ u.timer = "NONE" /\ u.layer = FALSE
  BY <1>2, <1>4 DEF TCursor, TO!Start
<1>6. TO!CursorSound(u) /\ TO!ToldSound(u) /\ TO!PresentSound(u)
  <2>1. TO!CursorSound(u)
    BY <1>5, TCursorKept DEF TO!Sound
  <2> QED BY <1>5, <2>1 DEF TCursor, TO!Sound, TO!ToldSound, TO!PresentSound
<1>7. TO!ModeSound(u)
  <2>1. z \in [TO!Mode -> Nat] /\ "NONE" \in TO!Mode
    BY <1>1 DEF TO!Mode
  <2> QED BY <1>5, <2>1 DEF TO!ModeSound
<1>8. CASE u.prev = "null"
  BY <1>3, <1>6, <1>7, <1>8 DEF TO!ResetTool, TO!Sound
<1>9. CASE u.prev # "null"
  <2>1. PICK w : w = [u EXCEPT !.told = [mode |-> "NONE", state |-> "NORMAL"]]
    OBVIOUS
  <2>2. st' = TO!EnableActive(w)
    BY <1>3, <1>9, <2>1 DEF TO!ResetTool
  <2>3. DOMAIN u = DOMAIN TO!Start
    BY <1>6 DEF TO!CursorSound
  <2>4. TCursor(u, w) /\ TModes(u, w) /\ w.state = u.state /\ w.told = [mode |-> "NONE", state |-> "NORMAL"]
    BY <2>1, <2>3 DEF TCursor, TModes, TO!Start
  <2>5. TO!CursorSound(w)
    BY <1>6, <2>4, TCursorKept
  <2>6. TEnabled(w, st')
    BY <2>2, <2>5, TEnable
  <2>7. TO!ToldSound(st')
    BY <2>4, <2>6 DEF TEnabled, TSame, TO!ToldSound
  <2>8. TO!ModeSound(st')
    BY <1>1, <1>5, <1>7, <2>4, <2>6 DEF TEnabled, TSame, TModes, TO!ModeSound
  <2>9. TO!PresentSound(st')
    BY <1>6, <2>4, <2>6 DEF TEnabled, TSame, TModes, TO!PresentSound
  <2> QED BY <2>6, <2>7, <2>8, <2>9 DEF TEnabled, TO!Sound
<1> QED BY <1>8, <1>9

(* Telling the presentation mode leaves the editing modes alone. *)
LEMMA TNotifiedModes ==
  ASSUME NEW u, TO!ModeSound(u), NEW state, NEW r, TNotified(u, state, r) PROVE TO!ModeSound(r)
BY DEF TNotified, TModes, TO!ModeSound

(* Request keeps the invariant. *)
LEMMA TRequest ==
  ASSUME TO!Sound(st), TO!Request PROVE TO!Sound(st')
<1>1. PICK a : a = TO!Acted
  OBVIOUS
<1>2. TNothing(st, a) /\ TO!Sound(a)
  BY <1>1, TActed
<1>3. PICK u : u = [a EXCEPT !.args = st.mode]
  OBVIOUS
<1>4. st' = TO!NotifyStateChange(u, "CHANGING") /\ st.todo = "null"
  BY <1>1, <1>3 DEF TO!Request
<1>5. DOMAIN a = DOMAIN TO!Start
  BY <1>2 DEF TNothing, TCursor
<1>6. /\ TCursor(a, u) /\ u.told = a.told /\ u.state = a.state /\ u.args = st.mode /\ u.todo = a.todo
      /\ u.mode = a.mode /\ u.toolbar = a.toolbar /\ u.updates = a.updates /\ u.layer = a.layer
      /\ u.editing = a.editing /\ u.wait = a.wait /\ u.timer = a.timer
  BY <1>3, <1>5 DEF TCursor, TO!Start
<1>7. TO!CursorSound(u)
  BY <1>2, <1>6, TCursorKept DEF TO!Sound
<1>8. TO!ToldSound(u) /\ TO!ModeSound(u)
  BY <1>2, <1>6 DEF TCursor, TO!Sound, TO!ToldSound, TO!ModeSound
<1>9. TNotified(u, "CHANGING", st')
  BY <1>4, <1>7, <1>8, TNotify DEF TO!PresentationState
<1>10. TO!PresentSound(st')
  BY <1>2, <1>4, <1>6, <1>9 DEF TNotified, TModes, TNothing, TO!PresentSound, TO!PresentationState, TO!ModeSound, TO!Sound
<1>11. TO!ModeSound(st')
  BY <1>8, <1>9, TNotifiedModes
<1> QED BY <1>9, <1>10, <1>11 DEF TNotified, TO!Sound

(* Refused keeps the invariant. *)
LEMMA TRefused ==
  ASSUME TO!Sound(st), TO!Refused PROVE TO!Sound(st')
<1>1. st.state = "CHANGING" /\ st' = TO!NotifyStateChange(st, "NORMAL")
  BY DEF TO!Refused
<1>2. TNotified(st, "NORMAL", st')
  BY <1>1, TNotify DEF TO!Sound, TO!PresentationState
<1>3. TO!PresentSound(st')
  BY <1>1, <1>2 DEF TNotified, TModes, TO!PresentSound, TO!PresentationState, TO!Sound
<1>4. TO!ModeSound(st')
  BY <1>2, TNotifiedModes DEF TO!Sound
<1> QED BY <1>2, <1>3, <1>4 DEF TNotified, TO!Sound

(* Enter keeps the invariant. *)
LEMMA TEnter ==
  ASSUME TO!Sound(st), TO!Enter PROVE TO!Sound(st')
<1>1. PICK w : w = TO!NotifyStateChange(st, "FULLSCREEN")
  OBVIOUS
<1>2. st.state = "CHANGING" /\ st' = [w EXCEPT !.todo = "enter"]
  BY <1>1 DEF TO!Enter
<1>3. TNotified(st, "FULLSCREEN", w)
  BY <1>1, TNotify DEF TO!Sound, TO!PresentationState
<1>4. DOMAIN w = DOMAIN TO!Start
  BY <1>3 DEF TNotified, TO!CursorSound
<1>5. /\ TCursor(w, st') /\ st'.told = w.told /\ st'.state = w.state /\ st'.args = w.args
      /\ st'.mode = w.mode /\ st'.toolbar = w.toolbar /\ st'.updates = w.updates /\ st'.layer = w.layer
      /\ st'.editing = w.editing /\ st'.wait = w.wait /\ st'.timer = w.timer
  BY <1>2, <1>4 DEF TCursor, TO!Start
<1>6. TO!CursorSound(st')
  BY <1>3, <1>5, TCursorKept DEF TNotified
<1>7. TO!ModeSound(w)
  BY <1>3, TNotifiedModes DEF TO!Sound
<1>8. TO!ToldSound(st') /\ TO!ModeSound(st')
  BY <1>3, <1>5, <1>7 DEF TNotified, TCursor, TO!ToldSound, TO!ModeSound
<1>9. TO!PresentSound(st')
  BY <1>2, <1>3, <1>5 DEF TNotified, TModes, TO!PresentSound, TO!PresentationState, TO!Sound
<1> QED BY <1>6, <1>8, <1>9 DEF TO!Sound

(* Entered keeps the invariant. *)
LEMMA TEntered ==
  ASSUME TO!Sound(st), TO!Entered PROVE TO!Sound(st')
<1>1. PICK u : u = [st EXCEPT !.todo = "null"]
  OBVIOUS
<1>2. st' = TO!SetMode(u, "NONE") /\ "NONE" \in TO!Mode
  BY <1>1 DEF TO!Entered, TO!Mode
<1>3. DOMAIN st = DOMAIN TO!Start
  BY DEF TO!Sound, TO!CursorSound
<1>4. /\ TCursor(st, u) /\ u.told = st.told /\ u.state = st.state /\ u.args = st.args /\ u.todo = "null"
      /\ u.mode = st.mode /\ u.toolbar = st.toolbar /\ u.updates = st.updates /\ u.layer = st.layer
      /\ u.editing = st.editing /\ u.wait = st.wait /\ u.timer = st.timer
  BY <1>1, <1>3 DEF TCursor, TO!Start
<1>5. TO!CursorSound(u)
  BY <1>4, TCursorKept DEF TO!Sound
<1>6. TO!ToldSound(u) /\ TO!ModeSound(u) /\ TO!PresentSound(u)
  BY <1>4 DEF TCursor, TO!Sound, TO!ToldSound, TO!ModeSound, TO!PresentSound
<1>7. TModeSet(u, st')
  BY <1>2, <1>5, <1>6, TSetMode DEF TO!CursorSound
<1> QED BY <1>5, <1>6, <1>7, TModeSetSound

(* Exit keeps the invariant. *)
LEMMA TExit ==
  ASSUME TO!Sound(st), TO!Exit PROVE TO!Sound(st')
<1>1. st.state = "FULLSCREEN" /\ st' = [st EXCEPT !.todo = "exit"]
  BY DEF TO!Exit
<1>2. DOMAIN st = DOMAIN TO!Start
  BY DEF TO!Sound, TO!CursorSound
<1>3. /\ TCursor(st, st') /\ st'.told = st.told /\ st'.state = st.state /\ st'.args = st.args
      /\ st'.mode = st.mode /\ st'.toolbar = st.toolbar /\ st'.updates = st.updates /\ st'.layer = st.layer
      /\ st'.editing = st.editing /\ st'.wait = st.wait /\ st'.timer = st.timer
  BY <1>1, <1>2 DEF TCursor, TO!Start
<1>4. TO!CursorSound(st')
  BY <1>3, TCursorKept DEF TO!Sound
<1> QED BY <1>1, <1>3, <1>4 DEF TCursor, TO!Sound, TO!ToldSound, TO!ModeSound, TO!PresentSound

(* Exited keeps the invariant. *)
LEMMA TExited ==
  ASSUME TO!Sound(st), TO!Exited PROVE TO!Sound(st')
<1>1. PICK u : u = [st EXCEPT !.todo = "null"]
  OBVIOUS
<1>2. PICK w : w = TO!NotifyStateChange(u, "NORMAL")
  OBVIOUS
<1>3. PICK v : v = TO!SetMode(w, st.args)
  OBVIOUS
<1>4. st.todo = "exit" /\ st' = [v EXCEPT !.args = "null"]
  BY <1>1, <1>2, <1>3 DEF TO!Exited
<1>5. DOMAIN st = DOMAIN TO!Start /\ st.args \in TO!Mode
  BY <1>4 DEF TO!Sound, TO!CursorSound, TO!PresentSound
<1>6. /\ TCursor(st, u) /\ u.told = st.told /\ u.state = st.state /\ u.args = st.args /\ u.todo = "null"
      /\ u.mode = st.mode /\ u.toolbar = st.toolbar /\ u.updates = st.updates /\ u.layer = st.layer
      /\ u.editing = st.editing /\ u.wait = st.wait /\ u.timer = st.timer
  BY <1>1, <1>5 DEF TCursor, TO!Start
<1>7. TO!CursorSound(u)
  BY <1>6, TCursorKept DEF TO!Sound
<1>8. TO!ToldSound(u) /\ TO!ModeSound(u)
  BY <1>6 DEF TCursor, TO!Sound, TO!ToldSound, TO!ModeSound
<1>9. TNotified(u, "NORMAL", w)
  BY <1>2, <1>7, <1>8, TNotify DEF TO!PresentationState
<1>10. TO!ModeSound(w) /\ DOMAIN w = DOMAIN TO!Start
  BY <1>8, <1>9, TNotifiedModes DEF TNotified, TO!CursorSound
<1>11. TModeSet(w, v)
  BY <1>3, <1>5, <1>10, TSetMode
<1>12. DOMAIN v = DOMAIN TO!Start
  BY <1>11 DEF TModeSet, TCursor
<1>13. /\ TCursor(v, st') /\ st'.told = v.told /\ st'.state = v.state /\ st'.todo = v.todo
       /\ st'.mode = v.mode /\ st'.toolbar = v.toolbar /\ st'.updates = v.updates /\ st'.layer = v.layer
       /\ st'.editing = v.editing /\ st'.wait = v.wait /\ st'.timer = v.timer
  BY <1>4, <1>12 DEF TCursor, TO!Start
<1>14. TO!CursorSound(v)
  BY <1>9, <1>11, TCursorKept DEF TNotified, TModeSet
<1>15. TO!CursorSound(st')
  BY <1>13, <1>14, TCursorKept
<1>16. TO!ToldSound(st') /\ TO!ModeSound(st')
  BY <1>9, <1>11, <1>13 DEF TNotified, TModeSet, TCursor, TO!ToldSound, TO!ModeSound
<1>17. TO!PresentSound(st')
  BY <1>6, <1>9, <1>11, <1>13 DEF TNotified, TModes, TModeSet, TO!PresentSound, TO!PresentationState
<1> QED BY <1>15, <1>16, <1>17 DEF TO!Sound

(* What the mouse changes. *)
TMoused(u, r) ==
  /\ DOMAIN r = DOMAIN TO!Start /\ r.active = u.active /\ r.prev = u.prev /\ r.chosen = u.chosen /\ r.buttons = u.buttons
  /\ r.grab = u.grab /\ r.told = u.told /\ r.state = u.state /\ r.args = u.args /\ r.todo = u.todo
  /\ r.mode = u.mode /\ r.updates = u.updates /\ r.layer = u.layer /\ r.toolbar = u.toolbar
  /\ r.editing = u.editing /\ r.wait = u.wait /\ r.timer = u.timer
  /\ r.panning \in BOOLEAN /\ (r.listeners = IF r.panning THEN 1 ELSE 0)
  /\ (r.panning => r.grab /\ r.mouse # "up") /\ (r.overlay => r.panning)

(* The mouse moves or drags: the invariant is about the hand only. *)
LEMMA TMouse ==
  ASSUME NEW u, TO!Sound(u), NEW r, TMoused(u, r) PROVE TO!Sound(r)
BY DEF TO!Sound, TMoused, TO!CursorSound, TO!ToldSound, TO!ModeSound, TO!PresentSound

(* The end of a drag is a step of the mouse. *)
LEMMA TEndedMouse ==
  ASSUME NEW u, TPan(u), NEW e, TEnded(u, e), NEW m, NEW r, r = [e EXCEPT !.mouse = m] PROVE TMoused(u, r) /\ TMoused(u, e)
BY DEF TEnded, TSame, TMoused, TO!Start

(* The steps of the mouse keep the invariant. *)
LEMMA TMouseSteps ==
  ASSUME TO!Sound(st), TO!MouseDown \/ TO!MouseMove \/ TO!MouseUp \/ TO!MouseLost \/ TO!Scroll \/ TO!Rest
  PROVE  TO!Sound(st')
<1>1. TPan(st) /\ DOMAIN st = DOMAIN TO!Start
  BY DEF TO!Sound, TO!CursorSound, TPan
<1>2. PICK e : e = TO!EndPan(st)
  OBVIOUS
<1>3. TEnded(st, e)
  BY <1>1, <1>2, TEndPan
<1>4. CASE TO!MouseDown
  <2>1. TMoused(st, st')
    BY <1>1, <1>4 DEF TO!MouseDown, TPan, TMoused, TO!Start
  <2> QED BY <2>1, TMouse
<1>5. CASE TO!MouseMove
  <2>1. PICK u : u = [st EXCEPT !.scrollAC = FALSE, !.mouse = IF @ = "lost" THEN "up" ELSE @]
    OBVIOUS
  <2>2. st' = IF st.listeners = 0 THEN u ELSE IF st.mouse # "down" THEN TO!EndPan(u) ELSE [u EXCEPT !.overlay = TRUE]
    BY <1>5, <2>1 DEF TO!MouseMove
  <2>3. CASE st.listeners = 0
    <3>1. TMoused(st, st')
      BY <1>1, <2>1, <2>2, <2>3 DEF TPan, TMoused, TO!Start
    <3> QED BY <3>1, TMouse
  <2>4. CASE st.listeners # 0 /\ st.mouse # "down"
    <3>1. st' = TO!EndPan(u)
      BY <2>2, <2>4
    <3>2. TMoused(st, st')
      BY <1>1, <2>1, <2>4, <3>1 DEF TO!EndPan, TPan, TMoused, TO!Start
    <3> QED BY <3>2, TMouse
  <2>5. CASE st.listeners # 0 /\ st.mouse = "down"
    <3>1. st' = [u EXCEPT !.overlay = TRUE]
      BY <2>2, <2>5
    <3>2. TMoused(st, st')
      BY <1>1, <2>1, <2>5, <3>1 DEF TPan, TMoused, TO!Start
    <3> QED BY <3>2, TMouse
  <2> QED BY <2>3, <2>4, <2>5
<1>6. CASE TO!MouseUp
  <2>1. CASE st.listeners > 0
    <3>1. st' = [e EXCEPT !.mouse = "up"]
      BY <1>2, <1>6, <2>1 DEF TO!MouseUp
    <3>2. TMoused(st, st')
      BY <1>1, <1>3, <3>1, TEndedMouse
    <3> QED BY <3>2, TMouse
  <2>2. CASE ~(st.listeners > 0)
    <3>1. TMoused(st, st')
      BY <1>1, <1>6, <2>2 DEF TO!MouseUp, TPan, TMoused, TO!Start
    <3> QED BY <3>1, TMouse
  <2> QED BY <2>1, <2>2
<1>7. CASE TO!MouseLost
  <2>1. TMoused(st, st')
    BY <1>1, <1>7 DEF TO!MouseLost, TPan, TMoused, TO!Start
  <2> QED BY <2>1, TMouse
<1>8. CASE TO!Scroll
  <2>1. st' = e
    BY <1>2, <1>8 DEF TO!Scroll
  <2>2. TMoused(st, st')
    BY <1>1, <1>3, <2>1, TEndedMouse
  <2> QED BY <2>2, TMouse
<1>9. CASE TO!Rest
  <2>1. TNothing(st, st')
    BY <1>1, <1>9 DEF TO!Rest, TNothing, TCursor, TO!Start
  <2> QED BY <2>1, TOther
<1> QED BY <1>4, <1>5, <1>6, <1>7, <1>8, <1>9

(* Every step of the tools keeps the invariant. *)
LEMMA TStep == TO!IInv /\ TO!Next => TO!IInv'
<1> SUFFICES ASSUME TO!Sound(st), TO!Next PROVE TO!Sound(st')
  BY DEF TO!IInv
<1>1. ASSUME NEW m \in TO!Mode \ {"NONE"}, TO!ClickEditor(m) PROVE TO!Sound(st')
  BY <1>1, TClickEditor
<1> QED BY <1>1, TChooseTool, TUpdated, TPageRendered, TUpdaterTimer, TLayerRendered, TReopen, TRequest, TRefused,
           TEnter, TEntered, TExit, TExited, TMouseSteps DEF TO!Next

(* The tools begin with the invariant. *)
LEMMA TInit == TO!Init => TO!IInv
<1> SUFFICES ASSUME st = TO!Start PROVE TO!Sound(st)
  BY DEF TO!Init, TO!IInv
<1>1. TO!CursorSound(st)
  BY DEF TO!CursorSound, TO!Start, TO!Tool
<1>2. TO!ToldSound(st)
  BY DEF TO!ToldSound, TO!Start
<1>3. TO!PresentSound(st)
  BY DEF TO!PresentSound, TO!Start, TO!PresentationState
<1>4. st.updates = [m \in TO!Mode |-> 0] /\ st.mode = "NONE" /\ st.wait = "NONE" /\ st.editing = FALSE /\ st.timer = "NONE" /\ st.layer = FALSE
  BY DEF TO!Start
<1>5. st.updates \in [TO!Mode -> Nat] /\ "NONE" \in TO!Mode
  BY <1>4 DEF TO!Mode
<1> QED BY <1>1, <1>2, <1>3, <1>4, <1>5 DEF TO!ModeSound, TO!Sound

(* What the invariant says about tools, buttons and modes. *)
LEMMA TProps ==
  ASSUME TO!IInv
  PROVE  TO!ToolComesBack /\ TO!ButtonsShowTool /\ TO!HandOnlyWhenFree /\ TO!NoPanWithoutHand /\ TO!ModesAgree
<1>1. TO!ToolComesBack /\ TO!ButtonsShowTool
  BY DEF TO!IInv, TO!Sound, TO!CursorSound, TO!ToolComesBack, TO!ButtonsShowTool
<1>2. TO!HandOnlyWhenFree
  BY DEF TO!IInv, TO!Sound, TO!CursorSound, TO!ToldSound, TO!HandOnlyWhenFree
<1>3. TO!NoPanWithoutHand
  BY DEF TO!IInv, TO!Sound, TO!CursorSound, TO!NoPanWithoutHand
<1>4. TO!ModesAgree
  BY DEF TO!IInv, TO!Sound, TO!ModeSound, TO!ModesAgree, TO!Switching
<1> QED BY <1>1, <1>2, <1>3, <1>4

-----------------------------------------------------------------------------
(* PDFViewerApplication: documents that are opened over each other. *)

(* What the viewer does not touch when it gets a document. *)
DApplication(w, r) ==
  /\ DOMAIN r = DOMAIN DO!Start /\ r.opens = w.opens /\ r.opening = w.opening /\ r.closing = w.closing
  /\ r.pdfLoadingTask = w.pdfLoadingTask /\ r.destroyed = w.destroyed /\ r.left = w.left
  /\ r.history = w.history /\ r.initial = w.initial /\ r.info = w.info
  /\ r.modified = w.modified /\ r.saveInProgress = w.saveInProgress /\ r.failed = w.failed
(* What the application does not touch. *)
DViewer(w, r) ==
  /\ r.viewer = w.viewer /\ r.pages = w.pages /\ r.views = w.views /\ r.labels = w.labels
  /\ r.pagesCapability = w.pagesCapability /\ r.early = w.early /\ r.find = w.find
DAsked(w, d, what, r) ==
  /\ DApplication(w, r) /\ DViewer(w, r) /\ r.pdfDocument = w.pdfDocument /\ r.link = w.link
  /\ r.flight = IF d \in w.destroyed THEN w.flight ELSE w.flight \cup {<<d, a, 0>> : a \in what}

(* A worker that was destroyed is asked nothing. *)
LEMMA DAsk ==
  ASSUME NEW w, DOMAIN w = DOMAIN DO!Start, NEW d, NEW what, NEW r, r = DO!Ask(w, d, what) PROVE DAsked(w, d, what, r)
BY DEF DO!Ask, DAsked, DApplication, DViewer, DO!Start

(* A viewer without a document has no pages. *)
DBlank(w) == DOMAIN w.pages = DO!Page /\ (\A p \in DO!Page : w.pages[p] = 0) /\ ~w.views /\ w.labels = 0 /\ w.find = 0
DViewerSet(w, d, r) ==
  /\ DApplication(w, r) /\ r.pdfDocument = w.pdfDocument /\ r.link = w.link /\ r.viewer = d /\ DBlank(r)
  /\ w.viewer = 0 => r.pagesCapability = w.pagesCapability /\ r.early = w.early
  /\ w.viewer # 0 => r.pagesCapability = "pending" /\ r.early = FALSE
  /\ r.flight = IF d = 0 \/ d \in w.destroyed THEN w.flight ELSE w.flight \cup {<<d, "first", 0>>}

(* PDFViewer.setDocument: nothing of the earlier document stays. *)
LEMMA DViewerSetDocument ==
  ASSUME NEW w, DOMAIN w = DOMAIN DO!Start, w.viewer = 0 => DBlank(w), NEW d, NEW r, r = DO!ViewerSetDocument(w, d)
  PROVE  DViewerSet(w, d, r)
<1>1. PICK z : z = DO!NoPages
  OBVIOUS
<1>2. DOMAIN z = DO!Page /\ \A p \in DO!Page : z[p] = 0
  BY <1>1 DEF DO!NoPages
<1>3. PICK x : x = IF w.viewer = 0 THEN w ELSE [DO!ResetView(w) EXCEPT !.find = 0]
  OBVIOUS
<1>4. /\ DApplication(w, x) /\ x.pdfDocument = w.pdfDocument /\ x.link = w.link /\ DBlank(x) /\ x.flight = w.flight
      /\ w.viewer = 0 => x.pagesCapability = w.pagesCapability /\ x.early = w.early
      /\ w.viewer # 0 => x.pagesCapability = "pending" /\ x.early = FALSE
  <2>1. CASE w.viewer = 0
    BY <1>3, <2>1 DEF DApplication
  <2>2. CASE w.viewer # 0
    <3>1. x = [w EXCEPT !.pages = z, !.views = FALSE, !.labels = 0, !.pagesCapability = "pending", !.early = FALSE, !.find = 0]
      BY <1>1, <1>3, <2>2 DEF DO!ResetView
    <3>2. DApplication(w, x) /\ x.pdfDocument = w.pdfDocument /\ x.link = w.link /\ x.flight = w.flight
          /\ x.pages = z /\ x.views = FALSE /\ x.labels = 0 /\ x.find = 0 /\ x.pagesCapability = "pending" /\ x.early = FALSE
      BY <3>1 DEF DApplication, DO!Start
    <3> QED BY <1>2, <2>2, <3>2 DEF DBlank
  <2> QED BY <2>1, <2>2
<1>5. PICK y : y = [x EXCEPT !.viewer = d]
  OBVIOUS
<1>6. DOMAIN x = DOMAIN DO!Start
  BY <1>4 DEF DApplication
<1>7. /\ DApplication(x, y) /\ y.pdfDocument = x.pdfDocument /\ y.link = x.link /\ y.viewer = d /\ y.flight = x.flight
      /\ y.pages = x.pages /\ y.views = x.views /\ y.labels = x.labels /\ y.find = x.find
      /\ y.pagesCapability = x.pagesCapability /\ y.early = x.early
  BY <1>5, <1>6 DEF DApplication, DO!Start
<1>8. DApplication(w, y) /\ DBlank(y) /\ y.flight = w.flight /\ y.destroyed = w.destroyed /\ DOMAIN y = DOMAIN DO!Start
  BY <1>4, <1>7 DEF DApplication, DBlank
<1>9. r = IF d = 0 THEN y ELSE DO!Ask(y, d, {"first"})
  BY <1>3, <1>5 DEF DO!ViewerSetDocument
<1>10. CASE d = 0
  BY <1>4, <1>7, <1>8, <1>9, <1>10 DEF DViewerSet
<1>11. CASE d # 0
  <2>1. DAsked(y, d, {"first"}, r)
    BY <1>8, <1>9, <1>11, DAsk
  <2>2. {<<d, a, 0>> : a \in {"first"}} = {<<d, "first", 0>>}
    OBVIOUS
  <2>3. DApplication(w, r) /\ DBlank(r)
    BY <1>8, <2>1 DEF DAsked, DApplication, DViewer, DBlank
  <2>4. r.flight = IF d \in w.destroyed THEN w.flight ELSE w.flight \cup {<<d, "first", 0>>}
    BY <1>8, <2>1, <2>2 DEF DAsked
  <2> QED BY <1>4, <1>7, <1>11, <2>1, <2>3, <2>4 DEF DAsked, DViewer, DViewerSet
<1> QED BY <1>10, <1>11

-----------------------------------------------------------------------------
(* The counts of the pages under way stay true when these stay the same. *)
DCounted(w) == \A d \in DO!Doc \ w.destroyed : w.left[d] = DO!Cardinality(DO!Pending(w, d))
(* Pages that are still to come are counted. *)
LEMMA DStillCounted ==
  ASSUME NEW w, DCounted(w), NEW r, r.left = w.left, w.destroyed \subseteq r.destroyed, \A d : DO!Pending(r, d) = DO!Pending(w, d)
  PROVE  DCounted(r)
<1>1. ASSUME NEW d \in DO!Doc, d \notin r.destroyed PROVE r.left[d] = DO!Cardinality(DO!Pending(r, d))
  <2>1. DO!Pending(r, d) = DO!Pending(w, d) /\ d \in DO!Doc \ w.destroyed
    BY <1>1
  <2>2. w.left[d] = DO!Cardinality(DO!Pending(w, d))
    BY <2>1 DEF DCounted
  <2>3. DO!Cardinality(DO!Pending(r, d)) = DO!Cardinality(DO!Pending(w, d))
    BY <2>1, Zenon
  <2> QED BY <2>2, <2>3
<1> QED BY <1>1 DEF DCounted

(* What an answer that is not for pages leaves alone. *)
DSteady(w, r) ==
  /\ DOMAIN r = DOMAIN DO!Start /\ r.opens = w.opens /\ r.opening = w.opening /\ r.closing = w.closing
  /\ r.pdfLoadingTask = w.pdfLoadingTask /\ r.destroyed = w.destroyed /\ r.left = w.left /\ r.pages = w.pages
  /\ r.pdfDocument = w.pdfDocument /\ r.viewer = w.viewer /\ r.link = w.link /\ r.find = w.find /\ r.early = w.early
  /\ r.views = w.views

(* Answers that are fewer, apart from those for pages, and details of the living document. *)
LEMMA DFewer ==
  ASSUME NEW w, DO!Sound(w), NEW r, DSteady(w, r),
         r.pagesCapability = w.pagesCapability \/ r.pagesCapability = "rejected",
         r.closing = "saving" => r.saveInProgress, r.flight \subseteq w.flight,
         \A d, p : <<d, "page", p>> \in w.flight => <<d, "page", p>> \in r.flight,
         r.info = w.info \/ (r.info = w.viewer /\ w.viewer \notin w.destroyed),
         r.labels = w.labels \/ (r.labels = w.viewer /\ w.viewer \notin w.destroyed),
         r.views /\ <<r.viewer, "rest", 0>> \notin r.flight => r.history = r.viewer /\ r.initial = r.viewer
  PROVE  DO!Sound(r)
<1>1. DO!Current(r) = DO!Current(w)
  BY DEF DO!Current, DSteady
<1>2. DO!Shape(r) /\ DO!OneAfterTheOther(r)
  BY <1>1 DEF DO!Sound, DO!Shape, DO!OneAfterTheOther, DSteady
<1>3. DO!AnswersExpected(r)
  <2>1. ASSUME NEW f \in r.flight, f[2] = "load" PROVE r.flight = {f}
    BY <2>1 DEF DO!Sound, DO!AnswersExpected, DSteady
  <2> QED BY <1>1, <2>1 DEF DO!Sound, DO!AnswersExpected, DSteady
<1>4. DO!ViewerSound(r)
  BY <1>1 DEF DO!Sound, DO!ViewerSound, DSteady
<1>5. \A d : DO!Pending(r, d) = DO!Pending(w, d)
  BY DEF DO!Pending
<1>6. DO!PromiseSound(r)
  BY <1>5 DEF DO!Sound, DO!PromiseSound, DSteady
<1> QED BY <1>2, <1>3, <1>4, <1>6 DEF DO!Sound

(* What open and save find when the old document is to be closed. *)
DClosable(w) ==
  /\ DO!Shape(w) /\ w.opening = w.opens /\ w.opens >= 2 /\ w.pdfLoadingTask = w.opens - 1 /\ w.destroyed = 1 .. w.opens - 2
  /\ w.viewer = w.pdfDocument /\ (w.viewer = 0 => DBlank(w))
  /\ \A f \in w.flight : f[1] = w.opens - 1 /\ (f[2] = "load" => w.flight = {f})
  /\ DCounted(w)
  /\ ~w.early /\ w.pagesCapability = "resolved" => w.viewer # 0

(* close(): the document and all that belongs to it go. *)
LEMMA DCloseNow ==
  ASSUME NEW w, DClosable(w), NEW r, r = DO!CloseNow(w) PROVE DO!Sound(r)
<1>1. DOMAIN w = DOMAIN DO!Start /\ w.opens \in Nat /\ w.opens >= 2 /\ w.viewer = w.pdfDocument /\ (w.viewer = 0 => DBlank(w))
  BY OpeningAssumption DEF DClosable, DO!Shape, DO!Maybe
<1>2. PICK gone : gone = w.destroyed \cup {w.pdfLoadingTask}
  OBVIOUS
<1>3. gone = 1 .. w.opens - 1
  BY <1>1, <1>2 DEF DClosable
<1>4. PICK x : x = [w EXCEPT !.closing = "destroying", !.destroyed = gone, !.pdfLoadingTask = 0, !.pdfDocument = 0,
                        !.link = 0, !.info = 0, !.history = 0, !.initial = 0, !.modified = FALSE, !.saveInProgress = FALSE]
  OBVIOUS
<1>5. /\ DOMAIN x = DOMAIN DO!Start /\ x.opens = w.opens /\ x.opening = w.opening /\ x.closing = "destroying"
      /\ x.pdfLoadingTask = 0 /\ x.destroyed = gone /\ x.left = w.left /\ x.info = 0
      /\ DViewer(w, x) /\ x.pdfDocument = 0 /\ x.link = 0 /\ x.flight = w.flight
  BY <1>1, <1>4 DEF DViewer, DO!Start
<1>6. PICK y : y = IF w.pdfDocument = 0 THEN x ELSE DO!ViewerSetDocument(x, 0)
  OBVIOUS
<1>7. /\ DApplication(x, y) /\ y.pdfDocument = 0 /\ y.link = 0 /\ y.viewer = 0 /\ DBlank(y) /\ y.flight = w.flight
      /\ ~y.early => y.pagesCapability # "resolved"
  <2>1. CASE w.pdfDocument = 0
    <3>1. y = x
      BY <1>6, <2>1
    <3>2. DBlank(x) /\ x.viewer = 0
      BY <1>1, <1>5, <2>1 DEF DBlank, DViewer
    <3>3. ~x.early => x.pagesCapability # "resolved"
      BY <1>1, <1>5, <2>1 DEF DClosable, DViewer
    <3> QED BY <1>5, <3>1, <3>2, <3>3 DEF DApplication
  <2>2. CASE w.pdfDocument # 0
    <3>1. y = DO!ViewerSetDocument(x, 0) /\ x.viewer # 0
      BY <1>1, <1>5, <1>6, <2>2 DEF DViewer
    <3>2. DViewerSet(x, 0, y)
      BY <1>5, <3>1, DViewerSetDocument
    <3> QED BY <1>5, <3>1, <3>2 DEF DViewerSet
  <2> QED BY <2>1, <2>2
<1>8. PICK late : late = \E f \in w.flight : f[1] = w.pdfLoadingTask /\ f[2] \in {"first", "page"}
  OBVIOUS
<1>9. r = [y EXCEPT !.early = @ \/ late]
  BY <1>2, <1>4, <1>6, <1>8 DEF DO!CloseNow
<1>10. DOMAIN y = DOMAIN DO!Start
  BY <1>7 DEF DApplication
<1>11. /\ DApplication(y, r) /\ r.pdfDocument = 0 /\ r.link = 0 /\ r.viewer = 0 /\ r.flight = w.flight
       /\ r.pages = y.pages /\ r.views = y.views /\ r.labels = y.labels /\ r.find = y.find
       /\ r.pagesCapability = y.pagesCapability /\ r.early = (y.early \/ late)
  BY <1>7, <1>9, <1>10 DEF DApplication, DO!Start
<1>12. DBlank(r)
  BY <1>7, <1>11 DEF DBlank
<1>13. /\ DOMAIN r = DOMAIN DO!Start /\ r.opens = w.opens /\ r.opening = w.opens /\ r.closing = "destroying"
       /\ r.pdfLoadingTask = 0 /\ r.destroyed = gone /\ r.left = w.left /\ r.info = 0
  BY <1>5, <1>7, <1>11 DEF DApplication, DClosable
<1>14. DO!Current(r) = w.opens - 1 /\ w.opens - 1 \in Nat
  BY <1>1, <1>13 DEF DO!Current
<1>15. DO!Shape(r)
  BY <1>12, <1>13 DEF DO!Shape, DBlank, DClosable
<1>16. DO!OneAfterTheOther(r)
  BY <1>1, <1>3, <1>13, <1>14 DEF DO!OneAfterTheOther
<1>17. DO!AnswersExpected(r)
  <2>1. ASSUME NEW f \in w.flight PROVE f[1] = w.opens - 1 /\ (f[2] = "load" => w.flight = {f}) /\ (f[2] \in {"first", "page"} => late)
    BY <1>8 DEF DClosable
  <2>2. w.opens - 1 \in gone /\ w.opens - 1 # 0
    BY <1>1, <1>3
  <2> QED BY <1>11, <1>13, <1>14, <2>1, <2>2 DEF DO!AnswersExpected
<1>18. DO!ViewerSound(r)
  BY <1>11, <1>12, <1>13, <1>14 DEF DO!ViewerSound, DBlank
<1>19. DO!PromiseSound(r)
  <2>1. \A d : DO!Pending(r, d) = DO!Pending(w, d)
    BY <1>11 DEF DO!Pending
  <2>2. DCounted(r)
    <3>1. w.destroyed \subseteq r.destroyed /\ DCounted(w)
      BY <1>2, <1>13 DEF DClosable
    <3> QED BY <1>13, <2>1, <3>1, DStillCounted
  <2>3. ~r.early => ~y.early
    BY <1>11, Zenon
  <2>4. ~(~r.early /\ r.pagesCapability = "resolved")
    BY <1>7, <1>11, <2>3
  <2> QED BY <2>2, <2>4 DEF DO!PromiseSound, DCounted
<1> QED BY <1>15, <1>16, <1>17, <1>18, <1>19 DEF DO!Sound

-----------------------------------------------------------------------------
(* A step that keeps the invariant and closes no changed document unsaved. *)
DKept == DO!Sound(st') /\ DO!ChangesSaved

(* A document is asked for when no other has answers to come. *)
DAskable(w) ==
  /\ DO!Shape(w) /\ w.flight = {} /\ w.opens >= 1 /\ w.destroyed = 1 .. w.opens - 1
  /\ w.viewer \in w.destroyed \cup {0} /\ w.viewer = w.pdfDocument /\ w.link = w.pdfDocument
  /\ w.info = 0 /\ w.find = 0 /\ w.labels = 0 /\ ~w.views /\ \A p \in DO!Page : w.pages[p] \in {0, w.viewer}
  /\ DCounted(w)
  /\ ~w.early => w.pagesCapability # "resolved"

(* open(): a new loading task. *)
LEMMA DGetDocument ==
  ASSUME NEW w, DAskable(w), NEW r, r = DO!GetDocument(w, w.opens) PROVE DO!Sound(r) /\ r.pdfDocument = w.pdfDocument
<1>1. DOMAIN w = DOMAIN DO!Start /\ w.opens \in Nat /\ w.opens >= 1 /\ w.opens \notin w.destroyed /\ w.destroyed = 1 .. w.opens - 1
  BY OpeningAssumption DEF DAskable, DO!Shape, DO!Maybe
<1>2. PICK x : x = [w EXCEPT !.closing = "no", !.opening = 0, !.pdfLoadingTask = w.opens, !.failed = FALSE]
  OBVIOUS
<1>3. /\ DOMAIN x = DOMAIN DO!Start /\ x.opens = w.opens /\ x.opening = 0 /\ x.closing = "no" /\ x.pdfLoadingTask = w.opens
      /\ x.destroyed = w.destroyed /\ x.left = w.left /\ x.info = w.info
      /\ DViewer(w, x) /\ x.pdfDocument = w.pdfDocument /\ x.link = w.link /\ x.flight = w.flight
  BY <1>1, <1>2 DEF DViewer, DO!Start
<1>4. r = DO!Ask(x, w.opens, {"load"})
  BY <1>2 DEF DO!GetDocument
<1>5. DAsked(x, w.opens, {"load"}, r)
  BY <1>3, <1>4, DAsk
<1>6. PICK f : f = <<w.opens, "load", 0>>
  OBVIOUS
<1>7. {<<w.opens, a, 0>> : a \in {"load"}} = {f} /\ f[1] = w.opens /\ f[2] = "load"
  BY <1>6
<1>8. r.flight = {f}
  BY <1>1, <1>3, <1>5, <1>7 DEF DAsked, DAskable
<1>9. /\ DOMAIN r = DOMAIN DO!Start /\ r.opens = w.opens /\ r.opening = 0 /\ r.closing = "no" /\ r.pdfLoadingTask = w.opens
      /\ r.destroyed = w.destroyed /\ r.left = w.left /\ r.info = w.info
      /\ DViewer(w, r) /\ r.pdfDocument = w.pdfDocument /\ r.link = w.link
  BY <1>3, <1>5 DEF DAsked, DApplication, DViewer
<1>10. DO!Current(r) = w.opens
  BY <1>9 DEF DO!Current
<1>11. DO!Shape(r)
  BY <1>9 DEF DO!Shape, DAskable, DViewer
<1>12. DO!OneAfterTheOther(r)
  BY <1>1, <1>9, <1>10 DEF DO!OneAfterTheOther
<1>13. w.viewer \in 0 .. w.opens /\ w.viewer # w.opens
  BY <1>1 DEF DAskable
<1>14. DO!AnswersExpected(r)
  BY <1>1, <1>7, <1>8, <1>9, <1>10, <1>13 DEF DO!AnswersExpected, DViewer
<1>15. DO!ViewerSound(r)
  BY <1>9, <1>10, <1>13 DEF DO!ViewerSound, DViewer, DAskable
<1>16. \A d : DO!Pending(r, d) = DO!Pending(w, d)
  <2>1. \A d, p : <<d, "page", p>> # f
    BY <1>6
  <2> QED BY <1>8, <2>1 DEF DO!Pending, DAskable
<1>17. DO!PromiseSound(r)
  <2>1. DCounted(w) /\ w.destroyed \subseteq r.destroyed
    BY <1>9 DEF DAskable
  <2>2. DCounted(r)
    BY <1>9, <1>16, <2>1, DStillCounted
  <2> QED BY <1>9, <2>2 DEF DO!PromiseSound, DViewer, DAskable, DCounted
<1> QED BY <1>9, <1>11, <1>12, <1>14, <1>15, <1>17 DEF DO!Sound

(* What a request to save changes. *)
DSaving(w, r) ==
  /\ DOMAIN r = DOMAIN DO!Start /\ r.opens = w.opens /\ r.opening = w.opening /\ r.closing = w.closing
  /\ r.pdfLoadingTask = w.pdfLoadingTask /\ r.destroyed = w.destroyed /\ r.left = w.left
  /\ r.history = w.history /\ r.initial = w.initial /\ r.info = w.info /\ r.saveInProgress = TRUE
  /\ DViewer(w, r) /\ r.pdfDocument = w.pdfDocument /\ r.link = w.link
  /\ r.flight = IF w.pdfDocument \in w.destroyed THEN w.flight ELSE w.flight \cup {<<w.pdfDocument, "save", 0>>}

(* Saving leaves the documents alone. *)
LEMMA DSave == ASSUME NEW w, DOMAIN w = DOMAIN DO!Start, NEW r, r = DO!Save(w) PROVE DSaving(w, r)
<1>1. PICK x : x = [w EXCEPT !.saveInProgress = TRUE]
  OBVIOUS
<1>2. /\ DOMAIN x = DOMAIN DO!Start /\ x.opens = w.opens /\ x.opening = w.opening /\ x.closing = w.closing
      /\ x.pdfLoadingTask = w.pdfLoadingTask /\ x.destroyed = w.destroyed /\ x.left = w.left
      /\ x.history = w.history /\ x.initial = w.initial /\ x.info = w.info /\ x.saveInProgress = TRUE
      /\ DViewer(w, x) /\ x.pdfDocument = w.pdfDocument /\ x.link = w.link /\ x.flight = w.flight
  BY <1>1 DEF DViewer, DO!Start
<1>3. r = DO!Ask(x, w.pdfDocument, {"save"})
  BY <1>1 DEF DO!Save
<1>4. DAsked(x, w.pdfDocument, {"save"}, r)
  BY <1>2, <1>3, DAsk
<1>5. {<<w.pdfDocument, a, 0>> : a \in {"save"}} = {<<w.pdfDocument, "save", 0>>}
  OBVIOUS
<1> QED BY <1>2, <1>4, <1>5 DEF DAsked, DApplication, DViewer, DSaving

(* A save of the living document is one more answer for the viewer. *)
LEMMA DMore ==
  ASSUME NEW w, DO!Sound(w), NEW r, DOMAIN r = DOMAIN DO!Start, DO!Current(r) = DO!Current(w), DO!Shape(r), DO!OneAfterTheOther(r),
         r.destroyed = w.destroyed, r.left = w.left, r.history = w.history, r.initial = w.initial, r.info = w.info,
         DViewer(w, r), r.pdfDocument = w.pdfDocument, r.link = w.link, w.pdfDocument # 0,
         r.flight = IF w.pdfDocument \in w.destroyed THEN w.flight ELSE w.flight \cup {<<w.pdfDocument, "save", 0>>}
  PROVE  DO!Sound(r)
<1>1. PICK f : f = <<w.pdfDocument, "save", 0>>
  OBVIOUS
<1>2. f[1] = w.pdfDocument /\ f[2] = "save" /\ \A d, p : <<d, "page", p>> # f /\ <<d, "rest", 0>> # f
  BY <1>1
<1>3. w.pdfDocument = w.viewer /\ w.viewer \in 0 .. DO!Current(w)
  BY DEF DO!Sound, DO!ViewerSound
<1>4. CASE w.pdfDocument \in w.destroyed
  <2>1. r.flight = w.flight
    BY <1>4
  <2>2. DO!AnswersExpected(r) /\ DO!ViewerSound(r)
    BY <2>1 DEF DO!Sound, DO!AnswersExpected, DO!ViewerSound, DViewer
  <2>3. \A d : DO!Pending(r, d) = DO!Pending(w, d)
    BY <2>1 DEF DO!Pending
  <2>4. DO!PromiseSound(r)
    BY <2>3 DEF DO!Sound, DO!PromiseSound, DViewer
  <2> QED BY <2>2, <2>4 DEF DO!Sound
<1>5. CASE w.pdfDocument \notin w.destroyed
  <2>1. r.flight = w.flight \cup {f}
    BY <1>1, <1>5
  <2>2. w.viewer = DO!Current(w)
    <3>1. DO!Current(w) \in Int /\ w.destroyed \in {1 .. DO!Current(w), 1 .. DO!Current(w) - 1}
      BY OpeningAssumption DEF DO!Sound, DO!OneAfterTheOther, DO!Shape, DO!Current, DO!Maybe
    <3> QED BY <1>3, <1>5, <3>1
  <2>3. \A g \in w.flight : g[2] # "load" /\ g[1] = w.viewer
    BY <1>3, <1>5, <2>2 DEF DO!Sound, DO!AnswersExpected
  <2>4. DO!AnswersExpected(r)
    <3>1. ASSUME NEW g \in w.flight
          PROVE  /\ g[1] = DO!Current(w) /\ g[2] # "load" /\ g[1] \notin w.destroyed /\ g[1] = w.viewer
                 /\ (g[2] = "page" => w.find = g[1])
      BY <1>3, <1>5, <2>2, <2>3 DEF DO!Sound, DO!AnswersExpected
    <3> QED BY <1>2, <1>3, <1>5, <2>1, <2>2, <3>1 DEF DO!AnswersExpected, DViewer
  <2>5. DO!ViewerSound(r)
    BY <1>2, <2>1 DEF DO!Sound, DO!ViewerSound, DViewer
  <2>6. \A d : DO!Pending(r, d) = DO!Pending(w, d)
    BY <1>2, <2>1 DEF DO!Pending
  <2>7. DO!PromiseSound(r)
    BY <2>6 DEF DO!Sound, DO!PromiseSound, DViewer
  <2> QED BY <2>4, <2>5, <2>7 DEF DO!Sound
<1> QED BY <1>4, <1>5

-----------------------------------------------------------------------------
(* Opening a document asks for it at once or closes the one before. *)
LEMMA DOpen == ASSUME DO!Sound(st), DO!Open PROVE DKept
<1>1. /\ DOMAIN st = DOMAIN DO!Start /\ st.opens \in Nat /\ st.opens < OpenedDocs /\ st.opening = 0 /\ DO!Shape(st)
      /\ st.opens + 1 \in DO!Maybe
  BY OpeningAssumption DEF DO!Sound, DO!Shape, DO!Maybe, DO!Open
<1>2. st.closing = "no"
  BY <1>1 DEF DO!Sound, DO!OneAfterTheOther
<1>3. DO!Current(st) = st.opens /\ st.pdfLoadingTask = st.opens /\ st.destroyed = 1 .. st.opens - 1
  BY <1>2 DEF DO!Sound, DO!OneAfterTheOther, DO!Current
<1>4. PICK d : d = st.opens + 1
  OBVIOUS
<1>5. PICK w : w = [st EXCEPT !.opens = d]
  OBVIOUS
<1>6. /\ DOMAIN w = DOMAIN DO!Start /\ w.opens = d /\ w.opening = st.opening /\ w.closing = st.closing
      /\ w.pdfLoadingTask = st.pdfLoadingTask /\ w.destroyed = st.destroyed /\ w.left = st.left
      /\ w.history = st.history /\ w.initial = st.initial /\ w.info = st.info /\ w.saveInProgress = st.saveInProgress
      /\ w.modified = st.modified
      /\ DViewer(st, w) /\ w.pdfDocument = st.pdfDocument /\ w.link = st.link /\ w.flight = st.flight
  BY <1>1, <1>5 DEF DViewer, DO!Start
<1>7. st' = IF st.pdfLoadingTask = 0 THEN DO!GetDocument(w, d) ELSE DO!Close([w EXCEPT !.opening = d])
  BY <1>4, <1>5 DEF DO!Open
<1>8. \A e : DO!Pending(w, e) = DO!Pending(st, e)
  BY <1>6 DEF DO!Pending
<1>9. st.viewer = 0 => DBlank(st)
  BY <1>1 DEF DO!Sound, DO!ViewerSound, DBlank, DO!Shape
<1>10. CASE st.pdfLoadingTask = 0
  <2>1. st.opens = 0 /\ st.destroyed = {} /\ d = 1 /\ 1 .. d - 1 = {}
    BY <1>3, <1>4, <1>10
  <2>2. st.viewer = 0 /\ st.pdfDocument = 0 /\ st.link = 0 /\ st.info = 0
    BY <1>3, <2>1 DEF DO!Sound, DO!ViewerSound
  <2>3. \A f \in st.flight : f[2] = "load" /\ FALSE
    <3>1. ASSUME NEW f \in st.flight PROVE FALSE
      <4>1. f[1] = 0 /\ (f[2] = "load" <=> st.viewer # f[1]) /\ (f[2] = "load" => st.flight = {f})
        BY <1>3, <2>1 DEF DO!Sound, DO!AnswersExpected
      <4> QED BY <1>3, <2>1, <4>1 DEF DO!Sound, DO!AnswersExpected
    <3> QED BY <3>1
  <2>4. st.flight = {}
    BY <2>3
  <2>5. ~st.early => st.pagesCapability # "resolved"
    BY <2>2 DEF DO!Sound, DO!PromiseSound
  <2>6. DBlank(w)
    BY <1>6, <1>9, <2>2 DEF DBlank, DViewer
  <2>7. DO!Shape(w)
    BY <1>1, <1>4, <1>6 DEF DO!Shape, DViewer
  <2>8. DCounted(w)
    <3>1. DCounted(st) /\ st.destroyed \subseteq w.destroyed
      BY <1>6 DEF DO!Sound, DO!PromiseSound, DCounted
    <3> QED BY <1>6, <1>8, <3>1, DStillCounted
  <2>9. DAskable(w)
    BY <1>6, <2>1, <2>2, <2>4, <2>5, <2>6, <2>7, <2>8 DEF DAskable, DViewer, DBlank
  <2>10. st' = DO!GetDocument(w, w.opens)
    BY <1>6, <1>7, <1>10
  <2>11. DO!Sound(st')
    BY <2>9, <2>10, DGetDocument
  <2> QED BY <2>2, <2>11 DEF DKept, DO!ChangesSaved
<1>11. CASE st.pdfLoadingTask # 0
  <2>1. PICK x : x = [w EXCEPT !.opening = d]
    OBVIOUS
  <2>2. /\ DOMAIN x = DOMAIN DO!Start /\ x.opens = d /\ x.opening = d /\ x.closing = st.closing
        /\ x.pdfLoadingTask = st.pdfLoadingTask /\ x.destroyed = st.destroyed /\ x.left = st.left
        /\ x.history = st.history /\ x.initial = st.initial /\ x.info = st.info /\ x.saveInProgress = st.saveInProgress
        /\ x.modified = st.modified
        /\ DViewer(st, x) /\ x.pdfDocument = st.pdfDocument /\ x.link = st.link /\ x.flight = st.flight
    BY <1>6, <2>1 DEF DViewer, DO!Start
  <2>3. st' = DO!Close(x)
    BY <1>7, <1>11, <2>1
  <2>4. DO!Shape(x)
    BY <1>1, <1>4, <2>2 DEF DO!Shape, DViewer
  <2>5. d \in Nat /\ d >= 2 /\ d - 1 = st.opens /\ st.destroyed = 1 .. d - 2
    BY <1>1, <1>3, <1>4, <1>11
  <2>6. \A e : DO!Pending(x, e) = DO!Pending(st, e)
    BY <2>2 DEF DO!Pending
  <2>7. CASE DO!HasChanges(x) /\ ~x.saveInProgress
    <3>1. PICK y : y = [x EXCEPT !.closing = "saving"]
      OBVIOUS
    <3>2. /\ DOMAIN y = DOMAIN DO!Start /\ y.opens = d /\ y.opening = d /\ y.closing = "saving"
          /\ y.pdfLoadingTask = st.pdfLoadingTask /\ y.destroyed = st.destroyed /\ y.left = st.left
          /\ y.history = st.history /\ y.initial = st.initial /\ y.info = st.info
          /\ DViewer(st, y) /\ y.pdfDocument = st.pdfDocument /\ y.link = st.link /\ y.flight = st.flight
      BY <2>2, <3>1 DEF DViewer, DO!Start
    <3>3. st' = DO!Save(y)
      BY <2>3, <2>7, <3>1 DEF DO!Close
    <3>4. DSaving(y, st')
      BY <3>2, <3>3, DSave
    <3>5. DViewer(st, st')
      BY <3>2, <3>4 DEF DViewer, DSaving
    <3>6. DO!Current(st') = DO!Current(st)
      BY <1>3, <2>5, <3>2, <3>4 DEF DO!Current, DSaving
    <3>7. DO!Shape(st')
      BY <1>1, <1>4, <3>2, <3>4, <3>5 DEF DO!Shape, DViewer, DSaving
    <3>8. DO!OneAfterTheOther(st')
      BY <1>3, <2>5, <3>2, <3>4, <3>6 DEF DO!OneAfterTheOther, DSaving
    <3>9. st.pdfDocument # 0
      BY <2>2, <2>7 DEF DO!HasChanges
    <3>10. DO!Sound(st')
      <4>1. /\ DOMAIN st' = DOMAIN DO!Start /\ st'.destroyed = st.destroyed /\ st'.left = st.left
            /\ st'.history = st.history /\ st'.initial = st.initial /\ st'.info = st.info
            /\ st'.pdfDocument = st.pdfDocument /\ st'.link = st.link
            /\ st'.flight = IF st.pdfDocument \in st.destroyed THEN st.flight ELSE st.flight \cup {<<st.pdfDocument, "save", 0>>}
        BY <3>2, <3>4 DEF DSaving
      <4> QED BY <3>5, <3>6, <3>7, <3>8, <3>9, <4>1, DMore
    <3> QED BY <3>2, <3>4, <3>9, <3>10 DEF DKept, DO!ChangesSaved, DSaving
  <2>8. CASE ~(DO!HasChanges(x) /\ ~x.saveInProgress)
    <3>1. st' = DO!CloseNow(x)
      BY <2>3, <2>8 DEF DO!Close
    <3>2. x.viewer = x.pdfDocument /\ (x.viewer = 0 => DBlank(x))
      BY <1>9, <2>2 DEF DBlank, DViewer, DO!Sound, DO!ViewerSound
    <3>3. \A f \in x.flight : f[1] = d - 1 /\ (f[2] = "load" => x.flight = {f})
      BY <1>3, <2>2, <2>5 DEF DO!Sound, DO!AnswersExpected
    <3>4. DCounted(x)
      <4>1. DCounted(st) /\ st.destroyed \subseteq x.destroyed
        BY <2>2 DEF DO!Sound, DO!PromiseSound, DCounted
      <4> QED BY <2>2, <2>6, <4>1, DStillCounted
    <3>5. ~x.early /\ x.pagesCapability = "resolved" => x.viewer # 0
      BY <2>2 DEF DO!Sound, DO!PromiseSound, DViewer
    <3>6. DClosable(x)
      BY <1>3, <2>2, <2>4, <2>5, <3>2, <3>3, <3>4, <3>5 DEF DClosable
    <3>7. DO!Sound(st')
      BY <3>1, <3>6, DCloseNow
    <3> QED BY <2>2, <2>8, <3>7 DEF DKept, DO!ChangesSaved, DO!HasChanges
  <2> QED BY <2>7, <2>8
<1> QED BY <1>10, <1>11

(* A document with an answer under way. *)
LEMMA DAlive ==
  ASSUME NEW w, DO!Sound(w)
  PROVE  /\ DO!Shape(w) /\ DOMAIN w = DOMAIN DO!Start /\ DO!Current(w) \in Int /\ 0 \notin w.destroyed
         /\ w.destroyed \in {1 .. DO!Current(w), 1 .. DO!Current(w) - 1}
         /\ w.viewer \in 0 .. DO!Current(w) /\ w.viewer = w.pdfDocument /\ w.link = w.pdfDocument
         /\ w.viewer \notin w.destroyed \cup {0} => w.viewer = DO!Current(w)
         /\ w.viewer \in w.destroyed \cup {0} => w.find = 0 /\ w.info = 0 /\ w.labels = 0 /\ ~w.views
         /\ DCounted(w)
<1>1. /\ DO!Shape(w) /\ DOMAIN w = DOMAIN DO!Start /\ DO!Current(w) \in Int
      /\ w.destroyed \in {1 .. DO!Current(w), 1 .. DO!Current(w) - 1}
  BY OpeningAssumption DEF DO!Sound, DO!OneAfterTheOther, DO!Shape, DO!Current, DO!Maybe
<1>2. /\ w.viewer \in 0 .. DO!Current(w) /\ w.viewer = w.pdfDocument /\ w.link = w.pdfDocument
      /\ w.viewer \in w.destroyed \cup {0} => w.find = 0 /\ w.info = 0 /\ w.labels = 0 /\ ~w.views
  BY DEF DO!Sound, DO!ViewerSound
<1>3. DCounted(w)
  BY DEF DO!Sound, DO!PromiseSound, DCounted
<1>4. w.viewer \notin w.destroyed \cup {0} => w.viewer = DO!Current(w)
  BY <1>1, <1>2
<1>5. 0 \notin w.destroyed
  BY <1>1
<1> QED BY <1>1, <1>2, <1>3, <1>4, <1>5

(* The next document is asked for once the worker of the one before has gone. *)
LEMMA DDestroyed == ASSUME DO!Sound(st), DO!Destroyed PROVE DKept
<1>1. /\ DOMAIN st = DOMAIN DO!Start /\ st.closing = "destroying" /\ st.opening = st.opens /\ st.opens >= 2 /\ st.opens \in Nat
      /\ DO!Current(st) = st.opens - 1 /\ st.destroyed = 1 .. st.opens - 1 /\ DO!Shape(st)
  BY OpeningAssumption DEF DO!Sound, DO!Shape, DO!OneAfterTheOther, DO!Destroyed, DO!Current, DO!Maybe
<1>2. PICK left : left = {f \in st.flight : f[1] \notin st.destroyed}
  OBVIOUS
<1>3. left = {}
  <2>1. ASSUME NEW f \in st.flight PROVE f[1] \in st.destroyed
    BY <1>1 DEF DO!Sound, DO!AnswersExpected
  <2> QED BY <1>2, <2>1
<1>4. PICK w : w = [st EXCEPT !.flight = {}]
  OBVIOUS
<1>5. st' = DO!GetDocument(w, st.opens)
  BY <1>1, <1>2, <1>3, <1>4 DEF DO!Destroyed
<1>6. /\ DOMAIN w = DOMAIN DO!Start /\ w.opens = st.opens /\ w.destroyed = st.destroyed /\ w.left = st.left /\ w.info = st.info
      /\ DViewer(st, w) /\ w.pdfDocument = st.pdfDocument /\ w.link = st.link /\ w.flight = {} /\ w.closing = st.closing
  BY <1>1, <1>4 DEF DViewer, DO!Start
<1>7. DO!Shape(w)
  BY <1>1, <1>6 DEF DO!Shape, DViewer
<1>8. st.viewer \in st.destroyed \cup {0}
  BY <1>1, DAlive
<1>9. /\ w.viewer \in w.destroyed \cup {0} /\ w.viewer = w.pdfDocument /\ w.link = w.pdfDocument /\ w.info = 0
      /\ w.find = 0 /\ w.labels = 0 /\ ~w.views
  BY <1>6, <1>8, DAlive DEF DViewer
<1>10. \A p \in DO!Page : w.pages[p] \in {0, w.viewer}
  BY <1>6 DEF DViewer, DO!Sound, DO!ViewerSound
<1>11. ~w.early => w.pagesCapability # "resolved"
  BY <1>6, <1>9 DEF DViewer, DO!Sound, DO!PromiseSound
<1>12. DCounted(w)
  <2>1. ASSUME NEW d \in DO!Doc, d \notin st.destroyed PROVE DO!Pending(st, d) = DO!Pending(w, d)
    <3>1. ASSUME NEW p, <<d, "page", p>> \in st.flight PROVE FALSE
      <4>1. <<d, "page", p>>[1] = DO!Current(st) /\ DO!Current(st) \in st.destroyed
        BY <1>1, <3>1 DEF DO!Sound, DO!AnswersExpected
      <4> QED BY <2>1, <4>1
    <3> QED BY <1>6, <3>1 DEF DO!Pending
  <2>2. ASSUME NEW d \in DO!Doc, d \notin w.destroyed PROVE w.left[d] = DO!Cardinality(DO!Pending(w, d))
    <3>1. DO!Pending(st, d) = DO!Pending(w, d) /\ d \notin st.destroyed
      BY <1>6, <2>1, <2>2
    <3>2. st.left[d] = DO!Cardinality(DO!Pending(st, d))
      BY <3>1, DAlive DEF DCounted
    <3>3. DO!Cardinality(DO!Pending(st, d)) = DO!Cardinality(DO!Pending(w, d))
      BY <3>1, Zenon
    <3> QED BY <1>6, <3>2, <3>3
  <2> QED BY <2>2 DEF DCounted
<1>13. w.opens >= 1 /\ w.destroyed = 1 .. w.opens - 1
  BY <1>1, <1>6
<1>14. DAskable(w)
  BY <1>6, <1>7, <1>9, <1>10, <1>11, <1>12, <1>13 DEF DAskable
<1>15. DO!Sound(st') /\ st'.pdfDocument = w.pdfDocument
  BY <1>5, <1>6, <1>14, DGetDocument
<1> QED BY <1>6, <1>15 DEF DKept, DO!ChangesSaved

(* Loaded documents go to the viewer, wanted or not. *)
LEMMA DLoaded == ASSUME DO!Sound(st), NEW d, NEW ok \in BOOLEAN, DO!Loaded(d, ok) PROVE DKept
<1>1. PICK f : f = <<d, "load", 0>>
  OBVIOUS
<1>2. f \in st.flight /\ f[1] = d /\ f[2] = "load"
  BY <1>1 DEF DO!Loaded
<1>3. d = DO!Current(st) /\ d # 0 /\ st.flight = {f} /\ st.viewer # d
  BY <1>2 DEF DO!Sound, DO!AnswersExpected
<1>4. PICK w : w = [st EXCEPT !.flight = {}]
  OBVIOUS
<1>5. DOMAIN st = DOMAIN DO!Start /\ st.flight \ {f} = {}
  BY <1>3, DAlive
<1>6. /\ DApplication(st, w) /\ DViewer(st, w) /\ w.pdfDocument = st.pdfDocument /\ w.link = st.link /\ w.flight = {}
  BY <1>4, <1>5 DEF DViewer, DApplication, DO!Start
<1>7. st' = IF ok THEN DO!LoadDocument(w, d) ELSE [w EXCEPT !.failed = @ \/ d = st.pdfLoadingTask]
  BY <1>1, <1>4, <1>5 DEF DO!Loaded
<1>8. \A e, p : <<e, "page", p>> # f /\ <<e, "rest", 0>> # f
  BY <1>1
<1>9. \A e : DO!Pending(st, e) = {}
  BY <1>3, <1>8 DEF DO!Pending
<1>10. st.viewer \in st.destroyed \cup {0} /\ ~st.views /\ st.find = 0 /\ st.info = 0 /\ st.labels = 0
  BY <1>3, DAlive
<1>11. CASE ok
  <2>1. PICK x : x = [w EXCEPT !.pdfDocument = d, !.link = d]
    OBVIOUS
  <2>2. DOMAIN w = DOMAIN DO!Start
    BY <1>6 DEF DApplication
  <2>3. DApplication(w, x) /\ DViewer(w, x) /\ x.pdfDocument = d /\ x.link = d /\ x.flight = {}
    BY <1>6, <2>1, <2>2 DEF DViewer, DApplication, DO!Start
  <2>4. DApplication(st, x) /\ DViewer(st, x) /\ DOMAIN x = DOMAIN DO!Start
    BY <1>6, <2>3 DEF DViewer, DApplication
  <2>5. PICK y : y = DO!ViewerSetDocument(x, d)
    OBVIOUS
  <2>6. x.viewer = 0 => DBlank(x)
    BY <1>10, <2>4 DEF DBlank, DViewer, DO!Sound, DO!ViewerSound, DO!Shape
  <2>7. DViewerSet(x, d, y)
    BY <2>4, <2>5, <2>6, DViewerSetDocument
  <2>8. st' = DO!Ask(y, d, {"labels", "meta"})
    BY <1>7, <1>11, <2>1, <2>5 DEF DO!LoadDocument
  <2>9. DAsked(y, d, {"labels", "meta"}, st')
    <3>1. DOMAIN y = DOMAIN DO!Start
      BY <2>7 DEF DViewerSet, DApplication
    <3> QED BY <2>8, <3>1, DAsk
  <2>10. DApplication(st, st') /\ st'.pdfDocument = d /\ st'.link = d /\ st'.viewer = d /\ DBlank(st')
    BY <2>3, <2>4, <2>7, <2>9 DEF DAsked, DApplication, DViewer, DViewerSet, DBlank
  <2>11. ~st'.early => st'.pagesCapability # "resolved"
    <3>1. ~st.early => st.pagesCapability # "resolved"
      BY <1>10 DEF DO!Sound, DO!PromiseSound
    <3> QED BY <2>4, <2>7, <2>9, <3>1 DEF DAsked, DViewer, DViewerSet
  <2>12. st'.flight = IF d \in st.destroyed THEN {} ELSE {<<d, a, 0>> : a \in {"first", "labels", "meta"}}
    <3>1. x.destroyed = st.destroyed /\ y.destroyed = st.destroyed
      BY <2>4, <2>7 DEF DViewerSet, DApplication
    <3>2. CASE d \in st.destroyed
      BY <2>3, <2>7, <2>9, <3>1, <3>2 DEF DAsked, DViewerSet
    <3>3. CASE d \notin st.destroyed
      <4>1. y.flight = {<<d, "first", 0>>} /\ st'.flight = y.flight \cup {<<d, a, 0>> : a \in {"labels", "meta"}}
        BY <1>3, <2>3, <2>7, <2>9, <3>1, <3>3 DEF DAsked, DViewerSet
      <4> QED BY <3>3, <4>1
    <3> QED BY <3>2, <3>3
  <2>13. \A g \in st'.flight : d \notin st.destroyed /\ g[1] = d /\ g[2] \in {"first", "labels", "meta"}
    BY <2>12
  <2>14. DO!Current(st') = DO!Current(st)
    BY <2>10 DEF DApplication, DO!Current
  <2>15. DO!Shape(st') /\ DO!OneAfterTheOther(st')
    BY <2>10, <2>14 DEF DApplication, DBlank, DO!Sound, DO!Shape, DO!OneAfterTheOther
  <2>16. DO!AnswersExpected(st')
    <3>1. st'.destroyed = st.destroyed
      BY <2>10 DEF DApplication
    <3> QED BY <1>3, <2>10, <2>13, <2>14, <3>1 DEF DO!AnswersExpected
  <2>17. DO!ViewerSound(st')
    <3>1. d \in 0 .. DO!Current(st') /\ st'.info = 0
      <4>1. st'.info = st.info
        BY <2>10 DEF DApplication
      <4>2. DO!Current(st) \in Int /\ 0 <= DO!Current(st)
        BY DAlive
      <4> QED BY <1>3, <1>10, <2>14, <4>1, <4>2
    <3> QED BY <2>10, <3>1 DEF DO!ViewerSound, DBlank
  <2>18. \A e : DO!Pending(st', e) = DO!Pending(st, e)
    <3>1. \A e, p : <<e, "page", p>>[2] = "page"
      OBVIOUS
    <3>2. \A e, p : <<e, "page", p>> \notin st'.flight
      BY <2>13, <3>1
    <3> QED BY <1>9, <3>2 DEF DO!Pending
  <2>19. DCounted(st')
    <3>1. DCounted(st) /\ st'.left = st.left /\ st.destroyed \subseteq st'.destroyed
      BY <2>10, DAlive DEF DApplication
    <3> QED BY <2>18, <3>1, DStillCounted
  <2>20. DO!PromiseSound(st')
    BY <2>11, <2>19 DEF DO!PromiseSound, DCounted
  <2> QED BY <1>3, <2>10, <2>15, <2>16, <2>17, <2>20 DEF DKept, DO!Sound, DO!ChangesSaved
<1>12. CASE ~ok
  <2>1. DOMAIN w = DOMAIN DO!Start
    BY <1>6 DEF DApplication
  <2>2. PICK b : b = (w.failed \/ d = st.pdfLoadingTask)
    OBVIOUS
  <2>3. st' = [w EXCEPT !.failed = b]
    BY <1>7, <1>12, <2>2
  <2>4. /\ DSteady(w, st') /\ st'.saveInProgress = w.saveInProgress /\ st'.info = w.info /\ st'.labels = w.labels
        /\ st'.pagesCapability = w.pagesCapability /\ st'.flight = {}
    BY <1>6, <2>1, <2>3 DEF DSteady, DO!Start
  <2>5. /\ DSteady(st, st') /\ st'.saveInProgress = st.saveInProgress /\ st'.info = st.info /\ st'.labels = st.labels
        /\ st'.pagesCapability = st.pagesCapability
    BY <1>6, <2>4 DEF DViewer, DApplication, DSteady
  <2>6. \A e, p : <<e, "page", p>> \notin st.flight
    BY <1>3, <1>8
  <2>7. (st'.closing = "saving" => st'.saveInProgress) /\ st'.flight \subseteq st.flight /\ ~st'.views
    BY <1>10, <2>4, <2>5 DEF DO!Sound, DO!OneAfterTheOther, DSteady
  <2>8. DO!Sound(st')
    BY <2>5, <2>6, <2>7, DFewer
  <2> QED BY <2>5, <2>8 DEF DKept, DO!ChangesSaved, DSteady
<1> QED BY <1>11, <1>12

(* The answer f has come; it is no more. *)
LEMMA DCame ==
  ASSUME DO!Sound(st), NEW f \in st.flight, NEW w, w = [st EXCEPT !.flight = @ \ {f}]
  PROVE  /\ DSteady(st, w) /\ w.flight = st.flight \ {f} /\ w.saveInProgress = st.saveInProgress /\ w.modified = st.modified
         /\ w.info = st.info /\ w.labels = st.labels /\ w.history = st.history /\ w.initial = st.initial
         /\ w.pagesCapability = st.pagesCapability /\ w.failed = st.failed
         /\ (w.closing = "saving" => w.saveInProgress)
<1>1. DOMAIN st = DOMAIN DO!Start /\ (st.closing = "saving" => st.saveInProgress)
  BY DAlive DEF DO!Sound, DO!OneAfterTheOther
<1> QED BY <1>1 DEF DSteady, DO!Start

(* The history and the first view of the document. *)
LEMMA DInitialView == ASSUME DO!Sound(st), NEW d, DO!InitialView(d) PROVE DKept
<1>1. PICK f : f = <<d, "rest", 0>>
  OBVIOUS
<1>2. f \in st.flight /\ f[1] = d /\ f[2] = "rest" /\ \A e, p : <<e, "page", p>> # f
  BY <1>1 DEF DO!InitialView
<1>3. PICK w : w = [st EXCEPT !.flight = @ \ {f}]
  OBVIOUS
<1>4. /\ DSteady(st, w) /\ w.flight = st.flight \ {f} /\ w.saveInProgress = st.saveInProgress
      /\ w.info = st.info /\ w.labels = st.labels /\ w.pagesCapability = st.pagesCapability
      /\ (w.closing = "saving" => w.saveInProgress)
  BY <1>2, <1>3, DCame
<1>5. st' = [w EXCEPT !.history = d, !.initial = d]
  BY <1>1, <1>3 DEF DO!InitialView, DO!SetInitialView, DO!InitializePdfHistory
<1>6. /\ DSteady(w, st') /\ st'.flight = w.flight /\ st'.saveInProgress = w.saveInProgress /\ st'.info = w.info
      /\ st'.labels = w.labels /\ st'.pagesCapability = w.pagesCapability /\ st'.history = d /\ st'.initial = d
  BY <1>4, <1>5 DEF DSteady, DO!Start
<1>7. DSteady(st, st') /\ (st'.closing = "saving" => st'.saveInProgress)
  BY <1>4, <1>6 DEF DSteady
<1>8. st'.views => st'.viewer = d
  BY <1>2, <1>7, DAlive DEF DSteady, DO!Sound, DO!AnswersExpected
<1>9. DO!Sound(st')
  <2>1. /\ st'.flight \subseteq st.flight /\ (\A e, p : <<e, "page", p>> \in st.flight => <<e, "page", p>> \in st'.flight)
        /\ st'.info = st.info /\ st'.labels = st.labels /\ st'.pagesCapability = st.pagesCapability
    BY <1>2, <1>4, <1>6
  <2> QED BY <1>6, <1>7, <1>8, <2>1, DFewer
<1> QED BY <1>7, <1>9 DEF DKept, DO!ChangesSaved, DSteady

(* Labels and title are taken for the document of the application only. *)
LEMMA DDetails == ASSUME DO!Sound(st), NEW d, DO!PageLabels(d) \/ DO!Metadata(d) PROVE DKept
<1>1. PICK a \in {"labels", "meta"} : <<d, a, 0>> \in st.flight /\ (a = "labels" => DO!PageLabels(d)) /\ (a = "meta" => DO!Metadata(d))
  BY DEF DO!PageLabels, DO!Metadata
<1>2. PICK f : f = <<d, a, 0>>
  OBVIOUS
<1>3. f \in st.flight /\ f[1] = d /\ f[2] = a /\ a # "load" /\ \A e, p : <<e, "page", p>> # f /\ <<e, "rest", 0>> # f
  BY <1>1, <1>2
<1>4. PICK w : w = [st EXCEPT !.flight = @ \ {f}]
  OBVIOUS
<1>5. /\ DSteady(st, w) /\ w.flight = st.flight \ {f} /\ w.saveInProgress = st.saveInProgress
      /\ w.info = st.info /\ w.labels = st.labels /\ w.history = st.history /\ w.initial = st.initial
      /\ w.pagesCapability = st.pagesCapability /\ (w.closing = "saving" => w.saveInProgress)
  BY <1>3, <1>4, DCame
<1>6. DOMAIN w = DOMAIN DO!Start /\ w.viewer = st.viewer
  BY <1>5 DEF DSteady
<1>7. /\ DSteady(w, st') /\ st'.flight = w.flight /\ st'.saveInProgress = w.saveInProgress
      /\ st'.history = w.history /\ st'.initial = w.initial /\ st'.pagesCapability = w.pagesCapability
      /\ st'.info = w.info \/ (st'.info = d /\ d = st.pdfDocument)
      /\ st'.labels = w.labels \/ (st'.labels = d /\ d = st.pdfDocument)
  <2>1. CASE a = "labels"
    <3>1. st' = IF d = st.pdfDocument THEN DO!SetPageLabels(w, d) ELSE w
      BY <1>1, <1>2, <1>4, <2>1 DEF DO!PageLabels
    <3>2. st' = w \/ (st' = [w EXCEPT !.labels = d] /\ d = st.pdfDocument)
      BY <3>1 DEF DO!SetPageLabels
    <3> QED BY <1>6, <3>2 DEF DSteady, DO!Start
  <2>2. CASE a = "meta"
    <3>1. PICK i : i = IF d = st.pdfDocument THEN d ELSE st.info
      OBVIOUS
    <3>2. DOMAIN st = DOMAIN DO!Start
      BY DAlive
    <3>3. st' = [w EXCEPT !.info = i]
      BY <1>1, <1>2, <1>4, <2>2, <3>1, <3>2 DEF DO!Metadata, DO!Start
    <3>4. i = w.info \/ (i = d /\ d = st.pdfDocument)
      BY <1>5, <3>1
    <3> QED BY <1>6, <3>3, <3>4 DEF DSteady, DO!Start
  <2> QED BY <2>1, <2>2
<1>8. d = st.pdfDocument => d = st.viewer /\ st.viewer \notin st.destroyed
  BY <1>3, DAlive DEF DO!Sound, DO!AnswersExpected
<1>9. DSteady(st, st') /\ (st'.closing = "saving" => st'.saveInProgress)
  BY <1>5, <1>7 DEF DSteady
<1>10. DO!Sound(st')
  <2>1. /\ st'.flight \subseteq st.flight /\ (\A e, p : <<e, "page", p>> \in st.flight => <<e, "page", p>> \in st'.flight)
        /\ st'.pagesCapability = st.pagesCapability
    BY <1>3, <1>5, <1>7
  <2>2. /\ st'.info = st.info \/ (st'.info = st.viewer /\ st.viewer \notin st.destroyed)
        /\ st'.labels = st.labels \/ (st'.labels = st.viewer /\ st.viewer \notin st.destroyed)
    BY <1>5, <1>7, <1>8
  <2>3. <<st'.viewer, "rest", 0>> \in st.flight => <<st'.viewer, "rest", 0>> \in st'.flight
    BY <1>3, <1>5, <1>7
  <2>4. st'.views /\ <<st'.viewer, "rest", 0>> \notin st'.flight => st'.history = st'.viewer /\ st'.initial = st'.viewer
    <3>1. st'.history = st.history /\ st'.initial = st.initial /\ st'.viewer = st.viewer /\ st'.views = st.views
      BY <1>5, <1>7, <1>9 DEF DSteady
    <3> QED BY <2>3, <3>1 DEF DO!Sound, DO!ViewerSound
  <2> QED BY <1>9, <2>1, <2>2, <2>4, DFewer
<1> QED BY <1>9, <1>10 DEF DKept, DO!ChangesSaved, DSteady

(* An edit. *)
LEMMA DModify == ASSUME DO!Sound(st), DO!Modify PROVE DKept
<1>1. st' = [st EXCEPT !.modified = TRUE] /\ DOMAIN st = DOMAIN DO!Start /\ st.closing = "no"
  BY DAlive DEF DO!Modify
<1>2. /\ DSteady(st, st') /\ st'.flight = st.flight /\ st'.info = st.info /\ st'.labels = st.labels
      /\ st'.history = st.history /\ st'.initial = st.initial /\ st'.pagesCapability = st.pagesCapability
      /\ st'.viewer = st.viewer /\ st'.views = st.views /\ st'.closing = "no" /\ st'.pdfDocument = st.pdfDocument
  BY <1>1 DEF DSteady, DO!Start
<1>3. st'.views /\ <<st'.viewer, "rest", 0>> \notin st'.flight => st'.history = st'.viewer /\ st'.initial = st'.viewer
  BY <1>2 DEF DO!Sound, DO!ViewerSound
<1>4. DO!Sound(st')
  BY <1>2, <1>3, DFewer
<1> QED BY <1>2, <1>4 DEF DKept, DO!ChangesSaved

(* The save button. *)
LEMMA DSaveClick == ASSUME DO!Sound(st), DO!SaveClick PROVE DKept
<1>1. st' = DO!Save(st) /\ DOMAIN st = DOMAIN DO!Start /\ st.pdfDocument # 0 /\ st.closing = "no"
  BY DAlive DEF DO!SaveClick
<1>2. DSaving(st, st')
  BY <1>1, DSave
<1>3. DO!Current(st') = DO!Current(st)
  BY <1>2 DEF DSaving, DO!Current
<1>4. DO!Shape(st') /\ DO!OneAfterTheOther(st')
  BY <1>1, <1>2, <1>3 DEF DSaving, DViewer, DO!Sound, DO!Shape, DO!OneAfterTheOther
<1>5. DO!Sound(st')
  <2>1. /\ DOMAIN st' = DOMAIN DO!Start /\ st'.destroyed = st.destroyed /\ st'.left = st.left
        /\ st'.history = st.history /\ st'.initial = st.initial /\ st'.info = st.info
        /\ st'.pdfDocument = st.pdfDocument /\ st'.link = st.link /\ DViewer(st, st')
        /\ st'.flight = IF st.pdfDocument \in st.destroyed THEN st.flight ELSE st.flight \cup {<<st.pdfDocument, "save", 0>>}
    BY <1>2 DEF DSaving
  <2> QED BY <1>1, <1>3, <1>4, <2>1, DMore
<1> QED BY <1>1, <1>2, <1>5 DEF DKept, DO!ChangesSaved, DSaving

(* The end of a save, after which a document that waits for it is closed. *)
LEMMA DSaved == ASSUME DO!Sound(st), NEW d, DO!Saved(d) PROVE DKept
<1>1. PICK f : f = <<d, "save", 0>>
  OBVIOUS
<1>2. f \in st.flight /\ f[1] = d /\ f[2] = "save" /\ \A e, p : <<e, "page", p>> # f /\ <<e, "rest", 0>> # f
  BY <1>1 DEF DO!Saved
<1>3. PICK m : m = IF d = st.pdfDocument THEN FALSE ELSE st.modified
  OBVIOUS
<1>4. PICK g : g = st.flight \ {f}
  OBVIOUS
<1>5. PICK w : w = [st EXCEPT !.flight = g, !.saveInProgress = FALSE, !.modified = m]
  OBVIOUS
<1>6. st' = IF st.closing = "saving" THEN DO!CloseNow(w) ELSE w
  BY <1>1, <1>3, <1>4, <1>5 DEF DO!Saved
<1>7. DOMAIN st = DOMAIN DO!Start /\ DO!Shape(st)
  BY DAlive
<1>8. /\ DSteady(st, w) /\ w.flight = g /\ w.info = st.info /\ w.labels = st.labels
      /\ w.history = st.history /\ w.initial = st.initial /\ w.pagesCapability = st.pagesCapability
  BY <1>5, <1>7 DEF DSteady, DO!Start
<1>9. CASE st.closing # "saving"
  <2>1. st' = w
    BY <1>6, <1>9
  <2>2. /\ st'.flight \subseteq st.flight /\ (\A e, p : <<e, "page", p>> \in st.flight => <<e, "page", p>> \in st'.flight)
        /\ st'.pagesCapability = st.pagesCapability /\ st'.info = st.info /\ st'.labels = st.labels
        /\ st'.closing # "saving" /\ DSteady(st, st')
    BY <1>2, <1>4, <1>8, <1>9, <2>1 DEF DSteady
  <2>3. <<st'.viewer, "rest", 0>> \in st.flight => <<st'.viewer, "rest", 0>> \in st'.flight
    BY <1>2, <1>4, <1>8, <2>1
  <2>4. st'.views /\ <<st'.viewer, "rest", 0>> \notin st'.flight => st'.history = st'.viewer /\ st'.initial = st'.viewer
    <3>1. st'.history = st.history /\ st'.initial = st.initial /\ st'.viewer = st.viewer /\ st'.views = st.views
      BY <1>8, <2>1 DEF DSteady
    <3> QED BY <2>3, <3>1 DEF DO!Sound, DO!ViewerSound
  <2>5. DO!Sound(st')
    BY <2>2, <2>4, DFewer
  <2> QED BY <2>2, <2>5 DEF DKept, DO!ChangesSaved, DSteady
<1>10. CASE st.closing = "saving"
  <2>1. /\ st.opening = st.opens /\ st.opens >= 2 /\ st.opens \in Nat /\ DO!Current(st) = st.opens - 1
        /\ st.pdfLoadingTask = st.opens - 1 /\ st.destroyed = 1 .. st.opens - 2 /\ st.saveInProgress
    BY <1>7, <1>10, OpeningAssumption DEF DO!Sound, DO!OneAfterTheOther, DO!Current, DO!Shape, DO!Maybe
  <2>2. /\ w.opening = w.opens /\ w.opens >= 2 /\ w.pdfLoadingTask = w.opens - 1 /\ w.destroyed = 1 .. w.opens - 2
    BY <1>8, <2>1 DEF DSteady
  <2>3. DO!Shape(w)
    BY <1>7, <1>8 DEF DSteady, DO!Shape
  <2>4. w.viewer = w.pdfDocument /\ (w.viewer = 0 => DBlank(w))
    BY <1>7, <1>8 DEF DSteady, DBlank, DO!Sound, DO!ViewerSound, DO!Shape
  <2>5. \A h \in w.flight : h[1] = w.opens - 1 /\ (h[2] = "load" => w.flight = {h})
    <3>1. ASSUME NEW h \in g PROVE h[1] = st.opens - 1 /\ h[2] # "load"
      <4>1. h[2] = "load" => st.flight = {h}
        BY <1>4 DEF DO!Sound, DO!AnswersExpected
      <4>2. h[2] # "load"
        BY <1>2, <1>4, <4>1
      <4> QED BY <1>4, <2>1, <4>2 DEF DO!Sound, DO!AnswersExpected
    <3> QED BY <1>8, <3>1 DEF DSteady
  <2>6. DCounted(w)
    <3>1. \A e : DO!Pending(w, e) = DO!Pending(st, e)
      BY <1>2, <1>4, <1>8 DEF DO!Pending
    <3>2. DCounted(st) /\ w.left = st.left /\ st.destroyed \subseteq w.destroyed
      BY <1>8, DAlive DEF DSteady
    <3> QED BY <3>1, <3>2, DStillCounted
  <2>7. ~w.early /\ w.pagesCapability = "resolved" => w.viewer # 0
    BY <1>8 DEF DO!Sound, DO!PromiseSound, DSteady
  <2>8. DClosable(w)
    BY <2>2, <2>3, <2>4, <2>5, <2>6, <2>7 DEF DClosable
  <2>9. DO!Sound(st')
    BY <1>6, <1>10, <2>8, DCloseNow
  <2> QED BY <2>1, <2>9 DEF DKept, DO!ChangesSaved
<1> QED BY <1>9, <1>10

(* The first page: the views are made, for the document of the viewer only. *)
LEMMA DFirstPage == ASSUME DO!Sound(st), NEW d, NEW ok \in BOOLEAN, DO!FirstPage(d, ok) PROVE DKept
<1>1. PICK f : f = <<d, "first", 0>>
  OBVIOUS
<1>2. f \in st.flight /\ f[1] = d /\ f[2] = "first" /\ (\A e, p : <<e, "page", p>> # f /\ <<e, "rest", 0>> # f) /\ (ok => d \notin st.destroyed)
  BY <1>1 DEF DO!FirstPage
<1>3. PICK w : w = [st EXCEPT !.flight = @ \ {f}]
  OBVIOUS
<1>4. /\ DSteady(st, w) /\ w.flight = st.flight \ {f} /\ w.saveInProgress = st.saveInProgress
      /\ w.info = st.info /\ w.labels = st.labels /\ w.history = st.history /\ w.initial = st.initial
      /\ w.pagesCapability = st.pagesCapability /\ (w.closing = "saving" => w.saveInProgress)
  BY <1>2, <1>3, DCame
<1>5. DOMAIN w = DOMAIN DO!Start /\ w.viewer = st.viewer
  BY <1>4 DEF DSteady
<1>6. CASE ~ok \/ d # st.viewer
  <2>1. PICK c : c = IF w.pagesCapability = "pending" THEN "rejected" ELSE w.pagesCapability
    OBVIOUS
  <2>2. PICK b : b = (w.failed \/ d = st.viewer)
    OBVIOUS
  <2>3. st' = w \/ st' = [w EXCEPT !.pagesCapability = c, !.failed = b]
    BY <1>1, <1>3, <1>6, <2>1, <2>2 DEF DO!FirstPage
  <2>4. /\ DSteady(w, st') /\ st'.flight = w.flight /\ st'.saveInProgress = w.saveInProgress /\ st'.info = w.info
        /\ st'.labels = w.labels /\ st'.history = w.history /\ st'.initial = w.initial
        /\ st'.pagesCapability = w.pagesCapability \/ st'.pagesCapability = "rejected"
    BY <1>5, <2>1, <2>3 DEF DSteady, DO!Start
  <2>5. DSteady(st, st') /\ (st'.closing = "saving" => st'.saveInProgress)
    BY <1>4, <2>4 DEF DSteady
  <2>6. /\ st'.flight \subseteq st.flight /\ (\A e, p : <<e, "page", p>> \in st.flight => <<e, "page", p>> \in st'.flight)
        /\ (<<st'.viewer, "rest", 0>> \in st.flight => <<st'.viewer, "rest", 0>> \in st'.flight)
    BY <1>2, <1>4, <2>4
  <2>7. st'.views /\ <<st'.viewer, "rest", 0>> \notin st'.flight => st'.history = st'.viewer /\ st'.initial = st'.viewer
    <3>1. st'.history = st.history /\ st'.initial = st.initial /\ st'.viewer = st.viewer /\ st'.views = st.views
      BY <1>4, <2>4, <2>5 DEF DSteady
    <3> QED BY <2>6, <3>1 DEF DO!Sound, DO!ViewerSound
  <2>8. DO!Sound(st')
    BY <1>4, <2>4, <2>5, <2>6, <2>7, DFewer
  <2> QED BY <2>5, <2>8 DEF DKept, DO!ChangesSaved, DSteady
<1>7. CASE ok /\ d = st.viewer
  <2>1. d \notin st.destroyed /\ d # 0 /\ d = DO!Current(st) /\ DO!Shape(st)
    BY <1>2, <1>7, DAlive DEF DO!Sound, DO!AnswersExpected
  <2>2. PICK ps : ps = [st.pages EXCEPT ![1] = d]
    OBVIOUS
  <2>3. PICK x : x = [w EXCEPT !.views = TRUE, !.pages[1] = d]
    OBVIOUS
  <2>4. w.pages = st.pages
    BY <1>4 DEF DSteady
  <2>5. x = [w EXCEPT !.views = TRUE, !.pages = ps]
    BY <1>5, <2>2, <2>3, <2>4 DEF DO!Start
  <2>6. /\ DApplication(w, x) /\ x.viewer = w.viewer /\ x.pages = ps /\ x.views = TRUE /\ x.labels = w.labels
        /\ x.pagesCapability = w.pagesCapability /\ x.early = w.early /\ x.find = w.find
        /\ x.pdfDocument = w.pdfDocument /\ x.link = w.link /\ x.flight = w.flight
    BY <1>5, <2>5 DEF DApplication, DO!Start
  <2>7. st' = DO!Ask(x, d, {"rest"})
    BY <1>1, <1>3, <1>7, <2>3 DEF DO!FirstPage
  <2>8. DOMAIN x = DOMAIN DO!Start /\ x.destroyed = st.destroyed
    BY <1>4, <2>6 DEF DApplication, DSteady
  <2>9. DAsked(x, d, {"rest"}, st')
    BY <2>7, <2>8, DAsk
  <2>10. PICK h : h = <<d, "rest", 0>>
    OBVIOUS
  <2>11. h[1] = d /\ h[2] = "rest" /\ \A e, p : <<e, "page", p>> # h
    BY <2>10
  <2>12. {<<d, a, 0>> : a \in {"rest"}} = {h}
    BY <2>10
  <2>13. st'.flight = (st.flight \ {f}) \cup {h}
    BY <1>4, <2>1, <2>6, <2>8, <2>9, <2>12 DEF DAsked
  <2>14. /\ DOMAIN st' = DOMAIN DO!Start /\ st'.opens = st.opens /\ st'.opening = st.opening /\ st'.closing = st.closing
         /\ st'.pdfLoadingTask = st.pdfLoadingTask /\ st'.destroyed = st.destroyed /\ st'.left = st.left
         /\ st'.info = st.info /\ st'.labels = st.labels /\ st'.saveInProgress = st.saveInProgress
         /\ st'.viewer = st.viewer /\ st'.pdfDocument = st.pdfDocument /\ st'.link = st.link /\ st'.find = st.find
         /\ st'.early = st.early /\ st'.pagesCapability = st.pagesCapability /\ st'.pages = ps /\ st'.views = TRUE
    BY <1>4, <2>6, <2>9 DEF DAsked, DApplication, DViewer, DSteady
  <2>15. DO!Current(st') = DO!Current(st)
    BY <2>14 DEF DO!Current
  <2>16. DO!Shape(st') /\ DO!OneAfterTheOther(st')
    BY <2>2, <2>14, <2>15 DEF DO!Sound, DO!Shape, DO!OneAfterTheOther
  <2>17. DO!AnswersExpected(st')
    <3>1. ASSUME NEW g \in st.flight
          PROVE  /\ g[1] = DO!Current(st) /\ g[2] # "load" /\ g[1] \notin st.destroyed /\ g[1] = st.viewer
                 /\ (g[2] = "page" => st.find = g[1])
      BY <1>7, <2>1 DEF DO!Sound, DO!AnswersExpected
    <3> QED BY <1>7, <2>1, <2>11, <2>13, <2>14, <2>15, <3>1 DEF DO!AnswersExpected
  <2>18. DO!ViewerSound(st')
    <3>1. \A p \in DO!Page : ps[p] \in {0, st.viewer}
      BY <1>7, <2>1, <2>2 DEF DO!Sound, DO!ViewerSound, DO!Shape
    <3>2. <<st'.viewer, "rest", 0>> \in st'.flight
      BY <1>7, <2>10, <2>13, <2>14
    <3> QED BY <1>7, <2>1, <2>14, <2>15, <3>1, <3>2 DEF DO!Sound, DO!ViewerSound
  <2>19. \A e : DO!Pending(st', e) = DO!Pending(st, e)
    BY <1>2, <2>11, <2>13 DEF DO!Pending
  <2>20. DCounted(st')
    BY <2>14, <2>19, DAlive, DStillCounted
  <2>21. DO!PromiseSound(st')
    BY <2>14, <2>19, <2>20 DEF DO!Sound, DO!PromiseSound, DCounted
  <2> QED BY <2>14, <2>16, <2>17, <2>18, <2>21 DEF DKept, DO!Sound, DO!ChangesSaved
<1> QED BY <1>6, <1>7

-----------------------------------------------------------------------------
(* Counting, inside the module and outside. *)
LEMMA DCardinality == ASSUME NEW S PROVE DO!Cardinality(S) = Cardinality(S)
BY DEF DO!Cardinality, Cardinality

(* The pages that are still to come are finitely many. *)
LEMMA DPendingFinite == ASSUME NEW w, NEW d PROVE IsFiniteSet(DO!Pending(w, d)) /\ DO!Pending(w, d) \subseteq 2 .. DocPages
<1>1. DO!Pending(w, d) \subseteq 2 .. DocPages
  BY DEF DO!Pending
<1>2. IsFiniteSet(2 .. DocPages)
  BY OpeningAssumption, FS_Interval
<1> QED BY <1>1, <1>2, FS_Subset

(* A page was drawn, and all others are fetched. *)
LEMMA DOnePageRendered == ASSUME DO!Sound(st), NEW d \in DO!Doc, DO!OnePageRendered(d) PROVE DKept
<1>1. st.viewer = d /\ st.views /\ st.find # d /\ d # 0
  BY OpeningAssumption DEF DO!OnePageRendered, DO!Draws, DO!Doc
<1>2. d \notin st.destroyed /\ d = DO!Current(st) /\ DOMAIN st = DOMAIN DO!Start /\ DO!Shape(st)
  BY <1>1, DAlive
<1>3. PICK l : l = [st.left EXCEPT ![d] = DocPages - 1]
  OBVIOUS
<1>4. DOMAIN l = DO!Doc /\ l[d] = DocPages - 1 /\ \A e \in DO!Doc : e # d => l[e] = st.left[e]
  BY <1>2, <1>3 DEF DO!Shape
<1>5. PICK g : g = {<<d, "page", p>> : p \in 2 .. DocPages}
  OBVIOUS
<1>6. PICK fl : fl = st.flight \cup g
  OBVIOUS
<1>7. st' = [st EXCEPT !.find = d, !.left = l, !.flight = fl]
  BY <1>2, <1>3, <1>5, <1>6 DEF DO!OnePageRendered, DO!Start
<1>8. /\ DOMAIN st' = DOMAIN DO!Start /\ st'.opens = st.opens /\ st'.opening = st.opening /\ st'.closing = st.closing
      /\ st'.pdfLoadingTask = st.pdfLoadingTask /\ st'.destroyed = st.destroyed /\ st'.left = l
      /\ st'.info = st.info /\ st'.labels = st.labels /\ st'.saveInProgress = st.saveInProgress
      /\ st'.history = st.history /\ st'.initial = st.initial
      /\ st'.viewer = st.viewer /\ st'.pdfDocument = st.pdfDocument /\ st'.link = st.link /\ st'.find = d
      /\ st'.early = st.early /\ st'.pagesCapability = st.pagesCapability /\ st'.pages = st.pages /\ st'.views = st.views
      /\ st'.flight = fl
  BY <1>2, <1>7 DEF DO!Start
<1>9. DO!Current(st') = DO!Current(st)
  BY <1>8 DEF DO!Current
<1>10. DO!Shape(st') /\ DO!OneAfterTheOther(st')
  BY <1>4, <1>8, <1>9 DEF DO!Sound, DO!Shape, DO!OneAfterTheOther
<1>11. \A h \in g : h[1] = d /\ h[2] = "page"
  BY <1>5
<1>12. DO!AnswersExpected(st')
  <2>1. ASSUME NEW h \in st.flight PROVE h[1] = d /\ h[2] # "load"
    BY <1>1, <1>2 DEF DO!Sound, DO!AnswersExpected
  <2> QED BY <1>1, <1>2, <1>6, <1>8, <1>9, <1>11, <2>1 DEF DO!AnswersExpected
<1>13. DO!ViewerSound(st')
  <2>1. <<st.viewer, "rest", 0>> \in st.flight => <<st.viewer, "rest", 0>> \in fl
    BY <1>6
  <2>2. st.viewer \notin st.destroyed \cup {0}
    BY <1>1, <1>2
  <2> QED BY <1>1, <1>8, <1>9, <2>1, <2>2 DEF DO!Sound, DO!ViewerSound
<1>14. DCounted(st')
  <2>1. ASSUME NEW e \in DO!Doc, e \notin st'.destroyed PROVE st'.left[e] = DO!Cardinality(DO!Pending(st', e))
    <3>1. CASE e = d
      <4>1. \A p \in 2 .. DocPages : <<d, "page", p>> \in fl
        BY <1>5, <1>6
      <4>2. DO!Pending(st', e) = 2 .. DocPages
        BY <1>8, <3>1, <4>1 DEF DO!Pending
      <4>3. Cardinality(2 .. DocPages) = DocPages - 1
        BY OpeningAssumption, FS_Interval
      <4>4. DO!Cardinality(DO!Pending(st', e)) = DocPages - 1
        BY <4>2, <4>3, DCardinality
      <4> QED BY <1>4, <1>8, <3>1, <4>4
    <3>2. CASE e # d
      <4>1. \A p : <<e, "page", p>>[1] = e
        OBVIOUS
      <4>2. \A p : <<e, "page", p>> \notin g
        BY <1>11, <3>2, <4>1
      <4>3. DO!Pending(st', e) = DO!Pending(st, e)
        BY <1>6, <1>8, <4>2 DEF DO!Pending
      <4>4. st.left[e] = DO!Cardinality(DO!Pending(st, e))
        BY <1>8, <2>1, DAlive DEF DCounted
      <4>5. DO!Cardinality(DO!Pending(st, e)) = DO!Cardinality(DO!Pending(st', e))
        BY <4>3, Zenon
      <4> QED BY <1>4, <1>8, <3>2, <4>4, <4>5
    <3> QED BY <3>1, <3>2
  <2> QED BY <2>1 DEF DCounted
<1>15. DO!PromiseSound(st')
  <2>1. ~(~st.early /\ st.pagesCapability = "resolved")
    BY <1>1 DEF DO!Sound, DO!PromiseSound
  <2> QED BY <1>8, <1>14, <2>1 DEF DO!PromiseSound, DCounted
<1> QED BY <1>8, <1>10, <1>12, <1>13, <1>15 DEF DKept, DO!Sound, DO!ChangesSaved

(* One of the other pages, which goes into whatever view there is. *)
LEMMA DPageFetched ==
  ASSUME DO!Sound(st), NEW d \in DO!Doc, NEW p \in 2 .. DocPages, NEW ok \in BOOLEAN, DO!PageFetched(d, p, ok) PROVE DKept
<1>1. PICK f : f = <<d, "page", p>>
  OBVIOUS
<1>2. f \in st.flight /\ f[1] = d /\ f[2] = "page" /\ (\A e : <<e, "rest", 0>> # f) /\ (d \in st.destroyed => ~ok)
  BY <1>1 DEF DO!PageFetched
<1>3. /\ d = DO!Current(st) /\ (d \notin st.destroyed => st.viewer = d /\ st.find = d)
      /\ (d \in st.destroyed => st.viewer = 0 /\ st.early)
  BY <1>2 DEF DO!Sound, DO!AnswersExpected
<1>4. DOMAIN st = DOMAIN DO!Start /\ DO!Shape(st) /\ DCounted(st)
  BY DAlive
<1>5. PICK n : n = st.left[d] - 1
  OBVIOUS
<1>6. PICK l : l = [st.left EXCEPT ![d] = n]
  OBVIOUS
<1>7. DOMAIN l = DO!Doc /\ l[d] = n /\ \A e \in DO!Doc : e # d => l[e] = st.left[e]
  BY <1>4, <1>6 DEF DO!Shape
<1>8. PICK fl : fl = st.flight \ {f}
  OBVIOUS
<1>9. PICK w : w = [st EXCEPT !.flight = fl, !.left = l]
  OBVIOUS
<1>10. w = [st EXCEPT !.flight = @ \ {f}, !.left[d] = @ - 1]
  BY <1>4, <1>5, <1>6, <1>8, <1>9 DEF DO!Start
<1>11. DOMAIN w = DOMAIN DO!Start /\ w.pages = st.pages
  BY <1>4, <1>9 DEF DO!Start
<1>12. PICK ps : ps = IF ok /\ st.pages[p] = 0 THEN [st.pages EXCEPT ![p] = d] ELSE st.pages
  OBVIOUS
<1>13. PICK x : x = IF ok /\ w.pages[p] = 0 THEN [w EXCEPT !.pages[p] = d] ELSE w
  OBVIOUS
<1>14. /\ DOMAIN x = DOMAIN DO!Start /\ x.opens = st.opens /\ x.opening = st.opening /\ x.closing = st.closing
      /\ x.pdfLoadingTask = st.pdfLoadingTask /\ x.destroyed = st.destroyed /\ x.left = l
      /\ x.info = st.info /\ x.labels = st.labels /\ x.saveInProgress = st.saveInProgress
      /\ x.history = st.history /\ x.initial = st.initial
      /\ x.viewer = st.viewer /\ x.pdfDocument = st.pdfDocument /\ x.link = st.link /\ x.find = st.find
      /\ x.early = st.early /\ x.pagesCapability = st.pagesCapability /\ x.pages = ps /\ x.views = st.views
      /\ x.flight = fl
  <2>1. CASE ok /\ st.pages[p] = 0
    <3>1. x = [w EXCEPT !.pages = ps]
      BY <1>11, <1>12, <1>13, <2>1 DEF DO!Start
    <3> QED BY <1>4, <1>9, <3>1 DEF DO!Start
  <2>2. CASE ~(ok /\ st.pages[p] = 0)
    <3>1. x = w /\ ps = st.pages
      BY <1>11, <1>12, <1>13, <2>2
    <3> QED BY <1>4, <1>9, <3>1 DEF DO!Start
  <2> QED BY <2>1, <2>2
<1>17. PICK c : c = IF n = 0 /\ st.pagesCapability = "pending" THEN "resolved" ELSE st.pagesCapability
  OBVIOUS
<1>18. st' = IF x.left[d] = 0 /\ x.pagesCapability = "pending" THEN [x EXCEPT !.pagesCapability = "resolved"] ELSE x
  BY <1>1, <1>10, <1>13 DEF DO!PageFetched
<1>20. /\ DOMAIN st' = DOMAIN DO!Start /\ st'.opens = st.opens /\ st'.opening = st.opening /\ st'.closing = st.closing
      /\ st'.pdfLoadingTask = st.pdfLoadingTask /\ st'.destroyed = st.destroyed /\ st'.left = l
      /\ st'.info = st.info /\ st'.labels = st.labels /\ st'.saveInProgress = st.saveInProgress
      /\ st'.history = st.history /\ st'.initial = st.initial
      /\ st'.viewer = st.viewer /\ st'.pdfDocument = st.pdfDocument /\ st'.link = st.link /\ st'.find = st.find
      /\ st'.early = st.early /\ st'.pagesCapability = c /\ st'.pages = ps /\ st'.views = st.views
      /\ st'.flight = fl
  <2>1. x.left[d] = n
    BY <1>7, <1>14
  <2>2. CASE n = 0 /\ st.pagesCapability = "pending"
    <3>1. st' = [x EXCEPT !.pagesCapability = "resolved"] /\ c = "resolved"
      BY <1>14, <1>17, <1>18, <2>1, <2>2
    <3> QED BY <1>14, <3>1 DEF DO!Start
  <2>3. CASE ~(n = 0 /\ st.pagesCapability = "pending")
    <3>1. st' = x /\ c = st.pagesCapability
      BY <1>14, <1>17, <1>18, <2>1, <2>3
    <3> QED BY <1>14, <3>1
  <2> QED BY <2>2, <2>3
<1>21. DO!Current(st') = DO!Current(st)
  BY <1>20 DEF DO!Current
<1>22. DOMAIN ps = DO!Page
  BY <1>4, <1>12 DEF DO!Shape
<1>23. DO!Shape(st') /\ DO!OneAfterTheOther(st')
  BY <1>7, <1>20, <1>21, <1>22 DEF DO!Sound, DO!Shape, DO!OneAfterTheOther
<1>24. DO!AnswersExpected(st')
  <2>1. ASSUME NEW g \in fl, g[2] = "load" PROVE fl = {g}
    BY <1>8, <2>1 DEF DO!Sound, DO!AnswersExpected
  <2> QED BY <1>8, <1>20, <1>21, <2>1 DEF DO!Sound, DO!AnswersExpected
<1>25. DO!ViewerSound(st')
  <2>1. <<st.viewer, "rest", 0>> \in st.flight => <<st.viewer, "rest", 0>> \in fl
    BY <1>2, <1>8
  <2>2. \A q \in DO!Page : ps[q] \in {0, st.viewer}
    <3>1. \A q \in DO!Page : st.pages[q] \in {0, st.viewer}
      BY DEF DO!Sound, DO!ViewerSound
    <3>2. ok => d = st.viewer
      BY <1>2, <1>3
    <3> QED BY <1>4, <1>12, <3>1, <3>2 DEF DO!Shape
  <2> QED BY <1>20, <1>21, <2>1, <2>2 DEF DO!Sound, DO!ViewerSound
<1>26. DO!Pending(st', d) = DO!Pending(st, d) \ {p} /\ p \in DO!Pending(st, d)
  <2>1. \A q : <<d, "page", q>> = f <=> q = p
    BY <1>1
  <2> QED BY <1>1, <1>2, <1>8, <1>20, <2>1 DEF DO!Pending
<1>27. d \notin st.destroyed => n = DO!Cardinality(DO!Pending(st', d)) /\ (n = 0 => DO!Pending(st', d) = {})
  <2> SUFFICES ASSUME d \notin st.destroyed
               PROVE  n = DO!Cardinality(DO!Pending(st', d)) /\ (n = 0 => DO!Pending(st', d) = {})
    OBVIOUS
  <2>1. PICK S : S = DO!Pending(st, d)
    OBVIOUS
  <2>2. PICK T : T = DO!Pending(st', d)
    OBVIOUS
  <2>3. IsFiniteSet(S) /\ IsFiniteSet(T) /\ T = S \ {p} /\ p \in S
    BY <1>26, <2>1, <2>2, DPendingFinite
  <2>4. Cardinality(T) = Cardinality(S) - 1
    BY <2>3, FS_RemoveElement
  <2>5. st.left[d] = Cardinality(S)
    BY <1>4, <2>1, DCardinality DEF DCounted
  <2>6. n = Cardinality(T)
    BY <1>5, <2>4, <2>5
  <2>7. n = 0 => T = {}
    BY <2>3, <2>6, FS_EmptySet
  <2>8. n = DO!Cardinality(T)
    BY <2>6, DCardinality
  <2> QED BY <2>2, <2>7, <2>8
<1>28. DCounted(st')
  <2>1. ASSUME NEW e \in DO!Doc, e \notin st'.destroyed PROVE st'.left[e] = DO!Cardinality(DO!Pending(st', e))
    <3>1. CASE e = d
      BY <1>7, <1>20, <1>27, <2>1, <3>1
    <3>2. CASE e # d
      <4>1. \A q : <<e, "page", q>> # f
        BY <1>1, <3>2
      <4>2. DO!Pending(st', e) = DO!Pending(st, e)
        BY <1>8, <1>20, <4>1 DEF DO!Pending
      <4>3. st.left[e] = DO!Cardinality(DO!Pending(st, e))
        BY <1>4, <1>20, <2>1 DEF DCounted
      <4>4. DO!Cardinality(DO!Pending(st, e)) = DO!Cardinality(DO!Pending(st', e))
        BY <4>2, Zenon
      <4> QED BY <1>7, <1>20, <3>2, <4>3, <4>4
    <3> QED BY <3>1, <3>2
  <2> QED BY <2>1 DEF DCounted
<1>29. DO!PromiseSound(st')
  <2>1. ASSUME ~st'.early, st'.pagesCapability = "resolved"
        PROVE  st'.viewer # 0 /\ st'.find = st'.viewer /\ DO!Pending(st', st'.viewer) = {}
    <3>1. d \notin st.destroyed /\ st.viewer = d /\ st.find = d
      BY <1>3, <1>20, <2>1
    <3>2. st.pagesCapability # "resolved"
      BY <1>20, <1>26, <2>1, <3>1 DEF DO!Sound, DO!PromiseSound
    <3>3. n = 0
      BY <1>17, <1>20, <2>1, <3>2
    <3>4. d # 0
      BY OpeningAssumption DEF DO!Doc
    <3> QED BY <1>20, <1>27, <3>1, <3>3, <3>4
  <2> QED BY <1>28, <2>1 DEF DO!PromiseSound, DCounted
<1> QED BY <1>20, <1>23, <1>24, <1>25, <1>29 DEF DKept, DO!Sound, DO!ChangesSaved

-----------------------------------------------------------------------------
(* The application begins with the invariant. *)
LEMMA DInit == DO!Init => DO!IInv
<1> SUFFICES ASSUME st = DO!Start PROVE DO!Sound(st)
  BY DEF DO!Init, DO!IInv
<1>1. /\ DOMAIN st = DOMAIN DO!Start /\ st.opens = 0 /\ st.opening = 0 /\ st.closing = "no" /\ st.pdfLoadingTask = 0
      /\ st.destroyed = {} /\ st.pdfDocument = 0 /\ st.viewer = 0 /\ st.link = 0 /\ st.flight = {}
      /\ st.pages = DO!NoPages /\ st.views = FALSE /\ st.left = [d \in DO!Doc |-> 0] /\ st.pagesCapability = "pending"
      /\ st.find = 0 /\ st.info = 0 /\ st.labels = 0
  BY DEF DO!Start
<1>2. DO!Current(st) = 0
  BY <1>1 DEF DO!Current
<1>3. DO!Shape(st)
  BY <1>1, OpeningAssumption DEF DO!Shape, DO!NoPages, DO!Maybe
<1>4. DO!OneAfterTheOther(st)
  BY <1>1, <1>2 DEF DO!OneAfterTheOther
<1>5. DO!AnswersExpected(st)
  BY <1>1 DEF DO!AnswersExpected
<1>6. DO!ViewerSound(st)
  BY <1>1, <1>2 DEF DO!ViewerSound, DO!NoPages
<1>7. DO!PromiseSound(st)
  <2>1. \A d : DO!Pending(st, d) = {}
    BY <1>1 DEF DO!Pending
  <2>2. Cardinality({}) = 0
    BY FS_EmptySet
  <2>3. \A d : DO!Cardinality(DO!Pending(st, d)) = 0
    BY <2>1, <2>2, DCardinality
  <2> QED BY <1>1, <2>3 DEF DO!PromiseSound
<1> QED BY <1>3, <1>4, <1>5, <1>6, <1>7 DEF DO!Sound

(* Every step of the application keeps the invariant, and saves what was changed. *)
LEMMA DStep == DO!IInv /\ DO!Next => DKept
<1> SUFFICES ASSUME DO!Sound(st), DO!Next PROVE DKept
  BY DEF DO!IInv
<1>1. ASSUME NEW d \in DO!Doc, NEW ok \in BOOLEAN, DO!Answered(d, ok) PROVE DKept
  BY <1>1, DLoaded, DFirstPage, DInitialView, DDetails, DPageFetched DEF DO!Answered
<1> QED BY <1>1, DOpen, DDestroyed, DModify, DSaveClick, DOnePageRendered, DSaved DEF DO!Next

(* What the invariant says about the document that is shown. *)
LEMMA DProps ==
  ASSUME DO!IInv PROVE DO!PagesOfDocument /\ DO!SameDocument /\ DO!DetailsAreOwn /\ DO!PagesPromiseHonest
<1>1. DO!Sound(st)
  BY DEF DO!IInv
<1>2. DO!PagesOfDocument /\ DO!SameDocument /\ DO!DetailsAreOwn
  BY <1>1 DEF DO!Sound, DO!ViewerSound, DO!PagesOfDocument, DO!SameDocument, DO!DetailsAreOwn
<1>3. DO!PagesPromiseHonest
  BY <1>1 DEF DO!Sound, DO!PromiseSound, DO!Pending, DO!PagesPromiseHonest
<1> QED BY <1>2, <1>3

-----------------------------------------------------------------------------
(* PDFScriptingManager: the sandbox of a document. *)

(* All that the invariant is about but the pages' events. *)
SFrame(u, r) ==
  /\ DOMAIN r = DOMAIN SC!Start /\ r.viewer = u.viewer /\ r.docs = u.docs /\ r.page = u.page /\ r.finished = u.finished
  /\ r.pdfDocument = u.pdfDocument /\ r.scripting = u.scripting /\ r.library = u.library /\ r.setup = u.setup
  /\ r.destroy = u.destroy /\ r.destroying = u.destroying /\ r.listening = u.listening /\ r.ready = u.ready
  /\ r.made = u.made /\ r.printing = u.printing /\ r.queued = u.queued /\ r.refused = u.refused

(* No page is closed in the sandbox. *)
SNoClose(u, r) == \A p \in SC!Page : r.last[p] = "PageClose" => u.last[p] = "PageClose"

(* The invariant is kept and no page is closed in the sandbox. *)
SFine(u, r) == SC!Sound(r) /\ SNoClose(u, r)

(* Changes that the invariant does not notice. *)
LEMMA SAlike ==
  ASSUME NEW u, SC!Sound(u), NEW r, SFrame(u, r), r.visitedPages = u.visitedPages, r.last = u.last, r.asked \subseteq u.asked
  PROVE  SFine(u, r)
<1>1. SC!Shape(r) /\ SC!LastDocument(r)
  BY DEF SC!Sound, SC!Shape, SC!LastDocument, SFrame
<1>2. IF r.scripting = 0 THEN SC!Without(r) ELSE SC!WithSandbox(r)
  BY DEF SC!Sound, SC!Without, SC!WithSandbox, SFrame
<1> QED BY <1>1, <1>2 DEF SC!Sound, SFine, SNoClose

(* What a page event in the sandbox changes. *)
SDispatched(u, name, p, r) ==
  /\ SFrame(u, r) /\ r.close = u.close /\ r.asked = u.asked /\ r.closeAfter = u.closeAfter /\ r.visitedPages = u.visitedPages
  /\ r.pageOpenPending = u.pageOpenPending /\ r.willClose = u.willClose
  /\ DOMAIN r.last = SC!Page /\ r.last[p] = (IF u.scripting = 0 THEN u.last[p] ELSE name)
  /\ u.scripting = 0 => r.last = u.last
  /\ \A q \in SC!Page : q # p => r.last[q] = u.last[q]

(* dispatchEventInSandbox. *)
LEMMA SDispatch ==
  ASSUME NEW u, DOMAIN u = DOMAIN SC!Start, DOMAIN u.last = SC!Page, NEW p \in SC!Page, NEW name, NEW r, r = SC!Dispatch(u, name, p)
  PROVE  SDispatched(u, name, p, r)
<1>1. CASE u.scripting = 0
  BY <1>1 DEF SC!Dispatch, SDispatched, SFrame
<1>2. CASE u.scripting # 0
  <2>1. PICK l : l = [u.last EXCEPT ![p] = name]
    OBVIOUS
  <2>2. DOMAIN l = SC!Page /\ l[p] = name /\ \A q \in SC!Page : q # p => l[q] = u.last[q]
    BY <2>1
  <2>3. r = [u EXCEPT !.last = l]
    BY <1>2, <2>1 DEF SC!Dispatch, SC!Start
  <2> QED BY <1>2, <2>2, <2>3 DEF SDispatched, SFrame, SC!Start
<1> QED BY <1>1, <1>2

(* A page has been opened or closed: what the invariant asks of the new events. *)
LEMMA SEvents ==
  ASSUME NEW u, SC!Sound(u), NEW r, SFrame(u, r), u.scripting # 0,
         DOMAIN r.visitedPages = SC!Page, DOMAIN r.last = SC!Page, \A a \in r.asked : a \in u.asked \/ a[1] = u.docs,
         \A p \in SC!Page : /\ r.last[p] \in {"none", "PageOpen", "PageClose"}
                            /\ r.visitedPages[p] \in {"absent", "null", "asked", "done"}
                            /\ r.visitedPages[p] = "done" /\ r.pdfDocument # 0 => r.last[p] # "none"
  PROVE  SC!Sound(r)
<1>1. SC!Shape(r) /\ SC!LastDocument(r)
  BY DEF SC!Sound, SC!Shape, SC!LastDocument, SFrame
<1>2. SC!WithSandbox(r)
  BY DEF SC!Sound, SC!WithSandbox, SFrame
<1> QED BY <1>1, <1>2 DEF SC!Sound, SFrame

(* What the invariant says, in the form the proofs need it. *)
LEMMA SShape ==
  ASSUME NEW u, SC!Sound(u)
  PROVE  /\ DOMAIN u = DOMAIN SC!Start /\ DOMAIN u.setup = SC!Doc /\ DOMAIN u.visitedPages = SC!Page /\ DOMAIN u.last = SC!Page
         /\ u.docs \in Nat /\ u.page \in SC!Page /\ ~u.refused /\ SC!Shape(u) /\ SC!LastDocument(u)
         /\ u.scripting # 0 => SC!WithSandbox(u) /\ u.docs # 0 /\ u.docs \in SC!Doc
         /\ u.scripting = 0 => SC!Without(u)
<1>1. u.docs \in SC!Maybe
  BY DEF SC!Sound, SC!Shape
<1>2. u.docs \in Nat /\ (u.docs # 0 => u.docs \in SC!Doc)
  BY <1>1, ScriptingAssumption DEF SC!Maybe, SC!Doc
<1>3. u.scripting # 0 => SC!WithSandbox(u) /\ u.scripting = u.docs
  BY DEF SC!Sound, SC!WithSandbox
<1> QED BY <1>2, <1>3 DEF SC!Sound, SC!Shape

(* The opening of a page is told at once, or later. *)
LEMMA SPageOpen ==
  ASSUME NEW u, SC!Sound(u), NEW p \in SC!Page, (u.scripting # 0 /\ u.pdfDocument # 0) \/ p \notin u.finished,
         NEW r, r = SC!DispatchPageOpen(u, p)
  PROVE  SFine(u, r) /\ SFrame(u, r)
<1>1. DOMAIN u = DOMAIN SC!Start /\ DOMAIN u.visitedPages = SC!Page /\ DOMAIN u.last = SC!Page
  BY SShape
<1>2. CASE u.close = "null"
  <2>1. r = u
    BY <1>2 DEF SC!DispatchPageOpen
  <2> QED BY <1>1, <2>1 DEF SFine, SNoClose, SFrame
<1>3. CASE u.close # "null" /\ p \notin u.finished
  <2>1. PICK o : o = u.pageOpenPending \cup {p}
    OBVIOUS
  <2>2. r = [u EXCEPT !.pageOpenPending = o]
    BY <1>3, <2>1 DEF SC!DispatchPageOpen
  <2>3. SFrame(u, r) /\ r.visitedPages = u.visitedPages /\ r.last = u.last /\ r.asked = u.asked
    BY <1>1, <2>2 DEF SFrame, SC!Start
  <2> QED BY <2>3, SAlike
<1>4. CASE u.close # "null" /\ p \in u.finished
  <2>1. u.scripting # 0 /\ u.pdfDocument # 0
    BY <1>4
  <2>2. u.pdfDocument = u.docs /\ \A q \in SC!Page : /\ u.last[q] \in {"none", "PageOpen", "PageClose"}
                                                     /\ u.visitedPages[q] \in {"absent", "null", "asked", "done"}
                                                     /\ u.visitedPages[q] = "done" => u.last[q] # "none"
    BY <2>1, SShape DEF SC!WithSandbox, SC!Shape
  <2>3. PICK w : w = [u EXCEPT !.pageOpenPending = @ \ {p}]
    OBVIOUS
  <2>4. SFrame(u, w) /\ w.visitedPages = u.visitedPages /\ w.last = u.last /\ w.asked = u.asked
    BY <1>1, <2>3 DEF SFrame, SC!Start
  <2>5. r = IF u.visitedPages[p] = "absent"
            THEN [w EXCEPT !.visitedPages[p] = "asked", !.asked = @ \cup {<<u.pdfDocument, p>>}]
            ELSE SC!Dispatch([w EXCEPT !.visitedPages[p] = "done"], "PageOpen", p)
    BY <1>4, <2>3 DEF SC!DispatchPageOpen
  <2>6. DOMAIN w = DOMAIN SC!Start
    BY <2>4 DEF SFrame
  <2>7. CASE u.visitedPages[p] = "absent"
    <3>1. PICK v : v = [u.visitedPages EXCEPT ![p] = "asked"]
      OBVIOUS
    <3>2. PICK a : a = u.asked \cup {<<u.pdfDocument, p>>}
      OBVIOUS
    <3>3. r = [w EXCEPT !.visitedPages = v, !.asked = a]
      BY <2>4, <2>5, <2>6, <2>7, <3>1, <3>2 DEF SC!Start
    <3>4. SFrame(w, r) /\ r.visitedPages = v /\ r.last = w.last /\ r.asked = a
      BY <2>6, <3>3 DEF SFrame, SC!Start
    <3>5. SFrame(u, r) /\ r.last = u.last /\ r.pdfDocument = u.pdfDocument
      BY <2>4, <3>4 DEF SFrame
    <3>6. \A x \in r.asked : x \in u.asked \/ x[1] = u.docs
      BY <2>2, <3>2, <3>4
    <3>7. DOMAIN v = SC!Page /\ v[p] = "asked" /\ \A q \in SC!Page : q # p => v[q] = u.visitedPages[q]
      BY <1>1, <3>1
    <3>8. SC!Sound(r)
      BY <1>1, <2>1, <2>2, <3>4, <3>5, <3>6, <3>7, SEvents
    <3> QED BY <3>5, <3>8 DEF SFine, SNoClose
  <2>8. CASE u.visitedPages[p] # "absent"
    <3>1. PICK v : v = [u.visitedPages EXCEPT ![p] = "done"]
      OBVIOUS
    <3>2. PICK x : x = [w EXCEPT !.visitedPages = v]
      OBVIOUS
    <3>3. r = SC!Dispatch(x, "PageOpen", p)
      BY <2>4, <2>5, <2>6, <2>8, <3>1, <3>2 DEF SC!Start
    <3>4. SFrame(w, x) /\ x.visitedPages = v /\ x.last = w.last /\ x.asked = w.asked
      BY <2>6, <3>2 DEF SFrame, SC!Start
    <3>5. SFrame(u, x) /\ x.last = u.last /\ x.asked = u.asked /\ DOMAIN x = DOMAIN SC!Start /\ x.scripting = u.scripting
      BY <2>4, <3>4 DEF SFrame
    <3>6. SDispatched(x, "PageOpen", p, r)
      BY <1>1, <3>3, <3>5, SDispatch
    <3>7. SFrame(u, r) /\ r.visitedPages = v /\ r.asked = u.asked /\ DOMAIN r.last = SC!Page /\ r.last[p] = "PageOpen"
          /\ \A q \in SC!Page : q # p => r.last[q] = u.last[q]
      BY <2>1, <3>4, <3>5, <3>6 DEF SDispatched, SFrame
    <3>8. DOMAIN v = SC!Page /\ v[p] = "done" /\ \A q \in SC!Page : q # p => v[q] = u.visitedPages[q]
      BY <1>1, <3>1
    <3>9. SC!Sound(r)
      BY <2>1, <2>2, <3>7, <3>8, SEvents
    <3>10. SNoClose(u, r)
      BY <3>7 DEF SNoClose
    <3> QED BY <3>7, <3>9, <3>10 DEF SFine
  <2> QED BY <2>7, <2>8
<1> QED BY <1>2, <1>3, <1>4

(* The closing of a page is told if its opening was. *)
SClosed(u, r) ==
  /\ SC!Sound(r) /\ SFrame(u, r)
  /\ \A q \in SC!Page : r.last[q] = "PageClose" /\ u.last[q] # "PageClose" => u.last[q] = "PageOpen"

(* #dispatchPageClose keeps the invariant and closes only what was opened. *)
LEMMA SPageClose ==
  ASSUME NEW u, SC!Sound(u), NEW p \in SC!Page, u.scripting # 0, u.pdfDocument # 0, NEW r, r = SC!DispatchPageClose(u, p)
  PROVE  SClosed(u, r)
<1>1. DOMAIN u = DOMAIN SC!Start /\ DOMAIN u.visitedPages = SC!Page /\ DOMAIN u.last = SC!Page
  BY SShape
<1>2. u.pdfDocument = u.docs /\ \A q \in SC!Page : /\ u.last[q] \in {"none", "PageOpen", "PageClose"}
                                                   /\ u.visitedPages[q] \in {"absent", "null", "asked", "done"}
                                                   /\ u.visitedPages[q] = "done" => u.last[q] # "none"
  BY SShape DEF SC!WithSandbox, SC!Shape
<1>3. PICK v : v = [u.visitedPages EXCEPT ![p] = "null"]
  OBVIOUS
<1>4. DOMAIN v = SC!Page /\ v[p] = "null" /\ \A q \in SC!Page : q # p => v[q] = u.visitedPages[q]
  BY <1>1, <1>3
<1>5. PICK w : w = [u EXCEPT !.visitedPages = v]
  OBVIOUS
<1>6. w = [u EXCEPT !.visitedPages[p] = "null"]
  BY <1>1, <1>3, <1>5 DEF SC!Start
<1>7. SFrame(u, w) /\ w.visitedPages = v /\ w.last = u.last /\ w.asked = u.asked /\ DOMAIN w = DOMAIN SC!Start
  BY <1>1, <1>5 DEF SFrame, SC!Start
<1>8. r = CASE u.close = "null" \/ p \in u.pageOpenPending \/ u.visitedPages[p] \in {"absent", "null"} -> u
            [] u.close # "null" /\ p \notin u.pageOpenPending /\ u.visitedPages[p] = "asked" ->
                 [w EXCEPT !.closeAfter = @ \cup {<<u.pdfDocument, p>>}]
            [] OTHER -> SC!Dispatch(w, "PageClose", p)
  BY <1>6 DEF SC!DispatchPageClose
<1>9. CASE u.close = "null" \/ p \in u.pageOpenPending \/ u.visitedPages[p] \in {"absent", "null"}
  <2>1. r = u
    BY <1>8, <1>9
  <2> QED BY <1>1, <2>1 DEF SClosed, SFrame
<1>10. CASE u.close # "null" /\ p \notin u.pageOpenPending /\ u.visitedPages[p] = "asked"
  <2>1. PICK c : c = w.closeAfter \cup {<<u.pdfDocument, p>>}
    OBVIOUS
  <2>2. r = [w EXCEPT !.closeAfter = c]
    BY <1>8, <1>10, <2>1
  <2>3. SFrame(w, r) /\ r.visitedPages = v /\ r.last = u.last /\ r.asked = u.asked
    BY <1>7, <2>2 DEF SFrame, SC!Start
  <2>4. SFrame(u, r)
    BY <1>7, <2>3 DEF SFrame
  <2>5. SC!Sound(r)
    <3>1. r.pdfDocument = u.pdfDocument
      BY <2>4 DEF SFrame
    <3> QED BY <1>1, <1>2, <1>4, <2>3, <2>4, <3>1, SEvents
  <2> QED BY <2>3, <2>4, <2>5 DEF SClosed
<1>11. CASE ~(u.close = "null" \/ p \in u.pageOpenPending \/ u.visitedPages[p] \in {"absent", "null"}) /\ u.visitedPages[p] # "asked"
  <2>1. r = SC!Dispatch(w, "PageClose", p)
    BY <1>8, <1>11
  <2>2. SDispatched(w, "PageClose", p, r)
    BY <1>1, <1>7, <2>1, SDispatch
  <2>3. u.visitedPages[p] = "done" /\ u.last[p] \in {"PageOpen", "PageClose"}
    BY <1>2, <1>11
  <2>4. /\ SFrame(u, r) /\ r.visitedPages = v /\ r.asked = u.asked /\ DOMAIN r.last = SC!Page /\ r.last[p] = "PageClose"
        /\ \A q \in SC!Page : q # p => r.last[q] = u.last[q]
    BY <1>7, <2>2 DEF SDispatched, SFrame
  <2>5. SC!Sound(r)
    BY <1>2, <1>4, <2>4, SEvents
  <2> QED BY <2>3, <2>4, <2>5 DEF SClosed
<1> QED BY <1>9, <1>10, <1>11

(* The end of #destroyScripting leaves nothing behind. *)
SGone(u, r) ==
  /\ SC!Sound(r) /\ r.scripting = 0 /\ r.pdfDocument = 0 /\ r.setup = u.setup /\ r.finished = u.finished
  /\ r.library = u.library /\ r.viewer = u.viewer /\ r.docs = u.docs /\ \A p \in SC!Page : r.last[p] = "none"

(* After the end of #destroyScripting. *)
LEMMA SDestroyEnd ==
  ASSUME NEW u, SC!Shape(u), SC!LastDocument(u), u.pdfDocument = 0, NEW r, r = SC!DestroyEnd(u)
  PROVE  SGone(u, r)
<1>1. DOMAIN u = DOMAIN SC!Start
  BY DEF SC!Shape
<1>2. PICK n : n = [p \in SC!Page |-> "absent"]
  OBVIOUS
<1>3. PICK o : o = [p \in SC!Page |-> "none"]
  OBVIOUS
<1>4. PICK d : d = IF u.destroy = "pending" THEN "resolved" ELSE u.destroy
  OBVIOUS
<1>5. r = [u EXCEPT !.willPrint = "null", !.printing = 0, !.queued = 0, !.listening = FALSE, !.pageOpenPending = {},
                    !.visitedPages = n, !.scripting = 0, !.made = 0, !.ready = FALSE, !.destroying = "no", !.last = o, !.destroy = d]
  BY <1>1, <1>2, <1>3, <1>4 DEF SC!DestroyEnd, SC!Start
<1>6. /\ DOMAIN r = DOMAIN SC!Start /\ r.viewer = u.viewer /\ r.docs = u.docs /\ r.page = u.page /\ r.finished = u.finished
      /\ r.pdfDocument = u.pdfDocument /\ r.library = u.library /\ r.setup = u.setup /\ r.refused = u.refused /\ r.asked = u.asked
      /\ r.printing = 0 /\ r.queued = 0 /\ ~r.listening /\ r.visitedPages = n /\ r.scripting = 0 /\ r.made = 0
      /\ ~r.ready /\ r.destroying = "no" /\ r.last = o
  <2>1. DOMAIN r = DOMAIN SC!Start
    BY <1>1, <1>5
  <2>2. r.viewer = u.viewer /\ r.docs = u.docs /\ r.page = u.page /\ r.finished = u.finished
    BY <1>1, <1>5 DEF SC!Start
  <2>3. r.pdfDocument = u.pdfDocument /\ r.library = u.library /\ r.setup = u.setup /\ r.refused = u.refused /\ r.asked = u.asked
    BY <1>1, <1>5 DEF SC!Start
  <2>4. r.visitedPages = n /\ r.destroying = "no" /\ r.last = o
    BY <1>1, <1>5 DEF SC!Start
  <2>5. r.printing = 0 /\ r.queued = 0 /\ r.scripting = 0 /\ r.made = 0
    BY <1>1, <1>5 DEF SC!Start
  <2>6. ~r.listening /\ ~r.ready
    BY <1>1, <1>5 DEF SC!Start
  <2> QED BY <2>1, <2>2, <2>3, <2>4, <2>5, <2>6
<1>7. DOMAIN n = SC!Page /\ DOMAIN o = SC!Page /\ \A p \in SC!Page : n[p] = "absent" /\ o[p] = "none"
  BY <1>2, <1>3
<1>8. SC!Shape(r)
  BY <1>6, <1>7 DEF SC!Shape
<1>9. SC!LastDocument(r)
  BY <1>6 DEF SC!LastDocument
<1>10. SC!Without(r)
  BY <1>6, <1>7 DEF SC!Without
<1> QED BY <1>6, <1>7, <1>8, <1>9, <1>10 DEF SC!Sound, SGone

(* The sandbox is destroyed, or will be when the library is there. *)
LEMMA SDestroySandbox ==
  ASSUME NEW u, SC!Sound(u), u.scripting # 0, u.library = "loading" => u.viewer = 0, NEW r, r = SC!DestroySandbox(u)
  PROVE  SFine(u, r) /\ r.viewer = u.viewer /\ (u.library # "loading" => r.scripting = 0 /\ r.pdfDocument = 0)
<1>1. DOMAIN u = DOMAIN SC!Start /\ SC!Shape(u) /\ SC!LastDocument(u) /\ SC!WithSandbox(u)
  BY SShape
<1>2. PICK w : w = [u EXCEPT !.close = "null", !.pdfDocument = 0, !.destroying = "sandbox"]
  OBVIOUS
<1>3. /\ DOMAIN w = DOMAIN SC!Start /\ w.viewer = u.viewer /\ w.docs = u.docs /\ w.page = u.page /\ w.finished = u.finished
      /\ w.pdfDocument = 0 /\ w.library = u.library /\ w.setup = u.setup /\ w.refused = u.refused /\ w.asked = u.asked
      /\ w.listening = u.listening /\ w.visitedPages = u.visitedPages /\ w.scripting = u.scripting /\ w.made = u.made
      /\ w.destroying = "sandbox" /\ w.last = u.last /\ w.destroy = u.destroy
  BY <1>1, <1>2 DEF SC!Start
<1>4. SC!Shape(w) /\ SC!LastDocument(w)
  BY <1>1, <1>3 DEF SC!Shape, SC!LastDocument
<1>5. r = IF w.library = "loading" THEN w ELSE SC!DestroyEnd(w)
  BY <1>2 DEF SC!DestroySandbox
<1>6. CASE u.library = "loading"
  <2>1. r = w /\ u.viewer = 0
    BY <1>3, <1>5, <1>6
  <2>2. SC!WithSandbox(w)
    BY <1>1, <1>3, <1>6, <2>1 DEF SC!WithSandbox
  <2> QED BY <1>3, <1>4, <1>6, <2>1, <2>2 DEF SC!Sound, SFine, SNoClose
<1>7. CASE u.library # "loading"
  <2>1. r = SC!DestroyEnd(w)
    BY <1>3, <1>5, <1>7
  <2>2. SGone(w, r)
    BY <1>3, <1>4, <2>1, SDestroyEnd
  <2> QED BY <1>3, <2>2 DEF SGone, SFine, SNoClose
<1> QED BY <1>6, <1>7

(* #destroyScripting of a manager that has a document. *)
LEMMA SDestroyScripting ==
  ASSUME NEW u, SC!Sound(u), u.scripting # 0 => u.pdfDocument # 0 /\ (u.library = "loading" => u.viewer = 0),
         NEW r, r = SC!DestroyScripting(u)
  PROVE  SFine(u, r)
<1>1. DOMAIN u = DOMAIN SC!Start /\ SC!Shape(u) /\ SC!LastDocument(u)
  BY SShape
<1>2. CASE u.scripting = 0
  <2>1. PICK d : d = IF u.destroy = "pending" THEN "resolved" ELSE u.destroy
    OBVIOUS
  <2>2. r = [u EXCEPT !.pdfDocument = 0, !.destroy = d]
    BY <1>1, <1>2, <2>1 DEF SC!DestroyScripting, SC!Start
  <2>3. /\ DOMAIN r = DOMAIN SC!Start /\ r.viewer = u.viewer /\ r.docs = u.docs /\ r.page = u.page /\ r.finished = u.finished
        /\ r.pdfDocument = 0 /\ r.library = u.library /\ r.setup = u.setup /\ r.refused = u.refused /\ r.asked = u.asked
        /\ r.listening = u.listening /\ r.visitedPages = u.visitedPages /\ r.scripting = u.scripting /\ r.made = u.made
        /\ r.destroying = u.destroying /\ r.last = u.last /\ r.ready = u.ready /\ r.printing = u.printing /\ r.queued = u.queued
    BY <1>1, <2>2 DEF SC!Start
  <2>4. SC!Shape(r) /\ SC!LastDocument(r)
    BY <1>1, <2>3 DEF SC!Shape, SC!LastDocument
  <2>5. SC!Without(u)
    BY <1>2, SShape
  <2>6. SC!Without(r)
    BY <2>3, <2>5 DEF SC!Without
  <2> QED BY <1>2, <2>3, <2>4, <2>6 DEF SC!Sound, SFine, SNoClose
<1>3. CASE u.scripting # 0 /\ u.close = "pending"
  <2>1. r = [u EXCEPT !.destroying = "close"]
    BY <1>3 DEF SC!DestroyScripting
  <2>2. /\ DOMAIN r = DOMAIN SC!Start /\ r.viewer = u.viewer /\ r.docs = u.docs /\ r.page = u.page /\ r.finished = u.finished
        /\ r.pdfDocument = u.pdfDocument /\ r.library = u.library /\ r.setup = u.setup /\ r.refused = u.refused /\ r.asked = u.asked
        /\ r.listening = u.listening /\ r.visitedPages = u.visitedPages /\ r.scripting = u.scripting /\ r.made = u.made
        /\ r.destroying = "close" /\ r.last = u.last /\ r.destroy = u.destroy
    BY <1>1, <2>1 DEF SC!Start
  <2>3. SC!Shape(r) /\ SC!LastDocument(r)
    BY <1>1, <2>2 DEF SC!Shape, SC!LastDocument
  <2>4. SC!WithSandbox(u)
    BY <1>3, SShape
  <2>5. SC!WithSandbox(r)
    BY <1>3, <2>2, <2>4 DEF SC!WithSandbox
  <2> QED BY <1>3, <2>2, <2>3, <2>5 DEF SC!Sound, SFine, SNoClose
<1>4. CASE u.scripting # 0 /\ u.close # "pending"
  <2>1. r = SC!DestroySandbox(u)
    BY <1>4 DEF SC!DestroyScripting
  <2> QED BY <1>4, <2>1, SDestroySandbox
<1> QED BY <1>2, <1>3, <1>4

(* The document is closed in the sandbox. *)
LEMMA SWillClose ==
  ASSUME NEW u, SC!Sound(u), NEW r, r = SC!WillClose(u)
  PROVE  /\ SFine(u, r) /\ r.viewer = u.viewer
         /\ r.scripting = 0 \/ (r.scripting = u.scripting /\ r.pdfDocument = u.pdfDocument)
         /\ r.pdfDocument \in {0, u.pdfDocument}
<1>1. DOMAIN u = DOMAIN SC!Start
  BY SShape
<1>2. PICK w : w = [u EXCEPT !.willClose = FALSE]
  OBVIOUS
<1>3. SFrame(u, w) /\ w.visitedPages = u.visitedPages /\ w.last = u.last /\ w.asked = u.asked
  BY <1>1, <1>2 DEF SFrame, SC!Start
<1>4. SFine(u, w)
  BY <1>3, SAlike
<1>5. r = IF u.close = "null" \/ u.library # "ready" THEN w
          ELSE IF u.destroying = "close" THEN SC!DestroySandbox(w) ELSE [w EXCEPT !.close = "resolved"]
  BY <1>2 DEF SC!WillClose
<1>6. CASE u.close = "null" \/ u.library # "ready"
  BY <1>3, <1>4, <1>5, <1>6 DEF SFrame
<1>7. CASE ~(u.close = "null" \/ u.library # "ready") /\ u.destroying = "close"
  <2>1. r = SC!DestroySandbox(w) /\ w.library # "loading"
    BY <1>3, <1>5, <1>7 DEF SFrame
  <2>2. w.scripting # 0 /\ SC!Sound(w)
    BY <1>3, <1>4, <1>7, SShape DEF SFrame, SFine, SC!Without
  <2>3. SFine(w, r) /\ r.viewer = w.viewer /\ r.scripting = 0 /\ r.pdfDocument = 0
    BY <2>1, <2>2, SDestroySandbox
  <2> QED BY <1>3, <2>3 DEF SFrame, SFine, SNoClose
<1>8. CASE ~(u.close = "null" \/ u.library # "ready") /\ u.destroying # "close"
  <2>1. r = [w EXCEPT !.close = "resolved"]
    BY <1>5, <1>8
  <2>2. SFrame(w, r) /\ r.visitedPages = w.visitedPages /\ r.last = w.last /\ r.asked = w.asked
    BY <1>3, <2>1 DEF SFrame, SC!Start
  <2>3. SFrame(u, r) /\ r.visitedPages = u.visitedPages /\ r.last = u.last /\ r.asked = u.asked
    BY <1>3, <2>2 DEF SFrame
  <2>4. SFine(u, r)
    BY <2>3, SAlike
  <2> QED BY <2>3, <2>4 DEF SFrame
<1> QED BY <1>6, <1>7, <1>8

(* setDocument goes on to its next wait, or is at its end. *)
SSetUp(u, d, x, r) ==
  /\ DOMAIN r = DOMAIN SC!Start /\ r.viewer = u.viewer /\ r.docs = u.docs /\ r.page = u.page /\ r.finished = u.finished
  /\ r.pdfDocument = u.pdfDocument /\ r.scripting = u.scripting /\ r.library = u.library
  /\ r.destroy = u.destroy /\ r.destroying = u.destroying /\ r.listening = u.listening /\ r.ready = u.ready
  /\ r.made \in {u.made, IF u.scripting = 0 THEN 0 ELSE d} /\ r.printing = u.printing /\ r.queued = u.queued /\ r.refused = u.refused
  /\ r.visitedPages = u.visitedPages /\ r.last = u.last /\ r.asked = u.asked
  /\ DOMAIN r.setup = SC!Doc /\ r.setup[d] = x /\ \A e \in SC!Doc : e # d => r.setup[e] = u.setup[e]

(* Going on with setDocument keeps the invariant. *)
LEMMA SSetUpSound ==
  ASSUME NEW u, SC!Sound(u), NEW d \in SC!Doc, NEW x, x = "end" \/ (x = "sandbox" /\ u.scripting # 0),
         NEW r, SSetUp(u, d, x, r), u.scripting # 0 => r.made \in {u.made, u.docs}
  PROVE  SFine(u, r)
<1>1. SC!Shape(r) /\ SC!LastDocument(r)
  BY SShape DEF SC!Shape, SC!LastDocument, SSetUp
<1>2. CASE u.scripting = 0
  <2>1. SC!Without(u) /\ x = "end"
    BY <1>2, SShape
  <2>2. r.pdfDocument = 0 \/ (r.pdfDocument = r.viewer /\ r.setup[r.viewer] \in {"fields", "end"})
    <3>1. CASE u.pdfDocument = 0
      BY <3>1 DEF SSetUp
    <3>2. CASE u.pdfDocument # 0
      <4>1. u.viewer = u.docs /\ u.docs # 0 /\ u.pdfDocument = u.viewer /\ u.setup[u.viewer] \in {"fields", "end"}
        BY <2>1, <3>2, SShape DEF SC!Without, SC!LastDocument
      <4>2. u.viewer \in SC!Doc
        <5>1. u.docs \in SC!Maybe
          BY SShape DEF SC!Shape
        <5> QED BY <4>1, <5>1, ScriptingAssumption DEF SC!Maybe, SC!Doc
      <4> QED BY <2>1, <4>1, <4>2 DEF SSetUp
    <3> QED BY <3>1, <3>2
  <2>3. SC!Without(r)
    BY <1>2, <2>1, <2>2 DEF SC!Without, SSetUp
  <2> QED BY <1>1, <1>2, <2>3 DEF SC!Sound, SFine, SNoClose, SSetUp
<1>3. CASE u.scripting # 0
  <2>1. SC!WithSandbox(u) /\ u.docs \in SC!Doc
    BY <1>3, SShape
  <2>2. r.setup[r.docs] \in {"props", "sandbox", "end"}
    BY <2>1 DEF SC!WithSandbox, SSetUp
  <2>3. SC!WithSandbox(r)
    BY <2>1, <2>2 DEF SC!WithSandbox, SSetUp
  <2> QED BY <1>1, <1>3, <2>3 DEF SC!Sound, SFine, SNoClose, SSetUp
<1> QED BY <1>2, <1>3

(* How setDocument goes on. *)
LEMMA SSetUpTo ==
  ASSUME NEW u, DOMAIN u = DOMAIN SC!Start, DOMAIN u.setup = SC!Doc, NEW d \in SC!Doc, NEW x, NEW r, r = [u EXCEPT !.setup[d] = x]
  PROVE  SSetUp(u, d, x, r) /\ r.made = u.made
<1>1. PICK f : f = [u.setup EXCEPT ![d] = x]
  OBVIOUS
<1>2. DOMAIN f = SC!Doc /\ f[d] = x /\ \A e \in SC!Doc : e # d => f[e] = u.setup[e]
  BY <1>1
<1>3. r = [u EXCEPT !.setup = f]
  BY <1>1 DEF SC!Start
<1> QED BY <1>2, <1>3 DEF SSetUp, SC!Start

(* The sandbox of the manager's document is there, or the one that was asked for is not wanted any more. *)
SWanted(u, d) ==
  \/ u.scripting # 0 /\ u.pdfDocument = d /\ u.docs = d
  \/ u.scripting = 0 /\ u.pdfDocument = 0 /\ u.finished = {} /\ u.library # "loading"

(* The rest of setDocument keeps the invariant. *)
LEMMA SSandboxCreated ==
  ASSUME NEW u, SC!Sound(u), NEW d \in SC!Doc, SWanted(u, d), NEW r, r = SC!SandboxCreated(u, d)
  PROVE  SFine(u, r)
<1>1. DOMAIN u = DOMAIN SC!Start /\ DOMAIN u.setup = SC!Doc /\ u.page \in SC!Page
  BY SShape
<1>2. d # 0
  BY ScriptingAssumption DEF SC!Doc
<1>3. PICK m : m = IF u.scripting = 0 THEN 0 ELSE d
  OBVIOUS
<1>4. PICK f : f = [u.setup EXCEPT ![d] = "end"]
  OBVIOUS
<1>5. DOMAIN f = SC!Doc /\ f[d] = "end" /\ \A e \in SC!Doc : e # d => f[e] = u.setup[e]
  BY <1>1, <1>4
<1>6. PICK x : x = [u EXCEPT !.setup = f, !.close = "pending", !.made = m]
  OBVIOUS
<1>7. SSetUp(u, d, "end", x) /\ x.made = m
  BY <1>1, <1>3, <1>5, <1>6 DEF SSetUp, SC!Start
<1>8. SFine(u, x)
  <2>1. u.scripting # 0 => x.made \in {u.made, u.docs}
    BY <1>3, <1>7 DEF SWanted
  <2> QED BY <1>7, <2>1, SSetUpSound
<1>9. /\ x.scripting = u.scripting /\ x.pdfDocument = u.pdfDocument /\ x.finished = u.finished /\ x.docs = u.docs
  BY <1>7 DEF SSetUp
<1>10. PICK w : w = SC!DispatchPageOpen(x, u.page)
  OBVIOUS
<1>11. SFine(x, w) /\ SFrame(x, w)
  <2>1. (x.scripting # 0 /\ x.pdfDocument # 0) \/ u.page \notin x.finished
    BY <1>2, <1>9 DEF SWanted
  <2>2. SC!Sound(x)
    BY <1>8 DEF SFine
  <2> QED BY <1>1, <1>10, <2>1, <2>2, SPageOpen
<1>12. x = [u EXCEPT !.setup[d] = "end", !.close = "pending", !.made = IF u.scripting = 0 THEN 0 ELSE d]
  BY <1>1, <1>3, <1>4, <1>6 DEF SC!Start
<1>13. PICK b : b = (w.ready \/ d = w.pdfDocument)
  OBVIOUS
<1>14. r = [w EXCEPT !.ready = b]
  BY <1>10, <1>12, <1>13 DEF SC!SandboxCreated
<1>15. DOMAIN w = DOMAIN SC!Start /\ w.scripting = u.scripting /\ w.pdfDocument = u.pdfDocument /\ SC!Sound(w)
  BY <1>9, <1>11 DEF SFine, SFrame
<1>16. /\ DOMAIN r = DOMAIN SC!Start /\ r.viewer = w.viewer /\ r.docs = w.docs /\ r.page = w.page /\ r.finished = w.finished
       /\ r.pdfDocument = w.pdfDocument /\ r.scripting = w.scripting /\ r.library = w.library /\ r.setup = w.setup
       /\ r.destroy = w.destroy /\ r.destroying = w.destroying /\ r.listening = w.listening /\ r.ready = b
       /\ r.made = w.made /\ r.printing = w.printing /\ r.queued = w.queued /\ r.refused = w.refused
       /\ r.visitedPages = w.visitedPages /\ r.last = w.last /\ r.asked = w.asked
  BY <1>14, <1>15 DEF SC!Start
<1>17. SC!Shape(r) /\ SC!LastDocument(r)
  BY <1>15, <1>16, SShape DEF SC!Shape, SC!LastDocument
<1>18. SC!Sound(r)
  <2>1. CASE u.scripting = 0
    <3>1. SC!Without(w)
      BY <1>15, <2>1, SShape
    <3>2. ~b
      BY <1>2, <1>13, <1>15, <2>1, <3>1 DEF SWanted, SC!Without
    <3>3. SC!Without(r)
      BY <1>16, <3>1, <3>2 DEF SC!Without
    <3> QED BY <1>15, <1>16, <1>17, <2>1, <3>3 DEF SC!Sound
  <2>2. CASE u.scripting # 0
    <3>1. SC!WithSandbox(w)
      BY <1>15, <2>2, SShape
    <3>2. SC!WithSandbox(r)
      BY <1>16, <3>1 DEF SC!WithSandbox
    <3> QED BY <1>15, <1>16, <1>17, <2>2, <3>2 DEF SC!Sound
  <2> QED BY <2>1, <2>2
<1> QED BY <1>8, <1>11, <1>16, <1>18 DEF SFine, SNoClose

(* createSandbox keeps the invariant, whatever became of the library. *)
LEMMA SCreateSandbox ==
  ASSUME NEW u, SC!Sound(u), NEW d \in SC!Doc, SWanted(u, d), NEW r, r = SC!CreateSandbox(u, d)
  PROVE  SFine(u, r)
<1>1. DOMAIN u = DOMAIN SC!Start /\ DOMAIN u.setup = SC!Doc
  BY SShape
<1>2. CASE u.library = "loading"
  <2>1. r = [u EXCEPT !.setup[d] = "sandbox"] /\ u.scripting # 0
    BY <1>2 DEF SC!CreateSandbox, SWanted
  <2>2. SSetUp(u, d, "sandbox", r) /\ r.made = u.made
    BY <1>1, <2>1, SSetUpTo
  <2> QED BY <2>1, <2>2, SSetUpSound
<1>3. CASE u.library = "ready"
  <2>1. r = SC!SandboxCreated(u, d)
    BY <1>3 DEF SC!CreateSandbox
  <2> QED BY <2>1, SSandboxCreated
<1>4. CASE u.library # "loading" /\ u.library # "ready"
  <2>1. PICK w : w = [u EXCEPT !.setup[d] = "end"]
    OBVIOUS
  <2>2. r = SC!DestroyScripting(w)
    BY <1>4, <2>1 DEF SC!CreateSandbox
  <2>3. SSetUp(u, d, "end", w) /\ w.made = u.made
    BY <1>1, <2>1, SSetUpTo
  <2>4. SFine(u, w)
    BY <2>3, SSetUpSound
  <2>5. d # 0
    BY ScriptingAssumption DEF SC!Doc
  <2>6. w.scripting # 0 => w.pdfDocument # 0 /\ (w.library = "loading" => w.viewer = 0)
    BY <1>4, <2>3, <2>5 DEF SSetUp, SWanted
  <2>7. SFine(w, r)
    <3>1. SC!Sound(w)
      BY <2>4 DEF SFine
    <3> QED BY <2>2, <2>6, <3>1, SDestroyScripting
  <2> QED BY <2>4, <2>7 DEF SFine, SNoClose
<1> QED BY <1>2, <1>3, <1>4

-----------------------------------------------------------------------------
(* The invariant after a step, and what a step never does. *)
SKept == SC!Sound(st') /\ SC!ClosedAfterOpened

(* A step that closes no page and keeps the invariant. *)
LEMMA SFineKept ==
  ASSUME SFine(st, st')
  PROVE  SKept
BY DEF SFine, SNoClose, SKept, SC!ClosedAfterOpened

(* OpenDocument keeps the invariant. *)
LEMMA SOpenDocument ==
  ASSUME SC!IInv, SC!OpenDocument
  PROVE  SKept
<1>1. /\ DOMAIN st = DOMAIN SC!Start /\ DOMAIN st.setup = SC!Doc /\ st.docs \in Nat /\ SC!Shape(st) /\ SC!LastDocument(st)
  BY SShape DEF SC!IInv
<1>2. st.scripting = 0 /\ SC!Without(st)
  BY SShape DEF SC!IInv, SC!OpenDocument, SC!WithSandbox
<1>3. PICK f : f = [d \in SC!Doc |-> IF st.setup[d] = "fields" THEN "end" ELSE st.setup[d]]
  OBVIOUS
<1>4. DOMAIN f = SC!Doc /\ \A d \in SC!Doc : f[d] # "fields"
  BY <1>3
<1>5. PICK n : n = st.docs + 1
  OBVIOUS
<1>6. n \in SC!Maybe /\ 1 \in SC!Page
  BY <1>1, <1>5, ScriptingAssumption DEF SC!OpenDocument, SC!Maybe, SC!Page
<1>7. st' = [st EXCEPT !.viewer = n, !.docs = n, !.page = 1, !.finished = {}, !.asked = {},
                       !.closeAfter = {}, !.willClose = FALSE, !.setup = f]
  BY <1>1, <1>3, <1>5 DEF SC!OpenDocument, SC!Start
<1>8. /\ DOMAIN st' = DOMAIN SC!Start /\ st'.viewer = n /\ st'.docs = n /\ st'.page = 1 /\ st'.finished = {} /\ st'.asked = {}
      /\ st'.setup = f /\ st'.last = st.last /\ st'.visitedPages = st.visitedPages /\ st'.scripting = st.scripting
  BY <1>1, <1>7 DEF SC!Start
<1>9. /\ st'.pdfDocument = st.pdfDocument /\ st'.refused = st.refused /\ st'.listening = st.listening /\ st'.ready = st.ready
      /\ st'.made = st.made /\ st'.printing = st.printing /\ st'.queued = st.queued /\ st'.destroying = st.destroying
  BY <1>1, <1>7 DEF SC!Start
<1>10. SC!Shape(st')
  BY <1>1, <1>4, <1>6, <1>8, <1>9 DEF SC!Shape
<1>11. SC!LastDocument(st')
  BY <1>4, <1>8 DEF SC!LastDocument
<1>12. st.pdfDocument = 0
  BY <1>2 DEF SC!OpenDocument, SC!Without
<1>13. SC!Without(st')
  BY <1>2, <1>8, <1>9, <1>12 DEF SC!Without
<1>14. SFine(st, st')
  BY <1>2, <1>8, <1>10, <1>11, <1>13 DEF SC!Sound, SFine, SNoClose
<1> QED BY <1>14, SFineKept

(* SetDocument keeps the invariant. *)
LEMMA SSetDocument ==
  ASSUME SC!IInv, NEW d \in SC!Doc, SC!SetDocument(d)
  PROVE  SKept
<1>1. DOMAIN st = DOMAIN SC!Start /\ DOMAIN st.setup = SC!Doc /\ SC!Shape(st) /\ SC!LastDocument(st)
  BY SShape DEF SC!IInv
<1>2. d # 0
  BY ScriptingAssumption DEF SC!Doc
<1>3. st.docs = d /\ st.viewer = d /\ st.setup[d] = "no"
  BY <1>1, <1>2 DEF SC!SetDocument, SC!LastDocument
<1>4. st.scripting = 0 /\ SC!Without(st)
  BY <1>3, SShape DEF SC!IInv, SC!WithSandbox
<1>5. PICK f : f = [st.setup EXCEPT ![d] = "fields"]
  OBVIOUS
<1>6. DOMAIN f = SC!Doc /\ f[d] = "fields" /\ \A e \in SC!Doc : e # d => f[e] = st.setup[e]
  BY <1>1, <1>5
<1>7. st' = [st EXCEPT !.pdfDocument = d, !.setup = f]
  BY <1>1, <1>5 DEF SC!SetDocument, SC!Start
<1>8. /\ DOMAIN st' = DOMAIN SC!Start /\ st'.viewer = st.viewer /\ st'.docs = st.docs /\ st'.page = st.page /\ st'.finished = st.finished
      /\ st'.setup = f /\ st'.last = st.last /\ st'.visitedPages = st.visitedPages /\ st'.scripting = st.scripting
      /\ st'.pdfDocument = d /\ st'.asked = st.asked
  BY <1>1, <1>7 DEF SC!Start
<1>9. /\ st'.refused = st.refused /\ st'.listening = st.listening /\ st'.ready = st.ready
      /\ st'.made = st.made /\ st'.printing = st.printing /\ st'.queued = st.queued /\ st'.destroying = st.destroying
  BY <1>1, <1>7 DEF SC!Start
<1>10. SC!Shape(st')
  BY <1>1, <1>6, <1>8, <1>9 DEF SC!Shape
<1>11. SC!LastDocument(st')
  BY <1>1, <1>3, <1>6, <1>8 DEF SC!LastDocument
<1>12. SC!Without(st')
  BY <1>3, <1>4, <1>6, <1>8, <1>9 DEF SC!Without
<1>13. SFine(st, st')
  BY <1>4, <1>8, <1>10, <1>11, <1>12 DEF SC!Sound, SFine, SNoClose
<1> QED BY <1>13, SFineKept

(* FieldObjects keeps the invariant. *)
LEMMA SFieldObjects ==
  ASSUME SC!IInv, NEW d \in SC!Doc, NEW some \in BOOLEAN, SC!FieldObjects(d, some)
  PROVE  SKept
<1>1. DOMAIN st = DOMAIN SC!Start /\ DOMAIN st.setup = SC!Doc /\ SC!Shape(st) /\ SC!LastDocument(st) /\ SC!Sound(st)
  BY SShape DEF SC!IInv
<1>2. d # 0
  BY ScriptingAssumption DEF SC!Doc
<1>3. st.docs = d /\ st.setup[d] = "fields"
  BY <1>1 DEF SC!FieldObjects, SC!LastDocument
<1>4. st.scripting = 0 /\ SC!Without(st)
  BY <1>3, SShape DEF SC!IInv, SC!WithSandbox
<1>5. PICK u : u = [st EXCEPT !.setup[d] = "end"]
  OBVIOUS
<1>6. SSetUp(st, d, "end", u) /\ u.made = st.made
  BY <1>1, <1>5, SSetUpTo
<1>7. SFine(st, u)
  BY <1>1, <1>4, <1>6, SSetUpSound
<1>8. st' = CASE ~some -> SC!DestroyScripting(u)
              [] some /\ d # st.pdfDocument -> u
              [] some /\ d = st.pdfDocument /\ st.scripting # 0 ->
                   SC!DestroyScripting([u EXCEPT !.destroy = "pending", !.refused = TRUE])
              [] OTHER -> [st EXCEPT !.setup[d] = "props", !.destroy = "pending", !.scripting = d,
                                    !.library = "loading", !.listening = TRUE]
  BY <1>5 DEF SC!FieldObjects
<1>9. CASE ~some
  <2>1. st' = SC!DestroyScripting(u) /\ SC!Sound(u) /\ u.scripting = 0
    BY <1>4, <1>6, <1>7, <1>8, <1>9 DEF SFine, SSetUp
  <2>2. SFine(u, st')
    BY <2>1, SDestroyScripting
  <2>3. SFine(st, st')
    BY <1>7, <2>2 DEF SFine, SNoClose
  <2> QED BY <2>3, SFineKept
<1>10. CASE some /\ d # st.pdfDocument
  <2>1. st' = u
    BY <1>8, <1>10
  <2> QED BY <1>7, <2>1, SFineKept
<1>11. CASE some /\ d = st.pdfDocument
  <2>1. PICK f : f = [st.setup EXCEPT ![d] = "props"]
    OBVIOUS
  <2>2. DOMAIN f = SC!Doc /\ f[d] = "props" /\ \A e \in SC!Doc : e # d => f[e] = st.setup[e]
    BY <1>1, <2>1
  <2>3. st' = [st EXCEPT !.setup = f, !.destroy = "pending", !.scripting = d, !.library = "loading", !.listening = TRUE]
    BY <1>1, <1>4, <1>8, <1>11, <2>1 DEF SC!Start
  <2>4. /\ DOMAIN st' = DOMAIN SC!Start /\ st'.viewer = st.viewer /\ st'.docs = st.docs /\ st'.page = st.page /\ st'.finished = st.finished
        /\ st'.setup = f /\ st'.last = st.last /\ st'.visitedPages = st.visitedPages /\ st'.scripting = d
        /\ st'.pdfDocument = st.pdfDocument /\ st'.asked = st.asked /\ st'.library = "loading"
    BY <1>1, <2>3 DEF SC!Start
  <2>5. /\ st'.refused = st.refused /\ st'.listening /\ st'.destroy = "pending"
        /\ st'.made = st.made /\ st'.destroying = st.destroying
    BY <1>1, <2>3 DEF SC!Start
  <2>6. SC!Shape(st')
    BY <1>1, <2>2, <2>4, <2>5 DEF SC!Shape
  <2>7. SC!LastDocument(st')
    BY <1>1, <2>2, <2>4 DEF SC!LastDocument
  <2>8. SC!WithSandbox(st')
    BY <1>3, <1>4, <1>11, <2>2, <2>4, <2>5 DEF SC!Without, SC!WithSandbox
  <2>9. SFine(st, st')
    BY <1>2, <2>4, <2>6, <2>7, <2>8 DEF SC!Sound, SFine, SNoClose
  <2> QED BY <2>9, SFineKept
<1> QED BY <1>9, <1>10, <1>11

(* DocProperties keeps the invariant. *)
LEMMA SDocProperties ==
  ASSUME SC!IInv, NEW d \in SC!Doc, SC!DocProperties(d)
  PROVE  SKept
<1>1. DOMAIN st = DOMAIN SC!Start /\ DOMAIN st.setup = SC!Doc /\ SC!Sound(st)
  BY SShape DEF SC!IInv
<1>2. CASE d # st.pdfDocument
  <2>1. st' = [st EXCEPT !.setup[d] = "end"]
    BY <1>2 DEF SC!DocProperties
  <2>2. SSetUp(st, d, "end", st') /\ st'.made = st.made
    BY <1>1, <2>1, SSetUpTo
  <2>3. SFine(st, st')
    BY <1>1, <2>2, SSetUpSound
  <2> QED BY <2>3, SFineKept
<1>3. CASE d = st.pdfDocument
  <2>1. d # 0 /\ st.setup[d] = "props"
    BY ScriptingAssumption DEF SC!Doc, SC!DocProperties
  <2>2. st.scripting # 0
    BY <1>3, <2>1, SShape DEF SC!IInv, SC!Without
  <2>3. SWanted(st, d)
    BY <1>3, <2>1, <2>2, SShape DEF SC!IInv, SC!WithSandbox, SWanted
  <2>4. st' = SC!CreateSandbox(st, d)
    BY <1>3 DEF SC!DocProperties
  <2>5. SFine(st, st')
    BY <1>1, <2>3, <2>4, SCreateSandbox
  <2> QED BY <2>5, SFineKept
<1> QED BY <1>2, <1>3

(* Library keeps the invariant. *)
LEMMA SLibrary ==
  ASSUME SC!IInv, NEW ok \in BOOLEAN, SC!Library(ok)
  PROVE  SKept
<1>1. DOMAIN st = DOMAIN SC!Start /\ SC!Shape(st) /\ SC!LastDocument(st) /\ st.docs # 0 /\ st.docs \in SC!Doc /\ SC!WithSandbox(st)
  BY SShape DEF SC!IInv, SC!Library
<1>2. PICK l : l = IF ok THEN "ready" ELSE "failed"
  OBVIOUS
<1>3. PICK u : u = [st EXCEPT !.library = l]
  OBVIOUS
<1>4. PICK w : w = IF st.destroying = "sandbox" THEN SC!DestroyEnd(u) ELSE u
  OBVIOUS
<1>5. st' = IF st.setup[st.docs] = "sandbox" THEN SC!CreateSandbox(w, st.docs) ELSE w
  BY <1>1, <1>2, <1>3, <1>4 DEF SC!Library, SC!WithSandbox
<1>6. /\ DOMAIN u = DOMAIN SC!Start /\ u.viewer = st.viewer /\ u.docs = st.docs /\ u.page = st.page /\ u.finished = st.finished
      /\ u.pdfDocument = st.pdfDocument /\ u.library = l /\ u.setup = st.setup /\ u.refused = st.refused /\ u.asked = st.asked
      /\ u.listening = st.listening /\ u.visitedPages = st.visitedPages /\ u.scripting = st.scripting /\ u.made = st.made
      /\ u.destroying = st.destroying /\ u.last = st.last /\ u.destroy = st.destroy
  BY <1>1, <1>3 DEF SC!Start
<1>7. SC!Shape(u) /\ SC!LastDocument(u)
  BY <1>1, <1>6 DEF SC!Shape, SC!LastDocument
<1>8. l # "loading"
  BY <1>2
<1>9. SFine(st, w) /\ SWanted(w, st.docs)
  <2>1. CASE st.destroying = "sandbox"
    <3>1. st.pdfDocument = 0 /\ st.finished = {}
      BY <1>1, <2>1 DEF SC!WithSandbox, SC!LastDocument
    <3>2. w = SC!DestroyEnd(u)
      BY <1>4, <2>1
    <3>3. SGone(u, w)
      BY <1>6, <1>7, <3>1, <3>2, SDestroyEnd
    <3> QED BY <1>6, <1>8, <3>1, <3>3 DEF SGone, SFine, SNoClose, SWanted
  <2>2. CASE st.destroying # "sandbox"
    <3>1. w = u
      BY <1>4, <2>2
    <3>2. SC!WithSandbox(u)
      BY <1>1, <1>6, <1>8, <2>2 DEF SC!WithSandbox
    <3>3. u.scripting # 0
      BY <1>1, <1>6 DEF SC!WithSandbox
    <3>4. SWanted(u, st.docs)
      BY <1>1, <1>6, <2>2, <3>3 DEF SC!WithSandbox, SWanted
    <3> QED BY <1>6, <1>7, <3>1, <3>2, <3>3, <3>4 DEF SC!Sound, SFine, SNoClose
  <2> QED BY <2>1, <2>2
<1>10. CASE st.setup[st.docs] = "sandbox"
  <2>1. st' = SC!CreateSandbox(w, st.docs) /\ SC!Sound(w)
    BY <1>5, <1>9, <1>10 DEF SFine
  <2>2. SFine(w, st')
    BY <1>1, <1>9, <2>1, SCreateSandbox
  <2>3. SFine(st, st')
    BY <1>9, <2>2 DEF SFine, SNoClose
  <2> QED BY <2>3, SFineKept
<1>11. CASE st.setup[st.docs] # "sandbox"
  <2>1. st' = w
    BY <1>5, <1>11
  <2> QED BY <1>9, <2>1, SFineKept
<1> QED BY <1>10, <1>11

(* PageActions keeps the invariant. *)
LEMMA SPageActions ==
  ASSUME SC!IInv, NEW d \in SC!Doc, NEW p \in SC!Page, SC!PageActions(d, p)
  PROVE  SKept
<1>1. /\ DOMAIN st = DOMAIN SC!Start /\ DOMAIN st.visitedPages = SC!Page /\ DOMAIN st.last = SC!Page
      /\ SC!Shape(st) /\ SC!LastDocument(st) /\ SC!Sound(st)
  BY SShape DEF SC!IInv
<1>2. <<d, p>> \in st.asked /\ d = st.docs
  <2>1. <<d, p>> \in st.asked /\ <<d, p>>[1] = d
    BY DEF SC!PageActions
  <2> QED BY <1>1, <2>1 DEF SC!LastDocument
<1>3. PICK z : z = IF st.visitedPages[p] = "asked" THEN "done" ELSE st.visitedPages[p]
  OBVIOUS
<1>4. PICK v : v = [st.visitedPages EXCEPT ![p] = z]
  OBVIOUS
<1>5. DOMAIN v = SC!Page /\ v[p] = z /\ \A q \in SC!Page : q # p => v[q] = st.visitedPages[q]
  BY <1>1, <1>4
<1>6. PICK a : a = st.asked \ {<<d, p>>}
  OBVIOUS
<1>7. PICK c : c = st.closeAfter \ {<<d, p>>}
  OBVIOUS
<1>8. PICK u : u = [st EXCEPT !.asked = a, !.closeAfter = c, !.visitedPages = v]
  OBVIOUS
<1>9. u = [st EXCEPT !.asked = @ \ {<<d, p>>}, !.closeAfter = @ \ {<<d, p>>},
                     !.visitedPages[p] = IF @ = "asked" THEN "done" ELSE @]
  BY <1>1, <1>3, <1>4, <1>6, <1>7, <1>8 DEF SC!Start
<1>10. SFrame(st, u) /\ u.asked = a /\ u.visitedPages = v /\ u.last = st.last
  BY <1>1, <1>8 DEF SFrame, SC!Start
<1>11. PICK w : w = IF d = st.pdfDocument THEN SC!Dispatch(u, "PageOpen", p) ELSE u
  OBVIOUS
<1>12. PICK x : x = IF <<d, p>> \in st.closeAfter /\ d = st.pdfDocument THEN SC!Dispatch(w, "PageClose", p) ELSE w
  OBVIOUS
<1>13. st' = IF <<d, p>> \in st.closeAfter /\ st.willClose THEN SC!WillClose(x) ELSE x
  BY <1>9, <1>11, <1>12 DEF SC!PageActions
<1>14. DOMAIN u = DOMAIN SC!Start /\ DOMAIN u.last = SC!Page /\ u.scripting = st.scripting
  BY <1>1, <1>10 DEF SFrame
(* The events of this page, if there is a sandbox for it. *)
<1>15. /\ SFrame(st, x) /\ x.asked = a /\ x.visitedPages = v /\ DOMAIN x.last = SC!Page
       /\ \A q \in SC!Page : q # p => x.last[q] = st.last[q]
       /\ st.scripting = 0 => x.last = st.last
       /\ IF d = st.pdfDocument /\ st.scripting # 0 THEN x.last[p] \in {"PageOpen", "PageClose"} ELSE x.last[p] = st.last[p]
  <2>1. CASE d # st.pdfDocument
    <3>1. x = u
      BY <1>11, <1>12, <2>1
    <3> QED BY <1>1, <1>10, <2>1, <3>1
  <2>2. CASE d = st.pdfDocument
    <3>1. w = SC!Dispatch(u, "PageOpen", p)
      BY <1>11, <2>2
    <3>2. SDispatched(u, "PageOpen", p, w)
      BY <1>14, <3>1, SDispatch
    <3>3. /\ SFrame(st, w) /\ w.asked = a /\ w.visitedPages = v /\ DOMAIN w.last = SC!Page /\ DOMAIN w = DOMAIN SC!Start
          /\ w.scripting = st.scripting /\ (st.scripting = 0 => w.last = st.last)
          /\ w.last[p] = (IF st.scripting = 0 THEN st.last[p] ELSE "PageOpen")
          /\ \A q \in SC!Page : q # p => w.last[q] = st.last[q]
      BY <1>10, <3>2 DEF SDispatched, SFrame
    <3>4. CASE <<d, p>> \in st.closeAfter
      <4>1. x = SC!Dispatch(w, "PageClose", p)
        BY <1>12, <2>2, <3>4
      <4>2. SDispatched(w, "PageClose", p, x)
        BY <3>3, <4>1, SDispatch
      <4>3. /\ SFrame(st, x) /\ x.asked = a /\ x.visitedPages = v /\ DOMAIN x.last = SC!Page
            /\ \A q \in SC!Page : q # p => x.last[q] = st.last[q]
            /\ x.last[p] = (IF st.scripting = 0 THEN st.last[p] ELSE "PageClose")
            /\ st.scripting = 0 => x.last = st.last
        BY <3>3, <4>2 DEF SDispatched, SFrame
      <4> QED BY <2>2, <4>3
    <3>5. CASE <<d, p>> \notin st.closeAfter
      <4>1. x = w
        BY <1>12, <3>5
      <4> QED BY <2>2, <3>3, <4>1
    <3> QED BY <3>4, <3>5
  <2> QED BY <2>1, <2>2
<1>16. SC!Sound(x)
  <2>1. CASE st.scripting = 0
    <3>1. \A q \in SC!Page : st.visitedPages[q] = "absent"
      BY <1>1, <2>1, SShape DEF SC!Without
    <3>2. \A q \in SC!Page : v[q] = "absent"
      BY <1>3, <1>5, <3>1
    <3>3. SC!Shape(x) /\ SC!LastDocument(x)
      BY <1>1, <1>5, <1>6, <1>15, <2>1, <3>2 DEF SC!Shape, SC!LastDocument, SFrame
    <3>4. SC!Without(st)
      BY <1>1, <2>1, SShape
    <3>5. SC!Without(x)
      BY <1>15, <3>2, <3>4 DEF SC!Without, SFrame
    <3> QED BY <1>15, <2>1, <3>3, <3>5 DEF SC!Sound, SFrame
  <2>2. CASE st.scripting # 0
    <3>1. SC!WithSandbox(st)
      BY <1>1, <2>2, SShape
    <3>2. x.pdfDocument = st.pdfDocument /\ st.pdfDocument \in {0, st.docs}
      BY <1>15, <3>1 DEF SFrame, SC!WithSandbox
    <3>3. \A q \in SC!Page : /\ x.last[q] \in {"none", "PageOpen", "PageClose"}
                              /\ x.visitedPages[q] \in {"absent", "null", "asked", "done"}
      BY <1>1, <1>3, <1>5, <1>15 DEF SC!Shape
    <3>4. \A q \in SC!Page : x.visitedPages[q] = "done" /\ x.pdfDocument # 0 => x.last[q] # "none"
      BY <1>2, <1>5, <1>15, <2>2, <3>1, <3>2 DEF SC!WithSandbox
    <3>5. \A y \in x.asked : y \in st.asked \/ y[1] = st.docs
      BY <1>6, <1>15
    <3> QED BY <1>1, <1>5, <1>15, <2>2, <3>3, <3>4, <3>5, SEvents
  <2> QED BY <2>1, <2>2
<1>17. SFine(x, st')
  <2>1. CASE <<d, p>> \in st.closeAfter /\ st.willClose
    <3>1. st' = SC!WillClose(x)
      BY <1>13, <2>1
    <3> QED BY <1>16, <3>1, SWillClose
  <2>2. CASE ~(<<d, p>> \in st.closeAfter /\ st.willClose)
    <3>1. st' = x
      BY <1>13, <2>2
    <3> QED BY <1>16, <3>1 DEF SFine, SNoClose
  <2> QED BY <2>1, <2>2
<1>18. SC!ClosedAfterOpened
  <2>1. SUFFICES ASSUME NEW q \in SC!Page, st'.last[q] = "PageClose", st.last[q] # "PageClose"
                 PROVE  st.last[q] = "PageOpen" \/ <<st.pdfDocument, q>> \in st.asked
    BY DEF SC!ClosedAfterOpened
  <2>2. x.last[q] = "PageClose"
    BY <1>17, <2>1 DEF SFine, SNoClose
  <2>3. q = p /\ d = st.pdfDocument
    BY <1>15, <2>1, <2>2
  <2> QED BY <1>2, <2>3
<1> QED BY <1>17, <1>18 DEF SFine, SKept

(* A change of what the viewer shows. *)
SShown(u, r) ==
  /\ DOMAIN r = DOMAIN SC!Start /\ r.viewer = u.viewer /\ r.docs = u.docs /\ r.page \in SC!Page
  /\ r.pdfDocument = u.pdfDocument /\ r.scripting = u.scripting /\ r.library = u.library /\ r.setup = u.setup
  /\ r.destroy = u.destroy /\ r.destroying = u.destroying /\ r.listening = u.listening /\ r.ready = u.ready
  /\ r.made = u.made /\ r.printing = u.printing /\ r.queued = u.queued /\ r.refused = u.refused
  /\ r.visitedPages = u.visitedPages /\ r.last = u.last /\ r.asked = u.asked

(* Drawing and choosing pages keeps the invariant. *)
LEMMA SShownSound ==
  ASSUME NEW u, SC!Sound(u), NEW r, SShown(u, r), r.viewer = 0 => r.finished = {}
  PROVE  SFine(u, r)
<1>1. SC!Shape(r) /\ SC!LastDocument(r)
  BY DEF SC!Sound, SC!Shape, SC!LastDocument, SShown
<1>2. IF r.scripting = 0 THEN SC!Without(r) ELSE SC!WithSandbox(r)
  BY DEF SC!Sound, SC!Without, SC!WithSandbox, SShown
<1> QED BY <1>1, <1>2 DEF SC!Sound, SFine, SNoClose, SShown

(* While the viewer has a document, the manager has it if it has a sandbox. *)
LEMMA SHasDocument ==
  ASSUME NEW u, SC!Sound(u), u.viewer # 0, u.listening
  PROVE  u.scripting # 0 /\ u.pdfDocument = u.docs /\ u.docs # 0
<1>1. u.scripting # 0
  BY SShape DEF SC!Without
<1> QED BY <1>1, SShape DEF SC!WithSandbox

(* PageRendered keeps the invariant. *)
LEMMA SPageRendered ==
  ASSUME SC!IInv, NEW p \in SC!Page, SC!PageRendered(p)
  PROVE  SKept
<1>1. DOMAIN st = DOMAIN SC!Start /\ SC!Sound(st) /\ st.page \in SC!Page
  BY SShape DEF SC!IInv
<1>2. PICK f : f = st.finished \cup {p}
  OBVIOUS
<1>3. PICK u : u = [st EXCEPT !.finished = f]
  OBVIOUS
<1>4. st' = IF st.listening /\ p \in st.pageOpenPending /\ p = st.page THEN SC!DispatchPageOpen(u, p) ELSE u
  BY <1>2, <1>3 DEF SC!PageRendered
<1>5. SShown(st, u)
  BY <1>1, <1>3 DEF SShown, SC!Start
<1>6. u.viewer # 0 /\ st.viewer # 0
  BY <1>5 DEF SC!PageRendered, SShown
<1>7. SFine(st, u)
  BY <1>1, <1>5, <1>6, SShownSound
<1>8. CASE st.listening /\ p \in st.pageOpenPending /\ p = st.page
  <2>1. st' = SC!DispatchPageOpen(u, p) /\ SC!Sound(u)
    BY <1>4, <1>7, <1>8 DEF SFine
  <2>2. u.scripting # 0 /\ u.pdfDocument # 0
    BY <1>1, <1>5, <1>6, <1>8, SHasDocument DEF SShown
  <2>3. SFine(u, st')
    BY <2>1, <2>2, SPageOpen
  <2>4. SFine(st, st')
    BY <1>7, <2>3 DEF SFine, SNoClose
  <2> QED BY <2>4, SFineKept
<1>9. CASE ~(st.listening /\ p \in st.pageOpenPending /\ p = st.page)
  <2>1. st' = u
    BY <1>4, <1>9
  <2> QED BY <1>7, <2>1, SFineKept
<1> QED BY <1>8, <1>9

(* PageEvicted keeps the invariant. *)
LEMMA SPageEvicted ==
  ASSUME SC!IInv, NEW p \in SC!Page, SC!PageEvicted(p)
  PROVE  SKept
<1>1. DOMAIN st = DOMAIN SC!Start /\ SC!Sound(st) /\ SC!LastDocument(st) /\ st.page \in SC!Page
  BY SShape DEF SC!IInv
<1>2. PICK f : f = st.finished \ {p}
  OBVIOUS
<1>3. st' = [st EXCEPT !.finished = f]
  BY <1>2 DEF SC!PageEvicted
<1>4. SShown(st, st') /\ st'.finished = f
  BY <1>1, <1>3 DEF SShown, SC!Start
<1>5. st'.viewer = 0 => st'.finished = {}
  BY <1>1, <1>2, <1>4 DEF SShown, SC!LastDocument
<1>6. SFine(st, st')
  BY <1>1, <1>4, <1>5, SShownSound
<1> QED BY <1>6, SFineKept

(* PageChanging keeps the invariant. *)
LEMMA SPageChanging ==
  ASSUME SC!IInv, NEW p \in SC!Page, SC!PageChanging(p)
  PROVE  SKept
<1>1. DOMAIN st = DOMAIN SC!Start /\ SC!Sound(st) /\ st.page \in SC!Page
  BY SShape DEF SC!IInv
<1>2. PICK u : u = [st EXCEPT !.page = p]
  OBVIOUS
<1>3. st' = IF st.listening THEN SC!DispatchPageOpen(SC!DispatchPageClose(u, st.page), p) ELSE u
  BY <1>2 DEF SC!PageChanging
<1>4. SShown(st, u)
  BY <1>1, <1>2 DEF SShown, SC!Start
<1>5. u.viewer # 0 /\ st.viewer # 0
  BY <1>4 DEF SC!PageChanging, SShown
<1>6. SFine(st, u)
  BY <1>1, <1>4, <1>5, SShownSound
<1>7. CASE st.listening
  <2>1. PICK w : w = SC!DispatchPageClose(u, st.page)
    OBVIOUS
  <2>2. u.scripting # 0 /\ u.pdfDocument # 0 /\ SC!Sound(u)
    BY <1>1, <1>4, <1>5, <1>6, <1>7, SHasDocument DEF SShown, SFine
  <2>3. SClosed(u, w)
    BY <1>1, <2>1, <2>2, SPageClose
  <2>4. st' = SC!DispatchPageOpen(w, p) /\ w.scripting # 0 /\ w.pdfDocument # 0 /\ SC!Sound(w)
    BY <1>3, <1>7, <2>1, <2>2, <2>3 DEF SClosed, SFrame
  <2>5. SFine(w, st')
    BY <2>4, SPageOpen
  <2>6. SC!ClosedAfterOpened
    BY <1>4, <2>3, <2>5 DEF SFine, SNoClose, SClosed, SShown, SC!ClosedAfterOpened
  <2> QED BY <2>5, <2>6 DEF SFine, SKept
<1>8. CASE ~st.listening
  <2>1. st' = u
    BY <1>3, <1>8
  <2> QED BY <1>6, <2>1, SFineKept
<1> QED BY <1>7, <1>8

(* CloseDocument keeps the invariant. *)
LEMMA SCloseDocument ==
  ASSUME SC!IInv, SC!CloseDocument
  PROVE  SKept
<1>1. /\ DOMAIN st = DOMAIN SC!Start /\ SC!Sound(st) /\ SC!Shape(st) /\ SC!LastDocument(st) /\ st.page \in SC!Page
  BY SShape DEF SC!IInv
<1>2. PICK u : u = [st EXCEPT !.viewer = 0, !.finished = {}]
  OBVIOUS
<1>3. PICK w : w = SC!DispatchPageClose(u, st.page)
  OBVIOUS
<1>4. PICK x : x = IF w.closeAfter # st.closeAfter THEN [w EXCEPT !.willClose = TRUE] ELSE SC!WillClose(w)
  OBVIOUS
<1>5. PICK y : y = IF st.listening THEN x ELSE u
  OBVIOUS
<1>6. st' = IF st.pdfDocument = 0 THEN y ELSE SC!DestroyScripting(y)
  BY <1>2, <1>3, <1>4, <1>5 DEF SC!CloseDocument
<1>7. /\ DOMAIN u = DOMAIN SC!Start /\ u.viewer = 0 /\ u.docs = st.docs /\ u.page = st.page /\ u.finished = {}
      /\ u.pdfDocument = st.pdfDocument /\ u.library = st.library /\ u.setup = st.setup /\ u.refused = st.refused /\ u.asked = st.asked
      /\ u.listening = st.listening /\ u.visitedPages = st.visitedPages /\ u.scripting = st.scripting /\ u.made = st.made
      /\ u.destroying = st.destroying /\ u.last = st.last /\ u.destroy = st.destroy
      /\ u.ready = st.ready /\ u.printing = st.printing /\ u.queued = st.queued
  BY <1>1, <1>2 DEF SC!Start
<1>8. SC!Shape(u) /\ SC!LastDocument(u)
  BY <1>1, <1>7 DEF SC!Shape, SC!LastDocument
<1>9. CASE ~st.listening
  <2>1. y = u
    BY <1>5, <1>9
  <2>2. st.scripting = 0 /\ SC!Without(st)
    BY <1>9, SShape DEF SC!IInv, SC!WithSandbox
  <2>3. CASE st.pdfDocument = 0
    <3>1. SC!Without(u)
      BY <1>7, <2>2, <2>3 DEF SC!Without
    <3>2. SFine(st, u)
      BY <1>7, <1>8, <2>2, <3>1 DEF SC!Sound, SFine, SNoClose
    <3> QED BY <1>6, <2>1, <2>3, <3>2, SFineKept
  <2>4. CASE st.pdfDocument # 0
    <3>1. PICK d : d = IF u.destroy = "pending" THEN "resolved" ELSE u.destroy
      OBVIOUS
    <3>2. st' = [u EXCEPT !.pdfDocument = 0, !.destroy = d]
      BY <1>6, <1>7, <2>1, <2>2, <2>4, <3>1 DEF SC!DestroyScripting, SC!Start
    <3>3. /\ DOMAIN st' = DOMAIN SC!Start /\ st'.viewer = u.viewer /\ st'.docs = u.docs /\ st'.page = u.page
          /\ st'.finished = u.finished /\ st'.pdfDocument = 0 /\ st'.setup = u.setup /\ st'.asked = u.asked
          /\ st'.visitedPages = u.visitedPages /\ st'.last = u.last /\ st'.scripting = u.scripting
      BY <1>7, <3>2 DEF SC!Start
    <3>4. /\ st'.refused = u.refused /\ st'.listening = u.listening /\ st'.ready = u.ready /\ st'.made = u.made
          /\ st'.printing = u.printing /\ st'.queued = u.queued /\ st'.destroying = u.destroying
      BY <1>7, <3>2 DEF SC!Start
    <3>5. SC!Shape(st') /\ SC!LastDocument(st')
      BY <1>8, <3>3, <3>4 DEF SC!Shape, SC!LastDocument
    <3>6. SC!Without(st')
      BY <1>7, <2>2, <3>3, <3>4 DEF SC!Without
    <3>7. SFine(st, st')
      BY <1>7, <2>2, <3>3, <3>5, <3>6 DEF SC!Sound, SFine, SNoClose
    <3> QED BY <3>7, SFineKept
  <2> QED BY <2>3, <2>4
<1>10. CASE st.listening
  <2>1. st.scripting # 0 /\ st.pdfDocument = st.docs /\ st.docs # 0
    BY <1>1, <1>10, SHasDocument DEF SC!CloseDocument
  <2>2. SC!WithSandbox(st)
    BY <1>1, <2>1, SShape
  <2>3. SC!WithSandbox(u)
    BY <1>7, <2>2 DEF SC!WithSandbox
  <2>4. SC!Sound(u) /\ u.scripting # 0 /\ u.pdfDocument # 0
    BY <1>7, <1>8, <2>1, <2>3 DEF SC!Sound
  <2>5. SClosed(u, w)
    BY <1>1, <1>3, <2>4, SPageClose
  <2>6. SC!Sound(w) /\ w.scripting # 0 /\ w.pdfDocument # 0 /\ w.viewer = 0
    BY <1>7, <2>4, <2>5 DEF SClosed, SFrame
  <2>7. SFine(w, x) /\ x.viewer = 0 /\ (x.scripting # 0 => x.pdfDocument # 0)
    <3>1. CASE w.closeAfter # st.closeAfter
      <4>1. x = [w EXCEPT !.willClose = TRUE]
        BY <1>4, <3>1
      <4>2. DOMAIN w = DOMAIN SC!Start
        BY <2>5 DEF SClosed, SFrame
      <4>3. SFrame(w, x) /\ x.visitedPages = w.visitedPages /\ x.last = w.last /\ x.asked = w.asked
        BY <4>1, <4>2 DEF SFrame, SC!Start
      <4>4. SFine(w, x)
        BY <2>6, <4>3, SAlike
      <4> QED BY <2>6, <4>3, <4>4 DEF SFrame
    <3>2. CASE w.closeAfter = st.closeAfter
      <4>1. x = SC!WillClose(w)
        BY <1>4, <3>2
      <4> QED BY <2>6, <4>1, SWillClose
    <3> QED BY <3>1, <3>2
  <2>8. st' = SC!DestroyScripting(x) /\ SC!Sound(x)
    BY <1>5, <1>6, <1>10, <2>1, <2>7 DEF SFine
  <2>9. SFine(x, st')
    BY <2>7, <2>8, SDestroyScripting
  <2>10. SC!ClosedAfterOpened
    BY <1>7, <2>5, <2>7, <2>9 DEF SFine, SNoClose, SClosed, SC!ClosedAfterOpened
  <2> QED BY <2>9, <2>10 DEF SFine, SKept
<1> QED BY <1>9, <1>10

(* CloseTimer keeps the invariant. *)
LEMMA SCloseTimer ==
  ASSUME SC!IInv, SC!CloseTimer
  PROVE  SKept
<1>1. st.scripting # 0
  BY SShape DEF SC!IInv, SC!CloseTimer, SC!Without
<1>2. st.library = "loading" => st.viewer = 0
  BY <1>1, SShape DEF SC!IInv, SC!CloseTimer, SC!WithSandbox
<1>3. SFine(st, st')
  BY <1>1, <1>2, SDestroySandbox DEF SC!IInv, SC!CloseTimer
<1> QED BY <1>3, SFineKept

(* Printing is only waited for with a sandbox. *)
LEMMA SPrinting ==
  ASSUME SC!IInv, st.scripting # 0, SC!WillPrint \/ SC!WillPrintFinished
  PROVE  SKept
<1>1. DOMAIN st = DOMAIN SC!Start /\ SC!Shape(st) /\ SC!LastDocument(st) /\ SC!WithSandbox(st)
  BY SShape DEF SC!IInv
<1>2. /\ DOMAIN st' = DOMAIN SC!Start /\ st'.viewer = st.viewer /\ st'.docs = st.docs /\ st'.page = st.page /\ st'.finished = st.finished
      /\ st'.pdfDocument = st.pdfDocument /\ st'.library = st.library /\ st'.setup = st.setup /\ st'.refused = st.refused
      /\ st'.asked = st.asked /\ st'.listening = st.listening /\ st'.visitedPages = st.visitedPages /\ st'.scripting = st.scripting
      /\ st'.made = st.made /\ st'.destroying = st.destroying /\ st'.last = st.last /\ st'.destroy = st.destroy
  <2>1. CASE SC!WillPrint
    <3>1. st' = [st EXCEPT !.queued = 1] \/ st' = [st EXCEPT !.willPrint = "pending", !.printing = 1]
      BY <2>1 DEF SC!WillPrint
    <3> QED BY <1>1, <3>1 DEF SC!Start
  <2>2. CASE SC!WillPrintFinished
    <3>1. st' = [st EXCEPT !.queued = 0] \/ st' = [st EXCEPT !.willPrint = "null", !.printing = 0]
      BY <2>2 DEF SC!WillPrintFinished
    <3> QED BY <1>1, <3>1 DEF SC!Start
  <2> QED BY <2>1, <2>2
<1>3. SC!Shape(st') /\ SC!LastDocument(st')
  BY <1>1, <1>2 DEF SC!Shape, SC!LastDocument
<1>4. SC!WithSandbox(st')
  BY <1>1, <1>2 DEF SC!WithSandbox
<1>5. SFine(st, st')
  BY <1>2, <1>3, <1>4 DEF SC!Sound, SFine, SNoClose
<1> QED BY <1>5, SFineKept

(* WillPrint and its end keep the invariant. *)
LEMMA SPrint ==
  ASSUME SC!IInv, SC!WillPrint \/ SC!WillPrintFinished
  PROVE  SKept
<1>1. st.scripting # 0
  BY SShape DEF SC!IInv, SC!WillPrint, SC!WillPrintFinished, SC!Without
<1> QED BY <1>1, SPrinting

(* The first state. *)
LEMMA SInit ==
  ASSUME SC!Init
  PROVE  SC!IInv
<1>1. st = SC!Start
  BY DEF SC!Init
<1>2. /\ st.viewer = 0 /\ st.docs = 0 /\ st.page = 1 /\ st.finished = {} /\ st.pdfDocument = 0 /\ st.scripting = 0
      /\ st.setup = [d \in SC!Doc |-> "no"] /\ st.asked = {} /\ st.visitedPages = [p \in SC!Page |-> "absent"]
      /\ st.last = [p \in SC!Page |-> "none"] /\ st.destroying = "no"
  BY <1>1 DEF SC!Start
<1>3. ~st.listening /\ ~st.ready /\ ~st.refused /\ st.printing = 0 /\ st.queued = 0 /\ st.made = 0
  BY <1>1 DEF SC!Start
<1>4. 0 \in SC!Maybe /\ 1 \in SC!Page
  BY ScriptingAssumption DEF SC!Maybe, SC!Page
<1>5. SC!Shape(st)
  BY <1>1, <1>2, <1>3, <1>4 DEF SC!Shape
<1>6. SC!LastDocument(st)
  BY <1>2 DEF SC!LastDocument
<1>7. SC!Without(st)
  BY <1>2, <1>3 DEF SC!Without
<1> QED BY <1>2, <1>5, <1>6, <1>7 DEF SC!IInv, SC!Sound

(* Every step keeps the invariant, and closes no page that was not opened. *)
LEMMA SStep ==
  ASSUME SC!IInv, SC!Next
  PROVE  SKept
<1>1. CASE SC!OpenDocument
  BY <1>1, SOpenDocument
<1>2. CASE SC!CloseDocument
  BY <1>2, SCloseDocument
<1>3. CASE SC!CloseTimer
  BY <1>3, SCloseTimer
<1>4. CASE SC!WillPrint \/ SC!WillPrintFinished
  BY <1>4, SPrint
<1>5. CASE \E d \in SC!Doc : SC!SetDocument(d) \/ SC!DocProperties(d) \/ \E some \in BOOLEAN : SC!FieldObjects(d, some)
  BY <1>5, SSetDocument, SDocProperties, SFieldObjects
<1>6. CASE \E ok \in BOOLEAN : SC!Library(ok)
  BY <1>6, SLibrary
<1>7. CASE \E p \in SC!Page : \/ SC!PageRendered(p) \/ SC!PageEvicted(p) \/ SC!PageChanging(p)
                              \/ \E d \in SC!Doc : SC!PageActions(d, p)
  BY <1>7, SPageRendered, SPageEvicted, SPageChanging, SPageActions
<1> QED BY <1>1, <1>2, <1>3, <1>4, <1>5, <1>6, <1>7 DEF SC!Next

(* What the invariant says about sandboxes and printing. *)
LEMMA SProps ==
  ASSUME SC!IInv
  PROVE  SC!SandboxOfDocument /\ SC!NeverRefused /\ SC!NoPrintWaits /\ SC!QuietWithout
<1>1. CASE st.scripting = 0
  BY <1>1, SShape DEF SC!IInv, SC!Without, SC!SandboxOfDocument, SC!NeverRefused, SC!NoPrintWaits, SC!QuietWithout
<1>2. CASE st.scripting # 0
  BY <1>2, SShape DEF SC!IInv, SC!WithSandbox, SC!SandboxOfDocument, SC!NeverRefused, SC!NoPrintWaits, SC!QuietWithout
<1> QED BY <1>1, <1>2

-----------------------------------------------------------------------------
(* ViewsManager, PDFOutlineViewer and ViewHistory: the sidebar. *)

(* The entry that is found is the only one of the file. *)
LEMMA VStored ==
  ASSUME NEW u, SB!Bounded(u.memory), NEW i \in DOMAIN u.memory, u.memory[i].file = u.file
  PROVE  SB!Stored(u) = u.memory[i]
<1>1. PICK S : S = {u.memory[j] : j \in DOMAIN u.memory}
  OBVIOUS
<1>2. SB!Stored(u) = CHOOSE x \in S : x.file = u.file
  BY <1>1 DEF SB!Stored
<1>3. \E x \in S : x.file = u.file
  BY <1>1
<1>4. SB!Stored(u) \in S /\ SB!Stored(u).file = u.file
  BY <1>2, <1>3
<1>5. PICK j \in DOMAIN u.memory : SB!Stored(u) = u.memory[j]
  BY <1>1, <1>4
<1> QED BY <1>4, <1>5 DEF SB!Bounded

(* All but the view, and who was told of it. *)
VSame(u, r) ==
  /\ DOMAIN r = DOMAIN SB!Start /\ r.gen = u.gen /\ r.opens = u.opens /\ r.file = u.file /\ r.initial = u.initial /\ r.rendered = u.rendered
  /\ r.currentDisabled = u.currentDisabled /\ r.viewSet = u.viewSet /\ r.asked = u.asked
  /\ r.outline = u.outline /\ r.pagesLoaded = u.pagesLoaded /\ r.capability = u.capability /\ r.loops = u.loops /\ r.item = u.item

(* The view, open or not. *)
VView(u, r) == r.isOpen = u.isOpen /\ r.hidden = u.hidden /\ r.active = u.active /\ r.disabled = u.disabled /\ r.eventSent = u.eventSent

(* ViewHistory.set: the entry of the open file changes. *)
VKept(u, x, r) ==
  /\ VSame(u, r) /\ VView(u, r) /\ r.told = u.told /\ r.thumbs = u.thumbs /\ SB!HistorySound(r) /\ SB!Stored(r) = x

(* Store keeps the invariant. *)
LEMMA VStore ==
  ASSUME NEW u, DOMAIN u = DOMAIN SB!Start, SB!HistorySound(u), u.gen # 0, NEW x \in SB!Entry, x.file = u.file, NEW r, r = SB!Store(u, x)
  PROVE  VKept(u, x, r)
<1>1. PICK i \in DOMAIN u.memory : u.memory[i].file = u.file
  BY DEF SB!HistorySound
<1>2. PICK n \in Nat : n = Len(u.memory)
  BY DEF SB!HistorySound, SB!Bounded
<1>3. DOMAIN u.memory = 1 .. n /\ \A j \in 1 .. n : u.memory[j] \in SB!Entry
  BY <1>2 DEF SB!HistorySound, SB!Bounded
<1>4. PICK m : m = [j \in 1 .. n |-> IF u.memory[j].file = u.file THEN x ELSE u.memory[j]]
  OBVIOUS
<1>5. m \in Seq(SB!Entry) /\ Len(m) = n /\ DOMAIN m = 1 .. n /\ \A j \in 1 .. n : m[j].file = u.memory[j].file
  BY <1>3, <1>4
<1>6. SB!Bounded(m)
  BY <1>2, <1>3, <1>5 DEF SB!HistorySound, SB!Bounded
<1>7. m[i] = x
  BY <1>1, <1>3, <1>4
<1>8. r = [u EXCEPT !.memory = m, !.storage = m]
  BY <1>3, <1>4 DEF SB!Store
<1>9. VSame(u, r) /\ VView(u, r) /\ r.told = u.told /\ r.thumbs = u.thumbs /\ r.memory = m /\ r.storage = m
  BY <1>8 DEF VSame, VView, SB!Start
<1>10. SB!HistorySound(r)
  BY <1>1, <1>3, <1>5, <1>6, <1>9 DEF SB!HistorySound, VSame
<1>11. SB!Stored(r) = x
  <2>1. r.memory[i].file = r.file /\ i \in DOMAIN r.memory /\ SB!Bounded(r.memory)
    BY <1>1, <1>3, <1>5, <1>6, <1>9 DEF VSame
  <2> QED BY <1>7, <1>9, <2>1, VStored
<1> QED BY <1>9, <1>10, <1>11 DEF VKept

(* Everybody is told of the view. *)
VTells(u, r) ==
  /\ VSame(u, r) /\ SB!Ready(r) /\ SB!Told(r) /\ r.isOpen = u.isOpen /\ r.active = u.active /\ r.disabled = u.disabled
  /\ r.eventSent = (u.eventSent \/ u.viewSet)

(* The event of the sidebar tells what is in view. *)
LEMMA VDispatch ==
  ASSUME NEW u, SB!Ready(u), NEW r, r = SB!DispatchView(u)
  PROVE  VTells(u, r)
<1>1. DOMAIN u = DOMAIN SB!Start
  BY DEF SB!Ready
<1>2. PICK v : v = SB!VisibleView(u)
  OBVIOUS
<1>3. PICK e : e = (u.eventSent \/ u.viewSet)
  OBVIOUS
<1>4. PICK b : b = (v = "thumbs")
  OBVIOUS
<1>5. PICK x : x = [u EXCEPT !.told = v, !.eventSent = e]
  OBVIOUS
<1>6. PICK w : w = [x EXCEPT !.thumbs = b]
  OBVIOUS
<1>7. /\ VSame(u, w) /\ w.isOpen = u.isOpen /\ w.hidden = u.hidden /\ w.active = u.active /\ w.disabled = u.disabled /\ w.eventSent = e
      /\ w.told = v /\ w.thumbs = b /\ w.memory = u.memory /\ w.storage = u.storage
  BY <1>1, <1>5, <1>6 DEF VSame, SB!Start
<1>8. x.isOpen = u.isOpen /\ x.active = u.active /\ x.initial = u.initial /\ x.gen = u.gen /\ x.memory = u.memory /\ x.file = u.file
  BY <1>1, <1>5 DEF SB!Start
<1>9. SB!VisibleView(x) = v /\ SB!VisibleView(w) = v
  BY <1>2, <1>7, <1>8 DEF SB!VisibleView
<1>10. r = IF u.initial /\ u.gen # 0 THEN SB!Store(w, [SB!Stored(x) EXCEPT !.view = v]) ELSE w
  BY <1>2, <1>3, <1>4, <1>5, <1>6, <1>8, <1>9 DEF SB!DispatchView, SB!OnSidebarViewChanged
<1>11. SB!HistorySound(w) /\ DOMAIN w = DOMAIN SB!Start
  BY <1>7 DEF SB!Ready, SB!HistorySound, VSame
<1>12. SB!Ready(w)
  BY <1>3, <1>7, <1>11 DEF SB!Ready, VSame
<1>13. CASE ~(u.initial /\ u.gen # 0)
  <2>1. r = w /\ ~w.initial
    BY <1>7, <1>10, <1>13 DEF SB!Ready, VSame
  <2>2. SB!Told(w)
    BY <1>4, <1>7, <1>9, <2>1 DEF SB!Told
  <2> QED BY <1>3, <1>7, <1>12, <2>1, <2>2 DEF VTells
<1>14. CASE u.initial /\ u.gen # 0
  <2>1. PICK i \in DOMAIN u.memory : u.memory[i].file = u.file
    BY <1>14 DEF SB!Ready, SB!HistorySound
  <2>2. SB!Stored(x) = u.memory[i]
    <3>1. SB!Bounded(x.memory) /\ i \in DOMAIN x.memory /\ x.memory[i].file = x.file
      BY <1>8, <2>1 DEF SB!Ready, SB!HistorySound
    <3> QED BY <1>8, <3>1, VStored
  <2>3. u.memory[i] \in SB!Entry
    BY <2>1 DEF SB!Ready, SB!HistorySound, SB!Bounded
  <2>4. v \in SB!View \cup {"none", "unknown"}
    BY <1>2 DEF SB!Ready, SB!VisibleView
  <2>5. PICK y : y = [SB!Stored(x) EXCEPT !.view = v]
    OBVIOUS
  <2>6. y \in SB!Entry /\ y.file = u.file /\ y.view = v
    BY <2>1, <2>2, <2>3, <2>4, <2>5 DEF SB!Entry
  <2>7. r = SB!Store(w, y) /\ w.gen # 0 /\ y.file = w.file
    BY <1>7, <1>10, <1>14, <2>5, <2>6 DEF VSame
  <2>8. VKept(w, y, r)
    BY <1>11, <2>6, <2>7, VStore
  <2>9. VSame(u, r) /\ r.isOpen = u.isOpen /\ r.hidden = u.hidden /\ r.active = u.active /\ r.disabled = u.disabled /\ r.eventSent = e
        /\ r.told = v /\ r.thumbs = b /\ SB!HistorySound(r) /\ SB!Stored(r) = y
    BY <1>7, <2>8 DEF VKept, VSame, VView
  <2>10. SB!Ready(r)
    BY <1>3, <2>9 DEF SB!Ready, VSame
  <2>11. SB!VisibleView(r) = v
    BY <1>2, <2>9 DEF SB!VisibleView
  <2>12. SB!Told(r)
    BY <1>4, <2>6, <2>9, <2>11 DEF SB!Told
  <2> QED BY <1>3, <2>9, <2>10, <2>12 DEF VTells
<1> QED BY <1>13, <1>14

(* switchView: all are told, or the view is the one it was. *)
VSwitched(u, view, r) ==
  /\ VSame(u, r) /\ SB!Ready(r) /\ r.active = view /\ r.disabled = u.disabled
  /\ \/ SB!Told(r) /\ r.eventSent = (u.eventSent \/ u.viewSet)
     \/ view = u.active /\ r.eventSent = u.eventSent /\ (SB!Told(u) => SB!Told(r))

(* SwitchOnly keeps the invariant. *)
LEMMA VSwitchOnly ==
  ASSUME NEW u, SB!Ready(u), NEW view \in SB!View, view \notin u.disabled, NEW r, r = SB!SwitchOnly(u, view)
  PROVE  VSwitched(u, view, r) /\ r.isOpen = u.isOpen
<1>1. DOMAIN u = DOMAIN SB!Start
  BY DEF SB!Ready
<1>2. PICK b : b = (u.thumbs \/ (u.isOpen /\ view = "thumbs"))
  OBVIOUS
<1>3. PICK w : w = [u EXCEPT !.active = view, !.thumbs = b]
  OBVIOUS
<1>4. /\ VSame(u, w) /\ w.isOpen = u.isOpen /\ w.hidden = u.hidden /\ w.active = view /\ w.disabled = u.disabled /\ w.eventSent = u.eventSent
      /\ w.told = u.told /\ w.thumbs = b /\ w.memory = u.memory /\ w.storage = u.storage
  BY <1>1, <1>3 DEF VSame, SB!Start
<1>5. r = IF view # u.active THEN SB!DispatchView(w) ELSE w
  BY <1>2, <1>3 DEF SB!SwitchOnly
<1>6. SB!HistorySound(w)
  BY <1>4 DEF SB!Ready, SB!HistorySound, VSame
<1>7. SB!Ready(w)
  BY <1>4, <1>6 DEF SB!Ready, VSame
<1>8. CASE view # u.active
  <2>1. VTells(w, r)
    BY <1>5, <1>7, <1>8, VDispatch
  <2> QED BY <1>4, <2>1 DEF VTells, VSwitched, VSame
<1>9. CASE view = u.active
  <2>1. r = w
    BY <1>5, <1>9
  <2>2. ASSUME SB!Told(u) PROVE SB!Told(w)
    <3>1. SB!VisibleView(w) = SB!VisibleView(u)
      BY <1>4, <1>9 DEF SB!VisibleView
    <3>2. b = u.thumbs
      BY <1>2, <1>9, <2>2 DEF SB!Told, SB!VisibleView
    <3>3. SB!Stored(w) = SB!Stored(u)
      BY <1>4 DEF SB!Stored, VSame
    <3> QED BY <1>4, <2>2, <3>1, <3>2, <3>3 DEF SB!Told, VSame
  <2> QED BY <1>4, <1>7, <1>9, <2>1, <2>2 DEF VSwitched
<1> QED BY <1>8, <1>9

(* OpenSidebar keeps the invariant. *)
LEMMA VOpenSidebar ==
  ASSUME NEW u, SB!Ready(u), ~u.isOpen, NEW r, r = SB!OpenSidebar(u)
  PROVE  VSwitched(u, u.active, r) /\ SB!Told(r)
<1>1. DOMAIN u = DOMAIN SB!Start
  BY DEF SB!Ready
<1>2. PICK x : x = [u EXCEPT !.isOpen = TRUE, !.hidden = FALSE]
  OBVIOUS
<1>3. PICK y : y = SB!SwitchOnly(x, u.active)
  OBVIOUS
<1>4. PICK b : b = (y.active = "thumbs")
  OBVIOUS
<1>5. PICK w : w = [y EXCEPT !.thumbs = b]
  OBVIOUS
<1>6. r = SB!DispatchView(w)
  BY <1>2, <1>3, <1>4, <1>5 DEF SB!OpenSidebar
<1>7. /\ VSame(u, x) /\ x.isOpen /\ x.isOpen \in BOOLEAN /\ ~x.hidden /\ x.hidden \in BOOLEAN /\ x.active = u.active /\ x.disabled = u.disabled
      /\ x.eventSent = u.eventSent /\ x.memory = u.memory /\ x.storage = u.storage /\ DOMAIN x = DOMAIN SB!Start
  BY <1>1, <1>2 DEF VSame, SB!Start
<1>8. /\ VSame(u, y) /\ y.isOpen /\ y.isOpen \in BOOLEAN /\ ~y.hidden /\ y.hidden \in BOOLEAN /\ y.active = u.active /\ y.disabled = u.disabled
      /\ y.eventSent = u.eventSent /\ y.memory = u.memory /\ y.storage = u.storage /\ DOMAIN y = DOMAIN SB!Start
  <2>1. CASE u.active \in x.disabled
    <3>1. y = x
      BY <1>3, <2>1 DEF SB!SwitchOnly
    <3> QED BY <1>7, <3>1
  <2>2. CASE u.active \notin x.disabled
    <3>1. PICK c : c = (x.thumbs \/ (x.isOpen /\ u.active = "thumbs"))
      OBVIOUS
    <3>2. y = [x EXCEPT !.active = u.active, !.thumbs = c]
      BY <1>3, <1>7, <2>2, <3>1 DEF SB!SwitchOnly
    <3>3. /\ VSame(x, y) /\ y.isOpen = x.isOpen /\ y.hidden = x.hidden /\ y.active = u.active /\ y.disabled = x.disabled
          /\ y.eventSent = x.eventSent /\ y.memory = x.memory /\ y.storage = x.storage
      BY <1>7, <3>2 DEF VSame, SB!Start
    <3> QED BY <1>7, <3>3 DEF VSame
  <2> QED BY <2>1, <2>2
<1>9. /\ VSame(y, w) /\ w.isOpen = y.isOpen /\ w.hidden = y.hidden /\ w.active = y.active /\ w.disabled = y.disabled
      /\ w.eventSent = y.eventSent /\ w.memory = y.memory /\ w.storage = y.storage
  BY <1>5, <1>8 DEF VSame, SB!Start
<1>10. SB!HistorySound(w)
  BY <1>8, <1>9 DEF SB!Ready, SB!HistorySound, VSame
<1>11. SB!Ready(w)
  BY <1>8, <1>9, <1>10 DEF SB!Ready, VSame
<1>12. VTells(w, r)
  BY <1>6, <1>11, VDispatch
<1> QED BY <1>8, <1>9, <1>12 DEF VTells, VSwitched, VSame

(* CloseSidebar keeps the invariant. *)
LEMMA VCloseSidebar ==
  ASSUME NEW u, SB!Ready(u), u.isOpen, NEW r, r = SB!CloseSidebar(u)
  PROVE  VSwitched(u, u.active, r) /\ SB!Told(r)
<1>1. DOMAIN u = DOMAIN SB!Start
  BY DEF SB!Ready
<1>2. PICK w : w = [u EXCEPT !.isOpen = FALSE, !.hidden = TRUE, !.thumbs = FALSE]
  OBVIOUS
<1>3. r = SB!DispatchView(w)
  BY <1>2 DEF SB!CloseSidebar
<1>4. /\ VSame(u, w) /\ ~w.isOpen /\ w.isOpen \in BOOLEAN /\ w.hidden /\ w.hidden \in BOOLEAN /\ w.active = u.active /\ w.disabled = u.disabled
      /\ w.eventSent = u.eventSent /\ w.memory = u.memory /\ w.storage = u.storage
  BY <1>1, <1>2 DEF VSame, SB!Start
<1>5. SB!HistorySound(w)
  BY <1>4 DEF SB!Ready, SB!HistorySound, VSame
<1>6. SB!Ready(w)
  BY <1>4, <1>5 DEF SB!Ready, VSame
<1>7. VTells(w, r)
  BY <1>3, <1>6, VDispatch
<1> QED BY <1>4, <1>7 DEF VTells, VSwitched, VSame

(* switchView of any view. *)
VMoved(u, r) ==
  /\ VSame(u, r) /\ SB!Ready(r) /\ SB!Enabled(r) /\ r.disabled = u.disabled
  /\ \/ SB!Told(r) /\ r.eventSent = (u.eventSent \/ u.viewSet)
     \/ r.eventSent = u.eventSent /\ (SB!Told(u) => SB!Told(r))

(* A switch of the view is a move of the sidebar. *)
LEMMA VSwitchedMoved ==
  ASSUME NEW u, NEW view, view \notin u.disabled, "thumbs" \notin u.disabled, NEW r, VSwitched(u, view, r)
  PROVE  VMoved(u, r)
<1>1. SB!Enabled(r)
  BY DEF VSwitched, SB!Enabled
<1> QED BY <1>1 DEF VSwitched, VMoved

(* The sidebar may stay as it is. *)
LEMMA VUnmoved ==
  ASSUME NEW u, SB!Ready(u), SB!Enabled(u)
  PROVE  VMoved(u, u)
<1>1. VSame(u, u)
  BY DEF VSame, SB!Ready
<1> QED BY <1>1 DEF VMoved

(* SwitchView keeps the invariant. *)
LEMMA VSwitchView ==
  ASSUME NEW u, SB!Ready(u), SB!Enabled(u), NEW view \in SB!View \cup {"none"}, NEW force \in BOOLEAN, NEW r, r = SB!SwitchView(u, view, force)
  PROVE  VMoved(u, r)
<1>1. u.active \notin u.disabled /\ "thumbs" \notin u.disabled
  BY DEF SB!Enabled
<1>2. CASE view = "none"
  <2>1. r = SB!CloseSidebar(u)
    BY <1>2 DEF SB!SwitchView
  <2>2. CASE u.isOpen
    <3>1. VSwitched(u, u.active, r)
      BY <2>1, <2>2, VCloseSidebar
    <3> QED BY <1>1, <3>1, VSwitchedMoved
  <2>3. CASE ~u.isOpen
    <3>1. r = u
      BY <2>1, <2>3 DEF SB!CloseSidebar
    <3> QED BY <3>1, VUnmoved
  <2> QED BY <2>2, <2>3
<1>3. CASE view # "none" /\ view \in u.disabled
  <2>1. r = u
    BY <1>3 DEF SB!SwitchView
  <2> QED BY <2>1, VUnmoved
<1>4. CASE view # "none" /\ view \notin u.disabled /\ force /\ ~u.isOpen
  <2>1. PICK w : w = [u EXCEPT !.active = view]
    OBVIOUS
  <2>2. DOMAIN u = DOMAIN SB!Start
    BY DEF SB!Ready
  <2>3. /\ VSame(u, w) /\ w.isOpen = u.isOpen /\ w.hidden = u.hidden /\ w.active = view /\ w.disabled = u.disabled
        /\ w.eventSent = u.eventSent /\ w.memory = u.memory /\ w.storage = u.storage
    BY <2>1, <2>2 DEF VSame, SB!Start
  <2>4. SB!HistorySound(w)
    BY <2>3 DEF SB!Ready, SB!HistorySound, VSame
  <2>5. SB!Ready(w) /\ ~w.isOpen
    BY <1>4, <2>3, <2>4 DEF SB!Ready, VSame
  <2>6. r = SB!OpenSidebar(w)
    BY <1>4, <2>1 DEF SB!SwitchView
  <2>7. VSwitched(w, view, r) /\ SB!Told(r)
    BY <2>3, <2>5, <2>6, VOpenSidebar
  <2>8. VSame(u, r) /\ SB!Ready(r) /\ r.active = view /\ r.disabled = u.disabled
        /\ (r.eventSent = (u.eventSent \/ u.viewSet) \/ r.eventSent = u.eventSent)
    BY <2>3, <2>7 DEF VSwitched, VSame
  <2>9. SB!Enabled(r)
    BY <1>1, <1>4, <2>8 DEF SB!Enabled
  <2> QED BY <2>7, <2>8, <2>9 DEF VMoved
<1>5. CASE view # "none" /\ view \notin u.disabled /\ ~(force /\ ~u.isOpen)
  <2>1. r = SB!SwitchOnly(u, view) /\ view \in SB!View
    BY <1>5 DEF SB!SwitchView
  <2>2. VSwitched(u, view, r)
    BY <1>5, <2>1, VSwitchOnly
  <2> QED BY <1>1, <1>5, <2>2, VSwitchedMoved
<1> QED BY <1>2, <1>3, <1>4, <1>5

(* What the rest of the invariant sees of the view. *)
LEMMA VSound ==
  ASSUME NEW u, NEW r, VSame(u, r), SB!Ready(r), SB!Enabled(r), SB!Told(r), SB!Begun(u), SB!OutlineSound(u), r.eventSent => u.viewSet
  PROVE  SB!Sound(r)
<1>1. SB!Begun(r)
  BY DEF SB!Begun, VSame
<1>2. SB!OutlineSound(r)
  BY DEF SB!OutlineSound, VSame
<1> QED BY <1>1, <1>2 DEF SB!Sound

(* A move of the sidebar keeps the invariant. *)
LEMMA VMovedSound ==
  ASSUME NEW u, SB!Sound(u), NEW r, VMoved(u, r)
  PROVE  SB!Sound(r)
<1>1. SB!Told(u) /\ SB!Begun(u) /\ SB!OutlineSound(u)
  BY DEF SB!Sound
<1>2. u.eventSent => u.viewSet
  BY <1>1 DEF SB!Begun
<1>3. VSame(u, r) /\ SB!Ready(r) /\ SB!Enabled(r) /\ SB!Told(r) /\ (r.eventSent => u.viewSet)
  BY <1>1, <1>2 DEF VMoved
<1> QED BY <1>1, <1>3, VSound

(* A view turns out to have something to show, or nothing: then the thumbnails are shown. *)
VLoaded(u, r) ==
  /\ VSame(u, r) /\ SB!Ready(r) /\ SB!Enabled(r) /\ SB!Told(r) /\ (r.eventSent => u.eventSent \/ u.viewSet)

(* TreeLoaded keeps the invariant. *)
LEMMA VTreeLoaded ==
  ASSUME NEW u, SB!Ready(u), SB!Enabled(u), SB!Told(u), NEW view \in {"outline", "layers"}, NEW some \in BOOLEAN,
         NEW r, r = SB!TreeLoaded(u, view, some)
  PROVE  VLoaded(u, r)
<1>1. PICK d : d = IF some THEN u.disabled \ {view} ELSE u.disabled \cup {view}
  OBVIOUS
<1>2. PICK w : w = [u EXCEPT !.disabled = d]
  OBVIOUS
<1>3. r = IF ~some /\ u.active = view THEN SB!SwitchView(w, "thumbs", FALSE) ELSE w
  BY <1>1, <1>2 DEF SB!TreeLoaded
<1>4. DOMAIN u = DOMAIN SB!Start
  BY DEF SB!Ready
<1>5. /\ VSame(u, w) /\ w.isOpen = u.isOpen /\ w.hidden = u.hidden /\ w.active = u.active /\ w.disabled = d /\ w.told = u.told
      /\ w.thumbs = u.thumbs /\ w.eventSent = u.eventSent /\ w.memory = u.memory /\ w.storage = u.storage
  BY <1>2, <1>4 DEF VSame, SB!Start
<1>6. SB!HistorySound(w)
  BY <1>5 DEF SB!Ready, SB!HistorySound, VSame
<1>7. SB!Ready(w)
  BY <1>5, <1>6 DEF SB!Ready, VSame
<1>8. "thumbs" \notin d
  BY <1>1 DEF SB!Enabled
<1>9. CASE ~some /\ u.active = view
  <2>1. r = SB!SwitchOnly(w, "thumbs")
    BY <1>3, <1>5, <1>8, <1>9 DEF SB!SwitchView
  <2>2. "thumbs" \in SB!View /\ "thumbs" \notin w.disabled
    BY <1>5, <1>8 DEF SB!View
  <2>3. VSwitched(w, "thumbs", r)
    BY <1>7, <2>1, <2>2, VSwitchOnly
  <2>4. "thumbs" # w.active
    BY <1>5, <1>9
  <2>5. SB!Enabled(r)
    BY <2>2, <2>3 DEF VSwitched, SB!Enabled
  <2>6. SB!Told(r) /\ r.eventSent = (w.eventSent \/ w.viewSet) /\ SB!Ready(r) /\ VSame(w, r)
    BY <2>3, <2>4 DEF VSwitched
  <2> QED BY <1>5, <2>5, <2>6 DEF VLoaded, VSame
<1>10. CASE ~(~some /\ u.active = view)
  <2>1. r = w
    BY <1>3, <1>10
  <2>2. SB!Enabled(w)
    BY <1>1, <1>5, <1>8, <1>10 DEF SB!Enabled
  <2>3. SB!Told(w)
    <3>1. SB!VisibleView(w) = SB!VisibleView(u)
      BY <1>5 DEF SB!VisibleView
    <3>2. SB!Stored(w) = SB!Stored(u)
      BY <1>5 DEF SB!Stored, VSame
    <3> QED BY <1>5, <3>1, <3>2 DEF SB!Told, VSame
  <2> QED BY <1>5, <1>7, <2>1, <2>2, <2>3 DEF VLoaded
<1> QED BY <1>9, <1>10

(* setInitialView: everybody is told of it, whatever it is. *)
LEMMA VSetInitial ==
  ASSUME NEW u, SB!Ready(u), SB!Enabled(u), ~u.viewSet, ~u.eventSent, NEW view \in SB!View \cup {"none", "unknown"},
         NEW w, w = [u EXCEPT !.viewSet = TRUE], NEW r, r = SB!SetInitialSidebar(u, view)
  PROVE  VLoaded(w, r) /\ DOMAIN w = DOMAIN SB!Start
<1>1. DOMAIN u = DOMAIN SB!Start
  BY DEF SB!Ready
<1>2. /\ DOMAIN w = DOMAIN SB!Start /\ w.gen = u.gen /\ w.file = u.file /\ w.initial = u.initial /\ w.isOpen = u.isOpen
      /\ w.hidden = u.hidden /\ w.active = u.active /\ w.disabled = u.disabled /\ w.viewSet = TRUE /\ w.eventSent = u.eventSent
      /\ w.memory = u.memory /\ w.storage = u.storage
  BY <1>1 DEF SB!Start
<1>3. SB!HistorySound(w)
  BY <1>2 DEF SB!Ready, SB!HistorySound
<1>4. SB!Ready(w)
  BY <1>2, <1>3 DEF SB!Ready
<1>5. SB!Enabled(w)
  BY <1>2 DEF SB!Enabled
<1>6. PICK x : x = IF view \in {"none", "unknown"} THEN w ELSE SB!SwitchView(w, view, TRUE)
  OBVIOUS
<1>7. r = IF view \in {"none", "unknown"} \/ ~x.eventSent THEN SB!DispatchView(x) ELSE x
  BY <1>6 DEF SB!SetInitialSidebar
<1>8. VMoved(w, x)
  <2>1. CASE view \in {"none", "unknown"}
    BY <1>4, <1>5, <1>6, <2>1, VUnmoved
  <2>2. CASE view \notin {"none", "unknown"}
    <3>1. x = SB!SwitchView(w, view, TRUE) /\ view \in SB!View \cup {"none"}
      BY <1>6, <2>2
    <3> QED BY <1>4, <1>5, <3>1, VSwitchView
  <2> QED BY <2>1, <2>2
<1>9. VSame(w, x) /\ SB!Ready(x) /\ SB!Enabled(x)
  BY <1>8 DEF VMoved
<1>10. CASE view \in {"none", "unknown"} \/ ~x.eventSent
  <2>1. VTells(x, r)
    BY <1>7, <1>9, <1>10, VDispatch
  <2>2. SB!Enabled(r)
    BY <1>9, <2>1 DEF VTells, SB!Enabled
  <2>3. VSame(w, r) /\ SB!Ready(r) /\ SB!Told(r)
    BY <1>9, <2>1 DEF VTells, VSame
  <2> QED BY <1>2, <2>2, <2>3 DEF VLoaded
<1>11. CASE ~(view \in {"none", "unknown"} \/ ~x.eventSent)
  <2>1. r = x /\ x.eventSent
    BY <1>7, <1>11
  <2>2. SB!Told(x)
    BY <1>2, <1>8, <2>1 DEF VMoved
  <2> QED BY <1>2, <1>9, <2>1, <2>2 DEF VLoaded
<1> QED BY <1>2, <1>10, <1>11

(* ViewHistory: with room for the file, or without its oldest entries. *)
LEMMA VForget ==
  ASSUME NEW s, SB!Bounded(s)
  PROVE  SB!Bounded(SB!Forget(s)) /\ (Len(SB!Forget(s)) < HistorySize)
<1> USE SidebarAssumption
<1>1. PICK n \in Nat : n = Len(s)
  BY DEF SB!Bounded
<1>2. s \in Seq(SB!Entry) /\ n <= HistorySize /\ DOMAIN s = 1 .. n
  BY <1>1 DEF SB!Bounded
<1>3. CASE n < HistorySize
  BY <1>1, <1>3 DEF SB!Forget
<1>4. CASE n = HistorySize
  <2>1. PICK k : k = SubSeq(s, 2, n)
    OBVIOUS
  <2>2. SB!Forget(s) = k
    BY <1>1, <1>2, <1>4, <2>1 DEF SB!Forget
  <2>3. k \in Seq(SB!Entry) /\ Len(k) = n - 1 /\ \A i \in 1 .. n - 1 : k[i] = s[i + 1]
    BY <1>1, <1>2, <1>4, <2>1, SubSeqProperties
  <2>4. DOMAIN k = 1 .. n - 1
    BY <1>4, <2>3
  <2>5. ASSUME NEW i \in DOMAIN k, NEW j \in DOMAIN k, k[i].file = k[j].file PROVE i = j
    <3>1. i \in 1 .. n - 1 /\ j \in 1 .. n - 1
      BY <2>4, <2>5
    <3>2. i + 1 \in DOMAIN s /\ j + 1 \in DOMAIN s /\ s[i + 1].file = s[j + 1].file
      BY <1>2, <2>3, <2>5, <3>1
    <3>3. i + 1 = j + 1
      BY <3>2 DEF SB!Bounded
    <3> QED BY <3>1, <3>3
  <2> QED BY <1>2, <1>4, <2>2, <2>3, <2>5 DEF SB!Bounded
<1> QED BY <1>2, <1>3, <1>4

(* HistoryOf keeps the invariant. *)
LEMMA VHistoryOf ==
  ASSUME NEW s, SB!Bounded(s), NEW f \in FileIds, NEW m, m = SB!HistoryOf(s, f)
  PROVE  SB!Bounded(m) /\ \E i \in DOMAIN m : m[i].file = f
<1> USE SidebarAssumption
<1>1. PICK k : k = SB!Forget(s)
  OBVIOUS
<1>2. SB!Bounded(k) /\ Len(k) < HistorySize
  BY <1>1, VForget
<1>3. CASE \E i \in DOMAIN k : k[i].file = f
  <2>1. m = k
    BY <1>1, <1>3 DEF SB!HistoryOf
  <2> QED BY <1>2, <1>3, <2>1
<1>4. CASE ~\E i \in DOMAIN k : k[i].file = f
  <2>1. PICK x : x = [file |-> f, view |-> "unknown", page |-> FALSE]
    OBVIOUS
  <2>2. x \in SB!Entry /\ x.file = f
    BY <2>1 DEF SB!Entry
  <2>3. m = Append(k, x)
    BY <1>1, <1>4, <2>1 DEF SB!HistoryOf
  <2>4. PICK n \in Nat : n = Len(k)
    BY <1>2 DEF SB!Bounded
  <2>5. k \in Seq(SB!Entry) /\ DOMAIN k = 1 .. n
    BY <1>2, <2>4 DEF SB!Bounded
  <2>6. m \in Seq(SB!Entry) /\ Len(m) = n + 1 /\ m[n + 1] = x /\ \A i \in 1 .. n : m[i] = k[i]
    BY <2>2, <2>3, <2>4, <2>5, AppendProperties
  <2>7. DOMAIN m = 1 .. n + 1
    BY <2>6
  <2>8. ASSUME NEW i \in DOMAIN m, NEW j \in DOMAIN m, m[i].file = m[j].file PROVE i = j
    <3>1. CASE i = n + 1 /\ j = n + 1
      BY <3>1
    <3>2. CASE i = n + 1 /\ j \in 1 .. n
      BY <1>4, <2>2, <2>5, <2>6, <2>8, <3>2
    <3>3. CASE i \in 1 .. n /\ j = n + 1
      BY <1>4, <2>2, <2>5, <2>6, <2>8, <3>3
    <3>4. CASE i \in 1 .. n /\ j \in 1 .. n
      BY <1>2, <2>5, <2>6, <2>8, <3>4 DEF SB!Bounded
    <3> QED BY <2>7, <3>1, <3>2, <3>3, <3>4
  <2>9. n + 1 <= HistorySize
    BY <1>2, <2>4
  <2>10. SB!Bounded(m)
    BY <2>6, <2>8, <2>9 DEF SB!Bounded
  <2> QED BY <2>2, <2>6, <2>7, <2>10
<1> QED BY <1>3, <1>4

(* A step that changes neither the view nor the history. *)
VStill(u, r) ==
  /\ DOMAIN r = DOMAIN SB!Start /\ r.gen = u.gen /\ r.file = u.file /\ r.initial = u.initial /\ r.viewSet = u.viewSet
  /\ VView(u, r) /\ r.told = u.told /\ r.thumbs = u.thumbs /\ r.memory = u.memory /\ r.storage = u.storage

(* What does not touch the sidebar keeps the invariant. *)
LEMMA VStillSound ==
  ASSUME NEW u, SB!Ready(u), SB!Enabled(u), SB!Told(u), NEW r, VStill(u, r)
  PROVE  SB!Ready(r) /\ SB!Enabled(r) /\ SB!Told(r)
<1>1. SB!HistorySound(r)
  BY DEF SB!Ready, SB!HistorySound, VStill
<1>2. SB!Ready(r)
  BY <1>1 DEF SB!Ready, VStill, VView
<1>3. SB!VisibleView(r) = SB!VisibleView(u) /\ SB!Stored(r) = SB!Stored(u)
  BY DEF SB!VisibleView, SB!Stored, VStill, VView
<1>4. SB!Told(r)
  BY <1>3 DEF SB!Told, VStill
<1> QED BY <1>2, <1>4 DEF SB!Enabled, VStill, VView

(* The conjuncts of the invariant. *)
LEMMA VShape ==
  ASSUME NEW u, SB!Sound(u)
  PROVE  SB!Ready(u) /\ SB!Enabled(u) /\ SB!Told(u) /\ SB!Begun(u) /\ SB!OutlineSound(u) /\ DOMAIN u = DOMAIN SB!Start
BY DEF SB!Sound, SB!Ready

(* Load keeps the invariant. *)
LEMMA VLoad ==
  ASSUME SB!IInv, NEW f \in FileIds, SB!Load(f)
  PROVE  SB!Sound(st')
<1>1. SB!Ready(st) /\ SB!Enabled(st) /\ SB!Told(st) /\ SB!Begun(st) /\ SB!OutlineSound(st) /\ DOMAIN st = DOMAIN SB!Start
  BY VShape DEF SB!IInv
<1>2. PICK m : m = SB!HistoryOf(st.storage, f)
  OBVIOUS
<1>3. PICK n : n = st.opens + 1
  OBVIOUS
<1>4. st' = [st EXCEPT !.gen = n, !.opens = n, !.file = f, !.memory = m] /\ st.gen = 0
  BY <1>2, <1>3 DEF SB!Load
<1>5. /\ DOMAIN st' = DOMAIN SB!Start /\ st'.gen = n /\ st'.opens = n /\ st'.file = f /\ st'.memory = m /\ st'.storage = st.storage
      /\ VView(st, st') /\ st'.told = st.told /\ st'.thumbs = st.thumbs /\ st'.initial = st.initial /\ st'.viewSet = st.viewSet
  BY <1>1, <1>4 DEF VView, SB!Start
<1>6. /\ st'.rendered = st.rendered /\ st'.currentDisabled = st.currentDisabled /\ st'.asked = st.asked /\ st'.outline = st.outline
      /\ st'.pagesLoaded = st.pagesLoaded /\ st'.capability = st.capability /\ st'.loops = st.loops /\ st'.item = st.item
  BY <1>1, <1>4 DEF SB!Start
<1>7. SB!Bounded(st.storage)
  BY <1>1 DEF SB!Ready, SB!HistorySound
<1>8. SB!Bounded(m) /\ \E i \in DOMAIN m : m[i].file = f
  BY <1>2, <1>7, VHistoryOf
<1>9. SB!HistorySound(st')
  BY <1>5, <1>7, <1>8 DEF SB!HistorySound
<1>10. ~st.initial
  BY <1>1, <1>4 DEF SB!Ready
<1>11. SB!Ready(st')
  BY <1>1, <1>5, <1>9, <1>10 DEF SB!Ready, VView
<1>12. SB!Enabled(st')
  BY <1>1, <1>5 DEF SB!Enabled, VView
<1>13. SB!Told(st')
  <2>1. SB!VisibleView(st') = SB!VisibleView(st)
    BY <1>5 DEF SB!VisibleView, VView
  <2> QED BY <1>1, <1>5, <1>10, <2>1 DEF SB!Told
<1>14. st.opens \in Nat /\ n \in Nat /\ n # 0 /\ n > st.opens
  BY <1>1, <1>3 DEF SB!Begun
<1>15. n \notin st.asked /\ n \notin st.loops
  BY <1>1, <1>14 DEF SB!Begun
<1>16. SB!Begun(st')
  <2>1. \A g \in st.asked \cup st.loops : g \in Nat /\ g # 0 /\ g <= n
    BY <1>1, <1>14 DEF SB!Begun
  <2>2. st'.viewSet = st'.initial /\ (st'.eventSent => st'.viewSet) /\ (st'.rendered => st'.initial)
    BY <1>1, <1>5, <1>6 DEF SB!Begun, VView
  <2> QED BY <1>5, <1>6, <1>14, <1>15, <2>1, <2>2 DEF SB!Begun
<1>17. st.outline = 0 /\ st.item = 0
  BY <1>1, <1>4 DEF SB!OutlineSound
<1>18. SB!OutlineSound(st')
  BY <1>1, <1>5, <1>6, <1>15, <1>17 DEF SB!OutlineSound
<1> QED BY <1>11, <1>12, <1>13, <1>16, <1>18 DEF SB!Sound

(* Close keeps the invariant. *)
LEMMA VClose ==
  ASSUME SB!IInv, SB!Close
  PROVE  SB!Sound(st')
<1>1. SB!Ready(st) /\ SB!Enabled(st) /\ SB!Told(st) /\ SB!Begun(st) /\ SB!OutlineSound(st) /\ DOMAIN st = DOMAIN SB!Start
  BY VShape DEF SB!IInv
<1>2. PICK u : u = [st EXCEPT !.gen = 0, !.initial = FALSE, !.rendered = FALSE, !.memory = <<>>]
  OBVIOUS
<1>3. PICK v : v = [u EXCEPT !.viewSet = FALSE, !.eventSent = FALSE]
  OBVIOUS
<1>4. PICK w : w = SB!SwitchView(v, "thumbs", FALSE)
  OBVIOUS
<1>5. PICK x : x = [w EXCEPT !.disabled = {}, !.currentDisabled = TRUE]
  OBVIOUS
<1>6. PICK y : y = IF x.capability = "pending" THEN SB!CurrentItemKnown(x, FALSE) ELSE x
  OBVIOUS
<1>7. st' = [y EXCEPT !.outline = 0, !.item = 0, !.page = 1, !.pagesLoaded = FALSE, !.capability = "null", !.hashes = "null"]
  BY <1>2, <1>3, <1>4, <1>5, <1>6 DEF SB!Close, SB!ResetSidebar, SB!ResetOutline
<1>8. /\ DOMAIN u = DOMAIN SB!Start /\ u.gen = 0 /\ u.initial = FALSE /\ u.rendered = FALSE /\ u.memory = <<>> /\ u.storage = st.storage
      /\ u.opens = st.opens /\ u.file = st.file /\ VView(st, u) /\ u.told = st.told /\ u.thumbs = st.thumbs
      /\ u.asked = st.asked /\ u.loops = st.loops
  BY <1>1, <1>2 DEF VView, SB!Start
<1>9. /\ DOMAIN v = DOMAIN SB!Start /\ v.gen = 0 /\ v.initial = FALSE /\ v.rendered = FALSE /\ v.memory = <<>> /\ v.storage = st.storage
      /\ v.opens = st.opens /\ v.file = st.file /\ v.asked = st.asked /\ v.loops = st.loops
  BY <1>3, <1>8 DEF SB!Start
<1>10. /\ v.isOpen = st.isOpen /\ v.hidden = st.hidden /\ v.active = st.active /\ v.disabled = st.disabled
       /\ v.told = st.told /\ v.thumbs = st.thumbs /\ v.viewSet = FALSE /\ v.eventSent = FALSE
  BY <1>3, <1>8 DEF SB!Start, VView
<1>11. SB!HistorySound(v)
  <2>1. SB!Bounded(<<>>)
    BY SidebarAssumption DEF SB!Bounded
  <2> QED BY <1>1, <1>9, <2>1 DEF SB!Ready, SB!HistorySound
<1>12. SB!Ready(v)
  BY <1>1, <1>9, <1>10, <1>11 DEF SB!Ready
<1>13. SB!Enabled(v)
  BY <1>1, <1>10 DEF SB!Enabled
<1>14. SB!Told(v)
  <2>1. SB!VisibleView(v) = SB!VisibleView(st)
    BY <1>10 DEF SB!VisibleView
  <2> QED BY <1>1, <1>9, <1>10, <2>1 DEF SB!Told
<1>15. VMoved(v, w)
  <2>1. "thumbs" \in SB!View \cup {"none"}
    BY DEF SB!View
  <2> QED BY <1>4, <1>12, <1>13, <2>1, VSwitchView
<1>16. VSame(v, w) /\ SB!Ready(w) /\ SB!Enabled(w) /\ SB!Told(w) /\ ~w.eventSent
  BY <1>10, <1>14, <1>15 DEF VMoved
<1>17. DOMAIN w = DOMAIN SB!Start
  BY <1>16 DEF VSame
<1>18. /\ DOMAIN x = DOMAIN SB!Start /\ x.gen = w.gen /\ x.initial = w.initial /\ x.file = w.file /\ x.memory = w.memory /\ x.storage = w.storage
       /\ x.opens = w.opens /\ x.rendered = w.rendered /\ x.asked = w.asked /\ x.loops = w.loops /\ x.viewSet = w.viewSet
  BY <1>5, <1>17 DEF SB!Start
<1>19. /\ x.isOpen = w.isOpen /\ x.hidden = w.hidden /\ x.active = w.active /\ x.disabled = {} /\ x.currentDisabled = TRUE
       /\ x.told = w.told /\ x.thumbs = w.thumbs /\ x.eventSent = w.eventSent
  BY <1>5, <1>17 DEF SB!Start
<1>20. ~x.viewSet
  BY <1>10, <1>16, <1>18 DEF VSame
<1>21. y = x \/ y = [x EXCEPT !.capability = "resolved", !.currentDisabled = x.currentDisabled]
  BY <1>6, <1>20 DEF SB!CurrentItemKnown
<1>22. /\ DOMAIN y = DOMAIN SB!Start /\ y.gen = x.gen /\ y.initial = x.initial /\ y.file = x.file /\ y.memory = x.memory /\ y.storage = x.storage
       /\ y.opens = x.opens /\ y.rendered = x.rendered /\ y.asked = x.asked /\ y.loops = x.loops /\ y.viewSet = x.viewSet
  BY <1>18, <1>21 DEF SB!Start
<1>23. /\ y.isOpen = x.isOpen /\ y.hidden = x.hidden /\ y.active = x.active /\ y.disabled = x.disabled /\ y.currentDisabled = x.currentDisabled
       /\ y.told = x.told /\ y.thumbs = x.thumbs /\ y.eventSent = x.eventSent
  BY <1>18, <1>21 DEF SB!Start
<1>24. /\ DOMAIN st' = DOMAIN SB!Start /\ st'.gen = y.gen /\ st'.initial = y.initial /\ st'.file = y.file /\ st'.memory = y.memory
       /\ st'.storage = y.storage /\ st'.opens = y.opens /\ st'.rendered = y.rendered /\ st'.asked = y.asked /\ st'.loops = y.loops
       /\ st'.viewSet = y.viewSet
  BY <1>7, <1>22 DEF SB!Start
<1>25. /\ st'.isOpen = y.isOpen /\ st'.hidden = y.hidden /\ st'.active = y.active /\ st'.disabled = y.disabled
       /\ st'.currentDisabled = y.currentDisabled /\ st'.told = y.told /\ st'.thumbs = y.thumbs /\ st'.eventSent = y.eventSent
  BY <1>7, <1>22 DEF SB!Start
<1>26. st'.outline = 0 /\ st'.item = 0 /\ ~st'.pagesLoaded /\ st'.capability = "null"
  BY <1>7, <1>22 DEF SB!Start
<1>27. SB!HistorySound(st')
  BY <1>16, <1>18, <1>22, <1>24 DEF SB!Ready, SB!HistorySound
<1>28. SB!Ready(st')
  <2>1. st'.initial = w.initial /\ st'.gen = w.gen /\ st'.viewSet = w.viewSet
    BY <1>18, <1>22, <1>24
  <2>2. st'.isOpen = w.isOpen /\ st'.hidden = w.hidden /\ st'.active = w.active /\ st'.eventSent = w.eventSent
    BY <1>19, <1>23, <1>25
  <2> QED BY <1>16, <1>24, <1>27, <2>1, <2>2 DEF SB!Ready
<1>29. SB!Enabled(st')
  BY <1>19, <1>23, <1>25 DEF SB!Enabled
<1>30. ~st'.initial /\ st'.gen = 0 /\ ~st'.rendered /\ st'.opens = st.opens /\ st'.asked = st.asked /\ st'.loops = st.loops /\ ~st'.viewSet
       /\ st'.viewSet = st'.initial
  BY <1>9, <1>10, <1>16, <1>18, <1>22, <1>24 DEF VSame
<1>31. SB!Told(st')
  <2>1. SB!VisibleView(st') = SB!VisibleView(w)
    BY <1>19, <1>23, <1>25 DEF SB!VisibleView
  <2> QED BY <1>16, <1>19, <1>23, <1>25, <1>30, <2>1 DEF SB!Told
<1>32. SB!Begun(st')
  <2>1. ~st'.eventSent
    BY <1>16, <1>19, <1>23, <1>25
  <2>2. 0 \notin st.asked /\ 0 \in Nat /\ st.opens \in Nat /\ 0 <= st.opens
    BY <1>1 DEF SB!Begun
  <2> QED BY <1>1, <1>30, <2>1, <2>2 DEF SB!Begun
<1>33. SB!OutlineSound(st')
  <2>1. 0 \notin st.loops
    BY <1>1 DEF SB!Begun
  <2>2. st'.currentDisabled
    BY <1>19, <1>23, <1>25
  <2> QED BY <1>26, <1>30, <2>1, <2>2 DEF SB!OutlineSound
<1> QED BY <1>28, <1>29, <1>31, <1>32, <1>33 DEF SB!Sound

(* InitialView keeps the invariant. *)
LEMMA VInitialView ==
  ASSUME SB!IInv, NEW pageMode \in {"unknown", "none", "outline"}, SB!InitialView(pageMode)
  PROVE  SB!Sound(st')
<1>1. SB!Ready(st) /\ SB!Enabled(st) /\ SB!Told(st) /\ SB!Begun(st) /\ SB!OutlineSound(st) /\ DOMAIN st = DOMAIN SB!Start
  BY VShape DEF SB!IInv
<1>2. PICK view : view = IF SB!Stored(st).page /\ SB!Stored(st).view # "unknown" THEN SB!Stored(st).view ELSE pageMode
  OBVIOUS
<1>3. PICK u : u = [st EXCEPT !.initial = TRUE]
  OBVIOUS
<1>4. st' = SB!SetInitialSidebar(u, view) /\ st.gen # 0 /\ ~st.initial
  BY <1>2, <1>3 DEF SB!InitialView
<1>5. PICK i \in DOMAIN st.memory : st.memory[i].file = st.file
  BY <1>1, <1>4 DEF SB!Ready, SB!HistorySound
<1>6. SB!Bounded(st.memory)
  BY <1>1 DEF SB!Ready, SB!HistorySound
<1>7. SB!Stored(st) = st.memory[i]
  BY <1>5, <1>6, VStored
<1>8. st.memory[i].view \in SB!View \cup {"none", "unknown"}
  <2>1. st.memory[i] \in SB!Entry
    BY <1>5, <1>6 DEF SB!Bounded
  <2> QED BY <2>1 DEF SB!Entry
<1>9. view \in SB!View \cup {"none", "unknown"}
  BY <1>2, <1>7, <1>8 DEF SB!View
<1>10. /\ DOMAIN u = DOMAIN SB!Start /\ u.gen = st.gen /\ u.opens = st.opens /\ u.file = st.file /\ u.initial = TRUE /\ u.rendered = st.rendered
       /\ u.memory = st.memory /\ u.storage = st.storage /\ VView(st, u) /\ u.viewSet = st.viewSet
  BY <1>1, <1>3 DEF SB!Start, VView
<1>11. /\ u.currentDisabled = st.currentDisabled /\ u.asked = st.asked /\ u.outline = st.outline /\ u.pagesLoaded = st.pagesLoaded
       /\ u.capability = st.capability /\ u.loops = st.loops /\ u.item = st.item
  BY <1>1, <1>3 DEF SB!Start
<1>12. SB!HistorySound(u)
  BY <1>1, <1>10 DEF SB!Ready, SB!HistorySound
<1>13. SB!Ready(u)
  BY <1>1, <1>4, <1>10, <1>12 DEF SB!Ready, VView
<1>14. SB!Enabled(u)
  BY <1>1, <1>10 DEF SB!Enabled, VView
<1>15. ~u.viewSet /\ ~u.eventSent
  BY <1>1, <1>4, <1>10 DEF SB!Begun, VView
<1>16. PICK w : w = [u EXCEPT !.viewSet = TRUE]
  OBVIOUS
<1>17. VLoaded(w, st') /\ DOMAIN w = DOMAIN SB!Start
  BY <1>4, <1>9, <1>13, <1>14, <1>15, <1>16, VSetInitial
<1>18. /\ w.gen = u.gen /\ w.opens = u.opens /\ w.initial = u.initial /\ w.rendered = u.rendered /\ w.viewSet = TRUE /\ w.eventSent = u.eventSent
       /\ w.currentDisabled = u.currentDisabled /\ w.asked = u.asked /\ w.outline = u.outline
       /\ w.pagesLoaded = u.pagesLoaded /\ w.capability = u.capability /\ w.loops = u.loops /\ w.item = u.item
  BY <1>10, <1>16 DEF SB!Start
<1>19. SB!Begun(w)
  BY <1>1, <1>10, <1>11, <1>15, <1>18 DEF SB!Begun
<1>20. SB!OutlineSound(w)
  BY <1>1, <1>10, <1>11, <1>18 DEF SB!OutlineSound
<1> QED BY <1>17, <1>18, <1>19, <1>20, VSound DEF VLoaded

(* UpdateViewarea keeps the invariant. *)
LEMMA VUpdateViewarea ==
  ASSUME SB!IInv, SB!UpdateViewarea
  PROVE  SB!Sound(st')
<1>1. SB!Ready(st) /\ SB!Enabled(st) /\ SB!Told(st) /\ SB!Begun(st) /\ SB!OutlineSound(st) /\ DOMAIN st = DOMAIN SB!Start
  BY VShape DEF SB!IInv
<1>2. PICK y : y = [SB!Stored(st) EXCEPT !.page = TRUE]
  OBVIOUS
<1>3. st' = SB!Store(st, y) /\ st.initial
  BY <1>2 DEF SB!UpdateViewarea
<1>4. st.gen # 0 /\ SB!HistorySound(st) /\ SB!Bounded(st.memory)
  BY <1>1, <1>3 DEF SB!Ready, SB!HistorySound
<1>5. PICK i \in DOMAIN st.memory : st.memory[i].file = st.file
  BY <1>4 DEF SB!HistorySound
<1>6. SB!Stored(st) = st.memory[i]
  BY <1>4, <1>5, VStored
<1>7. st.memory[i] \in SB!Entry
  BY <1>4, <1>5 DEF SB!Bounded
<1>8. y \in SB!Entry /\ y.file = st.file /\ y.view = SB!Stored(st).view
  BY <1>2, <1>5, <1>6, <1>7 DEF SB!Entry
<1>9. VKept(st, y, st')
  BY <1>1, <1>3, <1>4, <1>8, VStore
<1>10. VSame(st, st') /\ VView(st, st') /\ st'.told = st.told /\ st'.thumbs = st.thumbs /\ SB!HistorySound(st') /\ SB!Stored(st') = y
  BY <1>9 DEF VKept
<1>11. SB!Ready(st')
  BY <1>1, <1>10 DEF SB!Ready, VSame, VView
<1>12. SB!Enabled(st')
  BY <1>1, <1>10 DEF SB!Enabled, VView
<1>13. SB!Told(st')
  <2>1. SB!VisibleView(st') = SB!VisibleView(st)
    BY <1>10 DEF SB!VisibleView, VView
  <2> QED BY <1>1, <1>3, <1>8, <1>10, <2>1 DEF SB!Told
<1>14. st'.eventSent => st.viewSet
  BY <1>1, <1>10 DEF SB!Begun, VView
<1> QED BY <1>1, <1>10, <1>11, <1>12, <1>13, <1>14, VSound

(* What a step that leaves the view alone has to keep. *)
LEMMA VStillKeeps ==
  ASSUME NEW u, SB!Sound(u), NEW r, VStill(u, r), SB!Begun(r), SB!OutlineSound(r)
  PROVE  SB!Sound(r)
<1>1. SB!Ready(u) /\ SB!Enabled(u) /\ SB!Told(u)
  BY DEF SB!Sound
<1>2. SB!Ready(r) /\ SB!Enabled(r) /\ SB!Told(r)
  BY <1>1, VStillSound
<1> QED BY <1>2 DEF SB!Sound

(* OnePageRendered keeps the invariant. *)
LEMMA VOnePageRendered ==
  ASSUME SB!IInv, SB!OnePageRendered
  PROVE  SB!Sound(st')
<1>1. SB!Sound(st) /\ SB!Ready(st) /\ SB!Begun(st) /\ SB!OutlineSound(st) /\ DOMAIN st = DOMAIN SB!Start
  BY VShape DEF SB!IInv
<1>2. PICK a : a = st.asked \cup {st.gen}
  OBVIOUS
<1>3. st' = [st EXCEPT !.rendered = TRUE, !.asked = a] /\ st.initial /\ ~st.rendered
  BY <1>2 DEF SB!OnePageRendered
<1>4. VStill(st, st')
  BY <1>1, <1>3 DEF VStill, VView, SB!Start
<1>5. /\ st'.opens = st.opens /\ st'.rendered /\ st'.currentDisabled = st.currentDisabled /\ st'.asked = a /\ st'.outline = st.outline
      /\ st'.pagesLoaded = st.pagesLoaded /\ st'.capability = st.capability /\ st'.loops = st.loops /\ st'.item = st.item
  BY <1>1, <1>3 DEF SB!Start
<1>6. st.gen \in Nat /\ st.gen # 0 /\ st.gen <= st.opens
  BY <1>1, <1>3 DEF SB!Ready, SB!Begun
<1>7. \A g \in a \cup st.loops : g \in Nat /\ g # 0 /\ g <= st.opens
  BY <1>1, <1>2, <1>6 DEF SB!Begun
<1>8. SB!Begun(st')
  BY <1>1, <1>3, <1>4, <1>5, <1>7 DEF SB!Begun, VStill, VView
<1>9. st.outline = 0
  BY <1>1, <1>3 DEF SB!OutlineSound
<1>10. SB!OutlineSound(st')
  BY <1>1, <1>4, <1>5, <1>9 DEF SB!OutlineSound, VStill
<1> QED BY <1>1, <1>4, <1>8, <1>10, VStillKeeps

(* PagesLoaded keeps the invariant. *)
LEMMA VPagesLoaded ==
  ASSUME SB!IInv, SB!PagesLoaded
  PROVE  SB!Sound(st')
<1>1. SB!Sound(st) /\ SB!Ready(st) /\ SB!Begun(st) /\ SB!OutlineSound(st) /\ DOMAIN st = DOMAIN SB!Start
  BY VShape DEF SB!IInv
<1>2. PICK w : w = [st EXCEPT !.pagesLoaded = TRUE]
  OBVIOUS
<1>3. st' = (IF st.capability = "pending" THEN SB!CurrentItemKnown(w, TRUE) ELSE w) /\ ~st.pagesLoaded
  BY <1>2 DEF SB!PagesLoaded
<1>4. VStill(st, w)
  BY <1>1, <1>2 DEF VStill, VView, SB!Start
<1>5. /\ w.opens = st.opens /\ w.rendered = st.rendered /\ w.currentDisabled = st.currentDisabled /\ w.asked = st.asked /\ w.outline = st.outline
      /\ w.pagesLoaded /\ w.capability = st.capability /\ w.loops = st.loops /\ w.item = st.item
  BY <1>1, <1>2 DEF SB!Start
<1>6. CASE st.capability # "pending"
  <2>1. st' = w
    BY <1>3, <1>6
  <2>2. SB!Begun(w)
    BY <1>1, <1>4, <1>5 DEF SB!Begun, VStill, VView
  <2>3. st.outline = 0
    BY <1>1, <1>3, <1>6 DEF SB!OutlineSound
  <2>4. SB!OutlineSound(w)
    BY <1>1, <1>4, <1>5, <1>6, <2>3 DEF SB!OutlineSound, VStill
  <2> QED BY <1>1, <1>4, <2>1, <2>2, <2>4, VStillKeeps
<1>7. CASE st.capability = "pending"
  <2>1. st.outline # 0
    BY <1>1, <1>7 DEF SB!OutlineSound
  <2>2. st.viewSet
    BY <1>1, <2>1 DEF SB!OutlineSound, SB!Begun
  <2>3. st' = [w EXCEPT !.capability = "resolved", !.currentDisabled = FALSE]
    BY <1>3, <1>4, <1>7, <2>2 DEF SB!CurrentItemKnown, VStill
  <2>4. DOMAIN w = DOMAIN SB!Start
    BY <1>4 DEF VStill
  <2>5. VStill(w, st')
    BY <2>3, <2>4 DEF VStill, VView, SB!Start
  <2>6. /\ st'.opens = w.opens /\ st'.rendered = w.rendered /\ ~st'.currentDisabled /\ st'.asked = w.asked /\ st'.outline = w.outline
        /\ st'.pagesLoaded = w.pagesLoaded /\ st'.capability = "resolved" /\ st'.loops = w.loops /\ st'.item = w.item
    BY <2>3, <2>4 DEF SB!Start
  <2>7. VStill(st, st')
    BY <1>4, <2>5 DEF VStill, VView
  <2>8. SB!Begun(st')
    BY <1>1, <1>5, <2>6, <2>7 DEF SB!Begun, VStill, VView
  <2>9. SB!OutlineSound(st')
    BY <1>1, <1>5, <2>1, <2>6, <2>7 DEF SB!OutlineSound, VStill
  <2> QED BY <1>1, <2>7, <2>8, <2>9, VStillKeeps
<1> QED BY <1>6, <1>7

(* PageChanging keeps the invariant. *)
LEMMA VPageChanging ==
  ASSUME SB!IInv, NEW p, SB!PageChanging(p)
  PROVE  SB!Sound(st')
<1>1. SB!Sound(st) /\ SB!Begun(st) /\ SB!OutlineSound(st) /\ DOMAIN st = DOMAIN SB!Start
  BY VShape DEF SB!IInv
<1>2. st' = [st EXCEPT !.page = p]
  BY DEF SB!PageChanging
<1>3. VStill(st, st')
  BY <1>1, <1>2 DEF VStill, VView, SB!Start
<1>4. /\ st'.opens = st.opens /\ st'.rendered = st.rendered /\ st'.currentDisabled = st.currentDisabled /\ st'.asked = st.asked
      /\ st'.outline = st.outline /\ st'.pagesLoaded = st.pagesLoaded /\ st'.capability = st.capability /\ st'.loops = st.loops
      /\ st'.item = st.item
  BY <1>1, <1>2 DEF SB!Start
<1>5. SB!Begun(st')
  BY <1>1, <1>3, <1>4 DEF SB!Begun, VStill, VView
<1>6. SB!OutlineSound(st')
  BY <1>1, <1>3, <1>4 DEF SB!OutlineSound, VStill
<1> QED BY <1>1, <1>3, <1>5, <1>6, VStillKeeps

(* ClickItem keeps the invariant. *)
LEMMA VClickItem ==
  ASSUME SB!IInv, NEW p, SB!ClickItem(p)
  PROVE  SB!Sound(st')
<1>1. SB!Sound(st) /\ SB!Begun(st) /\ SB!OutlineSound(st) /\ DOMAIN st = DOMAIN SB!Start
  BY VShape DEF SB!IInv
<1>2. st' = [st EXCEPT !.item = p] /\ st.outline # 0
  BY DEF SB!ClickItem
<1>3. VStill(st, st')
  BY <1>1, <1>2 DEF VStill, VView, SB!Start
<1>4. /\ st'.opens = st.opens /\ st'.rendered = st.rendered /\ st'.currentDisabled = st.currentDisabled /\ st'.asked = st.asked
      /\ st'.outline = st.outline /\ st'.pagesLoaded = st.pagesLoaded /\ st'.capability = st.capability /\ st'.loops = st.loops
  BY <1>1, <1>2 DEF SB!Start
<1>5. SB!Begun(st')
  BY <1>1, <1>3, <1>4 DEF SB!Begun, VStill, VView
<1>6. SB!OutlineSound(st')
  BY <1>1, <1>2, <1>3, <1>4 DEF SB!OutlineSound, VStill
<1> QED BY <1>1, <1>3, <1>5, <1>6, VStillKeeps

(* The item of the current page is selected. *)
LEMMA VSelect ==
  ASSUME NEW u, SB!Sound(u), u.outline # 0, NEW r, r = SB!SelectCurrent(u)
  PROVE  SB!Sound(r)
<1>1. SB!Begun(u) /\ SB!OutlineSound(u) /\ DOMAIN u = DOMAIN SB!Start
  BY VShape
<1>2. PICK p : r = [u EXCEPT !.item = p]
  BY DEF SB!SelectCurrent
<1>3. VStill(u, r)
  BY <1>1, <1>2 DEF VStill, VView, SB!Start
<1>4. /\ r.opens = u.opens /\ r.rendered = u.rendered /\ r.currentDisabled = u.currentDisabled /\ r.asked = u.asked
      /\ r.outline = u.outline /\ r.pagesLoaded = u.pagesLoaded /\ r.capability = u.capability /\ r.loops = u.loops
  BY <1>1, <1>2 DEF SB!Start
<1>5. SB!Begun(r)
  BY <1>1, <1>3, <1>4 DEF SB!Begun, VStill, VView
<1>6. SB!OutlineSound(r)
  BY <1>1, <1>3, <1>4 DEF SB!OutlineSound, VStill
<1> QED BY <1>3, <1>5, <1>6, VStillKeeps

(* CurrentOutlineItem keeps the invariant. *)
LEMMA VCurrentOutlineItem ==
  ASSUME SB!IInv, SB!CurrentOutlineItem
  PROVE  SB!Sound(st')
<1>1. SB!Sound(st) /\ SB!Begun(st) /\ SB!OutlineSound(st) /\ DOMAIN st = DOMAIN SB!Start
  BY VShape DEF SB!IInv
<1>2. CASE st.outline = 0
  <2>1. st' = st
    BY <1>2 DEF SB!CurrentOutlineItem
  <2> QED BY <1>1, <2>1
<1>3. CASE st.outline # 0 /\ st.hashes = "resolved"
  <2>1. st' = SB!SelectCurrent(st)
    BY <1>3 DEF SB!CurrentOutlineItem
  <2> QED BY <1>1, <1>3, <2>1, VSelect
<1>4. CASE st.outline # 0 /\ st.hashes = "null"
  <2>1. PICK l : l = st.loops \cup {st.gen}
    OBVIOUS
  <2>2. st' = [st EXCEPT !.hashes = "pending", !.loops = l]
    BY <1>4, <2>1 DEF SB!CurrentOutlineItem
  <2>3. VStill(st, st')
    BY <1>1, <2>2 DEF VStill, VView, SB!Start
  <2>4. /\ st'.opens = st.opens /\ st'.rendered = st.rendered /\ st'.currentDisabled = st.currentDisabled /\ st'.asked = st.asked
        /\ st'.outline = st.outline /\ st'.pagesLoaded = st.pagesLoaded /\ st'.capability = st.capability /\ st'.loops = l
        /\ st'.item = st.item
    BY <1>1, <2>2 DEF SB!Start
  <2>5. st.gen \in Nat /\ st.gen # 0 /\ st.gen <= st.opens
    BY <1>1, <1>4 DEF SB!OutlineSound, SB!Begun
  <2>6. \A g \in st.asked \cup l : g \in Nat /\ g # 0 /\ g <= st.opens
    BY <1>1, <2>1, <2>5 DEF SB!Begun
  <2>7. SB!Begun(st')
    BY <1>1, <2>3, <2>4, <2>6 DEF SB!Begun, VStill, VView
  <2>8. SB!OutlineSound(st')
    BY <1>1, <1>4, <2>3, <2>4 DEF SB!OutlineSound, VStill
  <2> QED BY <1>1, <2>3, <2>7, <2>8, VStillKeeps
<1>5. CASE st.outline # 0 /\ st.hashes # "resolved" /\ st.hashes # "null"
  <2>1. st' = st
    BY <1>5 DEF SB!CurrentOutlineItem
  <2> QED BY <1>1, <2>1
<1> QED BY <1>2, <1>3, <1>4, <1>5

(* Destinations keeps the invariant. *)
LEMMA VDestinations ==
  ASSUME SB!IInv, NEW g, SB!Destinations(g)
  PROVE  SB!Sound(st')
<1>1. SB!Sound(st) /\ SB!Begun(st) /\ SB!OutlineSound(st) /\ DOMAIN st = DOMAIN SB!Start
  BY VShape DEF SB!IInv
<1>2. PICK l : l = st.loops \ {g}
  OBVIOUS
<1>3. PICK w : w = [st EXCEPT !.loops = l]
  OBVIOUS
<1>4. st' = (IF g = st.gen THEN SB!SelectCurrent([w EXCEPT !.hashes = "resolved"]) ELSE w) /\ g \in st.loops
  BY <1>2, <1>3 DEF SB!Destinations
<1>5. PICK y : y = IF g = st.gen THEN [w EXCEPT !.hashes = "resolved"] ELSE w
  OBVIOUS
<1>6. DOMAIN w = DOMAIN SB!Start
  BY <1>1, <1>3 DEF SB!Start
<1>7. VStill(st, w) /\ VStill(w, y)
  BY <1>1, <1>3, <1>5, <1>6 DEF VStill, VView, SB!Start
<1>8. /\ y.opens = w.opens /\ y.rendered = w.rendered /\ y.currentDisabled = w.currentDisabled /\ y.asked = w.asked
      /\ y.outline = w.outline /\ y.pagesLoaded = w.pagesLoaded /\ y.capability = w.capability /\ y.loops = w.loops /\ y.item = w.item
  BY <1>5, <1>6 DEF SB!Start
<1>9. /\ w.opens = st.opens /\ w.rendered = st.rendered /\ w.currentDisabled = st.currentDisabled /\ w.asked = st.asked
      /\ w.outline = st.outline /\ w.pagesLoaded = st.pagesLoaded /\ w.capability = st.capability /\ w.loops = l /\ w.item = st.item
  BY <1>1, <1>3 DEF SB!Start
<1>10. VStill(st, y)
  BY <1>7 DEF VStill, VView
<1>11. l \subseteq st.loops
  BY <1>2
<1>12. SB!Begun(y)
  BY <1>1, <1>8, <1>9, <1>10, <1>11 DEF SB!Begun, VStill, VView
<1>13. SB!OutlineSound(y)
  BY <1>1, <1>8, <1>9, <1>10, <1>11 DEF SB!OutlineSound, VStill
<1>14. SB!Sound(y)
  BY <1>1, <1>10, <1>12, <1>13, VStillKeeps
<1>15. CASE g = st.gen
  <2>1. st' = SB!SelectCurrent(y) /\ st.outline # 0
    BY <1>1, <1>4, <1>5, <1>15 DEF SB!OutlineSound
  <2> QED BY <1>8, <1>9, <1>14, <2>1, VSelect
<1>16. CASE g # st.gen
  <2>1. st' = y
    BY <1>4, <1>5, <1>16
  <2> QED BY <1>14, <2>1
<1> QED BY <1>15, <1>16

(* Toggle keeps the invariant. *)
LEMMA VToggle ==
  ASSUME SB!IInv, SB!Toggle
  PROVE  SB!Sound(st')
<1>1. SB!Sound(st) /\ SB!Ready(st) /\ SB!Enabled(st)
  BY VShape DEF SB!IInv
<1>2. st.active \notin st.disabled /\ "thumbs" \notin st.disabled
  BY <1>1 DEF SB!Enabled
<1>3. VSwitched(st, st.active, st')
  <2>1. CASE st.isOpen
    <3>1. st' = SB!CloseSidebar(st)
      BY <2>1 DEF SB!Toggle, SB!ToggleSidebar
    <3> QED BY <1>1, <2>1, <3>1, VCloseSidebar
  <2>2. CASE ~st.isOpen
    <3>1. st' = SB!OpenSidebar(st)
      BY <2>2 DEF SB!Toggle, SB!ToggleSidebar
    <3> QED BY <1>1, <2>2, <3>1, VOpenSidebar
  <2> QED BY <2>1, <2>2
<1>4. VMoved(st, st')
  BY <1>2, <1>3, VSwitchedMoved
<1> QED BY <1>1, <1>4, VMovedSound

(* Choose keeps the invariant. *)
LEMMA VChoose ==
  ASSUME SB!IInv, NEW view \in SB!View, SB!Choose(view)
  PROVE  SB!Sound(st')
<1>1. SB!Sound(st) /\ SB!Ready(st) /\ SB!Enabled(st)
  BY VShape DEF SB!IInv
<1>2. st' = SB!SwitchView(st, view, FALSE)
  BY DEF SB!Choose
<1>3. VMoved(st, st')
  BY <1>1, <1>2, VSwitchView
<1> QED BY <1>1, <1>3, VMovedSound

(* PageMode keeps the invariant. *)
LEMMA VPageMode ==
  ASSUME SB!IInv, NEW view \in SB!View \cup {"none"}, SB!PageMode(view)
  PROVE  SB!Sound(st')
<1>1. SB!Sound(st) /\ SB!Ready(st) /\ SB!Enabled(st)
  BY VShape DEF SB!IInv
<1>2. st' = SB!SwitchView(st, view, TRUE)
  BY DEF SB!PageMode
<1>3. VMoved(st, st')
  BY <1>1, <1>2, VSwitchView
<1> QED BY <1>1, <1>3, VMovedSound

(* LayersLoaded keeps the invariant. *)
LEMMA VLayersLoaded ==
  ASSUME SB!IInv, NEW some \in BOOLEAN, SB!LayersLoaded(some)
  PROVE  SB!Sound(st')
<1>1. SB!Ready(st) /\ SB!Enabled(st) /\ SB!Told(st) /\ SB!Begun(st) /\ SB!OutlineSound(st)
  BY VShape DEF SB!IInv
<1>2. st' = SB!TreeLoaded(st, "layers", some)
  BY DEF SB!LayersLoaded
<1>3. VLoaded(st, st')
  BY <1>1, <1>2, VTreeLoaded
<1>4. st'.eventSent => st.viewSet
  BY <1>1, <1>3 DEF VLoaded, SB!Begun
<1> QED BY <1>1, <1>3, <1>4, VSound DEF VLoaded

(* OutlineAnswer keeps the invariant. *)
LEMMA VOutlineAnswer ==
  ASSUME SB!IInv, NEW g, NEW some \in BOOLEAN, SB!OutlineAnswer(g, some)
  PROVE  SB!Sound(st')
<1>1. SB!Sound(st) /\ SB!Ready(st) /\ SB!Enabled(st) /\ SB!Told(st) /\ SB!Begun(st) /\ SB!OutlineSound(st) /\ DOMAIN st = DOMAIN SB!Start
  BY VShape DEF SB!IInv
<1>2. PICK a : a = st.asked \ {g}
  OBVIOUS
<1>3. PICK w : w = [st EXCEPT !.asked = a]
  OBVIOUS
<1>4. st' = (IF g = st.gen THEN SB!RenderOutline(w, some) ELSE w) /\ g \in st.asked
  BY <1>2, <1>3 DEF SB!OutlineAnswer
<1>5. VStill(st, w)
  BY <1>1, <1>3 DEF VStill, VView, SB!Start
<1>6. /\ w.opens = st.opens /\ w.rendered = st.rendered /\ w.currentDisabled = st.currentDisabled /\ w.asked = a
      /\ w.outline = st.outline /\ w.pagesLoaded = st.pagesLoaded /\ w.capability = st.capability /\ w.loops = st.loops /\ w.item = st.item
  BY <1>1, <1>3 DEF SB!Start
<1>7. a \subseteq st.asked
  BY <1>2
<1>8. SB!Begun(w)
  BY <1>1, <1>5, <1>6, <1>7 DEF SB!Begun, VStill, VView
<1>9. SB!OutlineSound(w)
  BY <1>1, <1>5, <1>6, <1>7 DEF SB!OutlineSound, VStill
<1>10. CASE g # st.gen
  <2>1. st' = w
    BY <1>4, <1>10
  <2> QED BY <1>1, <1>5, <1>8, <1>9, <2>1, VStillKeeps
<1>11. CASE g = st.gen
  <2>1. st.outline = 0 /\ st.rendered /\ st.initial /\ st.viewSet /\ st.gen # 0 /\ st.gen \notin a /\ st.gen \notin st.loops /\ st.item = 0
    BY <1>1, <1>2, <1>4, <1>11 DEF SB!Begun, SB!OutlineSound
  <2>2. DOMAIN w = DOMAIN SB!Start /\ w.gen = st.gen /\ w.viewSet = st.viewSet
    BY <1>5 DEF VStill
  <2>3. PICK o : o = IF some THEN st.gen ELSE 0
    OBVIOUS
  <2>4. PICK x : x = [w EXCEPT !.outline = o]
    OBVIOUS
  <2>5. PICK y : y = [x EXCEPT !.capability = "pending"]
    OBVIOUS
  <2>6. PICK z : z = SB!TreeLoaded(y, "outline", some)
    OBVIOUS
  <2>7. VStill(w, x) /\ DOMAIN x = DOMAIN SB!Start
    BY <2>2, <2>4 DEF VStill, VView, SB!Start
  <2>8. /\ x.opens = w.opens /\ x.rendered = w.rendered /\ x.currentDisabled = w.currentDisabled /\ x.asked = w.asked
        /\ x.outline = o /\ x.pagesLoaded = w.pagesLoaded /\ x.loops = w.loops /\ x.item = w.item
    BY <2>2, <2>4 DEF SB!Start
  <2>9. VStill(x, y) /\ DOMAIN y = DOMAIN SB!Start
    BY <2>5, <2>7 DEF VStill, VView, SB!Start
  <2>10. /\ y.opens = x.opens /\ y.rendered = x.rendered /\ y.currentDisabled = x.currentDisabled /\ y.asked = x.asked
         /\ y.outline = x.outline /\ y.pagesLoaded = x.pagesLoaded /\ y.loops = x.loops /\ y.item = x.item /\ y.capability = "pending"
    BY <2>5, <2>7 DEF SB!Start
  <2>11. VStill(st, y)
    BY <1>5, <2>7, <2>9 DEF VStill, VView
  <2>12. SB!Ready(y) /\ SB!Enabled(y) /\ SB!Told(y)
    BY <1>1, <2>11, VStillSound
  <2>13. VLoaded(y, z)
    BY <2>6, <2>12, VTreeLoaded
  <2>14. VSame(y, z) /\ SB!Ready(z) /\ SB!Enabled(z) /\ SB!Told(z) /\ DOMAIN z = DOMAIN SB!Start
    BY <2>13 DEF VLoaded, VSame
  <2>15. /\ z.gen = st.gen /\ z.opens = st.opens /\ z.rendered /\ z.currentDisabled = st.currentDisabled /\ z.asked = a
         /\ z.outline = o /\ z.pagesLoaded = st.pagesLoaded /\ z.loops = st.loops /\ z.item = 0 /\ z.capability = "pending"
    BY <1>6, <2>1, <2>2, <2>8, <2>10, <2>11, <2>14 DEF VSame, VStill
  <2>16. z.viewSet = st.viewSet /\ z.initial = st.initial
    BY <2>11, <2>14 DEF VSame, VStill
  <2>17. st' = IF ~some THEN SB!CurrentItemKnown(z, FALSE) ELSE IF st.pagesLoaded THEN SB!CurrentItemKnown(z, TRUE) ELSE z
    <3>1. w.outline = 0
      BY <1>6, <2>1
    <3>2. st' = SB!RenderOutline(w, some)
      BY <1>4, <1>11
    <3>3. st' = SB!OutlineLoaded(x, some)
      BY <2>2, <2>3, <2>4, <3>1, <3>2 DEF SB!RenderOutline
    <3> QED BY <1>6, <2>5, <2>6, <2>8, <3>3 DEF SB!OutlineLoaded
  <2>18. PICK c : c = IF some /\ ~st.pagesLoaded THEN "pending" ELSE "resolved"
    OBVIOUS
  <2>19. PICK d : d = IF some /\ ~st.pagesLoaded THEN st.currentDisabled ELSE ~some
    OBVIOUS
  <2>20. VStill(z, st') /\ st'.capability = c /\ st'.currentDisabled = d
         /\ st'.opens = z.opens /\ st'.rendered = z.rendered /\ st'.asked = z.asked
         /\ st'.outline = z.outline /\ st'.pagesLoaded = z.pagesLoaded /\ st'.loops = z.loops /\ st'.item = z.item
    <3>1. CASE some /\ ~st.pagesLoaded
      <4>1. st' = z
        BY <2>17, <3>1
      <4> QED BY <2>14, <2>15, <2>18, <2>19, <3>1, <4>1 DEF VStill, VView
    <3>2. CASE ~(some /\ ~st.pagesLoaded)
      <4>1. st' = [z EXCEPT !.capability = "resolved", !.currentDisabled = ~some]
        BY <2>1, <2>16, <2>17, <3>2 DEF SB!CurrentItemKnown
      <4>2. VStill(z, st')
        BY <2>14, <4>1 DEF VStill, VView, SB!Start
      <4>3. st'.capability = "resolved" /\ st'.currentDisabled = ~some
        BY <2>14, <4>1 DEF SB!Start
      <4>4. /\ st'.opens = z.opens /\ st'.rendered = z.rendered /\ st'.asked = z.asked
            /\ st'.outline = z.outline /\ st'.pagesLoaded = z.pagesLoaded /\ st'.loops = z.loops /\ st'.item = z.item
        BY <2>14, <4>1 DEF SB!Start
      <4> QED BY <2>18, <2>19, <3>2, <4>2, <4>3, <4>4
    <3> QED BY <3>1, <3>2
  <2>21. SB!Ready(st') /\ SB!Enabled(st') /\ SB!Told(st')
    BY <2>14, <2>20, VStillSound
  <2>22. SB!Begun(st')
    <3>1. st'.gen = st.gen /\ st'.opens = st.opens /\ st'.rendered /\ st'.asked = a /\ st'.loops = st.loops /\ st'.viewSet = st.viewSet
          /\ st'.initial = st.initial
      BY <2>15, <2>16, <2>20 DEF VStill
    <3> QED BY <1>1, <1>7, <2>1, <3>1 DEF SB!Begun
  <2>23. SB!OutlineSound(st')
    <3>1. st'.gen = st.gen /\ st'.rendered /\ st'.asked = a /\ st'.loops = st.loops /\ st'.outline = o /\ st'.item = 0
          /\ st'.pagesLoaded = st.pagesLoaded
      BY <2>15, <2>20 DEF VStill
    <3>2. st.currentDisabled
      BY <1>1, <2>1 DEF SB!OutlineSound
    <3> QED BY <2>1, <2>3, <2>18, <2>19, <2>20, <3>1, <3>2 DEF SB!OutlineSound
  <2> QED BY <2>21, <2>22, <2>23 DEF SB!Sound
<1> QED BY <1>10, <1>11

(* Init keeps the invariant. *)
LEMMA VInit ==
  ASSUME SB!Init
  PROVE  SB!IInv
<1>1. st = SB!Start
  BY DEF SB!Init
<1>2. PICK x : x = [file |-> EarlierFile, view |-> "outline", page |-> TRUE]
  OBVIOUS
<1>3. PICK s : s = <<x>>
  OBVIOUS
<1>4. PICK f : f = CHOOSE g \in FileIds : TRUE
  OBVIOUS
<1>5. f \in FileIds
  BY <1>4, SidebarAssumption
<1>6. x \in SB!Entry
  BY <1>2, SidebarAssumption DEF SB!Entry, SB!View
<1>7. SB!Bounded(s)
  BY <1>3, <1>6, SidebarAssumption DEF SB!Bounded
<1>8. SB!Bounded(<<>>)
  BY SidebarAssumption DEF SB!Bounded
<1>9. st.gen = 0 /\ st.opens = 0 /\ st.file = f /\ st.initial = FALSE /\ st.rendered = FALSE /\ st.isOpen = FALSE /\ st.hidden = TRUE
  BY <1>1, <1>4 DEF SB!Start
<1>10. st.active = "thumbs" /\ st.disabled = {} /\ st.currentDisabled = TRUE /\ st.viewSet = FALSE /\ st.eventSent = FALSE
       /\ st.told = "none" /\ st.thumbs = FALSE
  BY <1>1 DEF SB!Start
<1>11. st.asked = {} /\ st.outline = 0 /\ st.pagesLoaded = FALSE /\ st.capability = "null" /\ st.loops = {} /\ st.item = 0
  BY <1>1 DEF SB!Start
<1>12. st.memory = <<>> /\ st.storage = s
  BY <1>1, <1>2, <1>3 DEF SB!Start
<1>13. SB!HistorySound(st)
  BY <1>5, <1>7, <1>8, <1>9, <1>12 DEF SB!HistorySound
<1>14. SB!Ready(st)
  BY <1>1, <1>9, <1>10, <1>13 DEF SB!Ready, SB!View
<1>15. SB!Enabled(st)
  BY <1>10 DEF SB!Enabled
<1>16. SB!Told(st)
  BY <1>9, <1>10 DEF SB!Told, SB!VisibleView
<1>17. SB!Begun(st)
  <2>1. \A g \in st.asked \cup st.loops : g \in Nat /\ g # 0 /\ g <= st.opens
    BY <1>11
  <2>2. st.gen \in Nat /\ st.opens \in Nat /\ st.gen <= st.opens
    BY <1>9
  <2>3. st.viewSet = st.initial /\ ~st.eventSent /\ ~st.rendered /\ st.gen \notin st.asked
    BY <1>9, <1>10, <1>11
  <2> QED BY <2>1, <2>2, <2>3 DEF SB!Begun
<1>18. SB!OutlineSound(st)
  BY <1>9, <1>10, <1>11 DEF SB!OutlineSound
<1> QED BY <1>14, <1>15, <1>16, <1>17, <1>18 DEF SB!Sound, SB!IInv

(* Every step of the sidebar keeps the invariant. *)
LEMMA VStep ==
  ASSUME SB!IInv, SB!Next
  PROVE  SB!Sound(st')
<1>1. CASE SB!Close
  BY <1>1, VClose
<1>2. CASE SB!UpdateViewarea
  BY <1>2, VUpdateViewarea
<1>3. CASE SB!OnePageRendered
  BY <1>3, VOnePageRendered
<1>4. CASE SB!PagesLoaded
  BY <1>4, VPagesLoaded
<1>5. CASE SB!Toggle
  BY <1>5, VToggle
<1>6. CASE SB!CurrentOutlineItem
  BY <1>6, VCurrentOutlineItem
<1>7. ASSUME NEW f \in FileIds, SB!Load(f) PROVE SB!Sound(st')
  BY <1>7, VLoad
<1>8. ASSUME NEW v \in {"unknown", "none", "outline"}, SB!InitialView(v) PROVE SB!Sound(st')
  BY <1>8, VInitialView
<1>9. ASSUME NEW g, SB!Destinations(g) PROVE SB!Sound(st')
  BY <1>9, VDestinations
<1>10. ASSUME NEW g, NEW some \in BOOLEAN, SB!OutlineAnswer(g, some) PROVE SB!Sound(st')
  BY <1>10, VOutlineAnswer
<1>11. ASSUME NEW some \in BOOLEAN, SB!LayersLoaded(some) PROVE SB!Sound(st')
  BY <1>11, VLayersLoaded
<1>12. ASSUME NEW p, SB!PageChanging(p) PROVE SB!Sound(st')
  BY <1>12, VPageChanging
<1>13. ASSUME NEW v \in SB!View, SB!Choose(v) PROVE SB!Sound(st')
  BY <1>13, VChoose
<1>14. ASSUME NEW v \in SB!View \cup {"none"}, SB!PageMode(v) PROVE SB!Sound(st')
  BY <1>14, VPageMode
<1>15. ASSUME NEW p, SB!ClickItem(p) PROVE SB!Sound(st')
  BY <1>15, VClickItem
<1> QED BY <1>1, <1>2, <1>3, <1>4, <1>5, <1>6, <1>7, <1>8, <1>9, <1>10, <1>11, <1>12, <1>13, <1>14, <1>15 DEF SB!Next

(* What the invariant says about the sidebar. *)
LEMMA VProps ==
  ASSUME SB!IInv
  PROVE  /\ SB!ActiveIsEnabled /\ SB!ToldIsVisible /\ SB!StoredIsVisible
         /\ SB!HistoryIsBounded /\ SB!CurrentWhenLoaded /\ SB!ItemOfOutline
<1>1. SB!Ready(st) /\ SB!Enabled(st) /\ SB!Told(st) /\ SB!OutlineSound(st)
  BY VShape DEF SB!IInv
<1>2. SB!ActiveIsEnabled
  BY <1>1 DEF SB!Enabled, SB!ActiveIsEnabled
<1>3. SB!ToldIsVisible /\ SB!StoredIsVisible
  BY <1>1 DEF SB!Ready, SB!Told, SB!ToldIsVisible, SB!StoredIsVisible
<1>4. SB!HistoryIsBounded
  BY <1>1 DEF SB!Ready, SB!HistorySound, SB!Bounded, SB!HistoryIsBounded
<1>5. SB!CurrentWhenLoaded /\ SB!ItemOfOutline
  BY <1>1 DEF SB!OutlineSound, SB!CurrentWhenLoaded, SB!ItemOfOutline
<1> QED BY <1>2, <1>3, <1>4, <1>5

-----------------------------------------------------------------------------
(* PDFAttachmentViewer and PDFLayerViewer: files and layers. *)

(* What the attachments leave alone. *)
RLayers(u, r) ==
  /\ r.configs = u.configs /\ r.visible = u.visible /\ r.viewer = u.viewer /\ r.tree = u.tree /\ r.checked = u.checked
  /\ r.gen = u.gen /\ r.opens = u.opens /\ r.asked = u.asked /\ DOMAIN r = DOMAIN TR!Start

(* What the layers leave alone. *)
RFiles(u, r) ==
  /\ r.rendered = u.rendered /\ r.files = u.files /\ r.pending = u.pending /\ r.appends = u.appends /\ r.told = u.told
  /\ r.gen = u.gen /\ r.opens = u.opens /\ DOMAIN r = DOMAIN TR!Start

(* PDFAttachmentViewer._dispatchEvent: it is told of the files there are, or waits for some. *)
RDispatched(u, r) ==
  /\ RLayers(u, r) /\ r.rendered /\ r.files = u.files /\ r.appends = u.appends
  /\ IF u.files = {} /\ ~u.pending THEN r.pending /\ r.told = u.told
     ELSE ~r.pending /\ r.told = (IF u.files = {} THEN "none" ELSE "some")

(* The event of the attachments tells how many there are. *)
LEMMA RDispatch ==
  ASSUME NEW u, DOMAIN u = DOMAIN TR!Start, NEW r, r = TR!DispatchAttachments(u)
  PROVE  RDispatched(u, r)
<1>1. PICK w : w = [u EXCEPT !.rendered = TRUE]
  OBVIOUS
<1>2. /\ RLayers(u, w) /\ w.rendered /\ w.files = u.files /\ w.appends = u.appends /\ w.told = u.told /\ w.pending = u.pending
      /\ w.waits = u.waits
  BY <1>1 DEF RLayers, TR!Start
<1>3. DOMAIN w = DOMAIN TR!Start
  BY <1>2 DEF RLayers
<1>4. CASE u.files = {} /\ ~u.pending
  <2>1. PICK g : g = w.waits \cup {u.gen}
    OBVIOUS
  <2>2. r = [w EXCEPT !.pending = TRUE, !.waits = g]
    BY <1>1, <1>4, <2>1 DEF TR!DispatchAttachments
  <2>3. RLayers(w, r) /\ r.rendered = w.rendered /\ r.files = w.files /\ r.appends = w.appends /\ r.told = w.told /\ r.pending
    BY <1>3, <2>2 DEF RLayers, TR!Start
  <2> QED BY <1>2, <1>4, <2>3 DEF RLayers, RDispatched
<1>5. CASE ~(u.files = {} /\ ~u.pending)
  <2>1. PICK x : x = IF u.files # {} THEN "some" ELSE "none"
    OBVIOUS
  <2>2. r = [w EXCEPT !.pending = FALSE, !.told = x]
    BY <1>1, <1>5, <2>1 DEF TR!DispatchAttachments, TR!Announce
  <2>3. RLayers(w, r) /\ r.rendered = w.rendered /\ r.files = w.files /\ r.appends = w.appends /\ r.told = x /\ ~r.pending
    BY <1>3, <2>2 DEF RLayers, TR!Start
  <2> QED BY <1>2, <1>5, <2>1, <2>3 DEF RLayers, RDispatched
<1> QED BY <1>4, <1>5

(* The files of a document are rendered. *)
RRendered(u, files, r) ==
  /\ RLayers(u, r) /\ r.rendered /\ r.files = files
  /\ r.appends = u.appends \/ (r.appends = {} /\ u.files # {})
  /\ IF files = {} THEN u.files # {} \/ ~u.pending => r.pending /\ r.told = u.told ELSE ~r.pending /\ r.told = "some"

(* Rendering the attachments keeps the layers. *)
LEMMA RRender ==
  ASSUME NEW u, DOMAIN u = DOMAIN TR!Start, NEW files, NEW keep \in BOOLEAN, NEW r, r = TR!RenderAttachments(u, files, keep)
  PROVE  RRendered(u, files, r)
<1>1. PICK v : v = IF u.files # {} THEN TR!ResetAttachments(u, keep) ELSE u
  OBVIOUS
<1>2. RLayers(u, v) /\ (v.appends = u.appends \/ (v.appends = {} /\ u.files # {})) /\ v.told = u.told
      /\ (u.files # {} => ~v.pending) /\ (u.files = {} => v.pending = u.pending)
  <2>1. CASE u.files = {}
    <3>1. v = u
      BY <1>1, <2>1
    <3> QED BY <2>1, <3>1 DEF RLayers
  <2>2. CASE u.files # {}
    <3>1. PICK b : b = (u.rendered /\ keep)
      OBVIOUS
    <3>2. PICK a : a = IF keep THEN u.appends ELSE {}
      OBVIOUS
    <3>3. v = [u EXCEPT !.files = {}, !.pending = FALSE, !.rendered = b, !.appends = a]
      BY <1>1, <2>2, <3>1, <3>2 DEF TR!ResetAttachments, TR!Start
    <3>4. RLayers(u, v) /\ v.appends = a /\ v.told = u.told /\ ~v.pending
      BY <3>3 DEF RLayers, TR!Start
    <3> QED BY <2>2, <3>2, <3>4
  <2> QED BY <2>1, <2>2
<1>3. PICK w : w = [v EXCEPT !.files = files]
  OBVIOUS
<1>4. DOMAIN v = DOMAIN TR!Start
  BY <1>2 DEF RLayers
<1>5. RLayers(v, w) /\ w.files = files /\ w.appends = v.appends /\ w.told = v.told /\ w.pending = v.pending
  BY <1>3, <1>4 DEF RLayers, TR!Start
<1>6. DOMAIN w = DOMAIN TR!Start
  BY <1>5 DEF RLayers
<1>7. r = TR!DispatchAttachments(w)
  BY <1>1, <1>3 DEF TR!RenderAttachments
<1>8. RDispatched(w, r)
  BY <1>6, <1>7, RDispatch
<1>9. RLayers(u, r)
  BY <1>2, <1>5, <1>8 DEF RLayers, RDispatched
<1>10. r.rendered /\ r.files = files /\ (r.appends = u.appends \/ (r.appends = {} /\ u.files # {}))
  BY <1>2, <1>5, <1>8 DEF RDispatched
<1>11. CASE files = {}
  <2>1. ASSUME u.files # {} \/ ~u.pending PROVE r.pending /\ r.told = u.told
    BY <1>2, <1>5, <1>8, <1>11, <2>1 DEF RDispatched
  <2> QED BY <1>9, <1>10, <1>11, <2>1 DEF RRendered
<1>12. CASE files # {}
  <2>1. ~r.pending /\ r.told = "some"
    BY <1>5, <1>8, <1>12 DEF RDispatched
  <2> QED BY <1>9, <1>10, <1>12, <2>1 DEF RRendered
<1> QED BY <1>11, <1>12

(* The files of annotations are added. *)
LEMMA RAppendAll ==
  ASSUME NEW u, TR!Sound(u), u.tree # 0, u.gen \notin u.asked, u.gen # 0, NEW r, r = TR!AppendAll(u)
  PROVE  TR!Sound(r)
<1>1. DOMAIN u = DOMAIN TR!Start /\ TR!Numbers(u) /\ TR!FilesSound(u) /\ TR!LayersSound(u)
  BY DEF TR!Sound
<1>2. PICK unknown : unknown = {x \in u.appends : \A y \in u.files : y[2] # x[2]}
  OBVIOUS
<1>3. PICK w : w = [u EXCEPT !.appends = {}]
  OBVIOUS
<1>4. /\ RLayers(u, w) /\ w.rendered = u.rendered /\ w.files = u.files /\ w.pending = u.pending /\ w.appends = {} /\ w.told = u.told
  BY <1>1, <1>3 DEF RLayers, TR!Start
<1>5. r = IF unknown = {} THEN w ELSE TR!RenderAttachments(w, u.files \cup unknown, TRUE)
  BY <1>2, <1>3 DEF TR!AppendAll
<1>6. CASE unknown = {}
  <2>1. r = w
    BY <1>5, <1>6
  <2>2. TR!Numbers(w) /\ TR!LayersSound(w)
    BY <1>1, <1>4 DEF RLayers, TR!Numbers, TR!LayersSound
  <2>3. TR!FilesSound(w)
    BY <1>1, <1>4 DEF RLayers, TR!FilesSound, TR!Quiet
  <2> QED BY <1>4, <2>1, <2>2, <2>3 DEF RLayers, TR!Sound
<1>7. CASE unknown # {}
  <2>1. PICK F : F = u.files \cup unknown
    OBVIOUS
  <2>2. F # {} /\ F \subseteq {u.gen} \X AttachedNames
    BY <1>1, <1>2, <1>7, <2>1 DEF TR!FilesSound
  <2>3. DOMAIN w = DOMAIN TR!Start /\ r = TR!RenderAttachments(w, F, TRUE)
    BY <1>4, <1>5, <1>7, <2>1 DEF RLayers
  <2>4. RRendered(w, F, r)
    BY <2>3, RRender
  <2>5. RLayers(u, r) /\ r.files = F /\ r.appends = {} /\ ~r.pending /\ r.told = "some"
    BY <1>4, <2>2, <2>4 DEF RRendered, RLayers
  <2>6. TR!Numbers(r) /\ TR!LayersSound(r)
    BY <1>1, <2>5 DEF RLayers, TR!Numbers, TR!LayersSound
  <2>7. TR!FilesSound(r)
    BY <1>1, <2>2, <2>5 DEF RLayers, TR!FilesSound, TR!Quiet
  <2> QED BY <2>5, <2>6, <2>7 DEF RLayers, TR!Sound
<1> QED BY <1>6, <1>7

(* Open keeps the invariant. *)
LEMMA ROpen ==
  ASSUME TR!IInv, TR!Open
  PROVE  TR!Sound(st')
<1>1. DOMAIN st = DOMAIN TR!Start /\ TR!Numbers(st) /\ TR!FilesSound(st) /\ TR!LayersSound(st) /\ st.gen = 0
  BY DEF TR!IInv, TR!Sound, TR!Open
<1>2. PICK n : n = st.opens + 1
  OBVIOUS
<1>3. PICK c : c = st.configs + 1
  OBVIOUS
<1>4. n \in Nat /\ c \in Nat /\ n # 0 /\ c # 0 /\ \A g \in st.asked : g \in Nat /\ g # 0 /\ g <= n /\ g # n
  BY <1>1, <1>2, <1>3 DEF TR!Numbers
<1>5. st' = [st EXCEPT !.gen = n, !.opens = n, !.configs = c, !.viewer = c]
  BY <1>1, <1>2, <1>3 DEF TR!Open, TR!Start
<1>6. /\ DOMAIN st' = DOMAIN TR!Start /\ st'.gen = n /\ st'.opens = n /\ st'.configs = c /\ st'.viewer = c /\ st'.asked = st.asked
      /\ st'.rendered = st.rendered /\ st'.files = st.files /\ st'.pending = st.pending /\ st'.appends = st.appends
      /\ st'.told = st.told /\ st'.tree = st.tree
  BY <1>1, <1>5 DEF TR!Start
<1>7. TR!Numbers(st')
  BY <1>4, <1>6 DEF TR!Numbers
<1>8. TR!FilesSound(st')
  BY <1>1, <1>4, <1>6 DEF TR!FilesSound, TR!Quiet
<1>9. TR!LayersSound(st')
  BY <1>1, <1>4, <1>6 DEF TR!LayersSound, TR!FilesSound
<1> QED BY <1>6, <1>7, <1>8, <1>9 DEF TR!Sound

(* Close keeps the invariant. *)
LEMMA RClose ==
  ASSUME TR!IInv, TR!Close
  PROVE  TR!Sound(st')
<1>1. DOMAIN st = DOMAIN TR!Start /\ TR!Numbers(st)
  BY DEF TR!IInv, TR!Sound
<1>2. PICK a : a = TR!AllOn
  OBVIOUS
<1>3. PICK b : b = (st.rendered /\ FALSE)
  OBVIOUS
<1>4. PICK w : w = [st EXCEPT !.files = {}, !.pending = FALSE, !.rendered = b, !.appends = {}]
  OBVIOUS
<1>5. w = TR!ResetAttachments(st, FALSE)
  BY <1>1, <1>3, <1>4 DEF TR!ResetAttachments, TR!Start
<1>6. /\ DOMAIN w = DOMAIN TR!Start /\ w.opens = st.opens /\ w.configs = st.configs /\ w.asked = st.asked
      /\ w.files = {} /\ w.appends = {} /\ ~w.pending /\ ~w.rendered
  BY <1>1, <1>3, <1>4 DEF TR!Start
<1>7. st' = [w EXCEPT !.gen = 0, !.told = "unknown", !.viewer = 0, !.tree = 0, !.checked = a]
  BY <1>2, <1>5 DEF TR!Close
<1>8. /\ DOMAIN st' = DOMAIN TR!Start /\ st'.gen = 0 /\ st'.opens = w.opens /\ st'.configs = w.configs /\ st'.asked = w.asked
      /\ st'.files = w.files /\ st'.appends = w.appends /\ st'.pending = w.pending /\ st'.rendered = w.rendered
      /\ st'.told = "unknown" /\ st'.tree = 0
  BY <1>6, <1>7 DEF TR!Start
<1>9. TR!Numbers(st')
  BY <1>1, <1>6, <1>8 DEF TR!Numbers
<1>10. TR!FilesSound(st')
  BY <1>1, <1>6, <1>8 DEF TR!FilesSound, TR!Quiet, TR!Numbers
<1>11. TR!LayersSound(st')
  BY <1>8 DEF TR!LayersSound
<1> QED BY <1>8, <1>9, <1>10, <1>11 DEF TR!Sound

(* OnePageRendered keeps the invariant. *)
LEMMA ROnePageRendered ==
  ASSUME TR!IInv, TR!OnePageRendered
  PROVE  TR!Sound(st')
<1>1. DOMAIN st = DOMAIN TR!Start /\ TR!Numbers(st) /\ TR!FilesSound(st) /\ TR!LayersSound(st) /\ st.gen # 0 /\ st.tree = 0
  BY DEF TR!IInv, TR!Sound, TR!OnePageRendered
<1>2. PICK a : a = st.asked \cup {st.gen}
  OBVIOUS
<1>3. PICK w : w = [st EXCEPT !.asked = a]
  OBVIOUS
<1>4. /\ DOMAIN w = DOMAIN TR!Start /\ w.asked = a /\ RFiles(st, w) /\ w.configs = st.configs /\ w.visible = st.visible
      /\ w.viewer = st.viewer
  BY <1>1, <1>3 DEF RFiles, TR!Start
<1>5. PICK c : c = w.visible[w.viewer]
  OBVIOUS
<1>6. st' = [w EXCEPT !.tree = w.viewer, !.checked = c]
  BY <1>2, <1>3, <1>4, <1>5 DEF TR!OnePageRendered, TR!RenderLayers
<1>7. /\ RFiles(w, st') /\ st'.tree = w.viewer /\ st'.checked = c /\ st'.viewer = w.viewer /\ st'.visible = w.visible
      /\ st'.asked = w.asked /\ st'.configs = w.configs
  BY <1>4, <1>6 DEF RFiles, TR!Start
<1>8. TR!Numbers(st')
  BY <1>1, <1>2, <1>4, <1>7 DEF RFiles, TR!Numbers
<1>9. TR!FilesSound(st')
  BY <1>1, <1>4, <1>7 DEF RFiles, TR!FilesSound, TR!LayersSound, TR!Quiet
<1>10. TR!LayersSound(st')
  BY <1>1, <1>4, <1>5, <1>7 DEF RFiles, TR!LayersSound
<1> QED BY <1>7, <1>8, <1>9, <1>10 DEF RFiles, TR!Sound

(* AttachmentsAnswer keeps the invariant. *)
LEMMA RAttachmentsAnswer ==
  ASSUME TR!IInv, NEW g \in TR!Gen, NEW names, names \subseteq AttachedNames, TR!AttachmentsAnswer(g, names)
  PROVE  TR!Sound(st')
<1>1. DOMAIN st = DOMAIN TR!Start /\ TR!Numbers(st) /\ TR!FilesSound(st) /\ TR!LayersSound(st) /\ g \in st.asked
  BY DEF TR!IInv, TR!Sound, TR!AttachmentsAnswer
<1>2. PICK a : a = st.asked \ {g}
  OBVIOUS
<1>3. PICK w : w = [st EXCEPT !.asked = a]
  OBVIOUS
<1>4. /\ DOMAIN w = DOMAIN TR!Start /\ w.asked = a /\ RFiles(st, w) /\ w.configs = st.configs /\ w.visible = st.visible
      /\ w.viewer = st.viewer /\ w.tree = st.tree /\ w.checked = st.checked
  BY <1>1, <1>3 DEF RFiles, TR!Start
<1>5. TR!Sound(w)
  <2>1. TR!Numbers(w)
    BY <1>1, <1>2, <1>4 DEF RFiles, TR!Numbers
  <2>2. TR!FilesSound(w)
    BY <1>1, <1>2, <1>4 DEF RFiles, TR!FilesSound, TR!Quiet
  <2>3. TR!LayersSound(w)
    BY <1>1, <1>4 DEF RFiles, TR!LayersSound
  <2> QED BY <1>4, <2>1, <2>2, <2>3 DEF TR!Sound
<1>6. CASE g # st.gen
  <2>1. st' = w
    BY <1>2, <1>3, <1>6 DEF TR!AttachmentsAnswer
  <2> QED BY <1>5, <2>1
<1>7. CASE g = st.gen
  <2>1. PICK F : F = {g} \X names
    OBVIOUS
  <2>2. PICK x : x = TR!RenderAttachments(w, F, FALSE)
    OBVIOUS
  <2>3. st' = TR!AppendAll(x)
    BY <1>2, <1>3, <1>7, <2>1, <2>2 DEF TR!AttachmentsAnswer
  <2>4. RRendered(w, F, x)
    BY <1>4, <2>2, RRender
  <2>5. TR!Quiet(st) /\ st.gen # 0 /\ w.gen = st.gen /\ w.gen \notin w.asked
    BY <1>1, <1>2, <1>4, <1>7 DEF TR!FilesSound, TR!Numbers, RFiles
  <2>6. F \subseteq {st.gen} \X AttachedNames
    BY <1>7, <2>1
  <2>7. /\ RLayers(w, x) /\ x.files = F /\ x.appends = st.appends
        /\ IF F = {} THEN x.pending /\ x.told = "unknown" ELSE ~x.pending /\ x.told = "some"
    BY <1>4, <2>4, <2>5 DEF RRendered, RFiles, TR!Quiet
  <2>8. TR!Numbers(x) /\ TR!LayersSound(x)
    BY <1>5, <2>7 DEF RLayers, TR!Sound, TR!Numbers, TR!LayersSound
  <2>9. x.gen = st.gen /\ x.tree # 0 /\ x.gen \notin x.asked /\ DOMAIN x = DOMAIN TR!Start
    BY <1>1, <1>4, <1>7, <2>5, <2>7 DEF RLayers, TR!FilesSound
  <2>10. TR!FilesSound(x)
    BY <1>1, <2>5, <2>6, <2>7, <2>9 DEF TR!FilesSound
  <2>11. TR!Sound(x)
    BY <2>8, <2>9, <2>10 DEF TR!Sound
  <2> QED BY <2>3, <2>5, <2>9, <2>11, RAppendAll
<1> QED BY <1>6, <1>7

(* AnnotationFile keeps the invariant. *)
LEMMA RAnnotationFile ==
  ASSUME TR!IInv, NEW name \in AttachedNames, TR!AnnotationFile(name)
  PROVE  TR!Sound(st')
<1>1. DOMAIN st = DOMAIN TR!Start /\ TR!Numbers(st) /\ TR!FilesSound(st) /\ TR!LayersSound(st) /\ st.gen # 0
  BY DEF TR!IInv, TR!Sound, TR!AnnotationFile
<1>2. PICK a : a = st.appends \cup {<<st.gen, name>>}
  OBVIOUS
<1>3. a \subseteq {st.gen} \X AttachedNames
  BY <1>1, <1>2 DEF TR!FilesSound
<1>4. PICK w : w = [st EXCEPT !.appends = a]
  OBVIOUS
<1>5. /\ RLayers(st, w) /\ w.rendered = st.rendered /\ w.files = st.files /\ w.pending = st.pending /\ w.appends = a /\ w.told = st.told
  BY <1>1, <1>4 DEF RLayers, TR!Start
<1>6. TR!Sound(w)
  <2>1. TR!Numbers(w) /\ TR!LayersSound(w)
    BY <1>1, <1>5 DEF RLayers, TR!Numbers, TR!LayersSound
  <2>2. TR!FilesSound(w)
    BY <1>1, <1>3, <1>5 DEF RLayers, TR!FilesSound, TR!Quiet
  <2> QED BY <1>5, <2>1, <2>2 DEF RLayers, TR!Sound
<1>7. CASE ~st.rendered
  <2>1. st' = w
    BY <1>2, <1>4, <1>7 DEF TR!AnnotationFile
  <2> QED BY <1>6, <2>1
<1>8. CASE st.rendered
  <2>1. st' = TR!AppendAll(w)
    BY <1>2, <1>4, <1>8 DEF TR!AnnotationFile
  <2>2. st.tree # 0 /\ st.gen \notin st.asked
    BY <1>1, <1>8 DEF TR!FilesSound, TR!Quiet
  <2>3. w.tree # 0 /\ w.gen \notin w.asked /\ w.gen # 0
    BY <1>1, <1>5, <2>2 DEF RLayers
  <2> QED BY <1>6, <2>1, <2>3, RAppendAll
<1> QED BY <1>7, <1>8

(* WaitEnds keeps the invariant. *)
LEMMA RWaitEnds ==
  ASSUME TR!IInv, NEW g \in TR!Gen, TR!WaitEnds(g)
  PROVE  TR!Sound(st')
<1>1. DOMAIN st = DOMAIN TR!Start /\ TR!Numbers(st) /\ TR!FilesSound(st) /\ TR!LayersSound(st)
  BY DEF TR!IInv, TR!Sound
<1>2. PICK a : a = st.waits \ {g}
  OBVIOUS
<1>3. PICK w : w = [st EXCEPT !.waits = a]
  OBVIOUS
<1>4. /\ RLayers(st, w) /\ w.rendered = st.rendered /\ w.files = st.files /\ w.pending = st.pending /\ w.appends = st.appends
      /\ w.told = st.told /\ DOMAIN w = DOMAIN TR!Start
  BY <1>1, <1>3 DEF RLayers, TR!Start
<1>5. CASE ~st.pending
  <2>1. st' = w
    BY <1>2, <1>3, <1>5 DEF TR!WaitEnds
  <2>2. TR!Numbers(w) /\ TR!LayersSound(w)
    BY <1>1, <1>4 DEF RLayers, TR!Numbers, TR!LayersSound
  <2>3. TR!FilesSound(w)
    BY <1>1, <1>4 DEF RLayers, TR!FilesSound, TR!Quiet
  <2> QED BY <1>4, <2>1, <2>2, <2>3 DEF TR!Sound
<1>6. CASE st.pending
  <2>1. st' = [w EXCEPT !.pending = FALSE, !.told = "none"]
    BY <1>2, <1>3, <1>6 DEF TR!WaitEnds, TR!Announce
  <2>2. RLayers(w, st') /\ st'.rendered = w.rendered /\ st'.files = w.files /\ ~st'.pending /\ st'.appends = w.appends /\ st'.told = "none"
    BY <1>4, <2>1 DEF RLayers, TR!Start
  <2>3. TR!Numbers(st') /\ TR!LayersSound(st')
    BY <1>1, <1>4, <2>2 DEF RLayers, TR!Numbers, TR!LayersSound
  <2>4. st.files = {} /\ st.tree # 0 /\ st.gen \notin st.asked
    BY <1>1, <1>6 DEF TR!FilesSound, TR!Quiet
  <2>5. TR!FilesSound(st')
    BY <1>1, <1>4, <2>2, <2>4 DEF RLayers, TR!FilesSound
  <2> QED BY <2>2, <2>3, <2>5 DEF RLayers, TR!Sound
<1> QED BY <1>5, <1>6

(* A configuration is set: the boxes are those of the pages if there are boxes. *)
LEMMA RSetConfig ==
  ASSUME NEW u, DOMAIN u = DOMAIN TR!Start, NEW c, NEW r, r = TR!SetConfig(u, c)
  PROVE  /\ RFiles(u, r) /\ r.asked = u.asked /\ r.configs = u.configs /\ r.viewer = c /\ r.tree = u.tree /\ r.visible = u.visible
         /\ r.tree # 0 => r.checked = r.visible[c]
<1>1. PICK w : w = [u EXCEPT !.viewer = c]
  OBVIOUS
<1>2. /\ RFiles(u, w) /\ w.asked = u.asked /\ w.configs = u.configs /\ w.viewer = c /\ w.tree = u.tree /\ w.visible = u.visible
      /\ DOMAIN w = DOMAIN TR!Start
  BY <1>1 DEF RFiles, TR!Start
<1>3. PICK v : v = w.visible[w.viewer]
  OBVIOUS
<1>4. r = IF w.tree = 0 THEN w ELSE [w EXCEPT !.checked = v]
  BY <1>1, <1>3 DEF TR!SetConfig, TR!UpdateLayers
<1>5. CASE w.tree = 0
  BY <1>2, <1>4, <1>5
<1>6. CASE w.tree # 0
  <2>1. r = [w EXCEPT !.checked = v]
    BY <1>4, <1>6
  <2>2. /\ RFiles(w, r) /\ r.asked = w.asked /\ r.configs = w.configs /\ r.viewer = w.viewer /\ r.tree = w.tree
        /\ r.visible = w.visible /\ r.checked = v
    BY <1>2, <2>1 DEF RFiles, TR!Start
  <2> QED BY <1>2, <1>3, <2>2 DEF RFiles
<1> QED BY <1>5, <1>6

(* The visibility of a layer changes in the configuration of the pages. *)
LEMMA RSwitched ==
  ASSUME TR!IInv, NEW u, RFiles(st, u), u.asked = st.asked, u.configs = st.configs, u.tree = st.tree,
         NEW c, c # 0, u.tree \in {0, c}, st' = TR!SetConfig(u, c)
  PROVE  TR!Sound(st')
<1>1. TR!Numbers(st) /\ TR!FilesSound(st) /\ TR!LayersSound(st) /\ DOMAIN u = DOMAIN TR!Start
  BY DEF TR!IInv, TR!Sound, RFiles
<1>2. /\ RFiles(u, st') /\ st'.asked = u.asked /\ st'.configs = u.configs /\ st'.viewer = c /\ st'.tree = u.tree /\ st'.visible = u.visible
      /\ st'.tree # 0 => st'.checked = st'.visible[c]
  BY <1>1, RSetConfig
<1>3. TR!Numbers(st')
  BY <1>1, <1>2 DEF RFiles, TR!Numbers
<1>4. TR!FilesSound(st')
  BY <1>1, <1>2 DEF RFiles, TR!FilesSound, TR!Quiet
<1>5. TR!LayersSound(st')
  BY <1>2 DEF TR!LayersSound
<1> QED BY <1>2, <1>3, <1>4, <1>5 DEF RFiles, TR!Sound

(* ToggleLayer keeps the invariant. *)
LEMMA RToggleLayer ==
  ASSUME TR!IInv, NEW g \in LayerGroups, TR!ToggleLayer(g)
  PROVE  TR!Sound(st')
<1>1. DOMAIN st = DOMAIN TR!Start /\ st.tree # 0
  BY DEF TR!IInv, TR!Sound, TR!ToggleLayer
<1>2. PICK on : on = ~st.checked[g]
  OBVIOUS
<1>3. PICK k : k = [st.checked EXCEPT ![g] = on]
  OBVIOUS
<1>4. PICK f : f = [st.visible EXCEPT ![st.tree] = TR!SetVisibility(st.visible[st.tree], g, on)]
  OBVIOUS
<1>5. PICK u : u = [st EXCEPT !.checked = k, !.visible = f]
  OBVIOUS
<1>6. u = [st EXCEPT !.checked[g] = on, !.visible[st.tree] = TR!SetVisibility(@, g, on)]
  BY <1>1, <1>3, <1>4, <1>5 DEF TR!Start
<1>7. st' = TR!SetConfig(u, st.tree)
  BY <1>2, <1>6 DEF TR!ToggleLayer
<1>8. RFiles(st, u) /\ u.asked = st.asked /\ u.configs = st.configs /\ u.tree = st.tree
  BY <1>1, <1>5 DEF RFiles, TR!Start
<1> QED BY <1>1, <1>7, <1>8, RSwitched

(* SetOCGState keeps the invariant. *)
LEMMA RSetOCGState ==
  ASSUME TR!IInv, NEW g \in LayerGroups, NEW on \in BOOLEAN, TR!SetOCGState(g, on)
  PROVE  TR!Sound(st')
<1>1. DOMAIN st = DOMAIN TR!Start /\ st.viewer # 0 /\ st.tree \in {0, st.viewer}
  BY DEF TR!IInv, TR!Sound, TR!SetOCGState, TR!LayersSound
<1>2. PICK f : f = [st.visible EXCEPT ![st.viewer] = TR!SetVisibility(st.visible[st.viewer], g, on)]
  OBVIOUS
<1>3. PICK u : u = [st EXCEPT !.visible = f]
  OBVIOUS
<1>4. u = [st EXCEPT !.visible[st.viewer] = TR!SetVisibility(@, g, on)]
  BY <1>1, <1>2, <1>3 DEF TR!Start
<1>5. st' = TR!SetConfig(u, st.viewer)
  BY <1>4 DEF TR!SetOCGState
<1>6. RFiles(st, u) /\ u.asked = st.asked /\ u.configs = st.configs /\ u.tree = st.tree
  BY <1>1, <1>3 DEF RFiles, TR!Start
<1> QED BY <1>1, <1>5, <1>6, RSwitched

(* ResetLayers keeps the invariant. *)
LEMMA RResetLayers ==
  ASSUME TR!IInv, TR!ResetLayers
  PROVE  TR!Sound(st')
<1>1. DOMAIN st = DOMAIN TR!Start /\ TR!Numbers(st) /\ TR!FilesSound(st) /\ TR!LayersSound(st)
  BY DEF TR!IInv, TR!Sound
<1>2. PICK a : a = st.resets \cup {st.gen}
  OBVIOUS
<1>3. st' = [st EXCEPT !.resets = a]
  BY <1>2 DEF TR!ResetLayers
<1>4. RLayers(st, st') /\ RFiles(st, st')
  BY <1>1, <1>3 DEF RLayers, RFiles, TR!Start
<1>5. TR!Numbers(st') /\ TR!LayersSound(st')
  BY <1>1, <1>4 DEF RLayers, TR!Numbers, TR!LayersSound
<1>6. TR!FilesSound(st')
  BY <1>1, <1>4 DEF RLayers, RFiles, TR!FilesSound, TR!Quiet
<1> QED BY <1>4, <1>5, <1>6 DEF RLayers, TR!Sound

(* ResetAnswer keeps the invariant. *)
LEMMA RResetAnswer ==
  ASSUME TR!IInv, NEW g \in TR!Gen, TR!ResetAnswer(g)
  PROVE  TR!Sound(st')
<1>1. DOMAIN st = DOMAIN TR!Start /\ TR!Numbers(st) /\ TR!FilesSound(st) /\ TR!LayersSound(st)
  BY DEF TR!IInv, TR!Sound
<1>2. PICK c : c = st.configs + 1
  OBVIOUS
<1>3. c \in Nat /\ c # 0
  BY <1>1, <1>2 DEF TR!Numbers
<1>4. PICK a : a = st.resets \ {g}
  OBVIOUS
<1>5. PICK w : w = [st EXCEPT !.resets = a, !.configs = c]
  OBVIOUS
<1>6. /\ RFiles(st, w) /\ w.asked = st.asked /\ w.configs = c /\ w.tree = st.tree /\ w.viewer = st.viewer
      /\ w.visible = st.visible /\ w.checked = st.checked /\ DOMAIN w = DOMAIN TR!Start
  BY <1>1, <1>5 DEF RFiles, TR!Start
<1>7. TR!Numbers(w)
  BY <1>1, <1>3, <1>6 DEF RFiles, TR!Numbers
<1>8. CASE g # st.gen
  <2>1. st' = w
    BY <1>2, <1>4, <1>5, <1>8 DEF TR!ResetAnswer
  <2>2. TR!FilesSound(w)
    BY <1>1, <1>6 DEF RFiles, TR!FilesSound, TR!Quiet
  <2>3. TR!LayersSound(w)
    BY <1>1, <1>6 DEF RFiles, TR!LayersSound
  <2> QED BY <1>6, <1>7, <2>1, <2>2, <2>3 DEF TR!Sound
<1>9. CASE g = st.gen
  <2>1. PICK x : x = TR!SetConfig(w, c)
    OBVIOUS
  <2>2. st' = [x EXCEPT !.tree = c, !.checked = x.visible[c]]
    BY <1>2, <1>4, <1>5, <1>9, <2>1 DEF TR!ResetAnswer, TR!RenderLayers
  <2>3. /\ RFiles(w, x) /\ x.asked = w.asked /\ x.configs = w.configs /\ x.viewer = c /\ x.visible = w.visible
        /\ DOMAIN x = DOMAIN TR!Start
    BY <1>6, <2>1, RSetConfig DEF RFiles
  <2>4. PICK v : v = x.visible[c]
    OBVIOUS
  <2>5. st' = [x EXCEPT !.tree = c, !.checked = v]
    BY <2>2, <2>4
  <2>6. /\ RFiles(x, st') /\ st'.asked = x.asked /\ st'.configs = x.configs /\ st'.viewer = x.viewer /\ st'.visible = x.visible
        /\ st'.tree = c /\ st'.checked = v
    BY <2>3, <2>5 DEF RFiles, TR!Start
  <2>7. TR!Numbers(st')
    BY <1>7, <2>3, <2>6 DEF RFiles, TR!Numbers
  <2>8. st.gen # 0
    BY <1>9, TreesAssumption DEF TR!Gen
  <2>9. TR!FilesSound(st')
    BY <1>1, <1>3, <1>6, <2>3, <2>6, <2>8 DEF RFiles, TR!FilesSound, TR!Quiet
  <2>10. TR!LayersSound(st')
    BY <1>3, <2>3, <2>4, <2>6 DEF TR!LayersSound
  <2> QED BY <2>6, <2>7, <2>9, <2>10 DEF RFiles, TR!Sound
<1> QED BY <1>8, <1>9

(* Init keeps the invariant. *)
LEMMA RInit ==
  ASSUME TR!Init
  PROVE  TR!IInv
<1>1. st = TR!Start
  BY DEF TR!Init
<1>2. /\ st.gen = 0 /\ st.opens = 0 /\ st.configs = 0 /\ st.asked = {} /\ st.files = {} /\ st.appends = {} /\ st.told = "unknown"
      /\ st.tree = 0 /\ st.viewer = 0
  BY <1>1 DEF TR!Start
<1>3. ~st.rendered /\ ~st.pending
  BY <1>1 DEF TR!Start
<1> QED BY <1>1, <1>2, <1>3 DEF TR!IInv, TR!Sound, TR!Numbers, TR!FilesSound, TR!LayersSound, TR!Quiet

(* Every step of attachments and layers keeps the invariant. *)
LEMMA RStep ==
  ASSUME TR!IInv, TR!Next
  PROVE  TR!Sound(st')
<1>1. CASE TR!Open \/ TR!Close \/ TR!OnePageRendered \/ TR!ResetLayers
  BY <1>1, ROpen, RClose, ROnePageRendered, RResetLayers
<1>2. CASE \E g \in TR!Gen : \/ TR!WaitEnds(g) \/ TR!ResetAnswer(g)
                            \/ \E names \in {{}, AttachedNames, {CHOOSE x \in AttachedNames : TRUE}} : TR!AttachmentsAnswer(g, names)
  <2>1. PICK g \in TR!Gen : \/ TR!WaitEnds(g) \/ TR!ResetAnswer(g)
                            \/ \E names \in {{}, AttachedNames, {CHOOSE x \in AttachedNames : TRUE}} : TR!AttachmentsAnswer(g, names)
    BY <1>2
  <2>2. CASE TR!WaitEnds(g) \/ TR!ResetAnswer(g)
    BY <2>2, RWaitEnds, RResetAnswer
  <2>3. CASE \E names \in {{}, AttachedNames, {CHOOSE x \in AttachedNames : TRUE}} : TR!AttachmentsAnswer(g, names)
    <3>1. PICK names \in {{}, AttachedNames, {CHOOSE x \in AttachedNames : TRUE}} : TR!AttachmentsAnswer(g, names)
      BY <2>3
    <3>2. names \subseteq AttachedNames
      BY TreesAssumption
    <3> QED BY <3>1, <3>2, RAttachmentsAnswer
  <2> QED BY <2>1, <2>2, <2>3
<1>3. CASE \E name \in AttachedNames : TR!AnnotationFile(name)
  BY <1>3, RAnnotationFile
<1>4. CASE \E g \in LayerGroups : TR!ToggleLayer(g) \/ \E on \in BOOLEAN : TR!SetOCGState(g, on)
  BY <1>4, RToggleLayer, RSetOCGState
<1> QED BY <1>1, <1>2, <1>3, <1>4 DEF TR!Next

(* What the invariant says about attachments and layers. *)
LEMMA RProps ==
  ASSUME TR!IInv
  PROVE  TR!FilesOfDocument /\ TR!ToldOfFiles /\ TR!LayersAsDrawn
<1>1. TR!FilesSound(st) /\ TR!LayersSound(st)
  BY DEF TR!IInv, TR!Sound
<1>2. TR!FilesOfDocument
  BY <1>1 DEF TR!FilesSound, TR!FilesOfDocument
<1>3. TR!ToldOfFiles
  BY <1>1 DEF TR!FilesSound, TR!ToldOfFiles
<1>4. TR!LayersAsDrawn
  BY <1>1 DEF TR!LayersSound, TR!LayersAsDrawn
<1> QED BY <1>2, <1>3, <1>4
=============================================================================
