---------------------------- MODULE PdfPresentation ----------------------------
(***************************************************************************)
(* Scroll and spread modes, paging, and the presentation mode on top of    *)
(* them.  dom is the list of groups (single pages or spreads) that are in  *)
(* the document.  Entering and leaving full screen each put off their work *)
(* with setTimeout; the browser may leave full screen before the work of   *)
(* entering is done.  The user cannot reach the toolbar while presenting.  *)
(***************************************************************************)
EXTENDS Integers, Sequences, FiniteSets, FiniteSetsExt, SequencesExt

CONSTANT NPages

VARIABLE v    \* the viewer and its presentation mode

Page       == 1 .. NPages
ScrollMode == {"VERTICAL", "HORIZONTAL", "WRAPPED", "PAGE"}
SpreadMode == 0 .. 2                  \* NONE, ODD, EVEN
Mode       == [scroll : ScrollMode, spread : SpreadMode]
NoArgs     == [mode |-> [scroll |-> "VERTICAL", spread |-> 0], saved |-> FALSE, page |-> 1]

TypeOK ==
  /\ v.mode \in Mode /\ v.page \in Page
  /\ \A i \in DOMAIN v.dom : v.dom[i] \subseteq Page
  /\ v.state \in {"NORMAL", "CHANGING", "FULLSCREEN"}
  /\ v.args \in [mode : Mode, saved : BOOLEAN, page : Page]   \* saved: args.spreadMode is not null
  /\ v.screen \in {"window", "asked", "full"}                    \* what the browser does
  /\ v.todo \in Seq([what : {"enter", "exit"}, page : Page])     \* timeouts, first in first out
  /\ v.listeners \in BOOLEAN /\ v.controls \in BOOLEAN           \* #windowAC, controlsTimeout
  /\ v.touch \in {"null", "down", "back", "on"} /\ v.fingers \in 0 .. 2 /\ v.pinched \in BOOLEAN
  /\ v.chosen \in Mode                                           \* by the user, in the toolbar

-----------------------------------------------------------------------------
\* _updateSpreadMode: all pages in order; a new spread begins where the index has
\* the parity of the mode, so that GroupOf spreads have begun with the page q.
GroupOf(q, spread) == IF spread = 0 THEN q ELSE (q + spread) \div 2
Group(k, spread)   == {q \in Page : GroupOf(q, spread) = k}
Layout(spread)     == [k \in 1 .. GroupOf(NPages, spread) |-> Group(k, spread)]

\* #ensurePageViewVisible: the page or its spread, for the scroll mode PAGE.
VisibleGroup(p, spread) ==
  {q \in Page : CASE spread = 0 -> q = p
                  [] spread # 0 /\ p % 2 # spread - 1 -> q \in {p, p + 1}
                  [] OTHER -> q \in {p - 1, p}}

Ensure(u) == [u EXCEPT !.dom = <<VisibleGroup(u.page, u.mode.spread)>>]

\* currentPageNumber is set; #scrollIntoView.
SetPage(u, p) ==
  IF p \notin Page THEN u
  ELSE IF u.mode.scroll = "PAGE" THEN Ensure([u EXCEPT !.page = p]) ELSE [u EXCEPT !.page = p]

\* scrollMode is set, _updateScrollMode.
SetScroll(u, m) ==
  LET w == [u EXCEPT !.mode.scroll = m]
      x == CASE m = "PAGE" -> Ensure(w)
             [] m # "PAGE" /\ u.mode.scroll = "PAGE" -> [w EXCEPT !.dom = Layout(w.mode.spread)]
             [] OTHER -> w
  IN  IF m = u.mode.scroll THEN u ELSE SetPage(x, u.page)

\* spreadMode is set, _updateSpreadMode.
SetSpread(u, m) ==
  LET w == [u EXCEPT !.mode.spread = m]
      x == IF w.mode.scroll = "PAGE" THEN Ensure(w) ELSE [w EXCEPT !.dom = Layout(m)]
  IN  IF m = u.mode.spread THEN u ELSE SetPage(x, u.page)

-----------------------------------------------------------------------------
\* #getPageAdvance for the scroll mode WRAPPED: row are the pages that are wholly
\* visible beside the current one.  The first page that is missing between them, or
\* the one after the last of them.
RowAdvance(p, previous, row) ==
  IF previous
  THEN LET gaps == {q \in Page : q < p /\ q > Min(row) /\ q \notin row}
       IN  IF gaps # {} THEN p - Max(gaps) ELSE IF Min(row) < p THEN p - Min(row) + 1 ELSE 1
  ELSE LET gaps == {q \in Page : q > p /\ q < Max(row) /\ q \notin row}
       IN  IF gaps # {} THEN Min(gaps) - p ELSE IF Max(row) > p THEN Max(row) - p + 1 ELSE 1

\* #getPageAdvance
PageAdvance(u, previous, views) ==
  LET p == u.page
      parity == u.mode.spread - 1
      other  == IF previous THEN p - 1 ELSE p + 1
      spread == u.mode.spread # 0 /\ (IF previous THEN p % 2 = parity ELSE p % 2 # parity)
  IN  CASE u.mode.scroll = "WRAPPED" -> RowAdvance(p, previous, views)
        [] u.mode.scroll \in {"PAGE", "VERTICAL"} -> IF spread /\ other \in views THEN 2 ELSE 1
        [] OTHER -> 1

\* nextPage and previousPage; views are the pages that are wholly visible.
Turn(u, previous, views) ==
  LET n == PageAdvance(u, previous, views)
  IN  IF previous THEN (IF u.page > 1 THEN SetPage(u, Max({u.page - n, 1})) ELSE u)
      ELSE IF u.page < NPages THEN SetPage(u, Min({u.page + n, NPages})) ELSE u

\* What can be wholly visible: in the scroll mode PAGE the group that is there.
Visible(views) ==
  /\ v.page \in views
  /\ v.mode.scroll = "PAGE" => views = v.dom[1]

Start ==
  [mode |-> [scroll |-> "VERTICAL", spread |-> 0], page |-> 1, dom |-> Layout(0), state |-> "NORMAL",
   args |-> NoArgs, screen |-> "window", todo |-> <<>>, listeners |-> FALSE, controls |-> FALSE,
   touch |-> "null", fingers |-> 0, pinched |-> FALSE, chosen |-> [scroll |-> "VERTICAL", spread |-> 0]]

Init == v = Start

\* The toolbar, while no presentation is under way.
InWindow == v.state = "NORMAL" /\ v.todo = <<>>
ChooseScroll(m) == InWindow /\ v' = [SetScroll(v, m) EXCEPT !.chosen.scroll = m]
ChooseSpread(m) == InWindow /\ v' = [SetSpread(v, m) EXCEPT !.chosen.spread = m]

\* Next and previous page, by the toolbar, a key, the wheel or, presenting, a click.
TurnPage(previous, views) ==
  /\ Visible(views)
  /\ InWindow \/ v.listeners
  /\ v' = Turn(v, previous, views)

-----------------------------------------------------------------------------
\* request: a spread is saved and dropped if the pages may differ in size.
Request(differ) ==
  /\ v.state = "NORMAL" /\ v.screen = "window"
  /\ v' = [v EXCEPT !.state = "CHANGING", !.screen = "asked",
                    !.args = [mode |-> v.mode, saved |-> v.mode.spread # 0 /\ differ, page |-> v.page]]

\* The browser refuses.
Refused ==
  /\ v.screen = "asked"
  /\ v' = [v EXCEPT !.state = "NORMAL", !.screen = "window"]

\* fullscreenchange: #enter and #exit.
Enter ==
  /\ v.screen = "asked"
  /\ v' = [v EXCEPT !.screen = "full", !.state = "FULLSCREEN", !.listeners = TRUE, !.controls = TRUE,
                    !.todo = Append(@, [what |-> "enter", page |-> v.page])]

Exit ==
  /\ v.screen = "full"
  /\ v' = [v EXCEPT !.screen = "window", !.listeners = FALSE, !.controls = FALSE,
                    !.todo = Append(@, [what |-> "exit", page |-> v.page])]

\* The work put off by #exit.
Exited(u, page) ==
  LET w == SetScroll([u EXCEPT !.state = "NORMAL"], u.args.mode.scroll)
      x == IF u.args.saved THEN SetSpread(w, u.args.mode.spread) ELSE w
  IN  [SetPage(x, page) EXCEPT !.args = NoArgs]

\* The work put off by #enter.
Entered(u) ==
  LET w == SetScroll(u, "PAGE")
  IN  SetPage(IF u.args.saved THEN SetSpread(w, 0) ELSE w, u.args.page)

Timeout ==
  /\ v.todo # <<>>
  /\ LET t == Head(v.todo)
         u == [v EXCEPT !.todo = Tail(@)]
     IN  v' = IF t.what = "enter" THEN Entered(u) ELSE Exited(u, t.page)

\* #showControls on a movement of the mouse, and its timer.
MouseMove == v.listeners /\ v' = [v EXCEPT !.controls = TRUE]
ControlsTimer == v.controls /\ v' = [v EXCEPT !.controls = FALSE]

\* #touchSwipe; pinched: a second finger came since the first one went down.
TouchStart ==
  /\ v.listeners /\ v.fingers < 2
  /\ v' = [v EXCEPT !.fingers = @ + 1, !.pinched = (v.fingers = 1),
                    !.touch = IF v.fingers = 1 THEN "null" ELSE "down"]

TouchMove(to) ==
  /\ v.listeners /\ v.fingers > 0
  /\ v' = [v EXCEPT !.touch = IF v.fingers > 1 \/ @ = "null" THEN "null" ELSE to]

TouchEnd(views) ==
  /\ v.listeners /\ v.fingers > 0 /\ Visible(views)
  /\ LET u == [v EXCEPT !.fingers = @ - 1]
     IN  v' = IF v.touch \in {"back", "on"} THEN Turn(u, v.touch = "back", views) ELSE u

Next ==
  \/ Timeout
  \/ \E m \in ScrollMode : ChooseScroll(m)
  \/ \E m \in SpreadMode : ChooseSpread(m)
  \/ \E previous \in BOOLEAN, views \in SUBSET Page : TurnPage(previous, views)
  \/ \E differ \in BOOLEAN : Request(differ)
  \/ Refused \/ Enter \/ Exit \/ MouseMove \/ ControlsTimer
  \/ TouchStart \/ \E to \in {"back", "on"} : TouchMove(to)
  \/ \E views \in SUBSET Page : TouchEnd(views)

Spec == Init /\ [][Next]_v

-----------------------------------------------------------------------------
\* What is in the document is what the modes and the current page ask for, through
\* every change of mode and also while presenting: all pages in their groups, or, in
\* the scroll mode PAGE, the very group the current page has in the full layout.
DomOf(u) ==
  IF u.mode.scroll = "PAGE"
  THEN Len(u.dom) = 1 /\ u.page \in u.dom[1] /\ u.dom[1] \in Range(Layout(u.mode.spread))
  ELSE u.dom = Layout(u.mode.spread)
DomIsLayout == DomOf(v)

\* After a presentation, however short, the modes are the ones the user has chosen.
ModesRestored == InWindow => v.mode = v.chosen

\* Presenting ends with its listeners: a mouse or a finger turns no page afterwards.
ListenersOnlyPresenting == v.listeners \/ v.controls => v.screen = "full" /\ v.state = "FULLSCREEN"

\* Turning pages passes over no page that was not wholly visible.
TurnSkipsNothing ==
  \A views \in SUBSET Page : \A previous \in BOOLEAN :
    Visible(views) =>
      LET p == Turn(v, previous, views).page
      IN  \A q \in Page : (v.page < q /\ q < p) \/ (p < q /\ q < v.page) => q \in views

\* A finger lifted after a pinch turns no page.
PinchIsNoSwipe == v'.fingers < v.fingers /\ v.pinched => v'.page = v.page

\* What makes these inductive: the state is one of a presentation, ...
Presenting(u) ==
  \/ u.state = "NORMAL" /\ u.screen = "window" /\ u.todo = <<>>
  \/ u.state = "CHANGING" /\ u.screen = "asked" /\ u.todo = <<>>
  \/ u.state = "FULLSCREEN" /\ u.screen = "full" /\ (u.todo = <<>> \/ \E p \in Page : u.todo = <<[what |-> "enter", page |-> p]>>)
  \/ u.state = "FULLSCREEN" /\ u.screen = "window" /\ \E p, q \in Page :
       u.todo \in {<<[what |-> "exit", page |-> q]>>, <<[what |-> "enter", page |-> p], [what |-> "exit", page |-> q]>>}

\* the modes are the chosen ones until the work of #enter is done, and those of #enter until
\* the work of #exit is, which then finds the chosen ones in the arguments.
Entering(u) == u.todo # <<>> /\ Head(u.todo).what = "enter"
ModesSound(u) ==
  /\ u.mode = IF u.state # "FULLSCREEN" \/ Entering(u) THEN u.chosen
              ELSE [scroll |-> "PAGE", spread |-> IF u.args.saved THEN 0 ELSE u.chosen.spread]
  /\ u.state # "NORMAL" => u.args.mode = u.chosen

Shape(u) ==
  /\ DOMAIN u = DOMAIN Start
  /\ u.mode \in Mode /\ u.chosen \in Mode /\ u.page \in Page /\ u.fingers \in Nat
  /\ u.args \in [mode : Mode, saved : BOOLEAN, page : Page]

Sound(u) ==
  /\ Shape(u) /\ DomOf(u) /\ Presenting(u) /\ ModesSound(u)
  /\ u.listeners \/ u.controls => u.screen = "full"
  /\ u.pinched => u.touch = "null"

IInv == Sound(v)
=============================================================================
