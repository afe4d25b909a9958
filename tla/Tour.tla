---------------------------------- MODULE Tour ----------------------------------
(***************************************************************************)
(* The client runtime of the tour (tour/assets/tour.js): one index, two    *)
(* layouts.  The deck marks one slide active, the phone layout shifts the  *)
(* stage; resizing switches between them at any time.  The URL hash names  *)
(* the slide; an edited hash is seen when the browser delivers hashchange. *)
(* Touch positions are counted in steps of SWIPE_MIN pixels.               *)
(***************************************************************************)
EXTENDS Integers, FiniteSets

CONSTANT Total    \* slides

Slide  == 0 .. Total - 1
Untouched   == -1
Finger == {1, 2}
Pos    == 0 .. 1
\* location.hash: no number, the number of a slide, a number past the last one.
Hash   == 0 .. Total + 1

VARIABLE t

TypeOK ==
  t \in [booted : BOOLEAN, small : BOOLEAN,                   \* the viewport is a phone's
         index : Slide, mode : {"deck", "mobile"},
         active : Slide, shift : Slide \cup {Untouched},      \* .active, .stage transform
         dot : Slide, prevOff : BOOLEAN, nextOff : BOOLEAN,
         scrolled : SUBSET Slide,                             \* slides not at their top
         hash : Hash, hashchange : BOOLEAN,                   \* the event is on its way
         touches : [Finger -> Pos \cup {-9}],                 \* -9: not on the screen
         startX : Pos, tracking : BOOLEAN]

Init ==
  \E h \in Hash, s \in BOOLEAN :
    t = [booted |-> FALSE, small |-> s, index |-> 0, mode |-> "deck", active |-> 0, shift |-> Untouched, dot |-> 0,
         prevOff |-> FALSE, nextOff |-> FALSE, scrolled |-> {}, hash |-> h, hashchange |-> FALSE,
         touches |-> [f \in Finger |-> -9], startX |-> 0, tracking |-> FALSE]

-----------------------------------------------------------------------------

\* render: the index is clamped, the layout shows it, and the hash is replaced
\* (replaceState fires no event).
Render(s) ==
  LET i == IF s.index < 0 THEN 0 ELSE IF s.index > Total - 1 THEN Total - 1 ELSE s.index
      r == [s EXCEPT !.index = i, !.dot = i, !.prevOff = i = 0, !.nextOff = i = Total - 1, !.hash = i + 1]
  IN  IF s.mode = "deck" THEN [r EXCEPT !.active = i]
      ELSE [r EXCEPT !.shift = i, !.scrolled = @ \cap {i}]

Go(s, n) == IF n = s.index THEN s ELSE Render([s EXCEPT !.index = n])

\* applyMode
ApplyMode(s) ==
  LET mode == IF s.small THEN "mobile" ELSE "deck"
      r    == [s EXCEPT !.mode = mode, !.shift = IF mode = "deck" THEN Untouched ELSE @]
  IN  IF mode # s.mode \/ mode = "mobile" THEN Render(r) ELSE r

\* A hash that is not the number of a slide is passed over.
FromHash(s) == IF s.hash \in 1 .. Total THEN s.hash - 1 ELSE s.index

-----------------------------------------------------------------------------
\* init
Boot ==
  /\ ~t.booted
  /\ t' = [Render(ApplyMode([t EXCEPT !.index = FromHash(t)])) EXCEPT !.booted = TRUE]

\* The window is resized or turned.
Resize == t.booted /\ t' = ApplyMode([t EXCEPT !.small = ~@])

\* Keys, buttons, the dot rail, a click on the slide.  A disabled button does nothing.
Key(n)      == t' = Go(t, n)
PrevButton  == ~t.prevOff /\ t' = Go(t, t.index - 1)
NextButton  == ~t.nextOff /\ t' = Go(t, t.index + 1)
Dot(i)      == t.mode = "mobile" /\ t' = Go(t, i)
\* onClick: on a phone every tap advances, on the deck the left third goes back.
Click(left) == t' = Go(t, IF t.mode = "deck" /\ left THEN t.index - 1 ELSE t.index + 1)

\* The slide in view is scrolled on a phone.
Scroll == t.mode = "mobile" /\ t' = [t EXCEPT !.scrolled = @ \cup {t.index}]

\* Mutant: an edited hash is ignored.
HashChangeIgnored == t.hashchange /\ t' = [t EXCEPT !.hashchange = FALSE]

\* hashchange
HashChange == t.hashchange /\ t' = [Go(t, FromHash(t)) EXCEPT !.hashchange = FALSE]

EditHash(h) == h # t.hash /\ t' = [t EXCEPT !.hash = h, !.hashchange = TRUE]

Touching == {f \in Finger : t.touches[f] # -9}

\* onTouchStart: only the first finger sets the start.
TouchStart(f, x) ==
  /\ f \notin Touching
  /\ LET s == [t EXCEPT !.touches[f] = x]
     IN  t' = IF Touching = {} THEN [s EXCEPT !.startX = x, !.tracking = TRUE] ELSE s

TouchMove(f, x) == f \in Touching /\ t' = [t EXCEPT !.touches[f] = x]

\* onTouchEnd: the finger that is lifted is compared with the start of the first,
\* so that lifting the second one of a pinch counts as a swipe.
TouchEnd(f, vertical) ==
  /\ f \in Touching
  /\ LET dx == t.touches[f] - t.startX
         s  == [t EXCEPT !.touches[f] = -9, !.tracking = FALSE]
     IN  t' = IF ~t.tracking \/ dx = 0 \/ vertical THEN s
              ELSE Go(s, IF dx < 0 THEN t.index + 1 ELSE t.index - 1)

Next ==
  \/ Boot
  \/ /\ t.booted
     /\ \/ Resize \/ PrevButton \/ NextButton \/ Scroll \/ HashChange
        \/ \E n \in {t.index - 1, t.index + 1, 0, Total - 1} : Key(n)
        \/ \E i \in Slide : Dot(i)
        \/ \E left \in BOOLEAN : Click(left)
        \/ \E h \in Hash : EditHash(h)
        \/ \E f \in Finger, x \in Pos : TouchStart(f, x) \/ TouchMove(f, x)
        \/ \E f \in Finger, vertical \in BOOLEAN : TouchEnd(f, vertical)

Spec == Init /\ [][Next]_t

-----------------------------------------------------------------------------
\* Whatever layout the window was in while the user moved, the layout it is in
\* shows the slide of the index, and the rail and the buttons agree.
ShownIsIndex ==
  t.booted =>
    /\ IF t.mode = "deck" THEN t.active = t.index /\ t.shift = Untouched ELSE t.shift = t.index
    /\ t.dot = t.index /\ t.prevOff = (t.index = 0) /\ t.nextOff = (t.index = Total - 1)

\* A hash that names a slide names the one shown, once the browser has told of it.
LinkIsShown == t.booted /\ ~t.hashchange /\ t.hash \in 1 .. Total => t.hash = t.index + 1

\* "a re-visit always starts at the top of the slide": on a phone no other slide
\* than the one in view keeps a scroll position.
RevisitAtTop == t.mode = "mobile" => t.scrolled \subseteq {t.index}

-----------------------------------------------------------------------------
\* The inductive invariant: a window that was booted has the layout of its size, and one
\* that was not shows the deck.
LayoutFitsWindow ==
  /\ t.booted => t.mode = IF t.small THEN "mobile" ELSE "deck"
  /\ ~t.booted => t.mode = "deck" /\ t.shift = Untouched

IInv == TypeOK /\ LayoutFitsWindow /\ ShownIsIndex /\ LinkIsShown /\ RevisitAtTop
=============================================================================
