------------------------------ MODULE PdfHistory ------------------------------
(***************************************************************************)
(* PDFHistory with the part of PDFLinkService that drives it: the viewer   *)
(* keeps its jumps and positions as entries of the browser's history.      *)
(* Between a call of history.back() and its popstate event, and between a  *)
(* click on a link and the answer of getPageIndex, other events happen.    *)
(* Every page is viewed alone; a long one has two places to scroll to.  A  *)
(* destination is the page it leads to.                                    *)
(***************************************************************************)
EXTENDS Integers, Sequences, FiniteSets

CONSTANTS NPages,     \* pages of the document
          Long,       \* pages longer than the window
          Cached,     \* pages whose references cachedPageNumber knows
          HashPages,  \* what the user puts behind the URL's #, 0 for no page
          Threshold,  \* POSITION_UPDATED_THRESHOLD
          MaxUid      \* bound: the highest number of an entry

VARIABLE h    \* the browser's entries and the internal state

Page == 1 .. NPages
Kind == {"null", "dest", "page", "pos", "hash"}
Dest(kind, page) == [kind |-> kind, id |-> page, page |-> page, place |-> 0, temporary |-> FALSE]
Null == Dest("null", 0)

Place(p) == IF p \in Long THEN {1, 2} ELSE {1}
MaybePage == Page \cup {0}
MaybePlace == {0, 1, 2}
Direction == {-1, 0, 1}
Target == [kind : Kind, id : MaybePage, page : MaybePage, place : MaybePlace, temporary : BOOLEAN]
Entry == [uid : Nat, dest : Target]
State ==
  [stack : Seq(Entry), at : Nat,                  \* the entries and the current one
   going : Direction, own : BOOLEAN,               \* a traversal under way, whether by back()
   uid : Nat, maxUid : Nat, dest : Target,
   pos : MaybePage, place : MaybePlace,           \* _position: its page and hash
   updates : Nat, timer : BOOLEAN,
   lost : BOOLEAN,                                \* the first entry got the number of another one
   jump : MaybePage]                              \* the link under way

TypeOK ==
  /\ h \in State /\ h.at \in DOMAIN h.stack
  /\ h.uid <= MaxUid /\ h.maxUid <= MaxUid /\ h.updates <= Threshold + 1

Init == h = [stack |-> <<[uid |-> 0, dest |-> Null]>>, at |-> 1, going |-> 0, own |-> FALSE, uid |-> 0, maxUid |-> 0,
             dest |-> Null, pos |-> 0, place |-> 0, updates |-> 0, timer |-> FALSE, jump |-> 0, lost |-> FALSE]

-----------------------------------------------------------------------------
\* Mutant: the number never goes down.
UpdateInternalGrows(g, d, uid) ==
  [g EXCEPT !.dest = d, !.uid = IF uid > @ THEN uid ELSE @, !.maxUid = IF uid > @ THEN uid ELSE @,
            !.updates = 0, !.timer = FALSE]

UpdateInternalState(g, d, uid) ==
  [g EXCEPT !.dest = d, !.uid = uid, !.maxUid = IF uid > @ THEN uid ELSE @, !.updates = 0, !.timer = FALSE]

\* #popState took no notice of the current entry, which never got a destination: the
\* internal state is still that of the entry the user came from.
Astray(g) == g.stack[g.at].dest.kind = "null" /\ g.dest.kind # "null"

\* #pushOrReplaceState: a push drops the entries ahead.
PushOrReplace(g, d, forceReplace) ==
  LET replace == forceReplace \/ g.dest.kind = "null"
      uid     == IF replace THEN g.uid ELSE g.uid + 1
      i       == IF replace THEN g.at ELSE g.at + 1
  IN  [UpdateInternalState(g, d, uid) EXCEPT
         !.lost = @ \/ (replace /\ Astray(g)),
         !.at = i, !.stack = IF replace THEN [@ EXCEPT ![i] = [uid |-> uid, dest |-> d]]
                             ELSE Append(SubSeq(@, 1, g.at), [uid |-> uid, dest |-> d])]

\* #tryPushCurrentPosition
TryPush(g, temporary) ==
  LET position == [Dest("pos", g.pos) EXCEPT !.place = g.place, !.temporary = temporary]
      d        == g.dest
  IN  CASE g.pos = 0 -> g
        [] g.pos # 0 /\ d.kind = "null" -> PushOrReplace(g, position, FALSE)
        [] g.pos # 0 /\ d.kind # "null" /\ d.temporary -> PushOrReplace(g, position, TRUE)
        [] OTHER ->
             IF \/ d.kind = "pos" /\ d.id = g.pos /\ d.place = g.place
                \/ d.page = 0 /\ g.updates <= Threshold
                \/ d.page = g.pos /\ d.kind # "pos"
             THEN g
             ELSE PushOrReplace(g, position, d.page = g.pos)

\* push, outside of a popstate handler.  A destination whose page is not known yet
\* is replaced, the one that is current is not pushed again.
PushDest(g, p) ==
  IF g.dest.kind = "dest" /\ g.dest.id = p
  THEN IF g.dest.page # 0 THEN g ELSE PushOrReplace(g, Dest("dest", p), TRUE)
  ELSE PushOrReplace(g, Dest("dest", p), FALSE)

\* pushPage
PushPage(g, p) == IF g.dest.page = p THEN g ELSE PushOrReplace(g, Dest("page", p), FALSE)

-----------------------------------------------------------------------------
\* Mutant: the position of before is not kept.
ArriveOnly(g, p) == [PushDest(g, p) EXCEPT !.jump = 0]

\* The end of goToDestination: the position, then the destination.
Arrive(g, p) == [PushDest(TryPush(g, FALSE), p) EXCEPT !.jump = 0]

\* A link is clicked; an unknown page reference is asked from the worker.
GoToDestination(p) ==
  /\ h.jump = 0
  /\ h' = IF p \in Cached THEN Arrive(h, p) ELSE [h EXCEPT !.jump = p]

PageIndex == h.jump # 0 /\ h' = Arrive(h, h.jump)

\* goToPage
GoToPage(p) == h' = PushPage(TryPush(h, FALSE), p)

\* #updateViewarea, after the user scrolled or some time after a jump.
UpdateViewarea(p, k) ==
  h' = [h EXCEPT !.pos = p, !.place = k, !.timer = TRUE,
                 !.updates = IF h.dest.kind # "null" /\ h.dest.page = 0 /\ @ <= Threshold THEN @ + 1 ELSE @]

\* UPDATE_VIEWAREA_TIMEOUT
Timer == h.timer /\ h' = [TryPush(h, TRUE) EXCEPT !.timer = FALSE]

-----------------------------------------------------------------------------

\* back() and forward() of the viewer, and the buttons of the browser.
Back    == /\ h.going = 0 /\ h.stack[h.at].dest.kind # "null" /\ h.stack[h.at].uid > 0
           /\ h' = [h EXCEPT !.going = -1, !.own = TRUE]
Forward == /\ h.going = 0 /\ h.stack[h.at].dest.kind # "null" /\ h.stack[h.at].uid < h.maxUid
           /\ h' = [h EXCEPT !.going = 1]
Traverse(d) == /\ h.going = 0 /\ h.at + d \in DOMAIN h.stack
               /\ h' = [h EXCEPT !.going = d]

\* The traversal takes place: #popState for an entry with a valid state.  The flag
\* _popStateInProgress keeps what follows synchronously from pushing; the answer of
\* getPageIndex comes after it.
PopState ==
  LET i == h.at + h.going
      e == h.stack[i]
      g == [h EXCEPT !.going = 0, !.own = FALSE]
      u == UpdateInternalState([g EXCEPT !.at = i], [e.dest EXCEPT !.temporary = FALSE], e.uid)
  IN  /\ h.going # 0
      /\ h' = CASE i \notin DOMAIN h.stack -> g
                [] i \in DOMAIN h.stack /\ e.dest.kind = "null" -> [g EXCEPT !.at = i]
                [] i \in DOMAIN h.stack /\ e.dest.kind = "dest" /\ e.dest.id \notin Cached ->
                     [u EXCEPT !.jump = e.dest.id]
                [] OTHER -> u

\* The user edits the hash of the URL: a new entry without a state, which #popState
\* gives one; it names a page or none (0).
HashEdit(page) ==
  LET d == [Dest("hash", page) EXCEPT !.id = 0]
      u == [h EXCEPT !.stack = Append(SubSeq(@, 1, h.at), [uid |-> h.uid + 1, dest |-> d]),
                     !.at = @ + 1, !.uid = @ + 1, !.going = 0, !.own = FALSE]
  IN  h' = PushOrReplace(u, d, TRUE)

\* The page is reloaded: #pageHide, then initialize with the state of the entry.
PageHide(g) == IF g.dest.kind = "null" \/ g.dest.temporary THEN TryPush(g, FALSE) ELSE g

Reload ==
  LET g == PageHide(h)
      e == g.stack[g.at]
      z == [g EXCEPT !.uid = 0, !.maxUid = 0, !.dest = Null, !.pos = 0, !.place = 0, !.updates = 0, !.timer = FALSE,
                     !.jump = 0, !.going = 0, !.own = FALSE]
      d == [e.dest EXCEPT !.temporary = FALSE, !.page = IF e.dest.kind = "dest" THEN 0 ELSE @]
  IN  h' = IF e.dest.kind = "null" THEN PushOrReplace(z, Null, TRUE)
           ELSE UpdateInternalState(z, d, e.uid)

Next ==
  \/ /\ \/ \E p \in Page : GoToDestination(p) \/ GoToPage(p)
        \/ PageIndex
        \/ \E p \in HashPages : HashEdit(p)
        \/ Reload \/ Timer
     /\ h'.uid <= MaxUid
  \/ \E p \in Page : \E k \in Place(p) : UpdateViewarea(p, k)
  \/ Back \/ Forward \/ PopState
  \/ \E d \in {-1, 1} : Traverse(d)

Spec == Init /\ [][Next]_h

-----------------------------------------------------------------------------
\* Entries are numbered in their order, whatever was pushed, replaced, traversed,
\* typed into the URL or reloaded in between, until a temporary position replaces an
\* entry that never got a destination with the number of the one it was left for.
Increasing(s) == \A i, j \in DOMAIN s : i < j => s[i].uid < s[j].uid
UidsIncrease == ~h.lost => Increasing(h.stack)

\* Until then back() of the viewer leads to an entry of the viewer, never out of it to
\* the page that was shown before.
BackStays(g) == g.going = -1 /\ g.own => g.at > 1
BackStaysInViewer == ~h.lost => BackStays(h)

\* The internal state is that of the current entry, except for the mark of a
\* temporary position and the page of a destination that was reloaded, and except
\* while the current entry is one without a destination.
IsCurrent(g, e) == /\ g.uid = e.uid /\ g.dest.kind = e.dest.kind /\ g.dest.id = e.dest.id
                   /\ g.dest.place = e.dest.place
InternalIsCurrent == ~Astray(h) => IsCurrent(h, h.stack[h.at])

\* What makes these inductive.  Only the first entry may be without a destination, and it
\* has the number 0 unless that was lost; a position has its page as identity; the internal
\* state knows the page of the current entry or none.
PageIsId(d) == d.kind = "pos" => d.page = d.id
Named(s) == \A i \in DOMAIN s : (s[i].dest.kind = "null" => i = 1 /\ s[i].uid = 0) /\ PageIsId(s[i].dest)
Ordered(s) == Increasing(s) /\ s[1].uid = 0
Sound(g) == /\ g \in State /\ g.at \in DOMAIN g.stack /\ Named(g.stack)
            /\ ~Astray(g) => IsCurrent(g, g.stack[g.at]) /\ g.dest.page \in {0, g.stack[g.at].dest.page}
            /\ ~g.lost => Ordered(g.stack) /\ BackStays(g)
IInv == Sound(h)

\* A jump to a destination can be undone: the entry beneath the new one names the
\* page in view as it was last reported, unless the page of the current destination
\* is not known and too few reports have come since, or the current entry is one
\* without a destination.
JumpIsUndoable ==
  LET under == h'.stack[h'.at - 1].dest IN
  /\ h'.dest.kind = "dest" /\ h'.uid > h.uid /\ h'.jump = 0 /\ h.going = h'.going
  /\ h.pos # 0 /\ (h.dest.page # 0 \/ h.dest.kind = "null" \/ h.updates > Threshold)
  /\ ~Astray(h)
  => under.page = h.pos
=============================================================================
