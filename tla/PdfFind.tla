-------------------------------- MODULE PdfFind --------------------------------
(***************************************************************************)
(* PDFFindController for one document: the text of the pages is extracted  *)
(* one page after the other, a search waits for the page it needs (resume) *)
(* and goes on when that page has been matched.  Page indices start at 0,  *)
(* as in the code, where a truth test of an index fails for page 0.  The   *)
(* callbacks of texts that are already there run before the next event.   *)
(***************************************************************************)
EXTENDS Integers, FiniteSets, FiniteSetsExt, Functions

CONSTANTS NPages,    \* pages of the document
          Query,     \* search terms
          Empty,     \* the empty search field
          Count      \* how often a term occurs on a page

Page == 0 .. NPages - 1
None == -1

VARIABLE f    \* the controller

Type     == {"", "again", "highlightallchange", "casesensitivitychange"}
FindState == {"none", "FOUND", "NOT_FOUND", "WRAPPED", "PENDING"}

TypeOK ==
  /\ f.query \in Query \cup {Empty} /\ f.started \in BOOLEAN   \* #state
  /\ f.prev \in BOOLEAN                                        \* findPrevious
  /\ f.dirty \in BOOLEAN /\ f.timeout \in BOOLEAN
  /\ f.extracting \in BOOLEAN /\ f.texts \in 0 .. NPages       \* pages extracted
  /\ f.pending \subseteq Page                                  \* _pendingFindMatches
  /\ f.matches \in [Page -> Nat \cup {None}] /\ f.total \in Nat
  /\ f.selected \in [page : Page \cup {None}, idx : Nat \cup {None}]
  /\ f.offset \in [page : Page, idx : Nat \cup {None}, wrapped : BOOLEAN]
  /\ f.resume \in Page \cup {None} /\ f.toSearch \in Int
  /\ f.shown \in FindState /\ f.page \in Page                  \* find bar, current page
  /\ f.quiet \in BOOLEAN                                       \* the user has stopped asking

Init ==
  f = [query |-> Empty, started |-> FALSE, prev |-> FALSE, dirty |-> FALSE, timeout |-> FALSE,
       extracting |-> FALSE, texts |-> 0, pending |-> {}, matches |-> [p \in Page |-> None], total |-> 0,
       selected |-> [page |-> None, idx |-> None], offset |-> [page |-> 0, idx |-> None, wrapped |-> FALSE],
       resume |-> None, toSearch |-> 0, shown |-> "none", page |-> 0, quiet |-> FALSE]

-----------------------------------------------------------------------------
\* #updateMatch: the offset becomes the selected match and its page the current
\* one; the find bar shows the result.
UpdateMatch(t, found) ==
  LET state == IF ~found THEN "NOT_FOUND" ELSE IF t.offset.wrapped THEN "WRAPPED" ELSE "FOUND"
      sel   == IF found THEN [page |-> t.offset.page, idx |-> t.offset.idx] ELSE t.selected
  IN  [t EXCEPT !.offset.wrapped = FALSE, !.selected = sel, !.shown = state,
                !.page = IF sel.page # None THEN sel.page ELSE @]

\* Mutant: the search wraps one page late.
AdvanceOffsetPageLate(t) ==
  LET next == IF t.prev THEN t.offset.page - 1 ELSE t.offset.page + 1
      wrap == next \notin 0 .. NPages
      page == IF wrap THEN (IF t.prev THEN NPages - 1 ELSE 0) ELSE next
  IN  [t EXCEPT !.offset = [page |-> page, idx |-> None, wrapped |-> @.wrapped \/ wrap], !.toSearch = @ - 1]

\* #advanceOffsetPage
AdvanceOffsetPage(t) ==
  LET next == IF t.prev THEN t.offset.page - 1 ELSE t.offset.page + 1
      wrap == next \notin Page
      page == IF wrap THEN (IF t.prev THEN NPages - 1 ELSE 0) ELSE next
  IN  [t EXCEPT !.offset = [page |-> page, idx |-> None, wrapped |-> @.wrapped \/ wrap], !.toSearch = @ - 1]

\* The end of a search without a match: every page has been looked at.
SearchedAll(t) == t.offset.wrapped /\ t.toSearch < 0

\* #nextPageMatch and #matchesReady: from page to page until there is a match, a
\* page that has not been matched yet, or nothing left.
NextPageMatch(t) ==
  LET past[k \in 0 .. NPages + 1] == IF k = 0 THEN t ELSE AdvanceOffsetPage(past[k - 1])
      count(u) == IF u.offset.page \in Page THEN u.matches[u.offset.page] ELSE None
      over(k)  == k > 0 /\ SearchedAll(past[k])
      stop     == Min({k \in 0 .. NPages + 1 : count(past[k]) # 0 \/ over(k)})
      u        == past[stop]
      n        == count(u)
  IN  CASE over(stop) -> UpdateMatch(u, FALSE)
        [] ~ over(stop) /\ n = None -> [u EXCEPT !.resume = u.offset.page]
        [] OTHER -> UpdateMatch([u EXCEPT !.offset.idx = IF u.prev THEN n - 1 ELSE 0], TRUE)

\* The results of the query before are dropped and every page is matched anew; a
\* page whose callback is still registered is not registered again.
ForgetResults(t) ==
  [t EXCEPT !.dirty = FALSE, !.selected = [page |-> None, idx |-> None],
            !.offset = [page |-> t.page, idx |-> None, wrapped |-> FALSE],
            !.resume = None, !.matches = [p \in Page |-> None], !.total = 0, !.pending = Page]

\* #nextMatch.  `if (this._resumePageIdx) return' lets page 0 pass.
NextMatch(s) ==
  LET t == IF s.dirty THEN ForgetResults(s) ELSE s
      u == [t EXCEPT !.toSearch = NPages]
      n == t.matches[t.offset.page]
      within == IF t.prev THEN t.offset.idx > 0 ELSE t.offset.idx + 1 < n
  IN  CASE t.query = Empty -> [t EXCEPT !.shown = "FOUND"]
        [] t.query # Empty /\ t.resume > 0 -> t
        [] OTHER ->
             IF t.offset.idx = None THEN NextPageMatch(u)
             ELSE IF within
             THEN UpdateMatch([u EXCEPT !.offset.idx = IF t.prev THEN @ - 1 ELSE @ + 1], TRUE)
             ELSE NextPageMatch(AdvanceOffsetPage(u))

\* Mutant: the page's matches are found before the search that waits is asked.
CalculateMatchForgetsResume(t, p) ==
  IF t.query = Empty THEN t
  ELSE LET n == Count[t.query][p]
       IN  [t EXCEPT !.matches[p] = n, !.total = @ + n]

\* #calculateMatch: a search that waits for this page goes on.
CalculateMatch(t, p) ==
  IF t.query = Empty THEN t
  ELSE LET n == Count[t.query][p]
           u == [t EXCEPT !.matches[p] = n]
           v == IF t.resume = p THEN NextPageMatch([u EXCEPT !.resume = None]) ELSE u
       IN  [v EXCEPT !.total = @ + n]

-----------------------------------------------------------------------------
\* #shouldDirtyMatch.  farAway: the selected match is on a page that is neither the
\* current one nor visible.
ShouldDirtyMatch(q, type, farAway) ==
  \/ ~f.started
  \/ q # f.query
  \/ type = "again" /\ farAway
  \/ type \notin {"again", "highlightallchange"}

\* #onFind: the find bar or a keyboard shortcut asks for a search.  Typing waits
\* for more (#delay), everything else searches at once; highlightAll searches only
\* if that cuts short the wait.
Find(q, type, prev, farAway) ==
  /\ type = "" \/ ~f.started \/ q = f.query
  /\ farAway => f.selected.page \notin {None, f.page}
  /\ LET t == [f EXCEPT !.query = q, !.started = TRUE, !.prev = prev,
                        !.dirty = @ \/ ShouldDirtyMatch(q, type, farAway),
                        !.shown = IF type = "highlightallchange" THEN @ ELSE "PENDING",
                        !.extracting = TRUE, !.timeout = (type = "")]
     IN  f' = IF type = "" \/ (type = "highlightallchange" /\ ~t.dirty /\ ~f.timeout)
              THEN t ELSE NextMatch(t)

\* The user stops typing.
Timeout ==
  /\ f.timeout
  /\ f' = [NextMatch(f) EXCEPT !.timeout = FALSE]

\* #onFindBarClose: a search that waits for page 0 is not called off.
FindBarClose ==
  /\ f.started
  /\ f' = [f EXCEPT !.timeout = FALSE, !.shown = "FOUND",
                    !.resume = IF @ > 0 THEN None ELSE @,
                    !.dirty = @ \/ f.resume > 0]

\* #extractText: the text of the next page is there.
ExtractText ==
  /\ f.extracting /\ f.texts < NPages
  /\ f' = [f EXCEPT !.texts = @ + 1]

\* The callbacks of texts that are there, in the order of the pages.
Callbacks == {p \in f.pending : p < f.texts}

Matched ==
  LET p == Min(Callbacks) IN
  /\ Callbacks # {}
  /\ f' = CalculateMatch([f EXCEPT !.pending = @ \ {p}], p)

\* The user goes to another page, or stops and waits.
SetPage(p) == p # f.page /\ f' = [f EXCEPT !.page = p]

Wait == f' = [f EXCEPT !.quiet = TRUE]

Next ==
  \/ Matched
  \/ Callbacks = {} /\ (Timeout \/ ExtractText)
  \/ /\ Callbacks = {} /\ ~f.quiet
     /\ \/ \E q \in Query \cup {Empty}, type \in Type, prev, far \in BOOLEAN : Find(q, type, prev, far)
        \/ FindBarClose \/ Wait
        \/ \E p \in Page : SetPage(p)

Spec == Init /\ [][Next]_f

-----------------------------------------------------------------------------
\* When everything has been extracted and matched, the results are those of the
\* query in the find bar, whatever was typed while the pages came in: one entry
\* for every page, and a total that counts no page twice and none too few.
ResultsOfQuery ==
  f.started /\ f.query # Empty /\ ~f.dirty /\ f.pending = {} =>
    /\ \A p \in Page : f.matches[p] = Count[f.query][p]
    /\ f.total = MapThenSumSet(LAMBDA p : Count[f.query][p], Page)

\* The match that is marked and scrolled to exists in the results.
SelectedExists == f.selected.page # None => f.selected.idx < f.matches[f.selected.page]
=============================================================================
