------------------------------ MODULE PdfHighlight -----------------------------
(***************************************************************************)
(* TextHighlighter: how the matches of a search are shown in the text      *)
(* layer of a page.  The text of the page is cut into items, one div each; *)
(* Lens has their lengths (an item may be empty), and a character is its   *)
(* place in its item.  The find controller changes its results first and   *)
(* tells the highlighter later.  Matches come from a regular expression,   *)
(* so they do not overlap; only within a ligature, one character, several  *)
(* may begin at the same place.                                            *)
(***************************************************************************)
EXTENDS Integers, Sequences, SequencesExt, FiniteSetsExt

CONSTANTS Lens, MaxMatches

VARIABLE h

LastDiv  == Len(Lens)
Div      == 1 .. LastDiv
Start(d) == FoldLeft(+, 0, SubSeq(Lens, 1, d - 1))   \* iIndex
Total    == Start(LastDiv + 1)
Match    == [idx : 0 .. Total - 1, len : 1 .. Total]
Place    == [div : Div, offset : Nat]

\* The results of a search in the text.
Follows(x, y) == y.idx >= x.idx + x.len \/ (y.idx = x.idx /\ x.len = 1 /\ y.len = 1)
Found         == {ms \in UNION {[1 .. n -> Match] : n \in 0 .. MaxMatches} :
                    /\ \A k \in DOMAIN ms : ms[k].idx + ms[k].len <= Total
                    /\ \A k \in DOMAIN ms \ {1} : Follows(ms[k - 1], ms[k])}

TypeOK ==
  /\ h.layer \in {"none", "rendering", "shown", "hidden"} /\ h.enabled = (h.layer = "shown")
  /\ h.found \in Found /\ h.selected \in 0 .. Len(h.found)   \* 0: on another page
  /\ h.all \in BOOLEAN /\ h.show \in BOOLEAN                 \* highlightAll, highlightMatches
  /\ h.fresh \in BOOLEAN                                     \* the results were announced
  /\ \A k \in DOMAIN h.matches : h.matches[k].begin \in Place /\ h.matches[k].end \in Place
  /\ \A d \in Div : h.divs[d].marked \subseteq 1 .. Lens[d] /\ h.divs[d].middle \in BOOLEAN

-----------------------------------------------------------------------------
WholeText(d) == [k \in 1 .. Lens[d] |-> k]
Plain(d)     == [text |-> WholeText(d), marked |-> {}, middle |-> FALSE]

\* The first div from i on that a place p of the text falls into: a beginning is before the
\* end of its item, an end may be at it.
BeginDiv(i, p) == Min({d \in i .. LastDiv : d = LastDiv \/ p < Start(d + 1)})
EndDiv(i, p)   == Min({d \in i .. LastDiv : d = LastDiv \/ p <= Start(d + 1)})

\* _convertMatches
ConvertMatches(found) ==
  LET Convert(a, x) ==
        LET b == BeginDiv(a.i, x.idx)
            e == EndDiv(b, x.idx + x.len)
        IN  [i |-> e, out |-> Append(a.out, [begin |-> [div |-> b, offset |-> x.idx - Start(b)],
                                             end   |-> [div |-> e, offset |-> x.idx + x.len - Start(e)]])]
  IN  FoldLeft(Convert, [i |-> 1, out |-> << >>], found).out

\* appendTextToDiv; `substring' exchanges its bounds when they are in the wrong order.
AppendTextToDiv(divs, d, from, to, mark) ==
  LET lo  == Min({from, to, Lens[d]})
      hi  == Min({Max({from, to}), Lens[d]})
      add == [k \in 1 .. hi - lo |-> lo + k]
  IN  [divs EXCEPT ![d].text = @ \o add, ![d].marked = IF mark THEN @ \cup Range(add) ELSE @]

BeginText(divs, p, mark) ==
  AppendTextToDiv([divs EXCEPT ![p.div].text = << >>, ![p.div].marked = {}], p.div, 0, p.offset, mark)

\* Up to the end of the div, the `infinity' of the code.
AppendRest(divs, p, mark) == AppendTextToDiv(divs, p.div, p.offset, Lens[p.div], mark)

\* One round of the loop of _renderMatches; ends has the end of the match before, if any.
RenderMatch(a, x) ==
  LET b == x.begin
      e == x.end
      before == IF a.ends = << >> THEN BeginText(a.divs, b, FALSE)
                ELSE IF a.ends[1].div # b.div
                THEN BeginText(AppendRest(a.divs, a.ends[1], FALSE), b, FALSE)
                ELSE AppendTextToDiv(a.divs, b.div, a.ends[1].offset, b.offset, FALSE)
      first  == AppendRest(before, b, TRUE)
      middle == [d \in Div |-> IF b.div < d /\ d < e.div THEN [first[d] EXCEPT !.middle = TRUE]
                               ELSE first[d]]
  IN  IF a.last = <<b>> THEN a
      ELSE [last |-> <<b>>, ends |-> <<e>>,
            divs |-> IF b.div = e.div THEN AppendTextToDiv(before, b.div, b.offset, e.offset, TRUE)
                     ELSE BeginText(middle, e, TRUE)]

\* _renderMatches
RenderMatches(g) ==
  LET shown == IF g.all THEN g.matches
               ELSE IF g.selected = 0 \/ g.matches = << >> THEN << >> ELSE <<g.matches[g.selected]>>
      a     == FoldLeft(RenderMatch, [last |-> << >>, ends |-> << >>, divs |-> g.divs], shown)
  IN  IF a.ends = << >> THEN a.divs ELSE AppendRest(a.divs, a.ends[1], FALSE)

\* Mutant: only the div a match begins in is restored.
ClearMatchesBegin(g) ==
  [d \in Div |-> IF \E k \in DOMAIN g.matches : d = g.matches[k].begin.div THEN Plain(d) ELSE g.divs[d]]

\* The loop of _updateMatches that restores the divs of the old matches.
ClearMatches(g) ==
  [d \in Div |-> IF \E k \in DOMAIN g.matches : g.matches[k].begin.div <= d /\ d <= g.matches[k].end.div
                 THEN Plain(d) ELSE g.divs[d]]

\* _updateMatches
UpdateMatches(g, reset) ==
  LET c == [g EXCEPT !.divs = ClearMatches(g)]
      m == [c EXCEPT !.matches = ConvertMatches(g.found)]
  IN  IF ~ g.enabled /\ ~ reset THEN g
      ELSE IF ~ g.show \/ reset THEN c
      ELSE [m EXCEPT !.divs = RenderMatches(m)]

-----------------------------------------------------------------------------
\* TextHighlighter.enable and disable; the results are those the find controller has now.
Enable(g)  == UpdateMatches([g EXCEPT !.enabled = TRUE, !.fresh = TRUE], FALSE)
Disable(g) == IF g.enabled THEN UpdateMatches([g EXCEPT !.enabled = FALSE], TRUE) ELSE g

Init ==
  h = [layer |-> "none", enabled |-> FALSE, found |-> << >>, selected |-> 0, all |-> FALSE,
       show |-> FALSE, fresh |-> TRUE, matches |-> << >>, divs |-> [d \in Div |-> Plain(d)]]

\* TextLayerBuilder.render without a rendered layer: new divs, and later the text is in them.
Render ==
  /\ h.layer \in {"none", "rendering"}
  /\ h' = [Disable(h) EXCEPT !.layer = "rendering", !.divs = [d \in Div |-> Plain(d)]]

Rendered == h.layer = "rendering" /\ h' = Enable([h EXCEPT !.layer = "shown"])
Hide     == h.layer = "shown" /\ h' = [Disable(h) EXCEPT !.layer = "hidden"]
Show     == h.layer = "hidden" /\ h' = Enable([h EXCEPT !.layer = "shown"])

\* The layer is cancelled with its page view, and gone.
Cancel == h.layer # "none" /\ h' = [Disable(h) EXCEPT !.layer = "none"]

\* The find controller has new results for the page, or another selection or option; several
\* changes before the highlighter reads them are as one.  The selection is read only when not all matches are
\* highlighted, the results only when matches are highlighted at all.
FindChanges ==
  /\ h.fresh
  /\ \E ms \in Found : \E sel \in 0 .. Len(ms), all, show \in BOOLEAN :
       /\ (all => sel = 0) /\ (~ show => ms = << >> /\ ~ all)
       /\ h' = [h EXCEPT !.found = ms, !.selected = sel, !.all = all, !.show = show, !.fresh = FALSE]

\* The event updatetextlayermatches; only an enabled highlighter listens.
UpdateTextLayerMatches ==
  /\ h.enabled /\ ~ h.fresh
  /\ h' = UpdateMatches([h EXCEPT !.fresh = TRUE], FALSE)

Next == Render \/ Rendered \/ Hide \/ Show \/ Cancel \/ FindChanges \/ UpdateTextLayerMatches

-----------------------------------------------------------------------------
\* Whatever was highlighted before, the text layer keeps the text of the page, which the user
\* selects and copies: nothing is lost, doubled or out of order.
TextIntact == \A d \in Div : h.divs[d].text = WholeText(d)

\* The characters that are to be highlighted.
Wanted ==
  IF ~ h.enabled \/ ~ h.show THEN {}
  ELSE UNION {h.found[k].idx + 1 .. h.found[k].idx + h.found[k].len :
                k \in IF h.all THEN DOMAIN h.found ELSE {h.selected} \ {0}}

\* Once the highlighter knows of the results, the characters that are highlighted are those of
\* the matches on show, also where a match crosses items; none when it is disabled.
HighlightsAreMatches ==
  h.fresh \/ ~ h.enabled =>
    UNION {{Start(d) + k : k \in IF h.divs[d].middle THEN 1 .. Lens[d] ELSE h.divs[d].marked} : d \in Div}
      = Wanted

=============================================================================
