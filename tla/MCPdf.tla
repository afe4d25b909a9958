--------------------------------- MODULE MCPdf ---------------------------------
(***************************************************************************)
(* The parts of the whitepaper viewer, each in a small instance of its     *)
(* own.  A behaviour is one of one part, chosen in the beginning.  The     *)
(* state of a part is the record st; PdfLayers has variables of its own,   *)
(* which keep the value Off in the other parts.  Most of the instances     *)
(* that something is proved about are in ViewerParts and DocumentParts.    *)
(***************************************************************************)
EXTENDS ViewerParts, DocumentParts

CONSTANTS item1, item2, Empty, LayerDraws

VARIABLES
  rs, n, wrapper, text, annot, draw, editor, annotDiv, textRun, runs, textDone,
  parent, dom, hidden, conts, redraw, postponed

\* Four pages of which the first or the last is visible; the buffer holds three.
RE == INSTANCE PdfRendering WITH s <- st, NPages <- 4, CacheSize <- 1, VisibleViews <- {<<1>>, <<4>>},
        Broken <- {}, Editable <- {}, PreRenderExtra <- FALSE
\* Two visible pages with another between them; the last one cannot be fetched.
RL == INSTANCE PdfRendering WITH s <- st, NPages <- 3, CacheSize <- 1, VisibleViews <- {<<2>>, <<3, 1>>},
        Broken <- {3}, Editable <- {1}, PreRenderExtra <- FALSE
LA == INSTANCE PdfLayers WITH MaxDraws <- LayerDraws
\* Three pages: `item1' is on the second and, twice, on the third, `item2' is nowhere.
FI == INSTANCE PdfFind WITH f <- st, NPages <- 3, Query <- {item1, item2},
        Count <- [q \in {item1, item2} |-> [p \in 0 .. 2 |-> IF q = item2 THEN 0 ELSE p]]

\* Two pages, at most three with the copies, three edits.
PE == INSTANCE PdfPageEdit WITH e <- st, NPages <- 2, MaxPages <- 3, MaxEdits <- 3
\* A page of four items, one of them empty, and up to two matches anywhere in its text.
HL == INSTANCE PdfHighlight WITH h <- st, Lens <- <<2, 0, 1, 1>>, MaxMatches <- 2

\* A window with room for a dialog of two by two, and images inside it and across its edges.
TwoByTwo == [w |-> 2, h |-> 2]
OneWindow == {[w |-> 6, h |-> 5]}
Rectangles == [x : {-1, 0, 1, 4, 5}, y : {-1, 1, 4}, w : {1, 3}, h : {1}]
\* One or two thumbnails are in view.
OneOrTwo == {<<1>>, <<2, 3>>}

layers == <<rs, n, wrapper, text, annot, draw, editor, annotDiv, textRun, runs, textDone,
            parent, dom, hidden, conts, redraw, postponed>>
vars == <<part, st, layers>>

LayersOff ==
  /\ rs = Off /\ n = Off /\ wrapper = Off /\ text = Off /\ annot = Off /\ draw = Off /\ editor = Off
  /\ annotDiv = Off /\ textRun = Off /\ runs = Off /\ textDone = Off /\ parent = Off /\ dom = Off
  /\ hidden = Off /\ conts = Off /\ redraw = Off /\ postponed = Off

Init ==
  \/ part = "LA" /\ LA!Init /\ st = Off
  \/ /\ LayersOff
     /\ \/ part = "RE" /\ RE!Init
        \/ part = "RL" /\ RL!Init
        \/ part = "FI" /\ FI!Init
        \/ part = "HI" /\ HI!Init
        \/ part = "PR" /\ PR!Init
        \/ part = "PD" /\ PD!Init
        \/ part = "DO" /\ DO!Init
        \/ part = "SC" /\ SC!Init
        \/ part = "PE" /\ PE!Init
        \/ part = "SB" /\ SB!Init
        \/ part = "TR" /\ TR!Init
        \/ part = "TH" /\ TH!Init
        \/ part = "TO" /\ TO!Init
        \/ part = "HL" /\ HL!Init
        \/ part = "AT" /\ AT!Init

Next ==
  /\ UNCHANGED part
  /\ \/ part = "LA" /\ LA!Next /\ UNCHANGED st
     \/ /\ UNCHANGED layers
        /\ \/ part = "RE" /\ RE!Next
           \/ part = "RL" /\ RL!Next
           \/ part = "FI" /\ FI!Next
           \/ part = "HI" /\ HI!Next
           \/ part = "PR" /\ PR!Next
           \/ part = "PD" /\ PD!Next
           \/ part = "DO" /\ DO!Next
           \/ part = "SC" /\ SC!Next
           \/ part = "PE" /\ PE!Next
           \/ part = "SB" /\ SB!Next
           \/ part = "TR" /\ TR!Next
           \/ part = "TH" /\ TH!Next
           \/ part = "TO" /\ TO!Next
           \/ part = "HL" /\ HL!Next
           \/ part = "AT" /\ AT!Next

\* Timers fire.
Fires   == \/ part = "RL" /\ RL!ScaleTimer
           \/ part = "FI" /\ FI!Timeout
           \/ part = "PD" /\ (PD!Microtask \/ PD!Timer)
           \/ part = "DO" /\ (DO!Destroyed \/ \E d \in DO!Doc : DO!Saved(d))
           \/ part = "SC" /\ SC!CloseTimer
           \/ part = "TR" /\ \E g \in TR!Gen : TR!WaitEnds(g)
           \/ part = "TH" /\ (TH!Encoded \/ \E large \in BOOLEAN : TH!PageDrawn(large))
           \/ part = "TO" /\ (TO!UpdaterTimer \/ TO!Entered \/ TO!Exited)
CanFire == \/ part = "RL" /\ st.scaleTimeout
           \/ part = "FI" /\ st.timeout /\ FI!Callbacks = {}
           \/ part = "PD" /\ (st.micro # <<>> \/ PD!In({"timer", "wait"}))
           \/ part = "DO" /\ DO!Closes
           \/ part = "SC" /\ st.destroying = "close"
           \/ part = "TR" /\ st.waits # {}
           \/ part = "TH" /\ (st.blobs # << >> \/ st.busy # 0)
           \/ part = "TO" /\ (st.timer # "NONE" \/ st.todo # "null")
\* The worker answers: it delivers pages and texts, and draws.
Answers(i)   == \/ part = "RL" /\ RL!PageLoaded(i)
                \/ part = "FI" /\ i = 1 /\ FI!ExtractText
                \/ part = "PD" /\ i = 1 /\ \E ok \in BOOLEAN : PD!Answer(ok)
                \/ part = "DO" /\ i \in DO!Doc /\ \E ok \in BOOLEAN : DO!Answered(i, ok)
                \/ part = "SC" /\ i = 1 /\ \E ok \in BOOLEAN : SC!Library(ok)
                \/ part = "TH" /\ TH!Loaded(i)
                \/ part = "TO" /\ i = 1 /\ \E m \in TO!Mode : TO!Updated(m)
CanAnswer(i) == \/ part = "RL" /\ i \notin st.loaded /\ (i \notin {3} \/ i \in st.loads)
                \/ part = "FI" /\ i = 1 /\ st.extracting /\ st.texts < 3 /\ FI!Callbacks = {}
                \/ part = "PD" /\ i = 1 /\ PD!In({"draw"})
                \/ part = "DO" /\ i \in DO!Doc /\ DO!Waits(i)
                \/ part = "SC" /\ i = 1 /\ st.scripting # 0 /\ st.library = "loading"
                \/ part = "TH" /\ i \in st.loads
                \/ part = "TO" /\ i = 1 /\ \E m \in TO!Mode : st.updates[m] > 0
Draws(i)     == \/ part = "RL" /\ \E k \in RL!TasksOf(i) : RL!Finish(k)
                \/ part = "FI" /\ i = 1 /\ FI!Matched
                \/ part = "PD" /\ i = 1 /\ \E ok \in BOOLEAN : PD!Picture(ok)
                \/ part = "DO" /\ i \in DO!Doc /\ DO!OnePageRendered(i)
                \/ part = "TH" /\ TH!Finish(i)
                \/ part = "TO" /\ i = 1 /\ TO!PageRendered(i)
CanDraw(i)   == \/ part = "RL" /\ RL!Draws(i)
                \/ part = "FI" /\ i = 1 /\ FI!Callbacks # {}
                \/ part = "PD" /\ i = 1 /\ PD!In({"blob", "load"})
                \/ part = "DO" /\ i \in DO!Doc /\ DO!Draws(i)
                \/ part = "TH" /\ st.task[i] = "running"
                \/ part = "TO" /\ i \in st.ids

\* Weak fairness, with the guard of each action in place of ENABLED.
Step(A) == A /\ UNCHANGED <<part, layers>>

Spec ==
  /\ Init /\ [][Next]_vars
  /\ []<>~CanFire \/ []<><<Step(Fires)>>_vars
  /\ \A i \in 1 .. 3 :
       /\ []<>~CanAnswer(i) \/ []<><<Step(Answers(i))>>_vars
       /\ []<>~CanDraw(i) \/ []<><<Step(Draws(i))>>_vars

-----------------------------------------------------------------------------
TypeOK ==
  /\ (part = "RE" => RE!TypeOK) /\ (part = "RL" => RL!TypeOK)
  /\ (part = "LA" => LA!TypeOK) /\ (part = "FI" => FI!TypeOK)
  /\ (part = "HI" => HI!TypeOK)
  /\ (part = "PR" => PR!TypeOK)
  /\ (part = "PD" => PD!TypeOK)
  /\ (part = "DO" => DO!TypeOK)
  /\ (part = "SC" => SC!TypeOK)
  /\ (part = "PE" => PE!TypeOK)
  /\ (part = "SB" => SB!TypeOK)
  /\ (part = "TR" => TR!TypeOK)
  /\ (part = "TH" => TH!TypeOK)
  /\ (part = "TO" => TO!TypeOK)
  /\ (part = "HL" => HL!TypeOK)
  /\ (part = "AT" => AT!TypeOK)

\* Drawing survives every reset, eviction, postponed zoom and late continuation: the
\* rendering state of a page tells what its render task does, only buffered pages have a
\* canvas, a page that counts as finished shows a complete one, and the viewer is idle
\* only when all visible pages are finished (PDFRenderingQueue, PDFPageView).
PagesAreDrawn ==
  /\ part = "RE" => /\ RE!StateMatchesTask
                    /\ RE!CanvasesBuffered
                    /\ RE!FinishedIsShown
                    /\ RE!IdleIsIdle
  /\ part = "RL" => /\ RL!StateMatchesTask
                    /\ RL!CanvasesBuffered
                    /\ RL!FinishedIsShown
                    /\ RL!IdleIsIdle

\* When every page has been matched the results are those of the query, and the selected
\* match exists, although callbacks of earlier queries still come (PDFFindController);
\* and in the text layer exactly the matches on show are highlighted while the text
\* stays that of the page (TextHighlighter).
SearchShowsMatches ==
  /\ part = "FI" => FI!ResultsOfQuery /\ FI!SelectedExists
  /\ part = "HL" => HL!TextIntact /\ HL!HighlightsAreMatches

\* Through traversals that are reported late, the internal state is that of the current
\* entry unless that has no destination; and until a temporary position replaces such an
\* entry, the browser's entries are numbered in their order and back() of the viewer
\* never leads out of it (PDFHistory).
HistoryLeadsBack ==
  /\ part = "HI" => HI!UidsIncrease /\ HI!BackStaysInViewer /\ HI!InternalIsCurrent

\* After presenting and editing, in any order and inside each other, the user finds the
\* scroll and spread modes, the cursor tool and the buttons as chosen, no listener or
\* drag is left, pages in the document are those of the modes, and turning pages skips
\* none (PDFPresentationMode, PDFCursorTools).
ModesComeBack ==
  /\ part = "PR" => /\ PR!DomIsLayout
                    /\ PR!ModesRestored
                    /\ PR!ListenersOnlyPresenting
                    /\ PR!TurnSkipsNothing
  /\ part = "TO" => /\ TO!ToolComesBack
                    /\ TO!ButtonsShowTool
                    /\ TO!HandOnlyWhenFree
                    /\ TO!NoPanWithoutHand
                    /\ TO!ModesAgree

\* What interrupted draws, cancelled jobs and closed dialogs still deliver does no harm:
\* no continuation of an earlier draw, which goes on after a reset, leaves a layer in the
\* page that the view does not have, and after a draw that ended undisturbed all layers
\* are there and are shown (PDFPageView); the print container holds the first pages of
\* the active job, service, application and dialog agree on it, at most one picture
\* stays behind; a document that waits for a password has its prompt; at most one dialog
\* is open (OverlayManager); and the alt text dialog stays beside its image, gives the
\* keys back and mixes up no texts (AltTextManager).
CancelledWorkIsHarmless ==
  /\ part = "PD" => /\ PD!ContainerIsJob
                    /\ PD!JobsAgree
                    /\ PD!ProgressShown
                    /\ PD!PicturesRevoked
                    /\ PD!OneDialog
                    /\ PD!RequestIsPrompted
  /\ part = "AT" => AT!TextOfImage /\ AT!KeysComeBack /\ AT!BesideTheImage
  /\ part = "LA" => LA!NoOrphanLayer /\ LA!LayersComplete

\* Late answers of one document never become those of the next: pages, title, labels,
\* searcher, links and history are of the document shown, pagesPromise tells the truth
\* unless documents overlap (PDFViewerApplication), every document gets a sandbox made
\* from its own fields, and without a sandbox nobody listens to one or waits for one
\* (PDFScriptingManager).
DocumentIsItsOwn ==
  /\ part = "DO" => /\ DO!PagesOfDocument
                    /\ DO!SameDocument
                    /\ DO!DetailsAreOwn
                    /\ DO!PagesPromiseHonest
  /\ part = "SC" => /\ SC!SandboxOfDocument
                    /\ SC!NeverRefused
                    /\ SC!NoPrintWaits
                    /\ SC!QuietWithout

\* After any sequence of moves, cuts, pastes, deletions and undos, up to an undo in which
\* the find controller throws, mapper, thumbnails and page views are of the same pages in
\* the same order, they keep what an undo needs, and what is saved is what is shown; the
\* texts follow until a cut is undone after a search. Of the views in use only page views
\* that were cut and pasted may be destroyed (PagesMapper, PDFThumbnailViewer, PDFViewer).
EditedPagesAgree ==
  /\ part = "PE" => /\ PE!SamePages
                    /\ PE!TextOfPage
                    /\ PE!ShownIsAlive
                    /\ PE!UndoIsReady
                    /\ PE!SavedIsShown

\* Whatever the order in which outline, attachments, layers, pages and initial view
\* arrive: the view of the sidebar is one that is enabled and is the one all others were
\* told and the history keeps; outline items, files and layers are those of the open
\* document and of what is drawn; the history of views stays within its size
\* (ViewsManager, ViewHistory).  A finished thumbnail shows its page as it is rotated now,
\* once all canvases are encoded, whichever came first; it has no drawing that outlives a
\* reset; and the viewer is idle only when all thumbnails in view are finished
\* (PDFThumbnailView).
SidebarOfDocument ==
  /\ part = "SB" => /\ SB!ActiveIsEnabled
                    /\ SB!ToldIsVisible
                    /\ SB!StoredIsVisible
                    /\ SB!HistoryIsBounded
                    /\ SB!CurrentWhenLoaded
                    /\ SB!ItemOfOutline
  /\ part = "TR" => TR!FilesOfDocument /\ TR!ToldOfFiles /\ TR!LayersAsDrawn
  /\ part = "TH" => TH!ThumbIsUpright /\ TH!IdleIsFinished /\ TH!DrawingsAreKnown

\* What no step does: jump without an entry that leads back to the page in view; turn a
\* page after a pinch; print less than the whole document; fail a request for a password
\* whose prompt was not dismissed; close a changed document unsaved; tell a sandbox of
\* the closing of a page it has not heard of.
EventsInOrder ==
  [][/\ part = "HI" => HI!JumpIsUndoable
     /\ part = "PR" => PR!PinchIsNoSwipe
     /\ part = "PD" => PD!PrintedWhole /\ PD!FailsWhenDismissed
     /\ part = "DO" => DO!ChangesSaved
     /\ part = "SC" => SC!ClosedAfterOpened]_vars

\* Once the user only reads, the visible pages and the thumbnails in view are drawn and
\* stay so, though they share one queue and a page cannot be fetched.
VisibleGetsDrawn ==
  [](part \in {"RL", "TH"} /\ st.quiet => <>[](\/ part = "RL" /\ RL!Drawn
                                               \/ part = "TH" /\ TH!AllDrawn))

\* What was begun ends: a search, a print job (printed, failed or cancelled) and a change
\* of the editing mode; the document opened last is shown with all that belongs to it, or
\* an error; the sandbox of one that was closed goes, whatever its scripts do; and it is
\* announced whether there are attachments (waitOnEventOrTimeout).
WorkEnds ==
  (\/ part \in {"FI", "TO"} /\ st.quiet
   \/ part = "PD" /\ st.activeService # 0
   \/ part = "DO" /\ st.pdfLoadingTask # 0
   \/ part = "SC" /\ st.viewer = 0
   \/ part = "TR" /\ st.rendered)
  ~> (\/ part = "FI" /\ st.shown # "PENDING"
      \/ part = "PD" /\ st.activeService = 0
      \/ part = "TO" /\ ~ TO!Switching
      \/ part = "DO" /\ (st.failed \/ DO!Complete)
      \/ part = "SC" /\ (st.viewer # 0 \/ st.destroy # "pending")
      \/ part = "TR" /\ (st.told # "unknown" \/ ~ st.rendered))
=============================================================================
