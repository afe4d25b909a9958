------------------------------ MODULE ViewerParts ------------------------------
(***************************************************************************)
(* Parts of the whitepaper viewer, each with constants of its own: its     *)
(* history, thumbnails, presenting and the dialogs, about which            *)
(* ViewerProofs proves that they do what MCPdf checks.                     *)
(***************************************************************************)
EXTENDS Integers, Sequences, FiniteSets, ViewerState

CONSTANTS
  Off,                                                       \* nothing there
  ThumbPages, ThumbViews, BrokenThumbs, Rotations, ThumbEvents,  \* of PdfThumbs
  HistoryPages, LongPages, CachedPages, HashPages, Threshold, MaxUid,   \* of PdfHistory
  SlidePages,                                                \* of PdfPresentation
  ImageIds, TextDocs, WindowSizes, DialogSize, ImageRects, DialogMargin,  \* of PdfAltText
  PrintPages, PrintJobs, Requests, OpenDialogs               \* of PdfDialogs

\* Something is in view in the sidebar: thumbnails of pages, from top to bottom.
ASSUME ThumbsAssumption ==
  /\ ThumbPages \in Nat /\ ThumbPages >= 1 /\ Rotations \in Nat /\ ThumbEvents \in Nat
  /\ \A v \in ThumbViews : v \in Seq(1 .. ThumbPages) /\ v # <<>>

ASSUME HistoryAssumption ==
  HistoryPages \in Nat /\ HashPages \subseteq 0 .. HistoryPages /\ Threshold \in Nat /\ MaxUid \in Nat

\* A document has a page.
ASSUME SlidesAssumption == SlidePages \in Nat /\ SlidePages >= 1

\* The dialog fits into every window; an image may lie partly outside.
ASSUME AltTextAssumption ==
  /\ 0 \notin ImageIds /\ TextDocs \in Nat
  /\ DialogSize \in [w : Nat, h : Nat] /\ DialogMargin \in Nat
  /\ \A w \in WindowSizes : w.w \in Nat /\ w.h \in Nat /\ w.w >= DialogSize.w /\ w.h >= DialogSize.h
  /\ \A r \in ImageRects : r.x \in Int /\ r.y \in Int /\ r.w \in Nat /\ r.h \in Nat

ASSUME DialogsAssumption == PrintPages \in Nat /\ PrintPages >= 1 /\ PrintJobs \in Nat /\ Requests \in Nat

TH == INSTANCE PdfThumbs WITH t <- st, NPages <- ThumbPages, VisibleViews <- ThumbViews, Broken <- BrokenThumbs,
        MaxRotations <- Rotations, MaxEvents <- ThumbEvents, Missing <- Off
HI == INSTANCE PdfHistory WITH h <- st, NPages <- HistoryPages, Long <- LongPages, Cached <- CachedPages
PR == INSTANCE PdfPresentation WITH v <- st, NPages <- SlidePages
AT == INSTANCE PdfAltText WITH a <- st, Images <- ImageIds, MaxDocs <- TextDocs, Windows <- WindowSizes, Dialog <- DialogSize,
        Rects <- ImageRects, Margin <- DialogMargin
PD == INSTANCE PdfDialogs WITH d <- st, NPages <- PrintPages, MaxJobs <- PrintJobs, MaxAsks <- Requests, MaxClosing <- OpenDialogs
=============================================================================
