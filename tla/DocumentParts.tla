----------------------------- MODULE DocumentParts -----------------------------
(***************************************************************************)
(* Parts of the whitepaper viewer, each with constants of its own: what is *)
(* about the document it shows, its pages, scripts, sidebar and editing    *)
(* modes.  DocumentProofs proves that they do what MCPdf checks.           *)
(***************************************************************************)
EXTENDS Integers, Sequences, FiniteSets, ViewerState

CONSTANTS
  Switches, ToolDocs, VisiblePages, EditablePages,              \* of PdfTools
  OpenedDocs, DocPages,                                         \* of PdfDocument
  ScriptDocs, ScriptPages,                                      \* of PdfScripting
  FileIds, EarlierFile, FileOpens, HistorySize, SidebarPages, DestPages,  \* of PdfSidebar
  TreeOpens, AttachedNames, LayerGroups, RadioGroups, MaxConfigs          \* of PdfTrees

\* PdfDocument is about documents with more pages than the first, which is fetched before them.
ASSUME OpeningAssumption == OpenedDocs \in Nat /\ DocPages \in Nat /\ DocPages >= 2

\* A document has a page.
ASSUME ScriptingAssumption == ScriptDocs \in Nat /\ ScriptPages \in Nat /\ ScriptPages >= 1

\* One file was open in an earlier session; the history has room for one.
ASSUME SidebarAssumption == EarlierFile \in FileIds /\ FileOpens \in Nat /\ HistorySize \in Nat /\ HistorySize >= 1

ASSUME TreesAssumption == TreeOpens \in Nat /\ AttachedNames # {}

TO == INSTANCE PdfTools WITH x <- st, MaxSwitches <- Switches, MaxDocs <- ToolDocs, Visible <- VisiblePages, Editable <- EditablePages
DO == INSTANCE PdfDocument WITH u <- st, MaxDocs <- OpenedDocs, NPages <- DocPages
SC == INSTANCE PdfScripting WITH s <- st, MaxDocs <- ScriptDocs, NPages <- ScriptPages
SB == INSTANCE PdfSidebar WITH b <- st, Files <- FileIds, Earlier <- EarlierFile, MaxOpens <- FileOpens, CacheSize <- HistorySize,
        NPages <- SidebarPages
TR == INSTANCE PdfTrees WITH t <- st, MaxOpens <- TreeOpens, Names <- AttachedNames, Groups <- LayerGroups, Radio <- RadioGroups
=============================================================================
