------------------------------ MODULE ViewerProofs ------------------------------
(***************************************************************************)
(* What is proved about single parts of the whitepaper viewer.  For each   *)
(* part: the first state has the inductive invariant IInv of its module,   *)
(* every step keeps it (and does nothing an action property forbids), and  *)
(* the invariant gives the properties that MCPdf checks.  PdfProofs puts   *)
(* the parts together.                                                     *)
(*                                                                         *)
(* A state is a record whose fields are known from Start; an operation is  *)
(* described by what it leaves alone and by what it sets, in a predicate   *)
(* of its own, so that the provers never see the records as a whole.       *)
(***************************************************************************)
EXTENDS ViewerParts, SequenceTheorems, FiniteSetTheorems, WellFoundedInduction, TLAPS

-----------------------------------------------------------------------------
(* PDFThumbnailView and PDFThumbnailViewer: the thumbnails and their images. *)

(* A nonempty set of numbers has a smallest one. *)
LEMMA SmallestOf ==
  ASSUME NEW S, S \subseteq Nat, S # {} PROVE \E x \in S : \A y \in S : x <= y
<1>1. PICK R : R = {ss \in Nat \X Nat : ss[1] < ss[2]}
  OBVIOUS
<1>2. IsWellFoundedOn(R, Nat)
  BY <1>1, NatLessThanWellFounded DEF OpToRel
<1>3. PICK x \in S : \A y \in S : ~(<<y, x>> \in R)
  BY <1>2, WFMin, Zenon
<1>4. ASSUME NEW y \in S PROVE x <= y
  <2>1. x \in Nat /\ y \in Nat /\ <<y, x>> \notin R
    BY <1>3
  <2>2. <<y, x>> \in Nat \X Nat
    BY <2>1
  <2>3. ~(y < x)
    BY <1>1, <2>1, <2>2
  <2> QED BY <2>1, <2>3
<1> QED BY <1>4

(* The fields of the state of the thumbnails. *)
ThumbFields == {"rs", "task", "image", "loaded", "loads", "blobs", "rot", "visible", "enabled", "highest", "busy",
                "canvases", "idle", "events", "kick", "quiet"}

(* A canvas that is being encoded. *)
Blob == [page : TH!Page, rot : Nat, drawn : BOOLEAN]

(* The shape of a state, spelled out. *)
LEMMA ThumbShape ==
  ASSUME NEW u
  PROVE  TH!Shape(u) <=>
           /\ DOMAIN u = ThumbFields /\ u.rs \in [TH!Page -> {"INITIAL", "RUNNING", "PAUSED", "FINISHED"}]
           /\ u.task \in [TH!Page -> {"none", "running", "held"}] /\ DOMAIN u.image = TH!Page
           /\ u.loaded \subseteq TH!Page /\ u.loads \subseteq TH!Page /\ u.canvases \subseteq TH!Page
           /\ u.busy \in TH!Page \cup {0} /\ u.visible \in ThumbViews
           /\ u.blobs \in Seq(Blob) /\ u.rot \in Nat
<1>1. DOMAIN TH!Start(u.visible) = ThumbFields
  BY DEF TH!Start, ThumbFields
<1> QED BY <1>1 DEF TH!Shape, Blob

(* reset of the thumbnails of some pages makes those sound, whatever they were. *)
LEMMA ThumbReset ==
  ASSUME NEW u, TH!Shape(u), NEW P \in SUBSET TH!Page, \A p \in TH!Page \ P : TH!ThumbSound(u, p)
  PROVE  /\ TH!ThumbsSound(TH!Reset(u, P))
         /\ TH!Reset(u, P).idle = u.idle /\ TH!Reset(u, P).busy = u.busy /\ TH!Reset(u, P).enabled = u.enabled
         /\ TH!Reset(u, P).visible = u.visible /\ TH!Reset(u, P).loads = u.loads /\ TH!Reset(u, P).loaded = u.loaded
         /\ \A p \in TH!Page : TH!Reset(u, P).rs[p] = IF p \in P THEN "INITIAL" ELSE u.rs[p]
         /\ \A p \in TH!Page : TH!Reset(u, P).task[p] = IF p \in P THEN "none" ELSE u.task[p]
<1> DEFINE w == TH!Reset(u, P)
<1>1. /\ DOMAIN u = ThumbFields /\ u.rs \in [TH!Page -> {"INITIAL", "RUNNING", "PAUSED", "FINISHED"}]
      /\ u.task \in [TH!Page -> {"none", "running", "held"}]
  BY ThumbShape
<1>2. /\ DOMAIN w = ThumbFields
      /\ w.rs = [p \in TH!Page |-> IF p \in P THEN "INITIAL" ELSE u.rs[p]]
      /\ w.task = [p \in TH!Page |-> IF p \in P THEN "none" ELSE u.task[p]]
      /\ w.image = [p \in TH!Page |-> IF p \in P THEN Off ELSE u.image[p]]
  BY <1>1 DEF TH!Reset, TH!CancelRendering, ThumbFields
<1>3. /\ w.loaded = u.loaded /\ w.loads = u.loads /\ w.blobs = u.blobs /\ w.rot = u.rot /\ w.visible = u.visible
      /\ w.enabled = u.enabled /\ w.busy = u.busy /\ w.canvases = u.canvases /\ w.idle = u.idle
  BY <1>1 DEF TH!Reset, TH!CancelRendering, ThumbFields
<1> HIDE DEF w
<1>4. TH!Shape(w)
  BY <1>1, <1>2, <1>3, ThumbShape
<1>5. ASSUME NEW p \in TH!Page PROVE TH!ThumbSound(w, p)
  <2>1. CASE p \in P
    BY <2>1, <1>2 DEF TH!ThumbSound
  <2>2. CASE p \notin P
    <3>1. TH!ThumbSound(u, p) /\ w.rs[p] = u.rs[p] /\ w.task[p] = u.task[p] /\ w.image[p] = u.image[p]
      BY <2>2, <1>2
    <3> QED BY <3>1, <1>3 DEF TH!ThumbSound, TH!Shows
  <2> QED BY <2>1, <2>2
<1>6. TH!ThumbsSound(w)
  BY <1>4, <1>5 DEF TH!ThumbsSound
<1> QED BY <1>2, <1>3, <1>6 DEF w

(* A change of fields that no thumbnail is about. *)
LEMMA ThumbSame ==
  ASSUME NEW u, NEW w, TH!ThumbsSound(u), TH!Shape(w), w.rs = u.rs, w.task = u.task, w.image = u.image,
         w.loaded = u.loaded, w.loads \subseteq u.loads, w.blobs = u.blobs, w.rot = u.rot
  PROVE  TH!ThumbsSound(w)
BY DEF TH!ThumbsSound, TH!ThumbSound, TH!Shows

(* setPdfPage for some pages. *)
LEMMA ThumbPage ==
  ASSUME NEW u, TH!ThumbsSound(u), NEW P \in SUBSET TH!Page
  PROVE  LET w == TH!SetPdfPage(u, P)
         IN  /\ TH!ThumbsSound(w) /\ w.idle = u.idle /\ w.busy = u.busy /\ w.enabled = u.enabled
             /\ w.visible = u.visible /\ w.loads = u.loads /\ w.loaded = u.loaded \cup P
             /\ \A p \in TH!Page : w.rs[p] = IF p \in P THEN "INITIAL" ELSE u.rs[p]
             /\ \A p \in TH!Page : w.task[p] = IF p \in P THEN "none" ELSE u.task[p]
<1> DEFINE v == [u EXCEPT !.loaded = @ \cup P]
<1>1. TH!Shape(u) /\ DOMAIN u = ThumbFields
  BY ThumbShape DEF TH!ThumbsSound
<1>2. /\ DOMAIN v = ThumbFields /\ v.loaded = u.loaded \cup P
      /\ v.rs = u.rs /\ v.task = u.task /\ v.image = u.image /\ v.loads = u.loads /\ v.blobs = u.blobs
      /\ v.rot = u.rot /\ v.visible = u.visible /\ v.enabled = u.enabled /\ v.busy = u.busy
      /\ v.canvases = u.canvases /\ v.idle = u.idle
  BY <1>1 DEF ThumbFields
<1> HIDE DEF v
<1>3. TH!Shape(v)
  BY <1>1, <1>2, ThumbShape
<1>4. ASSUME NEW p \in TH!Page \ P PROVE TH!ThumbSound(v, p)
  <2>1. TH!ThumbSound(u, p) /\ (p \in v.loaded <=> p \in u.loaded)
    BY <1>2, <1>4 DEF TH!ThumbsSound
  <2> QED BY <2>1, <1>2 DEF TH!ThumbSound, TH!Shows
<1>5. TH!SetPdfPage(u, P) = TH!Reset(v, P)
  BY DEF TH!SetPdfPage, v
<1> QED BY <1>2, <1>3, <1>4, <1>5, ThumbReset

(* Canvases become images, in order: of the pages that have their page and draw no more. *)
LEMMA ThumbConvert ==
  ASSUME NEW u, TH!Shape(u), NEW order \in Seq(TH!Page), NEW drawn \in BOOLEAN,
         \A p \in TH!Page \ TH!Range(order) : TH!ThumbSound(u, p),
         \A p \in TH!Range(order) : p \in u.loaded /\ u.task[p] = "none"
  PROVE  LET w == TH!ConvertCanvasToImage(u, order, drawn)
         IN  /\ TH!ThumbsSound(w) /\ w.idle = u.idle /\ w.busy = u.busy /\ w.enabled = u.enabled
             /\ w.visible = u.visible
             /\ \A p \in TH!Page : w.rs[p] = IF p \in TH!Range(order) THEN "FINISHED" ELSE u.rs[p]
<1> DEFINE w == TH!ConvertCanvasToImage(u, order, drawn)
           new == [i \in DOMAIN order |-> [page |-> order[i], rot |-> u.rot, drawn |-> drawn]]
<1>1. /\ DOMAIN u = ThumbFields /\ u.blobs \in Seq(Blob) /\ u.rot \in Nat
      /\ u.rs \in [TH!Page -> {"INITIAL", "RUNNING", "PAUSED", "FINISHED"}]
  BY ThumbShape
<1>2. /\ DOMAIN w = ThumbFields /\ w.blobs = u.blobs \o new
      /\ w.rs = [p \in TH!Page |-> IF p \in TH!Range(order) THEN "FINISHED" ELSE u.rs[p]]
      /\ w.task = u.task /\ w.image = u.image /\ w.loaded = u.loaded /\ w.loads = u.loads
      /\ w.rot = u.rot /\ w.visible = u.visible /\ w.enabled = u.enabled /\ w.busy = u.busy
      /\ w.canvases = u.canvases /\ w.idle = u.idle
  BY <1>1 DEF TH!ConvertCanvasToImage, ThumbFields
<1> HIDE DEF w
<1>3. new \in Seq(Blob) /\ Len(new) = Len(order) /\ DOMAIN order = 1 .. Len(order) /\ Len(order) \in Nat
  <2>1. DOMAIN order = 1 .. Len(order) /\ Len(order) \in Nat
    OBVIOUS
  <2>2. \A i \in 1 .. Len(order) : order[i] \in TH!Page
    OBVIOUS
  <2>3. new \in [1 .. Len(order) -> Blob]
    BY <2>1, <2>2, <1>1 DEF Blob
  <2> QED BY <2>1, <2>3
<1>4. \A i \in DOMAIN order : new[i].page = order[i] /\ new[i].rot = u.rot
  OBVIOUS
<1> HIDE DEF new
<1>5. /\ w.blobs \in Seq(Blob) /\ Len(w.blobs) = Len(u.blobs) + Len(order) /\ Len(u.blobs) \in Nat
      /\ \A i \in 1 .. Len(u.blobs) : w.blobs[i] = u.blobs[i]
      /\ \A i \in 1 .. Len(order) : w.blobs[Len(u.blobs) + i] = new[i]
  <2>1. w.blobs \in Seq(Blob) /\ Len(w.blobs) = Len(u.blobs) + Len(order) /\ Len(u.blobs) \in Nat
    <3>1. Len(u.blobs) \in Nat
      BY <1>1
    <3>2. u.blobs \o new \in Seq(Blob) /\ Len(u.blobs \o new) = Len(u.blobs) + Len(new)
      BY <1>1, <1>3, ConcatProperties
    <3> QED BY <3>1, <3>2, <1>2, <1>3
  <2>2. \A i \in 1 .. Len(u.blobs) + Len(new) : (u.blobs \o new)[i] = IF i <= Len(u.blobs) THEN u.blobs[i] ELSE new[i - Len(u.blobs)]
    BY <1>1, <1>3, ConcatProperties
  <2>3. \A i \in 1 .. Len(u.blobs) : w.blobs[i] = u.blobs[i]
    BY <2>1, <2>2, <1>2, <1>3
  <2>4. ASSUME NEW i \in 1 .. Len(order) PROVE w.blobs[Len(u.blobs) + i] = new[i]
    <3>1. Len(u.blobs) + i \in 1 .. Len(u.blobs) + Len(new) /\ ~(Len(u.blobs) + i <= Len(u.blobs)) /\ (Len(u.blobs) + i) - Len(u.blobs) = i
      BY <2>1, <1>3
    <3> QED BY <3>1, <2>2, <1>2
  <2> QED BY <2>1, <2>3, <2>4
<1>6. TH!Shape(w)
  <2>1. w.rs \in [TH!Page -> {"INITIAL", "RUNNING", "PAUSED", "FINISHED"}]
    BY <1>1, <1>2
  <2>2. /\ u.task \in [TH!Page -> {"none", "running", "held"}] /\ DOMAIN u.image = TH!Page
        /\ u.loaded \subseteq TH!Page /\ u.loads \subseteq TH!Page /\ u.canvases \subseteq TH!Page
        /\ u.busy \in TH!Page \cup {0} /\ u.visible \in ThumbViews
    BY ThumbShape
  <2>3. w.blobs \in Seq(Blob)
    BY <1>5
  <2>4. /\ w.task \in [TH!Page -> {"none", "running", "held"}] /\ DOMAIN w.image = TH!Page
        /\ w.loaded \subseteq TH!Page /\ w.loads \subseteq TH!Page /\ w.canvases \subseteq TH!Page
        /\ w.busy \in TH!Page \cup {0} /\ w.visible \in ThumbViews /\ w.rot \in Nat /\ DOMAIN w = ThumbFields
    BY <2>2, <1>1, <1>2
  <2> QED BY <2>1, <2>3, <2>4, ThumbShape
<1>7. DOMAIN w.blobs = 1 .. Len(u.blobs) + Len(order) /\ DOMAIN u.blobs = 1 .. Len(u.blobs)
  BY <1>1, <1>5
<1>8. \A j \in DOMAIN w.blobs : \/ j \in DOMAIN u.blobs /\ w.blobs[j] = u.blobs[j]
                                \/ /\ j > Len(u.blobs) /\ j - Len(u.blobs) \in DOMAIN order
                                   /\ w.blobs[j].page = order[j - Len(u.blobs)] /\ w.blobs[j].rot = u.rot
  <2> SUFFICES ASSUME NEW j \in DOMAIN w.blobs, j \notin DOMAIN u.blobs
               PROVE  /\ j > Len(u.blobs) /\ j - Len(u.blobs) \in DOMAIN order
                      /\ w.blobs[j].page = order[j - Len(u.blobs)] /\ w.blobs[j].rot = u.rot
    BY <1>5, <1>7
  <2>1. j - Len(u.blobs) \in 1 .. Len(order) /\ j = Len(u.blobs) + (j - Len(u.blobs))
    BY <1>3, <1>5, <1>7
  <2>2. PICK i \in 1 .. Len(order) : j = Len(u.blobs) + i
    BY <2>1
  <2>3. j - Len(u.blobs) = i /\ j > Len(u.blobs)
    BY <2>2, <1>5
  <2> QED BY <2>2, <2>3, <1>3, <1>4, <1>5
<1>9. ASSUME NEW p \in TH!Page, p \in TH!Range(order) PROVE TH!ThumbSound(w, p)
  <2>1. PICK i \in DOMAIN order : order[i] = p
    BY <1>9 DEF TH!Range
  <2>2. Len(u.blobs) + i \in DOMAIN w.blobs /\ w.blobs[Len(u.blobs) + i].page = p
    <3>1. i \in 1 .. Len(order) /\ new[i].page = p
      BY <2>1, <1>3, <1>4
    <3>2. w.blobs[Len(u.blobs) + i] = new[i]
      BY <3>1, <1>5
    <3>3. Len(u.blobs) + i \in 1 .. Len(u.blobs) + Len(order)
      BY <3>1, <1>3, <1>5
    <3> QED BY <3>1, <3>2, <3>3, <1>7
  <2>3. ASSUME NEW j \in DOMAIN w.blobs, j >= Len(u.blobs) + i
        PROVE  w.blobs[j].rot = u.rot
    <3>1. i \in Nat /\ i >= 1 /\ Len(u.blobs) \in Nat /\ j \in Nat
      BY <2>1, <1>3, <1>5, <1>7
    <3>2. j \notin 1 .. Len(u.blobs)
      BY <3>1, <2>3
    <3> QED BY <3>2, <1>7, <1>8
  <2>4. TH!Shows(w, p)
    BY <2>2, <2>3, <1>2 DEF TH!Shows
  <2>5. p \in w.loaded /\ w.task[p] = "none" /\ w.rs[p] = "FINISHED"
    BY <1>2, <1>9
  <2> QED BY <2>4, <2>5 DEF TH!ThumbSound
<1>10. ASSUME NEW p \in TH!Page, p \notin TH!Range(order) PROVE TH!ThumbSound(w, p)
  <2>1. TH!ThumbSound(u, p) /\ w.rs[p] = u.rs[p]
    BY <1>2, <1>10
  <2>2. \A i \in DOMAIN order : order[i] # p
    BY <1>10 DEF TH!Range
  <2>3. ASSUME TH!Shows(u, p) PROVE TH!Shows(w, p)
    <3>1. CASE u.image[p] = u.rot /\ \A i \in DOMAIN u.blobs : u.blobs[i].page # p
      BY <3>1, <2>2, <1>2, <1>8 DEF TH!Shows
    <3>2. CASE \E i \in DOMAIN u.blobs : /\ u.blobs[i].page = p
                 /\ \A j \in DOMAIN u.blobs : j >= i /\ u.blobs[j].page = p => u.blobs[j].rot = u.rot
      <4>1. PICK i \in DOMAIN u.blobs : /\ u.blobs[i].page = p
                 /\ \A j \in DOMAIN u.blobs : j >= i /\ u.blobs[j].page = p => u.blobs[j].rot = u.rot
        BY <3>2
      <4>2. i \in DOMAIN w.blobs /\ w.blobs[i].page = p
        BY <4>1, <1>3, <1>5, <1>7
      <4>3. \A j \in DOMAIN w.blobs : j >= i /\ w.blobs[j].page = p => w.blobs[j].rot = u.rot
        BY <4>1, <1>8
      <4> QED BY <4>2, <4>3, <1>2 DEF TH!Shows
    <3> QED BY <2>3, <3>1, <3>2 DEF TH!Shows
  <2> QED BY <2>1, <2>3, <1>2 DEF TH!ThumbSound
<1>11. TH!ThumbsSound(w)
  BY <1>6, <1>9, <1>10 DEF TH!ThumbsSound
<1> QED BY <1>2, <1>11 DEF w

(* draw, for a thumbnail that is not waited for without its page. *)
LEMMA ThumbDraw ==
  ASSUME NEW u, TH!ThumbsSound(u), NEW p \in TH!Page, p \in u.loads => p \in u.loaded, u.rs[p] = "INITIAL"
  PROVE  LET w == TH!Draw(u, p)
         IN  /\ TH!ThumbsSound(w) /\ w.idle = u.idle /\ w.busy = u.busy /\ w.enabled = u.enabled
             /\ w.visible = u.visible /\ \A q \in TH!Page : q # p => w.rs[q] = u.rs[q]
<1> DEFINE w == TH!Draw(u, p)
<1>1. /\ TH!Shape(u) /\ DOMAIN u = ThumbFields /\ u.rs \in [TH!Page -> {"INITIAL", "RUNNING", "PAUSED", "FINISHED"}]
      /\ u.task \in [TH!Page -> {"none", "running", "held"}] /\ \A q \in TH!Page : TH!ThumbSound(u, q)
  BY ThumbShape DEF TH!ThumbsSound
<1>2. /\ DOMAIN w = ThumbFields /\ w.image = u.image /\ w.loaded = u.loaded /\ w.loads = u.loads /\ w.blobs = u.blobs
      /\ w.rot = u.rot /\ w.visible = u.visible /\ w.enabled = u.enabled /\ w.busy = u.busy
      /\ w.canvases = u.canvases /\ w.idle = u.idle
  BY <1>1 DEF TH!Draw, ThumbFields
<1>3. /\ p \in u.loaded => w.rs = [u.rs EXCEPT ![p] = "RUNNING"] /\ w.task = [u.task EXCEPT ![p] = "running"]
      /\ p \notin u.loaded => w.rs = [u.rs EXCEPT ![p] = "FINISHED"] /\ w.task = u.task
  BY <1>1 DEF TH!Draw, ThumbFields
<1> HIDE DEF w
<1>4. /\ w.rs \in [TH!Page -> {"INITIAL", "RUNNING", "PAUSED", "FINISHED"}]
      /\ w.task \in [TH!Page -> {"none", "running", "held"}]
      /\ \A q \in TH!Page : q # p => w.rs[q] = u.rs[q] /\ w.task[q] = u.task[q]
  BY <1>1, <1>3
<1>5. TH!Shape(w)
  BY <1>1, <1>2, <1>4, ThumbShape
<1>6. ASSUME NEW q \in TH!Page PROVE TH!ThumbSound(w, q)
  <2>1. CASE q # p
    <3>1. TH!ThumbSound(u, q) /\ w.rs[q] = u.rs[q] /\ w.task[q] = u.task[q]
      BY <2>1, <1>1, <1>4
    <3> QED BY <3>1, <1>2 DEF TH!ThumbSound, TH!Shows
  <2>2. CASE q = p /\ p \in u.loaded
    BY <2>2, <1>1, <1>2, <1>3 DEF TH!ThumbSound
  <2>3. CASE q = p /\ p \notin u.loaded
    <3>1. u.task[p] \notin {"held", "running"} /\ w.task[p] = u.task[p] /\ w.rs[p] = "FINISHED"
      BY <2>3, <1>1, <1>3 DEF TH!ThumbSound
    <3> QED BY <2>3, <3>1, <1>2 DEF TH!ThumbSound
  <2> QED BY <2>1, <2>2, <2>3
<1> QED BY <1>2, <1>4, <1>5, <1>6 DEF w, TH!ThumbsSound

(* renderView begins, goes on or resumes, and makes no finished thumbnail unfinished. *)
LEMMA ThumbRender ==
  ASSUME NEW u, TH!ThumbsSound(u), NEW p \in TH!Page, p \in u.loads => p \in u.loaded
  PROVE  LET w == TH!RenderView(u, p)
         IN  /\ TH!ThumbsSound(w) /\ w.idle = u.idle /\ w.busy = u.busy /\ w.enabled = u.enabled
             /\ w.visible = u.visible /\ \A q \in TH!Page : u.rs[q] = "FINISHED" => w.rs[q] = "FINISHED"
<1> DEFINE v == [u EXCEPT !.highest = p]
           r == [v EXCEPT !.rs[p] = "RUNNING", !.task[p] = "running"]
<1>1. /\ TH!Shape(u) /\ DOMAIN u = ThumbFields /\ u.rs \in [TH!Page -> {"INITIAL", "RUNNING", "PAUSED", "FINISHED"}]
      /\ u.task \in [TH!Page -> {"none", "running", "held"}] /\ \A q \in TH!Page : TH!ThumbSound(u, q)
  BY ThumbShape DEF TH!ThumbsSound
<1>2. /\ DOMAIN v = ThumbFields /\ v.rs = u.rs /\ v.task = u.task /\ v.image = u.image /\ v.loaded = u.loaded
      /\ v.loads = u.loads /\ v.blobs = u.blobs /\ v.rot = u.rot /\ v.visible = u.visible /\ v.enabled = u.enabled
      /\ v.busy = u.busy /\ v.canvases = u.canvases /\ v.idle = u.idle
  BY <1>1 DEF ThumbFields
<1>3. TH!Shape(v)
  BY <1>1, <1>2, ThumbShape
<1>4. TH!ThumbsSound(v)
  BY <1>2, <1>3, ThumbSame
<1>5. CASE u.rs[p] = "FINISHED"
  BY <1>5 DEF TH!RenderView
<1>6. CASE u.rs[p] = "RUNNING"
  <2>1. TH!RenderView(u, p) = v
    BY <1>6 DEF TH!RenderView
  <2> QED BY <2>1, <1>2, <1>4
<1>7. CASE u.rs[p] = "INITIAL"
  <2>1. TH!RenderView(u, p) = TH!Draw(v, p)
    BY <1>7 DEF TH!RenderView
  <2> HIDE DEF v
  <2> QED BY <2>1, <1>2, <1>4, <1>7, ThumbDraw
<1>8. CASE u.rs[p] = "PAUSED"
  <2>1. TH!RenderView(u, p) = r
    BY <1>8 DEF TH!RenderView
  <2>2. /\ DOMAIN r = ThumbFields /\ r.rs = [u.rs EXCEPT ![p] = "RUNNING"] /\ r.task = [u.task EXCEPT ![p] = "running"]
        /\ r.image = u.image /\ r.loaded = u.loaded /\ r.loads = u.loads /\ r.blobs = u.blobs
        /\ r.rot = u.rot /\ r.visible = u.visible /\ r.enabled = u.enabled /\ r.busy = u.busy
        /\ r.canvases = u.canvases /\ r.idle = u.idle
    BY <1>1 DEF ThumbFields
  <2> HIDE DEF r
  <2>3. /\ r.rs \in [TH!Page -> {"INITIAL", "RUNNING", "PAUSED", "FINISHED"}]
        /\ r.task \in [TH!Page -> {"none", "running", "held"}]
        /\ \A q \in TH!Page : q # p => r.rs[q] = u.rs[q] /\ r.task[q] = u.task[q]
    BY <1>1, <2>2
  <2>4. TH!Shape(r)
    BY <1>1, <2>2, <2>3, ThumbShape
  <2>5. ASSUME NEW q \in TH!Page PROVE TH!ThumbSound(r, q)
    <3>1. CASE q # p
      <4>1. TH!ThumbSound(u, q) /\ r.rs[q] = u.rs[q] /\ r.task[q] = u.task[q]
        BY <3>1, <1>1, <2>3
      <4> QED BY <4>1, <2>2 DEF TH!ThumbSound, TH!Shows
    <3>2. CASE q = p
      <4>1. p \in u.loaded
        BY <1>1, <1>8 DEF TH!ThumbSound
      <4> QED BY <3>2, <4>1, <1>1, <2>2 DEF TH!ThumbSound
    <3> QED BY <3>1, <3>2
  <2>6. TH!ThumbsSound(r)
    BY <2>4, <2>5 DEF TH!ThumbsSound
  <2> QED BY <2>1, <2>2, <2>3, <2>6, <1>8
<1> QED BY <1>1, <1>5, <1>6, <1>7, <1>8

(* getHighestPriority: a thumbnail that is not finished, or 0 when all in view are. *)
LEMMA ThumbHighest ==
  ASSUME NEW u, TH!Shape(u)
  PROVE  /\ TH!GetHighestPriority(u) # 0 =>
              TH!GetHighestPriority(u) \in TH!Page /\ u.rs[TH!GetHighestPriority(u)] # "FINISHED"
         /\ TH!GetHighestPriority(u) = 0 => \A i \in DOMAIN u.visible : u.rs[u.visible[i]] = "FINISHED"
<1> DEFINE open == {i \in DOMAIN u.visible : u.rs[u.visible[i]] # "FINISHED"}
<1>1. u.visible \in Seq(TH!Page) /\ DOMAIN u.visible \subseteq Nat
  BY ThumbsAssumption, ThumbShape DEF TH!Page
<1>2. ASSUME open # {} PROVE TH!Min(open) \in open
  <2>1. open \subseteq Nat
    BY <1>1
  <2> HIDE DEF open
  <2>2. \E x \in open : \A y \in open : x <= y
    BY <2>1, <1>2, SmallestOf
  <2> QED BY <2>2 DEF TH!Min
<1>3. CASE open # {}
  <2>1. TH!GetHighestPriority(u) = u.visible[TH!Min(open)]
    BY <1>3 DEF TH!GetHighestPriority
  <2>2. TH!Min(open) \in DOMAIN u.visible /\ u.rs[u.visible[TH!Min(open)]] # "FINISHED"
    BY <1>2, <1>3
  <2>3. u.visible[TH!Min(open)] \in TH!Page
    <3>1. \A i \in DOMAIN u.visible : u.visible[i] \in TH!Page
      BY <1>1
    <3> HIDE DEF open
    <3> QED BY <2>2, <3>1
  <2>4. 0 \notin TH!Page
    BY ThumbsAssumption DEF TH!Page
  <2> QED BY <2>1, <2>2, <2>3, <2>4
<1>4. CASE open = {}
  <2>1. \A i \in DOMAIN u.visible : u.rs[u.visible[i]] = "FINISHED"
    BY <1>4
  <2>2. TH!GetHighestPriority(u) = 0 \/ (TH!GetHighestPriority(u) \in TH!Page /\ u.rs[TH!GetHighestPriority(u)] # "FINISHED")
    BY <1>4 DEF TH!GetHighestPriority
  <2> QED BY <2>1, <2>2
<1> QED BY <1>3, <1>4

(* renderHighestPriority: the timer starts only when nothing is left to draw. *)
LEMMA ThumbQueue ==
  ASSUME NEW u, TH!ThumbsSound(u)
  PROVE  LET w == TH!RenderHighestPriority(u) IN TH!ThumbsSound(w) /\ TH!IdleSound(w)
<1> DEFINE v == [u EXCEPT !.kick = FALSE, !.idle = FALSE]
           p == TH!GetHighestPriority(v)
<1>1. TH!Shape(u) /\ DOMAIN u = ThumbFields
  BY ThumbShape DEF TH!ThumbsSound
<1>2. /\ DOMAIN v = ThumbFields /\ v.rs = u.rs /\ v.task = u.task /\ v.image = u.image /\ v.loaded = u.loaded
      /\ v.loads = u.loads /\ v.blobs = u.blobs /\ v.rot = u.rot /\ v.visible = u.visible /\ v.enabled = u.enabled
      /\ v.busy = u.busy /\ v.canvases = u.canvases /\ v.idle = FALSE
  BY <1>1 DEF ThumbFields
<1>3. TH!Shape(v)
  BY <1>1, <1>2, ThumbShape
<1>4. TH!ThumbsSound(v)
  BY <1>2, <1>3, ThumbSame
<1>5. ASSUME NEW w, DOMAIN w = ThumbFields, w.rs = v.rs, w.task = v.task, w.image = v.image, w.loaded = v.loaded,
             w.loads = v.loads, w.blobs = v.blobs, w.rot = v.rot, w.visible = v.visible, w.busy = v.busy,
             w.canvases = v.canvases
      PROVE  TH!ThumbsSound(w)
  <2>1. TH!Shape(w)
    BY <1>3, <1>5, ThumbShape
  <2> QED BY <2>1, <1>4, <1>5, ThumbSame
<1>6. CASE u.busy # 0
  <2> DEFINE w == [v EXCEPT !.highest = 0]
  <2>1. TH!RenderHighestPriority(u) = w
    BY <1>6 DEF TH!RenderHighestPriority
  <2>2. /\ DOMAIN w = ThumbFields /\ w.rs = v.rs /\ w.task = v.task /\ w.image = v.image /\ w.loaded = v.loaded
        /\ w.loads = v.loads /\ w.blobs = v.blobs /\ w.rot = v.rot /\ w.visible = v.visible /\ w.busy = v.busy
        /\ w.canvases = v.canvases /\ w.idle = FALSE
    BY <1>1 DEF ThumbFields
  <2> HIDE DEF w, v
  <2>3. TH!ThumbsSound(w)
    BY <2>2, <1>5
  <2> QED BY <2>1, <2>2, <2>3 DEF TH!IdleSound
<1>7. ASSUME u.busy = 0, ~u.enabled \/ p = 0
      PROVE  LET w == [v EXCEPT !.idle = TRUE] IN TH!ThumbsSound(w) /\ TH!IdleSound(w)
  <2> DEFINE w == [v EXCEPT !.idle = TRUE]
  <2>1. /\ DOMAIN w = ThumbFields /\ w.rs = v.rs /\ w.task = v.task /\ w.image = v.image /\ w.loaded = v.loaded
        /\ w.loads = v.loads /\ w.blobs = v.blobs /\ w.rot = v.rot /\ w.visible = v.visible /\ w.busy = v.busy
        /\ w.canvases = v.canvases /\ w.enabled = v.enabled
    BY <1>1 DEF ThumbFields
  <2> HIDE DEF w, v
  <2>2. TH!ThumbsSound(w)
    BY <2>1, <1>5
  <2>3. p = 0 => \A i \in DOMAIN v.visible : v.rs[v.visible[i]] = "FINISHED"
    BY <1>3, ThumbHighest
  <2>4. TH!IdleSound(w)
    BY <2>1, <2>3, <1>2, <1>7 DEF TH!IdleSound
  <2> QED BY <2>2, <2>4 DEF w
<1>8. CASE u.busy = 0 /\ ~u.enabled
  <2>1. TH!RenderHighestPriority(u) = [v EXCEPT !.idle = TRUE]
    BY <1>8 DEF TH!RenderHighestPriority
  <2> HIDE DEF v
  <2> QED BY <2>1, <1>7, <1>8
<1>9. CASE u.busy = 0 /\ u.enabled /\ p = 0
  <2>1. TH!RenderHighestPriority(u) = [v EXCEPT !.idle = TRUE]
    BY <1>9 DEF TH!RenderHighestPriority, TH!ForceThumbnails
  <2> HIDE DEF v
  <2> QED BY <2>1, <1>7, <1>9
<1>10. CASE u.busy = 0 /\ u.enabled /\ p # 0
  <2>1. TH!RenderHighestPriority(u) = TH!EnsurePdfPageLoaded(v, p)
    BY <1>10 DEF TH!RenderHighestPriority, TH!ForceThumbnails
  <2>2. p \in TH!Page /\ v.rs[p] # "FINISHED"
    BY <1>3, <1>10, ThumbHighest
  <2> HIDE DEF v, p
  <2>3. CASE p \in v.loaded
    <3>1. TH!RenderHighestPriority(u) = TH!RenderView(v, p)
      BY <2>1, <2>3 DEF TH!EnsurePdfPageLoaded
    <3>2. TH!ThumbsSound(TH!RenderView(v, p)) /\ TH!RenderView(v, p).idle = FALSE
      BY <2>2, <2>3, <1>2, <1>4, ThumbRender
    <3> QED BY <3>1, <3>2 DEF TH!IdleSound
  <2>4. CASE p \notin v.loaded
    <3> DEFINE w == [v EXCEPT !.loads = @ \cup {p}]
    <3>1. TH!RenderHighestPriority(u) = w
      BY <2>1, <2>4 DEF TH!EnsurePdfPageLoaded
    <3>2. /\ DOMAIN w = ThumbFields /\ w.rs = v.rs /\ w.task = v.task /\ w.image = v.image /\ w.loaded = v.loaded
          /\ w.loads = v.loads \cup {p} /\ w.blobs = v.blobs /\ w.rot = v.rot /\ w.visible = v.visible /\ w.busy = v.busy
          /\ w.canvases = v.canvases /\ w.idle = FALSE
      BY <1>2 DEF ThumbFields
    <3> HIDE DEF w
    <3>3. TH!Shape(w)
      BY <2>2, <3>2, <1>3, ThumbShape
    <3>4. ASSUME NEW q \in TH!Page PROVE TH!ThumbSound(w, q)
      <4>1. TH!ThumbSound(v, q)
        BY <1>4 DEF TH!ThumbsSound
      <4>2. q = p => v.rs[q] = "INITIAL"
        BY <4>1, <2>2, <2>4 DEF TH!ThumbSound
      <4> QED BY <4>1, <4>2, <3>2 DEF TH!ThumbSound, TH!Shows
    <3> QED BY <3>1, <3>2, <3>3, <3>4 DEF TH!ThumbsSound, TH!IdleSound
  <2> QED BY <2>3, <2>4
<1> QED BY <1>6, <1>8, <1>9, <1>10

(* The end of a handler. *)
LEMMA ThumbSettle ==
  ASSUME NEW u, TH!ThumbsSound(u), u.kick \/ TH!IdleSound(u)
  PROVE  TH!ThumbsSound(TH!Settle(u)) /\ TH!IdleSound(TH!Settle(u))
BY ThumbQueue DEF TH!Settle

(* A handler that ends with renderHighestPriority. *)
LEMMA ThumbForced ==
  ASSUME NEW u, TH!ThumbsSound(u)
  PROVE  TH!ThumbsSound(TH!Render(u)) /\ TH!IdleSound(TH!Render(u))
<1> DEFINE v == [u EXCEPT !.kick = TRUE]
<1>1. TH!Shape(u) /\ DOMAIN u = ThumbFields
  BY ThumbShape DEF TH!ThumbsSound
<1>2. /\ DOMAIN v = ThumbFields /\ v.rs = u.rs /\ v.task = u.task /\ v.image = u.image /\ v.loaded = u.loaded
      /\ v.loads = u.loads /\ v.blobs = u.blobs /\ v.rot = u.rot /\ v.visible = u.visible
      /\ v.busy = u.busy /\ v.canvases = u.canvases /\ v.kick
  BY <1>1 DEF ThumbFields
<1>3. TH!Render(u) = TH!Settle(v)
  BY DEF TH!Render
<1> HIDE DEF v
<1>4. TH!Shape(v)
  BY <1>1, <1>2, ThumbShape
<1>5. TH!ThumbsSound(v)
  BY <1>2, <1>4, ThumbSame
<1> QED BY <1>2, <1>3, <1>5, ThumbSettle

(* The thumbnails in the beginning. *)
LEMMA ThumbsInit == TH!Init => TH!IInv
<1> SUFFICES ASSUME NEW v \in ThumbViews, st = TH!Start(v) PROVE TH!IInv
  BY DEF TH!Init
<1>1. /\ st.rs = [p \in TH!Page |-> "INITIAL"] /\ st.task = [p \in TH!Page |-> "none"] /\ st.loaded = {1}
      /\ st.image = [p \in TH!Page |-> Off] /\ st.loads = {} /\ st.blobs = <<>> /\ st.rot = 0 /\ st.visible = v
      /\ st.busy = 1 /\ st.canvases = {} /\ ~st.idle /\ DOMAIN st = ThumbFields
  BY DEF TH!Start, ThumbFields
<1>2. 1 \in TH!Page /\ st.blobs \in Seq(Blob)
  BY <1>1, ThumbsAssumption, EmptySeq DEF TH!Page
<1>3. /\ st.rs \in [TH!Page -> {"INITIAL", "RUNNING", "PAUSED", "FINISHED"}]
      /\ st.task \in [TH!Page -> {"none", "running", "held"}] /\ DOMAIN st.image = TH!Page
  BY <1>1
<1>4. /\ st.loaded \subseteq TH!Page /\ st.loads \subseteq TH!Page /\ st.canvases \subseteq TH!Page
      /\ st.busy \in TH!Page \cup {0} /\ st.visible \in ThumbViews /\ st.rot \in Nat
  BY <1>1, <1>2
<1>5. TH!Shape(st)
  BY <1>1, <1>2, <1>3, <1>4, ThumbShape
<1>6. \A p \in TH!Page : TH!ThumbSound(st, p)
  BY <1>1 DEF TH!ThumbSound
<1> QED BY <1>1, <1>5, <1>6 DEF TH!IInv, TH!ThumbsSound, TH!IdleSound

(* getPage ends. *)
LEMMA ThumbsLoaded ==
  ASSUME TH!IInv, NEW p \in TH!Page, TH!Loaded(p)
  PROVE  TH!IInv'
<1> DEFINE u == [st EXCEPT !.loads = @ \ {p}]
           w == IF p \in u.loaded \cup BrokenThumbs THEN u ELSE TH!SetPdfPage(u, {p})
           r == TH!RenderView(w, p)
<1>1. /\ TH!Shape(st) /\ DOMAIN st = ThumbFields /\ TH!ThumbsSound(st) /\ TH!IdleSound(st)
      /\ p \in st.loads /\ st' = TH!Settle(r)
  BY ThumbShape DEF TH!IInv, TH!ThumbsSound, TH!Loaded
<1>2. /\ DOMAIN u = ThumbFields /\ u.rs = st.rs /\ u.task = st.task /\ u.image = st.image /\ u.loaded = st.loaded
      /\ u.loads = st.loads \ {p} /\ u.blobs = st.blobs /\ u.rot = st.rot /\ u.visible = st.visible
      /\ u.busy = st.busy /\ u.canvases = st.canvases /\ u.idle = st.idle /\ u.enabled = st.enabled
  BY <1>1 DEF ThumbFields
<1>3. st.visible \in Seq(TH!Page)
  BY <1>1, ThumbsAssumption, ThumbShape DEF TH!Page
<1> HIDE DEF u
<1>4. TH!Shape(u)
  BY <1>1, <1>2, ThumbShape
<1>5. TH!ThumbsSound(u)
  BY <1>1, <1>2, <1>4, ThumbSame
<1>6. /\ TH!ThumbsSound(w) /\ w.idle = st.idle /\ w.busy = st.busy /\ w.enabled = st.enabled
      /\ w.visible = st.visible /\ p \notin w.loads /\ \A q \in TH!Page : st.rs[q] = "FINISHED" => w.rs[q] = "FINISHED"
  <2>1. CASE p \in u.loaded \cup BrokenThumbs
    BY <2>1, <1>2, <1>5
  <2>2. CASE p \notin u.loaded \cup BrokenThumbs
    <3>1. w = TH!SetPdfPage(u, {p}) /\ {p} \in SUBSET TH!Page
      BY <2>2
    <3>2. st.rs[p] = "INITIAL"
      BY <2>2, <1>1, <1>2 DEF TH!ThumbsSound, TH!ThumbSound
    <3> HIDE DEF w
    <3> QED BY <3>1, <3>2, <1>2, <1>5, ThumbPage
  <2> QED BY <2>1, <2>2
<1> HIDE DEF w
<1>7. /\ TH!ThumbsSound(r) /\ r.idle = st.idle /\ r.busy = st.busy /\ r.enabled = st.enabled
      /\ r.visible = st.visible /\ \A q \in TH!Page : st.rs[q] = "FINISHED" => r.rs[q] = "FINISHED"
  BY <1>6, ThumbRender
<1> HIDE DEF r
<1>8. \A i \in DOMAIN st.visible : st.visible[i] \in TH!Page
  BY <1>3
<1>9. TH!IdleSound(r)
  BY <1>1, <1>7, <1>8 DEF TH!IdleSound
<1> QED BY <1>1, <1>7, <1>9, ThumbSettle DEF TH!IInv

(* A drawing is held. *)
LEMMA ThumbsPause ==
  ASSUME TH!IInv, NEW p \in TH!Page, TH!Pause(p)
  PROVE  TH!IInv'
<1> DEFINE w == [st EXCEPT !.rs[p] = "PAUSED", !.task[p] = "held"]
<1>1. /\ TH!Shape(st) /\ DOMAIN st = ThumbFields /\ st.rs \in [TH!Page -> {"INITIAL", "RUNNING", "PAUSED", "FINISHED"}]
      /\ st.task \in [TH!Page -> {"none", "running", "held"}] /\ \A q \in TH!Page : TH!ThumbSound(st, q)
      /\ TH!IdleSound(st) /\ st.task[p] = "running" /\ st' = w /\ st.visible \in Seq(TH!Page)
  BY ThumbShape, ThumbsAssumption DEF TH!IInv, TH!ThumbsSound, TH!Pause, TH!Page
<1>2. /\ DOMAIN w = ThumbFields /\ w.rs = [st.rs EXCEPT ![p] = "PAUSED"] /\ w.task = [st.task EXCEPT ![p] = "held"]
      /\ w.image = st.image /\ w.loaded = st.loaded /\ w.loads = st.loads /\ w.blobs = st.blobs
      /\ w.rot = st.rot /\ w.visible = st.visible /\ w.enabled = st.enabled /\ w.busy = st.busy
      /\ w.canvases = st.canvases /\ w.idle = st.idle
  BY <1>1 DEF ThumbFields
<1> HIDE DEF w
<1>3. /\ w.rs \in [TH!Page -> {"INITIAL", "RUNNING", "PAUSED", "FINISHED"}]
      /\ w.task \in [TH!Page -> {"none", "running", "held"}] /\ w.rs[p] = "PAUSED" /\ w.task[p] = "held"
      /\ \A q \in TH!Page : q # p => w.rs[q] = st.rs[q] /\ w.task[q] = st.task[q]
  BY <1>1, <1>2
<1>4. TH!Shape(w)
  BY <1>1, <1>2, <1>3, ThumbShape
<1>5. st.rs[p] = "RUNNING" /\ p \in st.loaded
  BY <1>1 DEF TH!ThumbSound
<1>6. ASSUME NEW q \in TH!Page PROVE TH!ThumbSound(w, q)
  <2>1. CASE q # p
    <3>1. TH!ThumbSound(st, q) /\ w.rs[q] = st.rs[q] /\ w.task[q] = st.task[q]
      BY <2>1, <1>1, <1>3
    <3> QED BY <3>1, <1>2 DEF TH!ThumbSound, TH!Shows
  <2>2. CASE q = p
    BY <2>2, <1>2, <1>3, <1>5 DEF TH!ThumbSound
  <2> QED BY <2>1, <2>2
<1>7. \A i \in DOMAIN st.visible : st.visible[i] \in TH!Page
  BY <1>1
<1>8. TH!IdleSound(w)
  BY <1>1, <1>2, <1>3, <1>5, <1>7 DEF TH!IdleSound
<1> QED BY <1>1, <1>4, <1>6, <1>8 DEF TH!IInv, TH!ThumbsSound

(* A render task ends. *)
LEMMA ThumbsFinish ==
  ASSUME TH!IInv, NEW p \in TH!Page, TH!Finish(p)
  PROVE  TH!IInv'
<1> DEFINE u == [st EXCEPT !.task[p] = "none"]
<1>1. /\ TH!Shape(st) /\ DOMAIN st = ThumbFields /\ st.task \in [TH!Page -> {"none", "running", "held"}]
      /\ \A q \in TH!Page : TH!ThumbSound(st, q)
      /\ TH!IdleSound(st) /\ st.task[p] = "running" /\ st' = TH!ConvertCanvasToImage(u, <<p>>, TRUE)
      /\ st.visible \in Seq(TH!Page)
  BY ThumbShape, ThumbsAssumption DEF TH!IInv, TH!ThumbsSound, TH!Finish, TH!Page
<1>2. /\ DOMAIN u = ThumbFields /\ u.rs = st.rs /\ u.task = [st.task EXCEPT ![p] = "none"]
      /\ u.image = st.image /\ u.loaded = st.loaded /\ u.loads = st.loads /\ u.blobs = st.blobs
      /\ u.rot = st.rot /\ u.visible = st.visible /\ u.enabled = st.enabled /\ u.busy = st.busy
      /\ u.canvases = st.canvases /\ u.idle = st.idle
  BY <1>1 DEF ThumbFields
<1> HIDE DEF u
<1>3. u.task \in [TH!Page -> {"none", "running", "held"}] /\ u.task[p] = "none" /\ \A q \in TH!Page : q # p => u.task[q] = st.task[q]
  BY <1>1, <1>2
<1>4. TH!Shape(u)
  BY <1>1, <1>2, <1>3, ThumbShape
<1>5. p \in u.loaded
  BY <1>1, <1>2 DEF TH!ThumbSound
<1>6. <<p>> \in Seq(TH!Page) /\ TH!Range(<<p>>) = {p}
  <2>1. DOMAIN <<p>> = {1} /\ <<p>>[1] = p
    OBVIOUS
  <2> QED BY <2>1 DEF TH!Range
<1>7. ASSUME NEW q \in TH!Page \ {p} PROVE TH!ThumbSound(u, q)
  <2>1. TH!ThumbSound(st, q) /\ u.task[q] = st.task[q]
    BY <1>1, <1>3, <1>7
  <2> QED BY <2>1, <1>2 DEF TH!ThumbSound, TH!Shows
<1> DEFINE w == TH!ConvertCanvasToImage(u, <<p>>, TRUE)
<1>8. /\ TH!ThumbsSound(w) /\ w.idle = u.idle /\ w.busy = u.busy /\ w.enabled = u.enabled /\ w.visible = u.visible
      /\ \A q \in TH!Page : w.rs[q] = IF q \in {p} THEN "FINISHED" ELSE u.rs[q]
  <2>1. /\ <<p>> \in Seq(TH!Page) /\ \A q \in TH!Page \ TH!Range(<<p>>) : TH!ThumbSound(u, q)
        /\ \A q \in TH!Range(<<p>>) : q \in u.loaded /\ u.task[q] = "none"
    BY <1>3, <1>5, <1>6, <1>7
  <2>2. /\ TH!ThumbsSound(w) /\ w.idle = u.idle /\ w.busy = u.busy /\ w.enabled = u.enabled /\ w.visible = u.visible
        /\ \A q \in TH!Page : w.rs[q] = IF q \in TH!Range(<<p>>) THEN "FINISHED" ELSE u.rs[q]
    BY <2>1, <1>4, ThumbConvert
  <2> QED BY <2>2, <1>6
<1> HIDE DEF w
<1>9. \A i \in DOMAIN st.visible : st.visible[i] \in TH!Page
  BY <1>1
<1>10. TH!IdleSound(w)
  BY <1>1, <1>2, <1>8, <1>9 DEF TH!IdleSound
<1> QED BY <1>1, <1>8, <1>10 DEF TH!IInv, w

(* A canvas is encoded: what its thumbnail shows is right, or a later canvas will be. *)
LEMMA ThumbsEncoded ==
  ASSUME TH!IInv, TH!Encoded
  PROVE  TH!IInv'
<1> DEFINE x == Head(st.blobs)
           w == [st EXCEPT !.blobs = Tail(@), !.image[x.page] = x.rot, !.kick = x.drawn]
<1>1. /\ TH!Shape(st) /\ DOMAIN st = ThumbFields /\ \A q \in TH!Page : TH!ThumbSound(st, q)
      /\ TH!IdleSound(st) /\ st' = TH!Settle(w) /\ st.blobs # <<>> /\ st.blobs \in Seq(Blob) /\ DOMAIN st.image = TH!Page
  BY ThumbShape DEF TH!IInv, TH!ThumbsSound, TH!Encoded
<1>2. /\ x \in Blob /\ x = st.blobs[1] /\ Tail(st.blobs) \in Seq(Blob) /\ Len(st.blobs) \in Nat /\ Len(st.blobs) >= 1
      /\ DOMAIN Tail(st.blobs) = 1 .. Len(st.blobs) - 1 /\ DOMAIN st.blobs = 1 .. Len(st.blobs)
      /\ \A i \in 1 .. Len(st.blobs) - 1 : Tail(st.blobs)[i] = st.blobs[i + 1]
  BY <1>1
<1>3. /\ DOMAIN w = ThumbFields /\ w.blobs = Tail(st.blobs) /\ w.image = [st.image EXCEPT ![x.page] = x.rot]
      /\ w.rs = st.rs /\ w.task = st.task /\ w.loaded = st.loaded /\ w.loads = st.loads
      /\ w.rot = st.rot /\ w.visible = st.visible /\ w.enabled = st.enabled /\ w.busy = st.busy
      /\ w.canvases = st.canvases /\ w.idle = st.idle
  BY <1>1 DEF ThumbFields
<1> HIDE DEF w, x
<1>4. DOMAIN w.image = TH!Page
  BY <1>1, <1>3
<1>5. TH!Shape(w)
  BY <1>1, <1>2, <1>3, <1>4, ThumbShape
<1>6. ASSUME NEW p \in TH!Page, TH!Shows(st, p) PROVE TH!Shows(w, p)
  <2>1. CASE st.image[p] = st.rot /\ \A i \in DOMAIN st.blobs : st.blobs[i].page # p
    <3>1. x.page # p
      BY <2>1, <1>2
    <3>2. w.image[p] = st.image[p]
      BY <3>1, <1>1, <1>3
    <3>3. \A i \in DOMAIN w.blobs : w.blobs[i].page # p
      BY <2>1, <1>2, <1>3
    <3> QED BY <2>1, <3>2, <3>3, <1>3 DEF TH!Shows
  <2>2. CASE \E i \in DOMAIN st.blobs : /\ st.blobs[i].page = p
               /\ \A j \in DOMAIN st.blobs : j >= i /\ st.blobs[j].page = p => st.blobs[j].rot = st.rot
    <3>1. PICK i \in DOMAIN st.blobs : /\ st.blobs[i].page = p
               /\ \A j \in DOMAIN st.blobs : j >= i /\ st.blobs[j].page = p => st.blobs[j].rot = st.rot
      BY <2>2
    <3>2. CASE i > 1
      <4>1. i - 1 \in DOMAIN w.blobs /\ w.blobs[i - 1].page = p
        <5>1. i - 1 \in 1 .. Len(st.blobs) - 1 /\ (i - 1) + 1 = i
          BY <3>1, <3>2, <1>2
        <5>2. Tail(st.blobs)[i - 1] = st.blobs[i]
          BY <5>1, <1>2
        <5> QED BY <5>1, <5>2, <3>1, <1>2, <1>3
      <4>2. ASSUME NEW j \in DOMAIN w.blobs, j >= i - 1, w.blobs[j].page = p PROVE w.blobs[j].rot = st.rot
        <5>1. j + 1 \in DOMAIN st.blobs /\ j + 1 >= i /\ w.blobs[j] = st.blobs[j + 1]
          BY <3>1, <4>2, <1>2, <1>3
        <5> QED BY <5>1, <3>1, <4>2
      <4> QED BY <4>1, <4>2, <1>3 DEF TH!Shows
    <3>3. CASE i = 1
      <4>1. x.page = p /\ x.rot = st.rot
        BY <3>1, <3>3, <1>2
      <4>2. w.image[p] = st.rot
        BY <4>1, <1>1, <1>3
      <4>3. ASSUME NEW j \in DOMAIN w.blobs, w.blobs[j].page = p PROVE w.blobs[j].rot = st.rot
        <5>1. j + 1 \in DOMAIN st.blobs /\ j + 1 >= i /\ w.blobs[j] = st.blobs[j + 1]
          BY <3>1, <3>3, <4>3, <1>2, <1>3
        <5> QED BY <5>1, <3>1, <4>3
      <4> QED BY <4>2, <4>3, <1>3 DEF TH!Shows
    <3> QED BY <3>1, <3>2, <3>3, <1>2
  <2> QED BY <1>6, <2>1, <2>2 DEF TH!Shows
<1>7. ASSUME NEW p \in TH!Page PROVE TH!ThumbSound(w, p)
  BY <1>1, <1>3, <1>6 DEF TH!ThumbSound
<1>8. TH!ThumbsSound(w) /\ TH!IdleSound(w)
  BY <1>1, <1>3, <1>5, <1>7 DEF TH!ThumbsSound, TH!IdleSound
<1> QED BY <1>1, <1>8, ThumbSettle DEF TH!IInv

(* Thumbnails that were not drawn are made from the pages that are. *)
LEMMA ThumbImages ==
  ASSUME NEW u, TH!ThumbsSound(u), NEW P \in SUBSET TH!Page, \A p \in P : u.rs[p] = "INITIAL",
         NEW order \in TH!Orders(P), NEW large \in BOOLEAN
  PROVE  TH!ThumbsSound(TH!SetImage(u, order, large))
<1> DEFINE N == P \ u.loaded
           w == TH!SetPdfPage(u, N)
<1>1. order \in [1 .. Cardinality(P) -> P] /\ TH!Range(order) = P
  <2>1. TH!Cardinality(P) = Cardinality(P)
    BY DEF TH!Cardinality, Cardinality
  <2> QED BY <2>1, Zenon DEF TH!Orders
<1>2. IF large THEN TH!SetImage(u, order, large) = TH!ConvertCanvasToImage(w, order, FALSE)
      ELSE TH!SetImage(u, order, large) = w
  BY <1>1 DEF TH!SetImage
<1>3. N \in SUBSET TH!Page
  OBVIOUS
<1>4. /\ TH!ThumbsSound(w) /\ w.loaded = u.loaded \cup N
      /\ \A p \in TH!Page : w.task[p] = IF p \in N THEN "none" ELSE u.task[p]
  BY <1>3, ThumbPage
<1> HIDE DEF w
<1>5. ASSUME large PROVE TH!ThumbsSound(TH!ConvertCanvasToImage(w, order, FALSE))
  <2>1. order \in Seq(TH!Page)
    <3>1. order \in [1 .. Cardinality(P) -> TH!Page]
      BY <1>1
    <3>2. CASE Cardinality(P) \in Nat
      BY <3>1, <3>2
    <3>3. Cardinality(P) \in Nat
      <4>1. IsFiniteSet(TH!Page)
        BY ThumbsAssumption, FS_Interval DEF TH!Page
      <4>2. IsFiniteSet(P)
        BY <4>1, FS_Subset
      <4> QED BY <4>2, FS_CardinalityType
    <3> QED BY <3>2, <3>3
  <2>2. ASSUME NEW p \in P PROVE p \in w.loaded /\ w.task[p] = "none"
    <3>1. u.task[p] = "none"
      <4>1. TH!ThumbSound(u, p) /\ u.rs[p] = "INITIAL" /\ u.task \in [TH!Page -> {"none", "running", "held"}]
        BY ThumbShape DEF TH!ThumbsSound
      <4> QED BY <4>1 DEF TH!ThumbSound
    <3> QED BY <3>1, <1>4
  <2>3. TH!Shape(w) /\ \A p \in TH!Page \ TH!Range(order) : TH!ThumbSound(w, p)
    BY <1>4 DEF TH!ThumbsSound
  <2> QED BY <2>1, <2>2, <2>3, <1>1, ThumbConvert
<1> QED BY <1>2, <1>4, <1>5

(* The state in which a user's event counts. *)
LEMMA ThumbActed ==
  ASSUME TH!IInv
  PROVE  LET u == TH!Acted
         IN  /\ DOMAIN u = ThumbFields /\ u.rs = st.rs /\ u.task = st.task /\ u.image = st.image /\ u.loaded = st.loaded
             /\ u.loads = st.loads /\ u.blobs = st.blobs /\ u.rot = st.rot /\ u.visible = st.visible /\ u.busy = st.busy
             /\ u.canvases = st.canvases
<1>1. DOMAIN st = ThumbFields
  BY ThumbShape DEF TH!IInv, TH!ThumbsSound
<1> QED BY <1>1 DEF TH!Acted, ThumbFields

(* What a state has to agree on to be sound when the queue is asked. *)
LEMMA ThumbLike ==
  ASSUME TH!IInv, NEW w, DOMAIN w = ThumbFields, w.rs = st.rs, w.task = st.task, w.image = st.image, w.loaded = st.loaded,
         w.loads = st.loads, w.blobs = st.blobs, w.rot = st.rot, w.visible \in ThumbViews, w.busy \in TH!Page \cup {0},
         w.canvases \subseteq TH!Page
  PROVE  TH!ThumbsSound(w)
<1>1. TH!ThumbsSound(st) /\ TH!Shape(st)
  BY DEF TH!IInv, TH!ThumbsSound
<1>2. TH!Shape(w)
  BY <1>1, ThumbShape
<1> QED BY <1>1, <1>2, ThumbSame

(* The viewer has drawn a page. *)
LEMMA ThumbsPageDrawn ==
  ASSUME TH!IInv, NEW large \in BOOLEAN, TH!PageDrawn(large), st.busy \in TH!Page
  PROVE  TH!IInv'
<1> DEFINE u == [st EXCEPT !.canvases = @ \cup {st.busy}, !.busy = 0]
           P == IF st.enabled THEN TH!Fresh(u, {st.busy}) ELSE {}
<1>1. DOMAIN st = ThumbFields /\ st.canvases \subseteq TH!Page /\ st.visible \in ThumbViews
  BY ThumbShape DEF TH!IInv, TH!ThumbsSound
<1>2. PICK order \in TH!Orders(P) : st' = TH!Render(TH!SetImage(u, order, large))
  BY DEF TH!PageDrawn
<1>3. /\ DOMAIN u = ThumbFields /\ u.rs = st.rs /\ u.task = st.task /\ u.image = st.image /\ u.loaded = st.loaded
      /\ u.loads = st.loads /\ u.blobs = st.blobs /\ u.rot = st.rot /\ u.visible = st.visible /\ u.busy = 0
      /\ u.canvases = st.canvases \cup {st.busy}
  BY <1>1 DEF ThumbFields
<1>4. P \in SUBSET TH!Page /\ \A p \in P : u.rs[p] = "INITIAL"
  BY DEF TH!Fresh
<1> HIDE DEF u, P
<1>5. TH!ThumbsSound(u)
  BY <1>1, <1>3, ThumbLike
<1>6. TH!ThumbsSound(TH!SetImage(u, order, large))
  BY <1>2, <1>4, <1>5, ThumbImages
<1> QED BY <1>2, <1>6, ThumbForced DEF TH!IInv

(* The sidebar is opened. *)
LEMMA ThumbsShow ==
  ASSUME TH!IInv, NEW large \in BOOLEAN, TH!ShowThumbnails(large)
  PROVE  TH!IInv'
<1> DEFINE u == [TH!Acted EXCEPT !.enabled = TRUE]
           P == TH!Fresh(st, TH!Page)
<1>1. st.canvases \subseteq TH!Page /\ st.visible \in ThumbViews /\ st.busy \in TH!Page \cup {0}
  BY ThumbShape DEF TH!IInv, TH!ThumbsSound
<1>2. PICK order \in TH!Orders(P) : st' = TH!Render(TH!SetImage(u, order, large))
  BY DEF TH!ShowThumbnails
<1>3. /\ DOMAIN u = ThumbFields /\ u.rs = st.rs /\ u.task = st.task /\ u.image = st.image /\ u.loaded = st.loaded
      /\ u.loads = st.loads /\ u.blobs = st.blobs /\ u.rot = st.rot /\ u.visible = st.visible /\ u.busy = st.busy
      /\ u.canvases = st.canvases
  BY ThumbActed DEF ThumbFields
<1>4. P \in SUBSET TH!Page /\ \A p \in P : u.rs[p] = "INITIAL"
  BY <1>3 DEF TH!Fresh
<1> HIDE DEF u, P
<1>5. TH!ThumbsSound(u)
  BY <1>1, <1>3, ThumbLike
<1>6. TH!ThumbsSound(TH!SetImage(u, order, large))
  BY <1>2, <1>4, <1>5, ThumbImages
<1> QED BY <1>2, <1>6, ThumbForced DEF TH!IInv

(* Pages or thumbnails are scrolled, or the sidebar is closed. *)
LEMMA ThumbsScroll ==
  ASSUME TH!IInv,
         \/ \E p \in TH!Page : TH!ScrollPages(p)
         \/ \E v \in ThumbViews : TH!ScrollThumbnails(v)
         \/ TH!HideThumbnails
  PROVE  TH!IInv'
<1>1. st.canvases \subseteq TH!Page /\ st.visible \in ThumbViews /\ st.busy \in TH!Page \cup {0} /\ TH!Page \subseteq Nat
  BY ThumbShape, ThumbsAssumption DEF TH!IInv, TH!ThumbsSound, TH!Page
<1>2. ASSUME NEW p \in TH!Page, TH!ScrollPages(p) PROVE TH!IInv'
  <2> DEFINE u == [TH!Acted EXCEPT !.busy = p]
  <2>1. st' = TH!Render(u)
    BY <1>2 DEF TH!ScrollPages
  <2>2. /\ DOMAIN u = ThumbFields /\ u.rs = st.rs /\ u.task = st.task /\ u.image = st.image /\ u.loaded = st.loaded
        /\ u.loads = st.loads /\ u.blobs = st.blobs /\ u.rot = st.rot /\ u.visible = st.visible /\ u.busy = p
        /\ u.canvases = st.canvases
    BY ThumbActed DEF ThumbFields
  <2> HIDE DEF u
  <2>3. TH!ThumbsSound(u)
    BY <1>1, <2>2, ThumbLike
  <2> QED BY <2>1, <2>3, ThumbForced DEF TH!IInv
<1>3. ASSUME NEW v \in ThumbViews, TH!ScrollThumbnails(v) PROVE TH!IInv'
  <2> DEFINE u == [TH!Acted EXCEPT !.visible = v]
  <2>1. st' = TH!Render(u)
    BY <1>3 DEF TH!ScrollThumbnails
  <2>2. /\ DOMAIN u = ThumbFields /\ u.rs = st.rs /\ u.task = st.task /\ u.image = st.image /\ u.loaded = st.loaded
        /\ u.loads = st.loads /\ u.blobs = st.blobs /\ u.rot = st.rot /\ u.visible = v /\ u.busy = st.busy
        /\ u.canvases = st.canvases
    BY ThumbActed DEF ThumbFields
  <2> HIDE DEF u
  <2>3. TH!ThumbsSound(u)
    BY <1>1, <2>2, ThumbLike
  <2> QED BY <2>1, <2>3, ThumbForced DEF TH!IInv
<1>4. ASSUME TH!HideThumbnails PROVE TH!IInv'
  <2> DEFINE u == [TH!Acted EXCEPT !.enabled = FALSE]
  <2>1. st' = TH!Render(u)
    BY <1>4 DEF TH!HideThumbnails
  <2>2. /\ DOMAIN u = ThumbFields /\ u.rs = st.rs /\ u.task = st.task /\ u.image = st.image /\ u.loaded = st.loaded
        /\ u.loads = st.loads /\ u.blobs = st.blobs /\ u.rot = st.rot /\ u.visible = st.visible /\ u.busy = st.busy
        /\ u.canvases = st.canvases
    BY ThumbActed DEF ThumbFields
  <2> HIDE DEF u
  <2>3. TH!ThumbsSound(u)
    BY <1>1, <2>2, ThumbLike
  <2> QED BY <2>1, <2>3, ThumbForced DEF TH!IInv
<1> QED BY <1>2, <1>3, <1>4

(* Pages are rotated: no thumbnail is finished any more. *)
LEMMA ThumbsRotate ==
  ASSUME TH!IInv, TH!Rotate
  PROVE  TH!IInv'
<1> DEFINE u == [TH!Acted EXCEPT !.rot = @ + 1, !.canvases = {}, !.busy = IF @ = 0 THEN 1 ELSE @]
<1>1. TH!Shape(st) /\ st.busy \in TH!Page \cup {0} /\ st.rot \in Nat /\ st' = TH!Render(TH!Reset(u, TH!Page))
  BY ThumbShape DEF TH!IInv, TH!ThumbsSound, TH!Rotate, TH!Update
<1>2. /\ DOMAIN u = ThumbFields /\ u.rs = st.rs /\ u.task = st.task /\ u.image = st.image /\ u.loaded = st.loaded
      /\ u.loads = st.loads /\ u.blobs = st.blobs /\ u.rot = st.rot + 1 /\ u.visible = st.visible
      /\ u.busy = (IF st.busy = 0 THEN 1 ELSE st.busy) /\ u.canvases = {}
  BY ThumbActed DEF ThumbFields
<1> HIDE DEF u
<1>3. u.rot \in Nat /\ u.busy \in TH!Page \cup {0}
  BY <1>1, <1>2, ThumbsAssumption DEF TH!Page
<1>4. TH!Shape(u)
  BY <1>1, <1>2, <1>3, ThumbShape
<1>5. TH!ThumbsSound(TH!Reset(u, TH!Page))
  BY <1>4, ThumbReset
<1> QED BY <1>1, <1>5, ThumbForced DEF TH!IInv

(* The idle timer: what is not finished is reset. *)
LEMMA ThumbsCleanup ==
  ASSUME TH!IInv, TH!Cleanup
  PROVE  TH!IInv'
<1> DEFINE u == [st EXCEPT !.idle = FALSE]
           P == {p \in TH!Page : st.rs[p] # "FINISHED"}
<1>1. DOMAIN st = ThumbFields /\ st.canvases \subseteq TH!Page /\ st.visible \in ThumbViews /\ st.busy \in TH!Page \cup {0}
      /\ st' = TH!Settle(TH!Reset(u, P))
  BY ThumbShape DEF TH!IInv, TH!ThumbsSound, TH!Cleanup
<1>2. /\ DOMAIN u = ThumbFields /\ u.rs = st.rs /\ u.task = st.task /\ u.image = st.image /\ u.loaded = st.loaded
      /\ u.loads = st.loads /\ u.blobs = st.blobs /\ u.rot = st.rot /\ u.visible = st.visible /\ u.busy = st.busy
      /\ u.canvases = st.canvases /\ u.idle = FALSE
  BY <1>1 DEF ThumbFields
<1>3. P \in SUBSET TH!Page
  OBVIOUS
<1> HIDE DEF u, P
<1>4. TH!ThumbsSound(u)
  BY <1>1, <1>2, ThumbLike
<1>5. TH!ThumbsSound(TH!Reset(u, P)) /\ TH!Reset(u, P).idle = FALSE
  BY <1>2, <1>3, <1>4, ThumbReset DEF TH!ThumbsSound
<1> QED BY <1>1, <1>5, ThumbSettle DEF TH!IInv, TH!IdleSound

(* The user stops: nothing else changes. *)
LEMMA ThumbsRest ==
  ASSUME TH!IInv, TH!Rest
  PROVE  TH!IInv'
<1> DEFINE u == [st EXCEPT !.quiet = TRUE]
<1>1. DOMAIN st = ThumbFields /\ st.canvases \subseteq TH!Page /\ st.visible \in ThumbViews /\ st.busy \in TH!Page \cup {0}
      /\ st' = u /\ TH!IdleSound(st)
  BY ThumbShape DEF TH!IInv, TH!ThumbsSound, TH!Rest
<1>2. /\ DOMAIN u = ThumbFields /\ u.rs = st.rs /\ u.task = st.task /\ u.image = st.image /\ u.loaded = st.loaded
      /\ u.loads = st.loads /\ u.blobs = st.blobs /\ u.rot = st.rot /\ u.visible = st.visible /\ u.busy = st.busy
      /\ u.canvases = st.canvases /\ u.idle = st.idle /\ u.enabled = st.enabled
  BY <1>1 DEF ThumbFields
<1> HIDE DEF u
<1>3. TH!ThumbsSound(u)
  BY <1>1, <1>2, ThumbLike
<1>4. TH!IdleSound(u)
  BY <1>1, <1>2 DEF TH!IdleSound
<1> QED BY <1>1, <1>3, <1>4 DEF TH!IInv

(* Every step keeps the invariant of the thumbnails. *)
LEMMA ThumbsStep ==
  ASSUME TH!IInv, TH!Next
  PROVE  TH!IInv'
<1>1. CASE \E p \in TH!Page : TH!Loaded(p) \/ TH!Pause(p) \/ TH!Finish(p)
  BY <1>1, ThumbsLoaded, ThumbsPause, ThumbsFinish
<1>2. CASE \E large \in BOOLEAN : TH!PageDrawn(large) \/ TH!ShowThumbnails(large)
  <2>1. \A large \in BOOLEAN : TH!PageDrawn(large) => st.busy \in TH!Page
    BY ThumbShape DEF TH!PageDrawn, TH!IInv, TH!ThumbsSound
  <2> QED BY <1>2, <2>1, ThumbsPageDrawn, ThumbsShow
<1>3. CASE \/ \E p \in TH!Page : TH!ScrollPages(p)
           \/ \E v \in ThumbViews : TH!ScrollThumbnails(v)
           \/ TH!HideThumbnails
  BY <1>3, ThumbsScroll
<1>4. CASE TH!Encoded \/ TH!Rotate \/ TH!Cleanup \/ TH!Rest
  BY <1>4, ThumbsEncoded, ThumbsRotate, ThumbsCleanup, ThumbsRest
<1> QED BY <1>1, <1>2, <1>3, <1>4 DEF TH!Next

(* The invariant of the thumbnails has what is checked of them. *)
LEMMA ThumbsProps == TH!IInv => TH!ThumbIsUpright /\ TH!IdleIsFinished /\ TH!DrawingsAreKnown
<1> SUFFICES ASSUME TH!IInv PROVE TH!ThumbIsUpright /\ TH!IdleIsFinished /\ TH!DrawingsAreKnown
  OBVIOUS
<1>1. st.loaded \subseteq TH!Page /\ \A p \in TH!Page : TH!ThumbSound(st, p)
  BY ThumbShape DEF TH!IInv, TH!ThumbsSound
<1>2. TH!ThumbIsUpright
  BY <1>1 DEF TH!ThumbIsUpright, TH!ThumbSound, TH!Shows
<1>3. TH!IdleIsFinished
  BY DEF TH!IInv, TH!IdleSound, TH!IdleIsFinished
<1>4. TH!DrawingsAreKnown
  BY <1>1 DEF TH!DrawingsAreKnown, TH!ThumbSound
<1> QED BY <1>2, <1>3, <1>4

-----------------------------------------------------------------------------
(* PDFHistory: the entries of the browser and the state of the viewer. *)

(* An entry takes the place of another one; with its number, the order stays. *)
LEMMA HReplaced ==
  ASSUME NEW s \in Seq(HI!Entry), HI!Named(s), NEW i \in DOMAIN s, NEW e \in HI!Entry,
         e.dest.kind = "null" => i = 1 /\ e.uid = 0, HI!PageIsId(e.dest), NEW r, r = [s EXCEPT ![i] = e]
  PROVE  /\ r \in Seq(HI!Entry) /\ HI!Named(r) /\ DOMAIN r = DOMAIN s /\ r[i] = e
         /\ HI!Ordered(s) /\ e.uid = s[i].uid => HI!Ordered(r)
<1>1. r \in Seq(HI!Entry) /\ DOMAIN r = DOMAIN s /\ r[i] = e /\ \A j \in DOMAIN s : j # i => r[j] = s[j]
  OBVIOUS
<1>2. HI!Named(r)
  BY <1>1 DEF HI!Named
<1>3. ASSUME HI!Ordered(s), e.uid = s[i].uid PROVE HI!Ordered(r)
  <2>1. \A j \in DOMAIN s : r[j].uid = s[j].uid
    BY <1>1, <1>3
  <2>2. HI!Increasing(r)
    BY <1>1, <1>3, <2>1 DEF HI!Ordered, HI!Increasing
  <2>3. 1 \in DOMAIN s
    OBVIOUS
  <2> QED BY <1>3, <2>1, <2>2, <2>3 DEF HI!Ordered
<1> QED BY <1>1, <1>2, <1>3

HGrown(s, i, e, r) ==
  /\ r \in Seq(HI!Entry) /\ HI!Named(r) /\ DOMAIN r = 1 .. i + 1 /\ r[i + 1] = e
  /\ \A j \in 1 .. i : r[j] = s[j]
  /\ HI!Ordered(s) /\ s[i].uid < e.uid => HI!Ordered(r)

(* An entry after the current one; with a higher number, the order stays. *)
LEMMA HPushed ==
  ASSUME NEW s \in Seq(HI!Entry), HI!Named(s), NEW i \in DOMAIN s, NEW e \in HI!Entry,
         e.dest.kind # "null", HI!PageIsId(e.dest), NEW r, r = Append(SubSeq(s, 1, i), e)
  PROVE  HGrown(s, i, e, r)
<1>1. i \in 1 .. Len(s) /\ i \in Nat /\ i \in Int /\ 1 \in Int
  OBVIOUS
<1>a. \A j \in 1 .. i : s[j] \in HI!Entry
  BY <1>1
<1>b. /\ SubSeq(s, 1, i) \in Seq(HI!Entry) /\ Len(SubSeq(s, 1, i)) = (IF 1 <= i THEN i - 1 + 1 ELSE 0)
      /\ \A j \in 1 .. i - 1 + 1 : SubSeq(s, 1, i)[j] = s[1 + j - 1]
  BY <1>1, <1>a, SubSeqProperties
<1>2. PICK q \in Seq(HI!Entry) : q = SubSeq(s, 1, i)
  BY <1>b
<1>3. Len(q) = i /\ \A j \in 1 .. i : q[j] = s[j]
  BY <1>1, <1>2, <1>b
<1>4. r = Append(q, e)
  BY <1>2
<1>5. r \in Seq(HI!Entry) /\ DOMAIN r = 1 .. i + 1 /\ r[i + 1] = e /\ \A j \in 1 .. i : r[j] = s[j]
  BY <1>1, <1>3, <1>4
<1>6. \A j \in DOMAIN s : s[j].uid \in Nat
  <2> SUFFICES ASSUME NEW j \in DOMAIN s PROVE s[j].uid \in Nat
    OBVIOUS
  <2>1. s[j] \in HI!Entry
    OBVIOUS
  <2> QED BY <2>1 DEF HI!Entry
<1>c. e.uid \in Nat
  BY DEF HI!Entry
<1>7. ASSUME HI!Ordered(s), s[i].uid < e.uid PROVE HI!Increasing(r)
  <2> SUFFICES ASSUME NEW j \in 1 .. i + 1, NEW k \in 1 .. i + 1, j < k PROVE r[j].uid < r[k].uid
    BY <1>5 DEF HI!Increasing
  <2>1. j \in 1 .. i /\ j \in DOMAIN s /\ r[j] = s[j]
    BY <1>1, <1>5
  <2>2. CASE k = i + 1
    <3>1. s[j].uid <= s[i].uid
      <4>1. CASE j = i
        BY <1>6, <4>1
      <4>2. CASE j # i
        <5>1. j < i
          BY <1>1, <2>1, <4>2
        <5>2. s[j].uid < s[i].uid
          BY <1>7, <2>1, <5>1 DEF HI!Ordered, HI!Increasing
        <5> QED BY <1>6, <2>1, <5>2
      <4> QED BY <4>1, <4>2
    <3>2. s[j].uid \in Nat /\ s[i].uid \in Nat /\ r[k].uid = e.uid
      BY <1>5, <1>6, <2>1, <2>2
    <3>3. \A x, y, z \in Nat : x <= y /\ y < z => x < z
      OBVIOUS
    <3>4. s[j].uid < e.uid
      BY <1>7, <1>c, <3>1, <3>2, <3>3
    <3> QED BY <2>1, <3>2, <3>4
  <2>3. CASE k # i + 1
    <3>1. k \in 1 .. i /\ k \in DOMAIN s /\ r[k] = s[k]
      BY <1>1, <1>5, <2>3
    <3> QED BY <1>7, <2>1, <3>1 DEF HI!Ordered, HI!Increasing
  <2> QED BY <2>2, <2>3
<1>8. r[1] = s[1]
  BY <1>1, <1>5
<1>9. HI!Named(r)
  <2> SUFFICES ASSUME NEW j \in 1 .. i + 1
               PROVE  (r[j].dest.kind = "null" => j = 1 /\ r[j].uid = 0) /\ HI!PageIsId(r[j].dest)
    BY <1>5 DEF HI!Named
  <2>1. CASE j = i + 1
    BY <1>5, <2>1
  <2>2. CASE j # i + 1
    <3>1. j \in 1 .. i /\ j \in DOMAIN s
      BY <1>1, <2>2
    <3> QED BY <1>5, <3>1 DEF HI!Named
  <2> QED BY <2>1, <2>2
<1> QED BY <1>5, <1>7, <1>8, <1>9 DEF HI!Ordered, HGrown

HUpdated(g, d, uid, r) ==
  /\ r \in HI!State
  /\ r.dest = d /\ r.uid = uid /\ r.stack = g.stack /\ r.at = g.at /\ r.going = g.going /\ r.own = g.own
  /\ r.pos = g.pos /\ r.lost = g.lost /\ r.jump = g.jump

(* #updateInternalState sets destination and number and forgets no higher number. *)
LEMMA HUpdate ==
  ASSUME NEW g \in HI!State, NEW d \in HI!Target, NEW uid \in Nat, NEW r, r = HI!UpdateInternalState(g, d, uid)
  PROVE  HUpdated(g, d, uid, r)
<1>1. PICK m \in Nat : m = IF uid > g.maxUid THEN uid ELSE g.maxUid
  BY DEF HI!State
<1>2. r = [g EXCEPT !.dest = d, !.uid = uid, !.maxUid = m, !.updates = 0, !.timer = FALSE]
  BY <1>1 DEF HI!UpdateInternalState
<1>3. r \in HI!State
  BY <1>2, 0 \in Nat, ZenonT(60) DEF HI!State
<1> QED BY <1>2, <1>3 DEF HI!State, HUpdated

HTargeted(k, p, d) == d \in HI!Target /\ HI!PageIsId(d) /\ d.kind = k /\ d.page = p /\ d.id = p

(* A destination made from its parts is one. *)
LEMMA HTarget ==
  ASSUME NEW k \in HI!Kind, NEW p \in HI!MaybePage
  PROVE  HTargeted(k, p, HI!Dest(k, p))
BY DEF HI!Dest, HI!Target, HI!PageIsId, HI!MaybePlace, HTargeted

(* So is a position. *)
LEMMA HPosition ==
  ASSUME NEW k \in HI!Kind, NEW p \in HI!MaybePage, NEW w \in HI!MaybePlace, NEW b \in BOOLEAN,
         NEW d, d = [HI!Dest(k, p) EXCEPT !.place = w, !.temporary = b]
  PROVE  HTargeted(k, p, d)
BY DEF HI!Dest, HI!Target, HI!PageIsId, HTargeted

(* The number of the current entry is the internal one, or zero. *)
LEMMA HNumber ==
  ASSUME NEW g, HI!Sound(g)
  PROVE  g.stack[g.at].uid = g.uid \/ (HI!Astray(g) /\ g.stack[g.at].uid = 0)
BY DEF HI!Sound, HI!IsCurrent, HI!Astray, HI!Named

HPushes(g, d, f, r) ==
  /\ HI!Sound(r) /\ r.dest = d /\ r.pos = g.pos /\ r.jump = g.jump /\ r.going = g.going
  /\ r.stack[r.at].dest = d
  /\ f \/ g.dest.kind = "null" => r.at = g.at /\ r.uid = g.uid
  /\ ~(f \/ g.dest.kind = "null") => r.at = g.at + 1 /\ r.uid = g.uid + 1 /\ r.stack[g.at] = g.stack[g.at]

(* #pushOrReplaceState: the internal state becomes that of the current entry. *)
LEMMA HPush ==
  ASSUME NEW g, HI!Sound(g), NEW d \in HI!Target, d.kind # "null", HI!PageIsId(d), NEW f \in BOOLEAN,
         NEW r, r = HI!PushOrReplace(g, d, f)
  PROVE  HPushes(g, d, f, r)
<1>1. /\ g \in HI!State /\ g.at \in DOMAIN g.stack /\ HI!Named(g.stack)
      /\ ~g.lost => HI!Ordered(g.stack) /\ HI!BackStays(g)
  BY DEF HI!Sound
<1>2. PICK s \in Seq(HI!Entry) : s = g.stack
  BY <1>1 DEF HI!State
<1>a. PICK a \in Nat : a = g.at
  BY <1>1 DEF HI!State
<1>b. PICK k \in Nat : k = g.uid
  BY <1>1 DEF HI!State
<1>c. PICK n \in BOOLEAN : n = g.lost
  BY <1>1 DEF HI!State
<1>3. a \in DOMAIN s /\ HI!Named(s) /\ (~n => HI!Ordered(s) /\ HI!BackStays(g))
  BY <1>1, <1>2, <1>a, <1>c
<1>d. s[a].uid = k \/ (HI!Astray(g) /\ s[a].uid = 0)
  BY <1>2, <1>a, <1>b, HNumber
<1>4. CASE f \/ g.dest.kind = "null"
  <2>0. PICK l \in BOOLEAN : l = (n \/ HI!Astray(g))
    BY DEF HI!Astray
  <2>1. PICK e \in HI!Entry : e = [uid |-> k, dest |-> d]
    BY <1>b DEF HI!Entry
  <2>a. e.uid = k /\ e.dest = d
    BY <2>1
  <2>2. PICK q : q = [s EXCEPT ![a] = e]
    OBVIOUS
  <2>3. q \in Seq(HI!Entry) /\ HI!Named(q) /\ DOMAIN q = DOMAIN s /\ q[a] = e /\ (~l => HI!Ordered(q))
    <3>1. /\ q \in Seq(HI!Entry) /\ HI!Named(q) /\ DOMAIN q = DOMAIN s /\ q[a] = e
          /\ HI!Ordered(s) /\ e.uid = s[a].uid => HI!Ordered(q)
      BY <1>3, <2>a, <2>2, HReplaced
    <3> QED BY <1>3, <1>d, <2>0, <2>a, <3>1
  <2>4. PICK w : w = HI!UpdateInternalState(g, d, k)
    OBVIOUS
  <2>b. HUpdated(g, d, k, w)
    BY <1>1, <2>4, HUpdate
  <2>6. r = [w EXCEPT !.lost = l, !.at = a, !.stack = q]
    <3>1. w.lost = n
      BY <1>c, <2>b DEF HUpdated
    <3>2. w.stack = s
      BY <1>2, <2>b DEF HUpdated
    <3> QED BY <1>4, <1>a, <1>b, <2>0, <2>1, <2>2, <2>4, <3>1, <3>2 DEF HI!PushOrReplace
  <2>7. r \in HI!State
    BY <2>3, <2>b, <2>6 DEF HI!State, HUpdated
  <2>8. /\ r.dest = d /\ r.uid = k /\ r.stack = q /\ r.at = a /\ r.going = g.going
        /\ r.own = g.own /\ r.pos = g.pos /\ r.lost = l /\ r.jump = g.jump
    BY <2>b, <2>6 DEF HI!State, HUpdated
  <2>9. ~r.lost => HI!BackStays(r)
    BY <1>3, <1>a, <2>0, <2>8 DEF HI!BackStays
  <2>10. HI!IsCurrent(r, r.stack[r.at]) /\ r.stack[r.at].dest = d
    BY <2>a, <2>3, <2>8 DEF HI!IsCurrent
  <2>11. HI!Sound(r)
    BY <1>3, <2>3, <2>7, <2>8, <2>9, <2>10 DEF HI!Sound
  <2> QED BY <1>4, <1>a, <1>b, <2>8, <2>10, <2>11 DEF HPushes
<1>5. CASE ~(f \/ g.dest.kind = "null")
  <2>0. PICK m \in Nat : m = k + 1
    OBVIOUS
  <2>1. PICK e \in HI!Entry : e = [uid |-> m, dest |-> d]
    BY DEF HI!Entry
  <2>a. e.uid = m /\ e.dest = d /\ s[a].uid < m
    BY <1>d, <2>0, <2>1
  <2>2. PICK q : q = Append(SubSeq(s, 1, a), e)
    OBVIOUS
  <2>c. e.dest.kind # "null" /\ HI!PageIsId(e.dest)
    BY <2>a
  <2>d. HGrown(s, a, e, q)
    BY <1>3, <2>c, <2>2, HPushed
  <2>3. /\ q \in Seq(HI!Entry) /\ HI!Named(q) /\ DOMAIN q = 1 .. a + 1 /\ q[a + 1] = e
        /\ \A j \in 1 .. a : q[j] = s[j]
        /\ ~n => HI!Ordered(q)
    BY <1>3, <2>a, <2>d DEF HGrown
  <2>4. PICK w : w = HI!UpdateInternalState(g, d, m)
    OBVIOUS
  <2>b. HUpdated(g, d, m, w)
    BY <1>1, <2>4, HUpdate
  <2>6. PICK i \in Nat : i = a + 1
    OBVIOUS
  <2>7. r = [w EXCEPT !.lost = n, !.at = i, !.stack = q]
    <3>1. w.lost = n
      BY <1>c, <2>b DEF HUpdated
    <3>2. w.stack = s
      BY <1>2, <2>b DEF HUpdated
    <3> QED BY <1>2, <1>5, <1>a, <1>b, <2>0, <2>1, <2>2, <2>4, <2>6, <3>1, <3>2 DEF HI!PushOrReplace
  <2>8. r \in HI!State
    BY <2>3, <2>b, <2>6, <2>7 DEF HI!State, HUpdated
  <2>9. /\ r.dest = d /\ r.uid = m /\ r.stack = q /\ r.at = i /\ r.going = g.going
        /\ r.own = g.own /\ r.pos = g.pos /\ r.lost = n /\ r.jump = g.jump
    BY <2>b, <2>7 DEF HI!State, HUpdated
  <2>10. ~r.lost => HI!BackStays(r)
    BY <1>3, <1>a, <2>6, <2>9 DEF HI!BackStays
  <2>11. HI!IsCurrent(r, r.stack[r.at]) /\ r.stack[r.at].dest = d
    BY <2>a, <2>3, <2>6, <2>9 DEF HI!IsCurrent
  <2>12. q[a] = s[a] /\ i \in DOMAIN q
    BY <1>3, <2>3, <2>6
  <2>13. HI!Sound(r)
    BY <2>3, <2>8, <2>9, <2>10, <2>11, <2>12 DEF HI!Sound
  <2> QED BY <1>2, <1>5, <1>a, <1>b, <2>0, <2>6, <2>9, <2>11, <2>12, <2>13 DEF HPushes
<1> QED BY <1>4, <1>5

HTried(g, r) ==
  /\ HI!Sound(r) /\ r.pos = g.pos /\ r.jump = g.jump /\ r.going = g.going
  /\ r = g \/ (r.dest.kind = "pos" /\ ~HI!Astray(r))
  /\ ~HI!Astray(g) /\ g.pos # 0 /\ (g.dest.page # 0 \/ g.dest.kind = "null" \/ g.updates > Threshold) => r.stack[r.at].dest.page = g.pos

(* #tryPushCurrentPosition keeps the invariant, and leads back to the page in view. *)
LEMMA HTryPush ==
  ASSUME NEW g, HI!Sound(g), NEW t \in BOOLEAN, NEW r, r = HI!TryPush(g, t)
  PROVE  HTried(g, r)
<1>1. g \in HI!State /\ g.pos \in HI!MaybePage /\ g.place \in HI!MaybePlace
  BY DEF HI!Sound, HI!State
<1>a. "pos" \in HI!Kind
  BY DEF HI!Kind
<1>2. PICK d : d = [HI!Dest("pos", g.pos) EXCEPT !.place = g.place, !.temporary = t]
  OBVIOUS
<1>b. HTargeted("pos", g.pos, d)
  BY <1>1, <1>a, <1>2, HPosition
<1>3. d \in HI!Target /\ HI!PageIsId(d) /\ d.kind = "pos" /\ d.page = g.pos
  BY <1>b DEF HTargeted
<1>4. d.kind # "null"
  BY <1>3
<1>5. CASE r = g
  <2>1. SUFFICES ASSUME ~HI!Astray(g), g.pos # 0, g.dest.page # 0 \/ g.dest.kind = "null" \/ g.updates > Threshold
                 PROVE  g.stack[g.at].dest.page = g.pos
    BY <1>5 DEF HTried
  <2>2. CASE g.dest.kind = "null" \/ g.dest.temporary
    <3>1. PICK f \in BOOLEAN : r = HI!PushOrReplace(g, d, f)
      BY <1>2, <2>1, <2>2 DEF HI!TryPush
    <3>2. HPushes(g, d, f, r)
      BY <1>3, <1>4, <3>1, HPush
    <3> QED BY <1>3, <1>5, <3>2 DEF HPushes
  <2>3. CASE ~(g.dest.kind = "null" \/ g.dest.temporary)
    <3>1. g.dest.temporary \in BOOLEAN /\ g.dest \in HI!Target /\ g.updates \in Nat
      BY <1>1 DEF HI!State, HI!Target
    <3>2. \/ g.dest.kind = "pos" /\ g.dest.id = g.pos
          \/ g.dest.page = 0 /\ g.updates <= Threshold
          \/ g.dest.page = g.pos
          \/ r = HI!PushOrReplace(g, d, g.dest.page = g.pos)
      BY <1>2, <2>1, <2>3 DEF HI!TryPush
    <3>3. CASE g.dest.kind = "pos" /\ g.dest.id = g.pos
      <4>1. g.stack[g.at].dest.kind = "pos" /\ g.stack[g.at].dest.id = g.pos /\ HI!PageIsId(g.stack[g.at].dest)
        BY <2>1, <3>3 DEF HI!Sound, HI!IsCurrent, HI!Named
      <4> QED BY <4>1 DEF HI!PageIsId
    <3>4. CASE g.dest.page = 0 /\ g.updates <= Threshold
      BY <2>1, <2>3, <3>1, <3>4, HistoryAssumption
    <3>5. CASE g.dest.page = g.pos
      BY <2>1, <3>5 DEF HI!Sound
    <3>6. CASE r = HI!PushOrReplace(g, d, g.dest.page = g.pos)
      <4>1. PICK f \in BOOLEAN : f = (g.dest.page = g.pos)
        OBVIOUS
      <4>2. HPushes(g, d, f, r)
        BY <1>3, <1>4, <3>6, <4>1, HPush
      <4> QED BY <1>3, <1>5, <4>2 DEF HPushes
    <3> QED BY <3>2, <3>3, <3>4, <3>5, <3>6
  <2> QED BY <2>2, <2>3
<1>6. CASE r # g
  <2>1. PICK f \in BOOLEAN : r = HI!PushOrReplace(g, d, f)
    <3>1. PICK c \in BOOLEAN : c = (g.dest.page = g.pos)
      OBVIOUS
    <3> QED BY <1>2, <1>6, <3>1 DEF HI!TryPush
  <2>2. HPushes(g, d, f, r)
    BY <1>3, <1>4, <2>1, HPush
  <2>3. ~HI!Astray(r)
    BY <1>4, <2>2 DEF HPushes, HI!Astray
  <2> QED BY <1>3, <2>2, <2>3 DEF HPushes, HTried
<1> QED BY <1>5, <1>6

HDone(g, r) ==
  /\ HI!Sound(r) /\ r.pos = g.pos /\ r.jump = g.jump /\ r.going = g.going
  /\ r.uid # g.uid => r.stack[r.at - 1] = g.stack[g.at]
  /\ g.dest.kind = "pos" => r.dest.kind # "dest" \/ r.uid # g.uid

(* push of a destination keeps the invariant. *)
LEMMA HDestination ==
  ASSUME NEW g, HI!Sound(g), NEW p \in HI!Page, NEW r, r = HI!PushDest(g, p)
  PROVE  HDone(g, r)
<1>1. PICK d : d = HI!Dest("dest", p)
  OBVIOUS
<1>a. "dest" \in HI!Kind /\ p \in HI!MaybePage
  BY DEF HI!Kind, HI!MaybePage
<1>2. HTargeted("dest", p, d)
  BY <1>1, <1>a, HTarget
<1>3. d \in HI!Target /\ HI!PageIsId(d) /\ d.kind # "null"
  BY <1>2 DEF HTargeted
<1>4. g.at \in Nat /\ g.uid \in Nat
  BY DEF HI!Sound, HI!State
<1>5. CASE r = g
  BY <1>5, <1>2, <1>1 DEF HDone, HI!PushDest
<1>6. CASE r # g
  <2>1. PICK f \in BOOLEAN : r = HI!PushOrReplace(g, d, f) /\ (f => g.dest.kind = "dest")
    BY <1>1, <1>6 DEF HI!PushDest
  <2>2. HPushes(g, d, f, r)
    BY <1>3, <2>1, HPush
  <2>3. r.uid # g.uid => r.stack[r.at - 1] = g.stack[g.at]
    BY <1>4, <2>2 DEF HPushes
  <2>4. g.dest.kind = "pos" => r.uid # g.uid
    BY <1>4, <2>1, <2>2 DEF HPushes
  <2> QED BY <2>2, <2>3, <2>4 DEF HPushes, HDone
<1> QED BY <1>5, <1>6

(* pushPage keeps the invariant. *)
LEMMA HPage ==
  ASSUME NEW g, HI!Sound(g), NEW p \in HI!Page, NEW r, r = HI!PushPage(g, p)
  PROVE  HI!Sound(r) /\ (r = g \/ r.dest.kind = "page")
<1>1. PICK d : d = HI!Dest("page", p)
  OBVIOUS
<1>a. "page" \in HI!Kind /\ p \in HI!MaybePage
  BY DEF HI!Kind, HI!MaybePage
<1>2. HTargeted("page", p, d)
  BY <1>1, <1>a, HTarget
<1>3. d \in HI!Target /\ HI!PageIsId(d) /\ d.kind # "null" /\ d.kind = "page"
  BY <1>2 DEF HTargeted
<1>5. CASE r = g
  BY <1>5
<1>6. CASE r # g
  <2>1. r = HI!PushOrReplace(g, d, FALSE)
    BY <1>1, <1>6 DEF HI!PushPage
  <2>2. HPushes(g, d, FALSE, r)
    BY <1>3, <2>1, HPush
  <2> QED BY <1>3, <2>2 DEF HPushes
<1> QED BY <1>5, <1>6

(* What a field does that the invariant does not speak of. *)
LEMMA HOther ==
  ASSUME NEW g, HI!Sound(g), NEW r \in HI!State, r.stack = g.stack, r.at = g.at, r.dest = g.dest, r.uid = g.uid,
         r.lost = g.lost, ~g.lost => HI!BackStays(r)
  PROVE  HI!Sound(r)
BY DEF HI!Sound, HI!IsCurrent, HI!Astray

(* A jump keeps the invariant and leaves an entry that leads back. *)
LEMMA HArrive ==
  ASSUME NEW g, HI!Sound(g), NEW p \in HI!Page, NEW r, r = HI!Arrive(g, p)
  PROVE  /\ HI!Sound(r)
         /\ /\ r.dest.kind = "dest" /\ r.uid > g.uid
            /\ ~HI!Astray(g) /\ g.pos # 0 /\ (g.dest.page # 0 \/ g.dest.kind = "null" \/ g.updates > Threshold)
            => r.stack[r.at - 1].dest.page = g.pos
<1>1. PICK t : t = HI!TryPush(g, FALSE)
  OBVIOUS
<1>2. HTried(g, t)
  BY <1>1, HTryPush
<1>3. PICK w : w = HI!PushDest(t, p)
  OBVIOUS
<1>4. HDone(t, w)
  BY <1>2, <1>3, HDestination DEF HTried
<1>5. w \in HI!State /\ 0 \in HI!MaybePage /\ (~w.lost => HI!BackStays(w))
  BY <1>4 DEF HDone, HI!Sound, HI!MaybePage
<1>6. r = [w EXCEPT !.jump = 0]
  BY <1>1, <1>3 DEF HI!Arrive
<1>7. r \in HI!State
  BY <1>5, <1>6 DEF HI!State
<1>8. /\ r.stack = w.stack /\ r.at = w.at /\ r.dest = w.dest /\ r.uid = w.uid /\ r.lost = w.lost
      /\ r.own = w.own /\ r.going = w.going
  BY <1>5, <1>6 DEF HI!State
<1>9. HI!Sound(r)
  <2>1. ~w.lost => HI!BackStays(r)
    BY <1>5, <1>8 DEF HI!BackStays
  <2> QED BY <1>4, <1>7, <1>8, <2>1, HOther DEF HDone
<1>10. ASSUME r.dest.kind = "dest", r.uid > g.uid, ~HI!Astray(g), g.pos # 0, g.dest.page # 0 \/ g.dest.kind = "null" \/ g.updates > Threshold
       PROVE  r.stack[r.at - 1].dest.page = g.pos
  <2>1. t.stack[t.at].dest.page = g.pos
    BY <1>2, <1>10 DEF HTried
  <2>2. w.uid # t.uid
    <3>1. CASE t = g
      <4>1. g.uid \in Nat
        BY DEF HI!Sound, HI!State
      <4> QED BY <1>8, <1>10, <3>1, <4>1
    <3>2. CASE t # g
      BY <1>2, <1>4, <1>8, <1>10, <3>2 DEF HTried, HDone
    <3> QED BY <3>1, <3>2
  <2> QED BY <1>4, <1>8, <2>1, <2>2 DEF HDone
<1> QED BY <1>9, <1>10

(* A step that keeps the invariant and is not a jump, or one that can be undone. *)
HKept == HI!Sound(st') /\ HI!JumpIsUndoable

(* GoToDestination keeps the invariant. *)
LEMMA HGoToDestination ==
  ASSUME HI!Sound(st), NEW p \in HI!Page, HI!GoToDestination(p) PROVE HKept
<1>1. CASE p \in CachedPages
  <2>1. st' = HI!Arrive(st, p)
    BY <1>1 DEF HI!GoToDestination
  <2> QED BY <2>1, HArrive DEF HKept, HI!JumpIsUndoable
<1>2. CASE p \notin CachedPages
  <2>1. st \in HI!State /\ p \in HI!MaybePage /\ st' = [st EXCEPT !.jump = p]
    BY <1>2 DEF HI!GoToDestination, HI!Sound, HI!MaybePage
  <2>2. st' \in HI!State
    BY <2>1 DEF HI!State
  <2>3. /\ st'.stack = st.stack /\ st'.at = st.at /\ st'.dest = st.dest /\ st'.uid = st.uid /\ st'.lost = st.lost
        /\ st'.own = st.own /\ st'.going = st.going
    BY <2>1 DEF HI!State
  <2>4. (~st.lost => HI!BackStays(st')) /\ st.uid \in Nat
    BY <2>1, <2>3 DEF HI!Sound, HI!BackStays, HI!State
  <2>5. HI!Sound(st')
    BY <2>2, <2>3, <2>4, HOther
  <2> QED BY <2>3, <2>4, <2>5 DEF HKept, HI!JumpIsUndoable
<1> QED BY <1>1, <1>2

(* PageIndex keeps the invariant. *)
LEMMA HPageIndex ==
  ASSUME HI!Sound(st), HI!PageIndex PROVE HKept
<1>1. st.jump \in HI!Page /\ st' = HI!Arrive(st, st.jump)
  BY DEF HI!PageIndex, HI!Sound, HI!State, HI!MaybePage
<1> QED BY <1>1, HArrive DEF HKept, HI!JumpIsUndoable

(* GoToPage keeps the invariant. *)
LEMMA HGoToPage ==
  ASSUME HI!Sound(st), NEW p \in HI!Page, HI!GoToPage(p) PROVE HKept
<1>1. PICK t : t = HI!TryPush(st, FALSE)
  OBVIOUS
<1>2. HTried(st, t)
  BY <1>1, HTryPush
<1>3. st' = HI!PushPage(t, p)
  BY <1>1 DEF HI!GoToPage
<1>4. HI!Sound(st') /\ (st' = t \/ st'.dest.kind = "page")
  BY <1>2, <1>3, HPage DEF HTried
<1>5. st.uid \in Nat
  BY DEF HI!Sound, HI!State
<1>6. st'.dest.kind = "dest" => st' = st
  BY <1>2, <1>4 DEF HTried
<1> QED BY <1>4, <1>5, <1>6 DEF HKept, HI!JumpIsUndoable

(* UpdateViewarea keeps the invariant. *)
LEMMA HUpdateViewarea ==
  ASSUME HI!Sound(st), NEW p \in HI!Page, NEW l \in HI!Place(p), HI!UpdateViewarea(p, l) PROVE HKept
<1>1. st \in HI!State /\ p \in HI!MaybePage /\ l \in HI!MaybePlace
  BY DEF HI!Sound, HI!MaybePage, HI!MaybePlace, HI!Place
<1>2. PICK k \in Nat : k = IF st.dest.kind # "null" /\ st.dest.page = 0 /\ st.updates <= Threshold THEN st.updates + 1 ELSE st.updates
  BY <1>1 DEF HI!State
<1>3. st' = [st EXCEPT !.pos = p, !.place = l, !.timer = TRUE, !.updates = k]
  BY <1>2 DEF HI!UpdateViewarea
<1>4. st' \in HI!State
  BY <1>1, <1>3 DEF HI!State
<1>5. /\ st'.stack = st.stack /\ st'.at = st.at /\ st'.dest = st.dest /\ st'.uid = st.uid /\ st'.lost = st.lost
      /\ st'.own = st.own /\ st'.going = st.going
  BY <1>1, <1>3 DEF HI!State
<1>6. (~st.lost => HI!BackStays(st')) /\ st.uid \in Nat
  BY <1>1, <1>5 DEF HI!Sound, HI!BackStays, HI!State
<1>7. HI!Sound(st')
  BY <1>4, <1>5, <1>6, HOther
<1> QED BY <1>5, <1>6, <1>7 DEF HKept, HI!JumpIsUndoable

(* Timer keeps the invariant. *)
LEMMA HTimer ==
  ASSUME HI!Sound(st), HI!Timer PROVE HKept
<1>1. PICK t : t = HI!TryPush(st, TRUE)
  OBVIOUS
<1>2. HTried(st, t)
  BY <1>1, HTryPush
<1>3. t \in HI!State /\ HI!Sound(t) /\ st' = [t EXCEPT !.timer = FALSE]
  BY <1>1, <1>2 DEF HI!Timer, HTried, HI!Sound
<1>4. st' \in HI!State
  BY <1>3 DEF HI!State
<1>5. /\ st'.stack = t.stack /\ st'.at = t.at /\ st'.dest = t.dest /\ st'.uid = t.uid /\ st'.lost = t.lost
      /\ st'.own = t.own /\ st'.going = t.going
  BY <1>3 DEF HI!State
<1>6. (~t.lost => HI!BackStays(st')) /\ st.uid \in Nat
  BY <1>3, <1>5 DEF HI!Sound, HI!BackStays, HI!State
<1>7. HI!Sound(st')
  BY <1>3, <1>4, <1>5, <1>6, HOther
<1>8. st'.dest.kind = "dest" => st'.uid = st.uid
  BY <1>2, <1>5 DEF HTried
<1> QED BY <1>6, <1>7, <1>8 DEF HKept, HI!JumpIsUndoable

(* Going back or forward keeps the invariant. *)
LEMMA HBack ==
  ASSUME HI!Sound(st), HI!Back \/ HI!Forward \/ \E d \in {-1, 1} : HI!Traverse(d) PROVE HKept
<1>1. st \in HI!State /\ st.at \in DOMAIN st.stack /\ (~st.lost => HI!Ordered(st.stack))
  BY DEF HI!Sound
<1>2. PICK g \in HI!Direction, o \in BOOLEAN : st' = [st EXCEPT !.going = g, !.own = o] /\ (g = -1 /\ o => HI!Back \/ HI!Traverse(-1))
  <2>1. CASE HI!Back
    BY <2>1 DEF HI!Back, HI!Direction
  <2>2. CASE HI!Forward
    <3>1. st' = [st EXCEPT !.going = 1, !.own = st.own] /\ st.own \in BOOLEAN /\ 1 \in HI!Direction
      BY <1>1, <2>2 DEF HI!Forward, HI!State, HI!Direction
    <3>2. 1 # -1
      OBVIOUS
    <3> QED BY <3>1, <3>2
  <2>3. ASSUME NEW d \in {-1, 1}, HI!Traverse(d) PROVE \E g \in HI!Direction, o \in BOOLEAN : st' = [st EXCEPT !.going = g, !.own = o] /\ (g = -1 /\ o => HI!Back \/ HI!Traverse(-1))
    <3>1. st' = [st EXCEPT !.going = d, !.own = st.own] /\ st.own \in BOOLEAN /\ d \in HI!Direction
      BY <1>1, <2>3 DEF HI!Traverse, HI!State, HI!Direction
    <3> QED BY <2>3, <3>1
  <2> QED BY <2>1, <2>2, <2>3
<1>3. st' \in HI!State
  BY <1>1, <1>2 DEF HI!State
<1>4. /\ st'.stack = st.stack /\ st'.at = st.at /\ st'.dest = st.dest /\ st'.uid = st.uid /\ st'.lost = st.lost
      /\ st'.own = o /\ st'.going = g
  BY <1>1, <1>2 DEF HI!State
<1>5. st.uid \in Nat /\ st.at \in Nat /\ st.stack \in Seq(HI!Entry)
  BY <1>1 DEF HI!State
<1>6. ~st.lost => HI!BackStays(st')
  <2> SUFFICES ASSUME ~st.lost, g = -1, o PROVE st.at > 1
    BY <1>4 DEF HI!BackStays
  <2>1. CASE HI!Back
    <3>1. st.stack[st.at].uid > 0 /\ st.stack[1].uid = 0
      BY <1>1, <2>1 DEF HI!Back, HI!Ordered
    <3>2. st.at # 1
      BY <3>1
    <3> QED BY <1>1, <1>5, <3>2
  <2>2. CASE HI!Traverse(-1)
    <3>1. st.at + (-1) \in DOMAIN st.stack
      BY <2>2 DEF HI!Traverse
    <3> QED BY <1>5, <3>1
  <2> QED BY <1>2, <2>1, <2>2
<1>7. HI!Sound(st')
  BY <1>3, <1>4, <1>6, HOther
<1> QED BY <1>4, <1>5, <1>7 DEF HKept, HI!JumpIsUndoable

(* PopState keeps the invariant. *)
LEMMA HPopState ==
  ASSUME HI!Sound(st), HI!PopState PROVE HKept
<1>1. st \in HI!State /\ st.at \in DOMAIN st.stack /\ HI!Named(st.stack) /\ (~st.lost => HI!Ordered(st.stack))
  BY DEF HI!Sound
<1>2. PICK i : i = st.at + st.going
  OBVIOUS
<1>3. PICK s \in Seq(HI!Entry) : s = st.stack
  BY <1>1 DEF HI!State
<1>4. PICK g : g = [st EXCEPT !.going = 0, !.own = FALSE]
  OBVIOUS
<1>5. g \in HI!State
  <2>1. 0 \in HI!Direction
    BY DEF HI!Direction
  <2> QED BY <1>1, <1>4, <2>1 DEF HI!State
<1>6. /\ g.stack = s /\ g.at = st.at /\ g.dest = st.dest /\ g.uid = st.uid /\ g.lost = st.lost /\ g.own = FALSE
      /\ g.going = 0 /\ g.jump = st.jump
  BY <1>1, <1>3, <1>4 DEF HI!State
<1>7. PICK e : e = s[i]
  OBVIOUS
<1>8. PICK a : a = [g EXCEPT !.at = i]
  OBVIOUS
<1>9. PICK d : d = [e.dest EXCEPT !.temporary = FALSE]
  OBVIOUS
<1>10. PICK w : w = HI!UpdateInternalState(a, d, e.uid)
  OBVIOUS
<1>11. /\ st.going # 0
       /\ st' = CASE i \notin DOMAIN s -> g
                [] i \in DOMAIN s /\ e.dest.kind = "null" -> a
                [] i \in DOMAIN s /\ e.dest.kind = "dest" /\ e.dest.id \notin CachedPages ->
                     [w EXCEPT !.jump = e.dest.id]
                [] OTHER -> w
  BY <1>2, <1>3, <1>4, <1>7, <1>8, <1>9, <1>10 DEF HI!PopState
<1>12. CASE i \notin DOMAIN s
  <2>1. st' = g
    BY <1>11, <1>12
  <2>2. HI!BackStays(st')
    BY <1>6, <2>1 DEF HI!BackStays
  <2>3. HI!Sound(st')
    BY <1>3, <1>5, <1>6, <2>1, <2>2, HOther
  <2> QED BY <1>6, <1>11, <2>1, <2>3 DEF HKept, HI!JumpIsUndoable
<1>13. CASE i \in DOMAIN s
  <2>1. e \in HI!Entry /\ i \in Nat
    BY <1>7, <1>13
  <2>2. e.uid \in Nat /\ e.dest \in HI!Target
    BY <2>1 DEF HI!Entry
  <2>3. d \in HI!Target /\ d.kind = e.dest.kind /\ d.id = e.dest.id /\ d.page = e.dest.page /\ d.place = e.dest.place
    BY <1>9, <2>2 DEF HI!Target
  <2>4. a \in HI!State /\ a.stack = s /\ a.at = i /\ a.going = 0 /\ a.own = FALSE /\ a.lost = st.lost
    BY <1>5, <1>6, <1>8, <2>1 DEF HI!State
  <2>5. HUpdated(a, d, e.uid, w)
    BY <1>10, <2>2, <2>3, <2>4, HUpdate
  <2>6. CASE e.dest.kind = "null"
    <3>1. st' = a
      BY <1>11, <1>13, <2>6
    <3>2. a.dest = st.dest /\ a.uid = st.uid
      BY <1>5, <1>6, <1>8 DEF HI!State
    <3>3. HI!BackStays(a)
      BY <2>4 DEF HI!BackStays
    <3>4. i = 1
      BY <1>1, <1>3, <1>7, <1>13, <2>6 DEF HI!Named
    <3>5. st.at # 1
      BY <1>2, <1>11, <3>4, <1>1 DEF HI!State, HI!Direction
    <3>6. st.dest.kind # "null"
      <4>1. SUFFICES ASSUME st.dest.kind = "null" PROVE FALSE
        OBVIOUS
      <4>2. st.stack[st.at].dest.kind = "null"
        BY <4>1 DEF HI!Sound, HI!Astray, HI!IsCurrent
      <4> QED BY <1>1, <3>5, <4>2 DEF HI!Named
    <3>7. HI!Astray(a)
      BY <1>7, <2>4, <2>6, <3>2, <3>6 DEF HI!Astray
    <3>8. HI!Sound(a)
      BY <1>1, <1>3, <1>13, <2>4, <3>3, <3>7 DEF HI!Sound
    <3> QED BY <1>11, <2>4, <3>1, <3>8 DEF HKept, HI!JumpIsUndoable
  <2>7. CASE e.dest.kind # "null"
    <3>1. /\ w.stack = s /\ w.at = i /\ w.dest = d /\ w.uid = e.uid /\ w.own = FALSE /\ w.going = 0 /\ w \in HI!State
          /\ w.lost = st.lost
      BY <2>4, <2>5 DEF HUpdated
    <3>2. HI!BackStays(w)
      BY <3>1 DEF HI!BackStays
    <3>3. HI!IsCurrent(w, s[i]) /\ w.dest.page = s[i].dest.page
      BY <1>7, <2>3, <3>1 DEF HI!IsCurrent
    <3>4. HI!Sound(w)
      BY <1>1, <1>3, <1>13, <3>1, <3>2, <3>3 DEF HI!Sound
    <3>5. CASE st' = w
      BY <1>11, <3>1, <3>4, <3>5 DEF HKept, HI!JumpIsUndoable
    <3>6. CASE st' # w
      <4>1. st' = [w EXCEPT !.jump = e.dest.id]
        BY <1>11, <1>13, <2>7, <3>6
      <4>2. e.dest.id \in HI!MaybePage
        BY <2>2 DEF HI!Target
      <4>3. st' \in HI!State
        BY <3>1, <4>1, <4>2 DEF HI!State
      <4>4. /\ st'.stack = w.stack /\ st'.at = w.at /\ st'.dest = w.dest /\ st'.uid = w.uid /\ st'.lost = w.lost
            /\ st'.own = w.own /\ st'.going = w.going
        BY <3>1, <4>1 DEF HI!State
      <4>5. HI!BackStays(st')
        BY <3>1, <4>4 DEF HI!BackStays
      <4>6. HI!Sound(st')
        BY <3>4, <4>3, <4>4, <4>5, HOther
      <4> QED BY <1>11, <3>1, <4>4, <4>6 DEF HKept, HI!JumpIsUndoable
    <3> QED BY <3>5, <3>6
  <2> QED BY <2>6, <2>7
<1> QED BY <1>12, <1>13

(* HashEdit keeps the invariant. *)
LEMMA HHashEdit ==
  ASSUME HI!Sound(st), NEW p \in HashPages, HI!HashEdit(p) PROVE HKept
<1>1. st \in HI!State /\ st.at \in DOMAIN st.stack /\ HI!Named(st.stack) /\ (~st.lost => HI!Ordered(st.stack))
  BY DEF HI!Sound
<1>2. PICK s \in Seq(HI!Entry) : s = st.stack
  BY <1>1 DEF HI!State
<1>3. PICK a \in Nat : a = st.at
  BY <1>1 DEF HI!State
<1>4. PICK k \in Nat : k = st.uid
  BY <1>1 DEF HI!State
<1>5. a \in DOMAIN s /\ HI!Named(s) /\ (s[a].uid = k \/ s[a].uid = 0)
  BY <1>1, <1>2, <1>3, <1>4, HNumber
<1>6. PICK d : d = [HI!Dest("hash", p) EXCEPT !.id = 0]
  OBVIOUS
<1>7. d \in HI!Target /\ HI!PageIsId(d) /\ d.kind = "hash"
  <2>1. p \in HI!MaybePage /\ 0 \in HI!MaybePage /\ "hash" \in HI!Kind /\ 0 \in HI!MaybePlace
    BY HistoryAssumption DEF HI!MaybePage, HI!Page, HI!Kind, HI!MaybePlace
  <2> QED BY <1>6, <2>1 DEF HI!Dest, HI!Target, HI!PageIsId
<1>8. PICK m \in Nat : m = k + 1
  OBVIOUS
<1>9. PICK i \in Nat : i = a + 1
  OBVIOUS
<1>11. PICK e \in HI!Entry : e = [uid |-> m, dest |-> d]
  BY <1>7 DEF HI!Entry
<1>12. e.dest = d /\ e.uid = m /\ s[a].uid < e.uid
  BY <1>5, <1>8, <1>11
<1>13. PICK q : q = Append(SubSeq(s, 1, a), e)
  OBVIOUS
<1>14. HGrown(s, a, e, q)
  <2>1. e.dest.kind # "null" /\ HI!PageIsId(e.dest)
    BY <1>7, <1>12
  <2> QED BY <1>5, <1>13, <2>1, HPushed
<1>15. q \in Seq(HI!Entry) /\ i \in DOMAIN q /\ q[i] = e /\ HI!Named(q) /\ (~st.lost => HI!Ordered(q))
  BY <1>1, <1>2, <1>9, <1>12, <1>14 DEF HGrown
<1>18. PICK w : w = [st EXCEPT !.stack = q, !.at = i, !.uid = m, !.going = 0, !.own = FALSE]
  OBVIOUS
<1>19. /\ w \in HI!State /\ w.stack = q /\ w.at = i /\ w.uid = m /\ w.going = 0 /\ w.own = FALSE /\ w.lost = st.lost
  <2>1. 0 \in HI!Direction
    BY DEF HI!Direction
  <2>2. w \in HI!State
    BY <1>1, <1>15, <1>18, <2>1 DEF HI!State
  <2> QED BY <1>1, <1>18, <2>2 DEF HI!State
<1>20. PICK x : x = HI!UpdateInternalState(w, d, m)
  OBVIOUS
<1>21. HUpdated(w, d, m, x)
  BY <1>7, <1>19, <1>20, HUpdate
<1>22. st' = [x EXCEPT !.lost = x.lost, !.at = i, !.stack = q]
  <2>1. st' = HI!PushOrReplace(w, d, TRUE)
    BY <1>2, <1>3, <1>4, <1>6, <1>8, <1>9, <1>11, <1>13, <1>18 DEF HI!HashEdit
  <2>2. x.stack = q /\ x.lost \in BOOLEAN
    BY <1>19, <1>21 DEF HUpdated, HI!State
  <2>3. ~HI!Astray(w)
    BY <1>7, <1>12, <1>15, <1>19 DEF HI!Astray
  <2>4. [q EXCEPT ![i] = e] = q
    BY <1>15
  <2>5. PICK l : l = (x.lost \/ (TRUE /\ HI!Astray(w)))
    OBVIOUS
  <2>6. l = x.lost
    BY <2>2, <2>3, <2>5
  <2>7. st' = [x EXCEPT !.lost = l, !.at = i, !.stack = [q EXCEPT ![i] = e]]
    BY <1>11, <1>19, <1>20, <2>1, <2>2, <2>5 DEF HI!PushOrReplace
  <2> QED BY <2>4, <2>6, <2>7
<1>23. x \in HI!State /\ x.lost = st.lost /\ x.lost \in BOOLEAN
  BY <1>19, <1>21 DEF HUpdated, HI!State
<1>24. st' \in HI!State
  BY <1>15, <1>22, <1>23 DEF HI!State
<1>25. st'.stack = q /\ st'.at = i /\ st'.uid = m /\ st'.dest = d /\ st'.own = FALSE /\ st'.lost = st.lost
  BY <1>19, <1>21, <1>22, <1>23 DEF HI!State, HUpdated
<1>27. HI!BackStays(st')
  BY <1>25 DEF HI!BackStays
<1>28. HI!IsCurrent(st', q[i]) /\ st'.dest.page = q[i].dest.page
  BY <1>12, <1>15, <1>25 DEF HI!IsCurrent
<1>29. HI!Sound(st')
  BY <1>15, <1>24, <1>25, <1>27, <1>28 DEF HI!Sound
<1> QED BY <1>7, <1>25, <1>29 DEF HKept, HI!JumpIsUndoable

(* Reload keeps the invariant. *)
LEMMA HReload ==
  ASSUME HI!Sound(st), HI!Reload PROVE HKept
<1>1. PICK g : g = HI!PageHide(st)
  OBVIOUS
<1>2. HI!Sound(g) /\ (g = st \/ (g.dest.kind = "pos" /\ ~HI!Astray(g)))
  <2>1. CASE g = st
    BY <2>1
  <2>2. CASE g # st
    <3>1. g = HI!TryPush(st, FALSE)
      BY <1>1, <2>2 DEF HI!PageHide
    <3>2. HTried(st, g)
      BY <3>1, HTryPush
    <3> QED BY <3>2 DEF HTried
  <2> QED BY <2>1, <2>2
<1>3. PICK z : z = [g EXCEPT !.uid = 0, !.maxUid = 0, !.dest = HI!Null, !.pos = 0, !.place = 0, !.updates = 0, !.timer = FALSE,
                             !.jump = 0, !.going = 0, !.own = FALSE]
  OBVIOUS
<1>4. /\ HI!Null \in HI!Target /\ 0 \in HI!MaybePage /\ 0 \in HI!MaybePlace /\ 0 \in HI!Direction
      /\ HI!Null.kind = "null" /\ HI!Null.id = 0 /\ HI!Null.page = 0 /\ HI!Null.place = 0
  BY DEF HI!Null, HI!Dest, HI!Target, HI!Kind, HI!MaybePage, HI!MaybePlace, HI!Direction
<1>5. /\ g \in HI!State /\ g.at \in DOMAIN g.stack /\ HI!Named(g.stack) /\ (~g.lost => HI!Ordered(g.stack))
      /\ ~HI!Astray(g) => HI!IsCurrent(g, g.stack[g.at])
  BY <1>2 DEF HI!Sound
<1>7. z \in HI!State
  BY <1>3, <1>4, <1>5, 0 \in Nat, ZenonT(60) DEF HI!State
<1>8. z.stack = g.stack /\ z.at = g.at /\ z.lost = g.lost /\ z.uid = 0 /\ z.dest = HI!Null /\ z.own = FALSE
  BY <1>3, <1>5 DEF HI!State
<1>9. PICK s \in Seq(HI!Entry) : s = g.stack
  BY <1>5 DEF HI!State
<1>10. PICK a \in Nat : a = g.at
  BY <1>5 DEF HI!State
<1>11. a \in DOMAIN s /\ HI!Named(s) /\ (~g.lost => HI!Ordered(s)) /\ g.lost \in BOOLEAN
  BY <1>5, <1>9, <1>10 DEF HI!State
<1>12. PICK e \in HI!Entry : e = s[a]
  BY <1>11
<1>13. e.uid \in Nat /\ e.dest \in HI!Target
  BY <1>12 DEF HI!Entry
<1>14. CASE e.dest.kind = "null"
  <2>1. a = 1 /\ e.uid = 0
    BY <1>11, <1>12, <1>14 DEF HI!Named
  <2>2. PICK c \in HI!Entry : c = [uid |-> 0, dest |-> HI!Null]
    BY <1>4 DEF HI!Entry
  <2>3. c.uid = s[a].uid /\ c.dest = HI!Null /\ c.uid = 0
    BY <1>12, <2>1, <2>2
  <2>4. HI!PageIsId(c.dest)
    BY <1>4, <2>3 DEF HI!PageIsId
  <2>5. PICK q : q = [s EXCEPT ![a] = c]
    OBVIOUS
  <2>6. q \in Seq(HI!Entry) /\ HI!Named(q) /\ DOMAIN q = DOMAIN s /\ q[a] = c /\ (~g.lost => HI!Ordered(q))
    <3>1. /\ q \in Seq(HI!Entry) /\ HI!Named(q) /\ DOMAIN q = DOMAIN s /\ q[a] = c
          /\ HI!Ordered(s) /\ c.uid = s[a].uid => HI!Ordered(q)
      BY <1>11, <2>1, <2>3, <2>4, <2>5, HReplaced
    <3> QED BY <1>11, <2>3, <3>1
  <2>7. PICK x : x = HI!UpdateInternalState(z, HI!Null, 0)
    OBVIOUS
  <2>8. HUpdated(z, HI!Null, 0, x)
    BY <1>4, <1>7, <2>7, HUpdate
  <2>9. st' = [x EXCEPT !.lost = x.lost, !.at = a, !.stack = q]
    <3>1. st' = HI!PushOrReplace(z, HI!Null, TRUE)
      BY <1>1, <1>3, <1>9, <1>10, <1>12, <1>14 DEF HI!Reload
    <3>2. x.stack = s /\ x.lost \in BOOLEAN
      BY <1>8, <1>9, <2>8 DEF HUpdated, HI!State
    <3>3. ~HI!Astray(z)
      BY <1>4, <1>8 DEF HI!Astray
    <3>4. PICK l : l = (x.lost \/ (TRUE /\ HI!Astray(z)))
      OBVIOUS
    <3>5. l = x.lost
      BY <3>2, <3>3, <3>4
    <3>6. st' = [x EXCEPT !.lost = l, !.at = a, !.stack = q]
      BY <1>8, <1>10, <2>2, <2>5, <2>7, <3>1, <3>2, <3>4 DEF HI!PushOrReplace
    <3> QED BY <3>5, <3>6
  <2>10. x \in HI!State /\ x.lost = g.lost
    BY <1>8, <2>8 DEF HUpdated
  <2>11. st' \in HI!State
    BY <2>6, <2>9, <2>10 DEF HI!State
  <2>12. st'.stack = q /\ st'.at = a /\ st'.uid = 0 /\ st'.dest = HI!Null /\ st'.own = FALSE /\ st'.lost = g.lost
    BY <1>8, <2>8, <2>9, <2>10 DEF HI!State, HUpdated
  <2>13. HI!BackStays(st')
    BY <2>12 DEF HI!BackStays
  <2>14. HI!IsCurrent(st', q[a]) /\ st'.dest.page = 0
    BY <1>4, <2>3, <2>6, <2>12 DEF HI!IsCurrent
  <2>15. HI!Sound(st')
    BY <1>11, <2>6, <2>11, <2>12, <2>13, <2>14 DEF HI!Sound
  <2> QED BY <1>4, <2>12, <2>15 DEF HKept, HI!JumpIsUndoable
<1>15. CASE e.dest.kind # "null"
  <2>1. PICK d : d = [e.dest EXCEPT !.temporary = FALSE, !.page = IF e.dest.kind = "dest" THEN 0 ELSE @]
    OBVIOUS
  <2>2. d \in HI!Target /\ d.kind = e.dest.kind /\ d.id = e.dest.id /\ d.page \in {0, e.dest.page} /\ d.place = e.dest.place
    BY <1>4, <1>13, <2>1 DEF HI!Target
  <2>3. st' = HI!UpdateInternalState(z, d, e.uid)
    BY <1>1, <1>3, <1>9, <1>10, <1>12, <1>15, <2>1 DEF HI!Reload
  <2>4. HUpdated(z, d, e.uid, st')
    BY <1>7, <1>13, <2>2, <2>3, HUpdate
  <2>5. st' \in HI!State /\ st'.stack = s /\ st'.at = a /\ st'.uid = e.uid /\ st'.dest = d /\ st'.own = FALSE /\ st'.lost = g.lost
    BY <1>8, <1>9, <1>10, <2>4 DEF HUpdated
  <2>6. HI!BackStays(st')
    BY <2>5 DEF HI!BackStays
  <2>7. HI!IsCurrent(st', s[a])
    BY <1>12, <2>2, <2>5 DEF HI!IsCurrent
  <2>8. HI!Sound(st')
    BY <1>11, <1>12, <2>2, <2>5, <2>6, <2>7 DEF HI!Sound
  <2>9. ~HI!Astray(st) /\ st'.dest.kind = "dest" => st'.uid = st.uid
    <3>1. ~HI!Astray(st) => g.dest.kind = e.dest.kind /\ g.uid = e.uid
      BY <1>2, <1>5, <1>9, <1>10, <1>12 DEF HI!IsCurrent
    <3> QED BY <1>2, <2>2, <2>5, <3>1
  <2>10. st.uid \in Nat
    BY DEF HI!Sound, HI!State
  <2> QED BY <2>8, <2>9, <2>10 DEF HKept, HI!JumpIsUndoable
<1> QED BY <1>14, <1>15

(* Every step of PDFHistory keeps the invariant and every jump can be undone. *)
LEMMA HStep == HI!IInv /\ HI!Next => HKept
<1> SUFFICES ASSUME HI!IInv, HI!Next PROVE HKept
  OBVIOUS
<1>1. HI!Sound(st)
  BY DEF HI!IInv
<1> QED BY <1>1, HGoToDestination, HPageIndex, HGoToPage, HUpdateViewarea, HTimer, HBack, HPopState, HHashEdit, HReload
        DEF HI!Next

(* PDFHistory begins with the invariant. *)
LEMMA HInit == HI!Init => HI!IInv
<1> SUFFICES ASSUME HI!Init PROVE HI!Sound(st)
  BY DEF HI!IInv
<1>1. /\ HI!Null \in HI!Target /\ 0 \in HI!MaybePage /\ 0 \in HI!MaybePlace /\ 0 \in HI!Direction
      /\ HI!Null.kind = "null" /\ HI!Null.id = 0 /\ HI!Null.page = 0
  BY DEF HI!Null, HI!Dest, HI!Target, HI!Kind, HI!MaybePage, HI!MaybePlace, HI!Direction
<1>2. PICK e \in HI!Entry : e = [uid |-> 0, dest |-> HI!Null]
  BY <1>1 DEF HI!Entry
<1>a. <<e>> \in Seq(HI!Entry)
  OBVIOUS
<1>3. PICK s \in Seq(HI!Entry) : s = <<e>>
  BY <1>a
<1>4. st = [stack |-> s, at |-> 1, going |-> 0, own |-> FALSE, uid |-> 0, maxUid |-> 0,
             dest |-> HI!Null, pos |-> 0, place |-> 0, updates |-> 0, timer |-> FALSE, jump |-> 0, lost |-> FALSE]
  BY <1>2, <1>3 DEF HI!Init
<1>5. st \in HI!State
  BY <1>1, <1>4, 0 \in Nat, 1 \in Nat, ZenonT(60) DEF HI!State
<1>6. DOMAIN s = {1} /\ s[1] = e /\ e.uid = 0 /\ e.dest = HI!Null
  BY <1>2, <1>3
<1>7. HI!Ordered(s) /\ HI!Named(s)
  BY <1>1, <1>6 DEF HI!Ordered, HI!Increasing, HI!Named, HI!PageIsId
<1>8. HI!IsCurrent(st, s[1]) /\ st.stack = s /\ st.at = 1 /\ HI!BackStays(st) /\ st.dest.page = s[1].dest.page
  BY <1>4, <1>6 DEF HI!IsCurrent, HI!BackStays
<1> QED BY <1>5, <1>6, <1>7, <1>8 DEF HI!Sound

(* What the invariant says about the entries. *)
LEMMA HProps ==
  ASSUME HI!IInv
  PROVE  HI!UidsIncrease /\ HI!BackStaysInViewer /\ HI!InternalIsCurrent
BY DEF HI!IInv, HI!Sound, HI!Ordered, HI!UidsIncrease, HI!BackStaysInViewer, HI!InternalIsCurrent

-----------------------------------------------------------------------------
(* PDFPresentationMode: scroll and spread modes, pages, touches. *)

(* Queues of one and of two. *)
LEMMA QueueOfTwo ==
  ASSUME NEW d, NEW e
  PROVE  /\ Append(<<d>>, e) = <<d, e>> /\ <<d, e>> # <<>> /\ Head(<<d, e>>) = d /\ Tail(<<d, e>>) = <<e>>
         /\ <<e>> # <<>> /\ Head(<<e>>) = e /\ Tail(<<e>>) = <<>>
<1>1. Append(<<d>>, e) = <<d, e>>
  <2>1. <<d>> \in Seq({d, e}) /\ <<d, e>> \in Seq({d, e}) /\ Append(<<d>>, e) \in Seq({d, e})
    OBVIOUS
  <2>2. Len(<<d, e>>) = 2 /\ Len(Append(<<d>>, e)) = 2
    OBVIOUS
  <2>3. \A i \in 1 .. 2 : Append(<<d>>, e)[i] = <<d, e>>[i]
    OBVIOUS
  <2> QED BY <2>1, <2>2, <2>3, SeqEqual
<1>2. Tail(<<d, e>>) = <<e>>
  <2>1. <<d, e>> \in Seq({d, e}) /\ <<e>> \in Seq({d, e}) /\ Tail(<<d, e>>) \in Seq({d, e})
    OBVIOUS
  <2>2. Len(<<e>>) = 1 /\ Len(Tail(<<d, e>>)) = 1
    OBVIOUS
  <2>3. \A i \in 1 .. 1 : Tail(<<d, e>>)[i] = <<e>>[i]
    OBVIOUS
  <2> QED BY <2>1, <2>2, <2>3, SeqEqual
<1>3. Tail(<<e>>) = <<>>
  OBVIOUS
<1>4. <<d, e>> # <<>> /\ Head(<<d, e>>) = d /\ <<e>> # <<>> /\ Head(<<e>>) = e
  OBVIOUS
<1> QED BY <1>1, <1>2, <1>3, <1>4

(* A nonempty set of numbers up to n has a largest one. *)
LEMMA LargestOf ==
  ASSUME NEW n \in Nat, NEW S, S \subseteq 0 .. n, S # {} PROVE \E x \in S : \A y \in S : x >= y
<1>1. PICK T : T = {n - x : x \in S}
  OBVIOUS
<1>2. T \subseteq Nat /\ T # {}
  <2>1. \A x \in S : n - x \in Nat
    OBVIOUS
  <2>2. PICK x : x \in S
    OBVIOUS
  <2>3. n - x \in T
    BY <1>1, <2>2
  <2> QED BY <1>1, <2>1, <2>3
<1>3. PICK t \in T : \A y \in T : t <= y
  BY <1>2, SmallestOf
<1>4. PICK x \in S : t = n - x
  BY <1>1, <1>3
<1>5. \A y \in S : n - y \in T
  BY <1>1
<1>6. \A y \in S : x >= y
  BY <1>3, <1>4, <1>5
<1> QED BY <1>6

(* The minimum of a set of numbers. *)
LEMMA PMin == ASSUME NEW S, S \subseteq Nat, S # {} PROVE PR!Min(S) \in S /\ \A y \in S : PR!Min(S) <= y
BY SmallestOf DEF PR!Min

(* The maximum of a bounded set of numbers. *)
LEMMA PMax == ASSUME NEW n \in Nat, NEW S, S \subseteq 0 .. n, S # {} PROVE PR!Max(S) \in S /\ \A y \in S : PR!Max(S) >= y
BY LargestOf DEF PR!Max

(* The pages that #ensurePageViewVisible puts into the document are a group of the layout. *)
LEMMA PGroup ==
  ASSUME NEW p \in PR!Page, NEW s \in PR!SpreadMode
  PROVE  PR!VisibleGroup(p, s) = PR!Group(PR!GroupOf(p, s), s)
<1> USE SlidesAssumption
<1>1. ASSUME NEW q \in PR!Page PROVE q \in PR!VisibleGroup(p, s) <=> PR!GroupOf(q, s) = PR!GroupOf(p, s)
  <2>1. CASE s = 0
    BY <2>1 DEF PR!VisibleGroup, PR!GroupOf
  <2>2. CASE s = 1
    BY <2>2 DEF PR!VisibleGroup, PR!GroupOf, PR!Page
  <2>3. CASE s = 2
    BY <2>3 DEF PR!VisibleGroup, PR!GroupOf, PR!Page
  <2> QED BY <2>1, <2>2, <2>3 DEF PR!SpreadMode
<1> QED BY <1>1 DEF PR!VisibleGroup, PR!Group

(* These pages are one of the spreads, and the current page is among them. *)
LEMMA PInLayout ==
  ASSUME NEW p \in PR!Page, NEW s \in PR!SpreadMode
  PROVE  PR!VisibleGroup(p, s) \in PR!Range(PR!Layout(s)) /\ p \in PR!VisibleGroup(p, s)
<1>1. PICK k : k = PR!GroupOf(p, s)
  OBVIOUS
<1>2. PICK n : n = PR!GroupOf(SlidePages, s)
  OBVIOUS
<1>3. k \in 1 .. n
  BY <1>1, <1>2, SlidesAssumption DEF PR!GroupOf, PR!Page, PR!SpreadMode
<1>4. PR!Layout(s) = [j \in 1 .. n |-> PR!Group(j, s)]
  BY <1>2 DEF PR!Layout
<1>5. PR!VisibleGroup(p, s) = PR!Group(k, s)
  BY <1>1, PGroup
<1>6. PR!Group(k, s) \in PR!Range(PR!Layout(s))
  BY <1>3, <1>4 DEF PR!Range
<1>7. p \in PR!Group(k, s)
  BY <1>1 DEF PR!Group
<1> QED BY <1>5, <1>6, <1>7

PKeep(u, r) ==
  /\ DOMAIN r = DOMAIN PR!Start /\ r.chosen = u.chosen /\ r.state = u.state /\ r.args = u.args /\ r.screen = u.screen
  /\ r.todo = u.todo /\ r.listeners = u.listeners /\ r.controls = u.controls
  /\ r.touch = u.touch /\ r.fingers = u.fingers /\ r.pinched = u.pinched

(* After a page or a mode was set. *)
PSet(u, page, scroll, spread, r) ==
  /\ PKeep(u, r) /\ r.page = page /\ r.mode = [scroll |-> scroll, spread |-> spread] /\ PR!DomOf(r)

(* #ensurePageViewVisible: the document holds the spread of the current page. *)
LEMMA PEnsure ==
  ASSUME NEW u, DOMAIN u = DOMAIN PR!Start, u.page \in PR!Page, u.mode \in PR!Mode, u.mode.scroll = "PAGE",
         NEW r, r = PR!Ensure(u)
  PROVE  PKeep(u, r) /\ r.page = u.page /\ r.mode = u.mode /\ PR!DomOf(r)
<1>1. u.mode.spread \in PR!SpreadMode
  BY DEF PR!Mode
<1>2. PICK g : g = PR!VisibleGroup(u.page, u.mode.spread)
  OBVIOUS
<1>3. r = [u EXCEPT !.dom = <<g>>]
  BY <1>2 DEF PR!Ensure
<1>4. PKeep(u, r) /\ r.page = u.page /\ r.mode = u.mode /\ r.dom = <<g>>
  BY <1>3 DEF PKeep, PR!Start
<1>5. g \in PR!Range(PR!Layout(u.mode.spread)) /\ u.page \in g
  BY <1>1, <1>2, PInLayout
<1>6. Len(<<g>>) = 1 /\ <<g>>[1] = g
  OBVIOUS
<1> QED BY <1>4, <1>5, <1>6 DEF PR!DomOf

(* The page is set, and the document follows. *)
LEMMA PSetPage ==
  ASSUME NEW u, DOMAIN u = DOMAIN PR!Start, u.page \in PR!Page, u.mode \in PR!Mode, NEW p \in PR!Page,
         u.mode.scroll # "PAGE" => PR!DomOf(u), NEW r, r = PR!SetPage(u, p)
  PROVE  PKeep(u, r) /\ r.page = p /\ r.mode = u.mode /\ PR!DomOf(r)
<1>1. PICK w : w = [u EXCEPT !.page = p]
  OBVIOUS
<1>2. PKeep(u, w) /\ w.page = p /\ w.mode = u.mode /\ w.dom = u.dom
  BY <1>1 DEF PKeep, PR!Start
<1>3. CASE u.mode.scroll = "PAGE"
  <2>1. r = PR!Ensure(w)
    BY <1>1, <1>3 DEF PR!SetPage
  <2>2. PKeep(w, r) /\ r.page = w.page /\ r.mode = w.mode /\ PR!DomOf(r)
    BY <1>2, <1>3, <2>1, PEnsure DEF PKeep
  <2> QED BY <1>2, <2>2 DEF PKeep
<1>4. CASE u.mode.scroll # "PAGE"
  <2>1. r = w
    BY <1>1, <1>4 DEF PR!SetPage
  <2> QED BY <1>2, <1>4, <2>1 DEF PR!DomOf
<1> QED BY <1>3, <1>4

(* The setter of scrollMode keeps the page and the document in step. *)
LEMMA PSetScroll ==
  ASSUME NEW u, PR!Shape(u), PR!DomOf(u), NEW m \in PR!ScrollMode, NEW r, r = PR!SetScroll(u, m)
  PROVE  PSet(u, u.page, m, u.mode.spread, r)
<1>1. DOMAIN u = DOMAIN PR!Start /\ u.mode \in PR!Mode /\ u.page \in PR!Page
  BY DEF PR!Shape
<1>2. CASE m = u.mode.scroll
  BY <1>1, <1>2 DEF PR!SetScroll, PSet, PKeep, PR!Mode
<1>3. CASE m # u.mode.scroll
  <2>1. PICK n : n = [scroll |-> m, spread |-> u.mode.spread]
    OBVIOUS
  <2>2. n \in PR!Mode /\ n.scroll = m /\ n.spread = u.mode.spread /\ n = [u.mode EXCEPT !.scroll = m]
    BY <1>1, <2>1 DEF PR!Mode
  <2>3. PICK w : w = [u EXCEPT !.mode.scroll = m]
    OBVIOUS
  <2>4. PKeep(u, w) /\ w.page = u.page /\ w.dom = u.dom /\ w.mode = n
    BY <1>1, <2>2, <2>3 DEF PKeep, PR!Start
  <2>5. PICK x : x = CASE m = "PAGE" -> PR!Ensure(w)
                       [] m # "PAGE" /\ u.mode.scroll = "PAGE" -> [w EXCEPT !.dom = PR!Layout(w.mode.spread)]
                       [] OTHER -> w
    OBVIOUS
  <2>6. r = PR!SetPage(x, u.page)
    BY <1>3, <2>3, <2>5 DEF PR!SetScroll
  <2>7. PKeep(u, x) /\ x.page = u.page /\ x.mode = n /\ PR!DomOf(x)
    <3>1. CASE m = "PAGE"
      <4>1. x = PR!Ensure(w)
        BY <2>5, <3>1
      <4>2. PKeep(w, x) /\ x.page = w.page /\ x.mode = w.mode /\ PR!DomOf(x)
        <5>1. DOMAIN w = DOMAIN PR!Start /\ w.page \in PR!Page /\ w.mode \in PR!Mode /\ w.mode.scroll = "PAGE"
          BY <1>1, <2>2, <2>4, <3>1 DEF PKeep
        <5> QED BY <4>1, <5>1, PEnsure
      <4> QED BY <2>4, <4>2 DEF PKeep
    <3>2. CASE m # "PAGE" /\ u.mode.scroll = "PAGE"
      <4>1. x = [w EXCEPT !.dom = PR!Layout(w.mode.spread)]
        BY <2>5, <3>2
      <4>2. DOMAIN w = DOMAIN PR!Start
        BY <2>4 DEF PKeep
      <4>3. PKeep(w, x) /\ x.page = w.page /\ x.mode = w.mode /\ x.dom = PR!Layout(w.mode.spread)
        BY <4>1, <4>2 DEF PKeep, PR!Start
      <4> QED BY <2>2, <2>4, <3>2, <4>3 DEF PKeep, PR!DomOf
    <3>3. CASE m # "PAGE" /\ u.mode.scroll # "PAGE"
      <4>1. x = w
        BY <2>5, <3>3
      <4> QED BY <2>2, <2>4, <3>3, <4>1 DEF PKeep, PR!DomOf
    <3> QED BY <3>1, <3>2, <3>3
  <2>8. PKeep(x, r) /\ r.page = u.page /\ r.mode = x.mode /\ PR!DomOf(r)
    BY <1>1, <2>2, <2>6, <2>7, PSetPage DEF PKeep
  <2> QED BY <2>1, <2>7, <2>8 DEF PSet, PKeep
<1> QED BY <1>2, <1>3

(* The setter of spreadMode keeps the page and the document in step. *)
LEMMA PSetSpread ==
  ASSUME NEW u, PR!Shape(u), PR!DomOf(u), NEW m \in PR!SpreadMode, NEW r, r = PR!SetSpread(u, m)
  PROVE  PSet(u, u.page, u.mode.scroll, m, r)
<1>1. DOMAIN u = DOMAIN PR!Start /\ u.mode \in PR!Mode /\ u.page \in PR!Page
  BY DEF PR!Shape
<1>2. CASE m = u.mode.spread
  BY <1>1, <1>2 DEF PR!SetSpread, PSet, PKeep, PR!Mode
<1>3. CASE m # u.mode.spread
  <2>1. PICK n : n = [scroll |-> u.mode.scroll, spread |-> m]
    OBVIOUS
  <2>2. n \in PR!Mode /\ n.scroll = u.mode.scroll /\ n.spread = m /\ n = [u.mode EXCEPT !.spread = m]
    BY <1>1, <2>1 DEF PR!Mode
  <2>3. PICK w : w = [u EXCEPT !.mode.spread = m]
    OBVIOUS
  <2>4. PKeep(u, w) /\ w.page = u.page /\ w.dom = u.dom /\ w.mode = n
    BY <1>1, <2>2, <2>3 DEF PKeep, PR!Start
  <2>5. PICK x : x = IF w.mode.scroll = "PAGE" THEN PR!Ensure(w) ELSE [w EXCEPT !.dom = PR!Layout(m)]
    OBVIOUS
  <2>6. r = PR!SetPage(x, u.page)
    BY <1>3, <2>3, <2>5 DEF PR!SetSpread
  <2>7. PKeep(u, x) /\ x.page = u.page /\ x.mode = n /\ PR!DomOf(x)
    <3>1. CASE w.mode.scroll = "PAGE"
      <4>1. x = PR!Ensure(w)
        BY <2>5, <3>1
      <4>2. PKeep(w, x) /\ x.page = w.page /\ x.mode = w.mode /\ PR!DomOf(x)
        <5>1. DOMAIN w = DOMAIN PR!Start /\ w.page \in PR!Page /\ w.mode \in PR!Mode /\ w.mode.scroll = "PAGE"
          BY <1>1, <2>2, <2>4, <3>1 DEF PKeep
        <5> QED BY <4>1, <5>1, PEnsure
      <4> QED BY <2>4, <4>2 DEF PKeep
    <3>2. CASE w.mode.scroll # "PAGE"
      <4>1. x = [w EXCEPT !.dom = PR!Layout(m)]
        BY <2>5, <3>2
      <4>2. DOMAIN w = DOMAIN PR!Start
        BY <2>4 DEF PKeep
      <4>3. PKeep(w, x) /\ x.page = w.page /\ x.mode = w.mode /\ x.dom = PR!Layout(m)
        BY <4>1, <4>2 DEF PKeep, PR!Start
      <4> QED BY <2>2, <2>4, <3>2, <4>3 DEF PKeep, PR!DomOf
    <3> QED BY <3>1, <3>2
  <2>8. PKeep(x, r) /\ r.page = u.page /\ r.mode = x.mode /\ PR!DomOf(r)
    BY <1>1, <2>2, <2>6, <2>7, PSetPage DEF PKeep
  <2> QED BY <2>1, <2>7, <2>8 DEF PSet, PKeep
<1> QED BY <1>2, <1>3

(* The larger of two numbers. *)
LEMMA PMaxOfTwo == ASSUME NEW a \in Int, NEW b \in Int PROVE PR!Max({a, b}) = IF a >= b THEN a ELSE b
<1>1. \E x \in {a, b} : \A y \in {a, b} : x >= y
  OBVIOUS
<1>2. PR!Max({a, b}) \in {a, b} /\ \A y \in {a, b} : PR!Max({a, b}) >= y
  BY <1>1 DEF PR!Max
<1> QED BY <1>2

(* The smaller of two numbers. *)
LEMMA PMinOfTwo == ASSUME NEW a \in Int, NEW b \in Int PROVE PR!Min({a, b}) = IF a <= b THEN a ELSE b
<1>1. \E x \in {a, b} : \A y \in {a, b} : x <= y
  OBVIOUS
<1>2. PR!Min({a, b}) \in {a, b} /\ \A y \in {a, b} : PR!Min({a, b}) <= y
  BY <1>1 DEF PR!Min
<1> QED BY <1>2

(* A step of n pages passes over wholly visible ones only. *)
PAdvances(p, previous, views, n) ==
  /\ n \in Nat /\ n >= 1
  /\ \A q \in PR!Page : (previous /\ q < p /\ q > p - n) \/ (~previous /\ q > p /\ q < p + n) => q \in views

(* Turning a page within a row of visible pages skips none. *)
LEMMA PRow ==
  ASSUME NEW p \in PR!Page, NEW previous \in BOOLEAN, NEW row \in SUBSET PR!Page, p \in row,
         NEW n, n = PR!RowAdvance(p, previous, row)
  PROVE  PAdvances(p, previous, row, n)
<1>1. PR!Page \subseteq 0 .. SlidePages /\ PR!Page \subseteq Nat
  BY SlidesAssumption DEF PR!Page
<1>2. PICK lo : lo = PR!Min(row)
  OBVIOUS
<1>3. lo \in row /\ lo \in Nat /\ \A y \in row : lo <= y
  BY <1>1, <1>2, PMin
<1>4. PICK hi : hi = PR!Max(row)
  OBVIOUS
<1>5. hi \in row /\ hi \in Nat /\ \A y \in row : hi >= y
  BY <1>1, <1>4, PMax, SlidesAssumption
<1>6. CASE previous
  <2>1. PICK gaps : gaps = {q \in PR!Page : q < p /\ q > lo /\ q \notin row}
    OBVIOUS
  <2>2. n = IF gaps # {} THEN p - PR!Max(gaps) ELSE IF lo < p THEN p - lo + 1 ELSE 1
    BY <1>2, <1>6, <2>1 DEF PR!RowAdvance
  <2>3. CASE gaps # {}
    <3>1. PICK m : m = PR!Max(gaps)
      OBVIOUS
    <3>2. gaps \subseteq 0 .. SlidePages
      BY <1>1, <2>1
    <3>3. m \in gaps /\ \A y \in gaps : m >= y
      BY <2>3, <3>1, <3>2, PMax, SlidesAssumption
    <3>4. n = p - m /\ m < p /\ m \in Nat /\ p \in Nat /\ lo < m
      BY <1>1, <1>3, <2>1, <2>2, <2>3, <3>1, <3>3
    <3>5. ASSUME NEW q \in PR!Page, q < p, q > m PROVE q \in row
      <4>1. q \in Nat /\ q > lo
        BY <1>1, <1>3, <3>4, <3>5
      <4>2. q \notin gaps
        BY <3>3, <3>4, <3>5, <4>1
      <4> QED BY <2>1, <3>5, <4>1, <4>2
    <3>6. n \in Nat /\ n >= 1 /\ p - n = m
      BY <3>4
    <3> QED BY <1>6, <3>5, <3>6 DEF PAdvances
  <2>4. CASE gaps = {} /\ lo < p
    <3>1. n = p - lo + 1 /\ p \in Nat
      BY <1>1, <2>2, <2>4
    <3>2. ASSUME NEW q \in PR!Page, q < p, q > p - n PROVE q \in row
      <4>1. q \in Nat /\ q >= lo
        BY <1>1, <1>3, <3>1, <3>2
      <4> QED BY <1>3, <2>1, <2>4, <3>2, <4>1
    <3>3. n \in Nat /\ n >= 1
      BY <1>3, <2>4, <3>1
    <3> QED BY <1>6, <3>2, <3>3 DEF PAdvances
  <2>5. CASE gaps = {} /\ ~(lo < p)
    <3>1. n = 1
      BY <2>2, <2>5
    <3>2. p \in Nat /\ \A q \in PR!Page : q \in Nat
      BY <1>1
    <3>3. \A q \in PR!Page : ~(q < p /\ q > p - n)
      BY <3>1, <3>2
    <3>4. n \in Nat /\ n >= 1
      BY <3>1
    <3> QED BY <1>6, <3>3, <3>4 DEF PAdvances
  <2> QED BY <2>3, <2>4, <2>5
<1>7. CASE ~previous
  <2>1. PICK gaps : gaps = {q \in PR!Page : q > p /\ q < hi /\ q \notin row}
    OBVIOUS
  <2>2. n = IF gaps # {} THEN PR!Min(gaps) - p ELSE IF hi > p THEN hi - p + 1 ELSE 1
    BY <1>4, <1>7, <2>1 DEF PR!RowAdvance
  <2>3. CASE gaps # {}
    <3>1. PICK m : m = PR!Min(gaps)
      OBVIOUS
    <3>2. gaps \subseteq Nat
      BY <1>1, <2>1
    <3>3. m \in gaps /\ \A y \in gaps : m <= y
      BY <2>3, <3>1, <3>2, PMin
    <3>4. n = m - p /\ p < m /\ m \in Nat /\ p \in Nat /\ m < hi
      BY <1>1, <1>5, <2>1, <2>2, <2>3, <3>1, <3>3
    <3>5. ASSUME NEW q \in PR!Page, q > p, q < m PROVE q \in row
      <4>1. q \in Nat /\ q < hi
        BY <1>1, <1>5, <3>4, <3>5
      <4>2. q \notin gaps
        BY <3>3, <3>4, <3>5, <4>1
      <4> QED BY <2>1, <3>5, <4>1, <4>2
    <3>6. n \in Nat /\ n >= 1 /\ p + n = m
      BY <3>4
    <3> QED BY <1>7, <3>5, <3>6 DEF PAdvances
  <2>4. CASE gaps = {} /\ hi > p
    <3>1. n = hi - p + 1 /\ p \in Nat
      BY <1>1, <2>2, <2>4
    <3>2. ASSUME NEW q \in PR!Page, q > p, q < p + n PROVE q \in row
      <4>1. q \in Nat /\ q <= hi
        BY <1>1, <1>5, <3>1, <3>2
      <4> QED BY <1>5, <2>1, <2>4, <3>2, <4>1
    <3>3. n \in Nat /\ n >= 1
      BY <1>5, <2>4, <3>1
    <3> QED BY <1>7, <3>2, <3>3 DEF PAdvances
  <2>5. CASE gaps = {} /\ ~(hi > p)
    <3>1. n = 1
      BY <2>2, <2>5
    <3>2. p \in Nat /\ \A q \in PR!Page : q \in Nat
      BY <1>1
    <3>3. \A q \in PR!Page : ~(q > p /\ q < p + n)
      BY <3>1, <3>2
    <3>4. n \in Nat /\ n >= 1
      BY <3>1
    <3> QED BY <1>7, <3>3, <3>4 DEF PAdvances
  <2> QED BY <2>3, <2>4, <2>5
<1> QED BY <1>6, <1>7

(* _getPageAdvance skips no page. *)
LEMMA PAdvance ==
  ASSUME NEW u, u.page \in PR!Page, NEW previous \in BOOLEAN, NEW views \in SUBSET PR!Page, u.page \in views,
         NEW n, n = PR!PageAdvance(u, previous, views)
  PROVE  PAdvances(u.page, previous, views, n)
<1>1. CASE u.mode.scroll = "WRAPPED"
  <2>1. n = PR!RowAdvance(u.page, previous, views)
    BY <1>1 DEF PR!PageAdvance
  <2> QED BY <2>1, PRow
<1>2. CASE u.mode.scroll # "WRAPPED"
  <2>1. PICK p : p = u.page
    OBVIOUS
  <2>2. n = 1 \/ (n = 2 /\ (IF previous THEN p - 1 ELSE p + 1) \in views)
    BY <1>2, <2>1 DEF PR!PageAdvance
  <2>3. \A q \in PR!Page : q \in Nat
    BY SlidesAssumption DEF PR!Page
  <2>4. p \in Nat
    BY <2>1, <2>3
  <2>5. PAdvances(p, previous, views, n)
    BY <2>2, <2>3, <2>4 DEF PAdvances
  <2> QED BY <2>1, <2>5
<1> QED BY <1>1, <1>2

PTurned(u, views, r) ==
  /\ PKeep(u, r) /\ r.mode = u.mode /\ r.page \in PR!Page /\ PR!DomOf(r)
  /\ \A q \in PR!Page : (u.page < q /\ q < r.page) \/ (r.page < q /\ q < u.page) => q \in views

(* Turning a page keeps page, modes and document in step. *)
LEMMA PTurn ==
  ASSUME NEW u, PR!Shape(u), PR!DomOf(u), NEW previous \in BOOLEAN, NEW views \in SUBSET PR!Page, u.page \in views,
         NEW r, r = PR!Turn(u, previous, views)
  PROVE  PTurned(u, views, r)
<1>1. DOMAIN u = DOMAIN PR!Start /\ u.mode \in PR!Mode /\ u.page \in PR!Page
  BY DEF PR!Shape
<1>2. PICK n : n = PR!PageAdvance(u, previous, views)
  OBVIOUS
<1>3. PAdvances(u.page, previous, views, n)
  BY <1>1, <1>2, PAdvance
<1>4. PICK p : p = u.page
  OBVIOUS
<1>5. p \in Nat /\ 1 <= p /\ p <= SlidePages /\ n \in Nat /\ n >= 1 /\ SlidePages \in Nat
  BY <1>1, <1>3, <1>4, SlidesAssumption DEF PR!Page, PAdvances
<1>6. \A q \in PR!Page : q \in Nat
  BY SlidesAssumption DEF PR!Page
<1>7. CASE r = u
  <2>1. PKeep(u, u)
    BY <1>1 DEF PKeep
  <2> QED BY <1>1, <1>4, <1>5, <1>6, <1>7, <2>1 DEF PTurned
<1>8. CASE r # u
  <2>1. PICK t \in PR!Page : /\ r = PR!SetPage(u, t)
                             /\ \A q \in PR!Page : (p < q /\ q < t) \/ (t < q /\ q < p) => q \in views
    <3>1. CASE previous
      <4>1. PICK t : t = PR!Max({p - n, 1})
        OBVIOUS
      <4>2. t = IF p - n >= 1 THEN p - n ELSE 1
        BY <1>5, <4>1, PMaxOfTwo
      <4>3. t \in PR!Page /\ t \in Nat /\ t <= p /\ t >= p - n
        BY <1>5, <4>2 DEF PR!Page
      <4>4. r = PR!SetPage(u, t)
        BY <1>2, <1>4, <1>8, <3>1, <4>1 DEF PR!Turn
      <4>5. \A q \in PR!Page : (p < q /\ q < t) \/ (t < q /\ q < p) => q \in views
        BY <1>3, <1>4, <1>5, <1>6, <3>1, <4>3 DEF PAdvances
      <4> QED BY <4>3, <4>4, <4>5
    <3>2. CASE ~previous
      <4>1. PICK t : t = PR!Min({p + n, SlidePages})
        OBVIOUS
      <4>2. t = IF p + n <= SlidePages THEN p + n ELSE SlidePages
        BY <1>5, <4>1, PMinOfTwo
      <4>3. t \in PR!Page /\ t \in Nat /\ t >= p /\ t <= p + n
        BY <1>5, <4>2 DEF PR!Page
      <4>4. r = PR!SetPage(u, t)
        BY <1>2, <1>4, <1>8, <3>2, <4>1 DEF PR!Turn
      <4>5. \A q \in PR!Page : (p < q /\ q < t) \/ (t < q /\ q < p) => q \in views
        BY <1>3, <1>4, <1>5, <1>6, <3>2, <4>3 DEF PAdvances
      <4> QED BY <4>3, <4>4, <4>5
    <3> QED BY <3>1, <3>2
  <2>2. PKeep(u, r) /\ r.page = t /\ r.mode = u.mode /\ PR!DomOf(r)
    BY <1>1, <2>1, PSetPage
  <2> QED BY <1>4, <2>1, <2>2 DEF PTurned
<1> QED BY <1>7, <1>8

(* A step that keeps the invariant and turns no page after a pinch. *)
PKept == PR!Sound(st') /\ PR!PinchIsNoSwipe

(* Nothing but the modes, the page and the document has changed. *)
LEMMA PKeepSound ==
  ASSUME NEW u, PR!Sound(u), NEW r, PKeep(u, r), r.mode = u.mode, r.page \in PR!Page, PR!DomOf(r)
  PROVE  PR!Sound(r)
BY DEF PR!Sound, PKeep, PR!Shape, PR!Presenting, PR!ModesSound, PR!Entering

(* In the window the modes are the chosen ones. *)
LEMMA PInWindow ==
  ASSUME PR!Sound(st), PR!InWindow PROVE st.state = "NORMAL" /\ st.screen = "window" /\ st.todo = <<>> /\ st.mode = st.chosen
BY DEF PR!Sound, PR!Presenting, PR!ModesSound, PR!InWindow

(* The user chooses a mode. *)
LEMMA PChosen ==
  ASSUME PR!Sound(st), PR!InWindow, NEW m \in PR!Mode, NEW w, PSet(st, st.page, m.scroll, m.spread, w),
         NEW c, c = m, st' = [w EXCEPT !.chosen = c]
  PROVE  PKept
<1>1. DOMAIN w = DOMAIN PR!Start /\ w.mode = m
  BY DEF PSet, PKeep, PR!Mode
<1>2. /\ DOMAIN st' = DOMAIN PR!Start /\ st'.chosen = m /\ st'.mode = w.mode /\ st'.page = w.page /\ st'.dom = w.dom
      /\ st'.state = w.state /\ st'.args = w.args /\ st'.screen = w.screen /\ st'.todo = w.todo
      /\ st'.listeners = w.listeners /\ st'.controls = w.controls
      /\ st'.touch = w.touch /\ st'.fingers = w.fingers /\ st'.pinched = w.pinched
  BY <1>1 DEF PR!Start
<1>3. /\ st'.page = st.page /\ st'.state = st.state /\ st'.args = st.args /\ st'.screen = st.screen /\ st'.todo = st.todo
      /\ st'.listeners = st.listeners /\ st'.controls = st.controls
      /\ st'.touch = st.touch /\ st'.fingers = st.fingers /\ st'.pinched = st.pinched
  BY <1>2 DEF PSet, PKeep
<1>4. PR!DomOf(st')
  BY <1>2 DEF PSet, PR!DomOf
<1>5. PR!Shape(st')
  BY <1>1, <1>2, <1>3 DEF PR!Sound, PR!Shape
<1>6. st.state = "NORMAL" /\ st.screen = "window" /\ st.todo = <<>>
  BY PInWindow
<1>7. PR!Presenting(st') /\ PR!ModesSound(st')
  BY <1>1, <1>2, <1>3, <1>6 DEF PR!Presenting, PR!ModesSound
<1> QED BY <1>3, <1>4, <1>5, <1>7 DEF PKept, PR!Sound, PR!PinchIsNoSwipe

(* ChooseScroll keeps the invariant. *)
LEMMA PChooseScroll ==
  ASSUME PR!Sound(st), NEW m \in PR!ScrollMode, PR!ChooseScroll(m) PROVE PKept
<1>1. PICK w : w = PR!SetScroll(st, m)
  OBVIOUS
<1>2. PSet(st, st.page, m, st.mode.spread, w)
  BY <1>1, PSetScroll DEF PR!Sound
<1>3. st.mode \in PR!Mode /\ st.chosen = st.mode /\ PR!InWindow
  BY PInWindow DEF PR!ChooseScroll, PR!Sound, PR!Shape
<1>4. PICK c : c = [scroll |-> m, spread |-> st.mode.spread]
  OBVIOUS
<1>5. c \in PR!Mode /\ c.scroll = m /\ c.spread = st.mode.spread /\ c = [st.chosen EXCEPT !.scroll = m]
  BY <1>3, <1>4 DEF PR!Mode
<1>6. w.chosen = st.chosen /\ DOMAIN w = DOMAIN PR!Start
  BY <1>2 DEF PSet, PKeep
<1>7. st' = [w EXCEPT !.chosen = c]
  BY <1>1, <1>5, <1>6 DEF PR!ChooseScroll
<1> QED BY <1>2, <1>3, <1>5, <1>7, PChosen

(* ChooseSpread keeps the invariant. *)
LEMMA PChooseSpread ==
  ASSUME PR!Sound(st), NEW m \in PR!SpreadMode, PR!ChooseSpread(m) PROVE PKept
<1>1. PICK w : w = PR!SetSpread(st, m)
  OBVIOUS
<1>2. PSet(st, st.page, st.mode.scroll, m, w)
  BY <1>1, PSetSpread DEF PR!Sound
<1>3. st.mode \in PR!Mode /\ st.chosen = st.mode /\ PR!InWindow
  BY PInWindow DEF PR!ChooseSpread, PR!Sound, PR!Shape
<1>4. PICK c : c = [scroll |-> st.mode.scroll, spread |-> m]
  OBVIOUS
<1>5. c \in PR!Mode /\ c.spread = m /\ c.scroll = st.mode.scroll /\ c = [st.chosen EXCEPT !.spread = m]
  BY <1>3, <1>4 DEF PR!Mode
<1>6. w.chosen = st.chosen /\ DOMAIN w = DOMAIN PR!Start
  BY <1>2 DEF PSet, PKeep
<1>7. st' = [w EXCEPT !.chosen = c]
  BY <1>1, <1>5, <1>6 DEF PR!ChooseSpread
<1> QED BY <1>2, <1>3, <1>5, <1>7, PChosen

(* TurnPage keeps the invariant. *)
LEMMA PTurnPage ==
  ASSUME PR!Sound(st), NEW previous \in BOOLEAN, NEW views \in SUBSET PR!Page, PR!TurnPage(previous, views) PROVE PKept
<1>1. st' = PR!Turn(st, previous, views) /\ st.page \in views
  BY DEF PR!TurnPage, PR!Visible
<1>2. PTurned(st, views, st')
  BY <1>1, PTurn DEF PR!Sound
<1>3. PR!Sound(st')
  BY <1>2, PKeepSound DEF PTurned
<1>4. st'.fingers = st.fingers /\ st.fingers \in Nat
  BY <1>2 DEF PTurned, PKeep, PR!Sound, PR!Shape
<1> QED BY <1>3, <1>4 DEF PKept, PR!PinchIsNoSwipe

(* Request keeps the invariant. *)
LEMMA PRequest ==
  ASSUME PR!Sound(st), NEW differ \in BOOLEAN, PR!Request(differ) PROVE PKept
<1>1. PICK a : a = [mode |-> st.mode, saved |-> st.mode.spread # 0 /\ differ, page |-> st.page]
  OBVIOUS
<1>2. st' = [st EXCEPT !.state = "CHANGING", !.screen = "asked", !.args = a] /\ st.state = "NORMAL"
  BY <1>1 DEF PR!Request
<1>3. DOMAIN st = DOMAIN PR!Start /\ st.mode \in PR!Mode /\ st.page \in PR!Page /\ st.fingers \in Nat
  BY DEF PR!Sound, PR!Shape
<1>4. a \in [mode : PR!Mode, saved : BOOLEAN, page : PR!Page] /\ a.mode = st.mode
  BY <1>1, <1>3
<1>5. /\ DOMAIN st' = DOMAIN PR!Start /\ st'.chosen = st.chosen /\ st'.mode = st.mode /\ st'.page = st.page /\ st'.dom = st.dom
      /\ st'.state = "CHANGING" /\ st'.args = a /\ st'.screen = "asked" /\ st'.todo = st.todo
      /\ st'.listeners = st.listeners /\ st'.controls = st.controls
      /\ st'.touch = st.touch /\ st'.fingers = st.fingers /\ st'.pinched = st.pinched
  BY <1>2, <1>3 DEF PR!Start
<1>6. PR!Shape(st') /\ PR!DomOf(st')
  BY <1>4, <1>5 DEF PR!Sound, PR!Shape, PR!DomOf
<1>7. st.screen = "window" /\ st.todo = <<>> /\ st.mode = st.chosen
  BY <1>2 DEF PR!Sound, PR!Presenting, PR!ModesSound
<1>8. PR!Presenting(st') /\ PR!ModesSound(st')
  BY <1>4, <1>5, <1>7 DEF PR!Presenting, PR!ModesSound
<1>9. PR!Sound(st')
  BY <1>5, <1>6, <1>7, <1>8 DEF PR!Sound
<1> QED BY <1>3, <1>5, <1>9 DEF PKept, PR!PinchIsNoSwipe

(* Refused keeps the invariant. *)
LEMMA PRefused ==
  ASSUME PR!Sound(st), PR!Refused PROVE PKept
<1>1. st' = [st EXCEPT !.state = "NORMAL", !.screen = "window"] /\ st.screen = "asked"
  BY DEF PR!Refused
<1>2. DOMAIN st = DOMAIN PR!Start /\ st.fingers \in Nat
  BY DEF PR!Sound, PR!Shape
<1>3. /\ DOMAIN st' = DOMAIN PR!Start /\ st'.chosen = st.chosen /\ st'.mode = st.mode /\ st'.page = st.page /\ st'.dom = st.dom
      /\ st'.state = "NORMAL" /\ st'.args = st.args /\ st'.screen = "window" /\ st'.todo = st.todo
      /\ st'.listeners = st.listeners /\ st'.controls = st.controls
      /\ st'.touch = st.touch /\ st'.fingers = st.fingers /\ st'.pinched = st.pinched
  BY <1>1, <1>2 DEF PR!Start
<1>4. PR!Shape(st') /\ PR!DomOf(st')
  BY <1>3 DEF PR!Sound, PR!Shape, PR!DomOf
<1>5. st.state = "CHANGING" /\ st.todo = <<>> /\ st.mode = st.chosen
  BY <1>1 DEF PR!Sound, PR!Presenting, PR!ModesSound
<1>6. PR!Presenting(st') /\ PR!ModesSound(st')
  BY <1>3, <1>5 DEF PR!Presenting, PR!ModesSound
<1>7. PR!Sound(st')
  BY <1>1, <1>3, <1>4, <1>6 DEF PR!Sound
<1> QED BY <1>2, <1>3, <1>7 DEF PKept, PR!PinchIsNoSwipe

(* Enter keeps the invariant. *)
LEMMA PEnter ==
  ASSUME PR!Sound(st), PR!Enter PROVE PKept
<1>1. st.screen = "asked" /\ DOMAIN st = DOMAIN PR!Start /\ st.fingers \in Nat /\ st.page \in PR!Page
  BY DEF PR!Enter, PR!Sound, PR!Shape
<1>2. st.state = "CHANGING" /\ st.todo = <<>> /\ st.mode = st.chosen /\ st.args.mode = st.chosen
  BY <1>1 DEF PR!Sound, PR!Presenting, PR!ModesSound
<1>3. PICK e : e = [what |-> "enter", page |-> st.page]
  OBVIOUS
<1>4. PICK q : q = <<e>>
  OBVIOUS
<1>5. Append(st.todo, e) = q /\ q # <<>> /\ Head(q) = e
  BY <1>2, <1>4
<1>6. st' = [st EXCEPT !.screen = "full", !.state = "FULLSCREEN", !.listeners = TRUE, !.controls = TRUE, !.todo = q]
  BY <1>3, <1>5 DEF PR!Enter
<1>7. /\ DOMAIN st' = DOMAIN PR!Start /\ st'.chosen = st.chosen /\ st'.mode = st.mode /\ st'.page = st.page /\ st'.dom = st.dom
      /\ st'.state = "FULLSCREEN" /\ st'.args = st.args /\ st'.screen = "full" /\ st'.todo = q
      /\ st'.touch = st.touch /\ st'.fingers = st.fingers /\ st'.pinched = st.pinched
  BY <1>1, <1>6 DEF PR!Start
<1>8. PR!Shape(st') /\ PR!DomOf(st')
  BY <1>7 DEF PR!Sound, PR!Shape, PR!DomOf
<1>9. PR!Presenting(st')
  BY <1>1, <1>3, <1>4, <1>7 DEF PR!Presenting
<1>10. PR!Entering(st')
  BY <1>3, <1>5, <1>7 DEF PR!Entering
<1>11. PR!ModesSound(st')
  BY <1>2, <1>7, <1>10 DEF PR!ModesSound
<1>12. PR!Sound(st')
  BY <1>7, <1>8, <1>9, <1>11 DEF PR!Sound
<1> QED BY <1>1, <1>7, <1>12 DEF PKept, PR!PinchIsNoSwipe

(* Exit keeps the invariant. *)
LEMMA PExit ==
  ASSUME PR!Sound(st), PR!Exit PROVE PKept
<1>1. st.screen = "full" /\ DOMAIN st = DOMAIN PR!Start /\ st.fingers \in Nat /\ st.page \in PR!Page
  BY DEF PR!Exit, PR!Sound, PR!Shape
<1>2. st.state = "FULLSCREEN" /\ (st.todo = <<>> \/ \E p \in PR!Page : st.todo = <<[what |-> "enter", page |-> p]>>)
  BY <1>1 DEF PR!Sound, PR!Presenting
<1>3. PICK e : e = [what |-> "exit", page |-> st.page]
  OBVIOUS
<1>4. PICK q : q = Append(st.todo, e)
  OBVIOUS
<1>5. st' = [st EXCEPT !.screen = "window", !.listeners = FALSE, !.controls = FALSE, !.todo = q]
  BY <1>3, <1>4 DEF PR!Exit
<1>6. /\ DOMAIN st' = DOMAIN PR!Start /\ st'.chosen = st.chosen /\ st'.mode = st.mode /\ st'.page = st.page /\ st'.dom = st.dom
      /\ st'.state = st.state /\ st'.args = st.args /\ st'.screen = "window" /\ st'.todo = q
      /\ st'.listeners = FALSE /\ st'.controls = FALSE
      /\ st'.touch = st.touch /\ st'.fingers = st.fingers /\ st'.pinched = st.pinched
  BY <1>1, <1>5 DEF PR!Start
<1>7. PR!Shape(st') /\ PR!DomOf(st')
  BY <1>6 DEF PR!Sound, PR!Shape, PR!DomOf
<1>8. PR!Presenting(st') /\ (PR!Entering(st') <=> PR!Entering(st))
  <2>1. CASE st.todo = <<>>
    <3>1. q = <<e>> /\ q # <<>> /\ Head(q) = e /\ e.what = "exit"
      BY <1>3, <1>4, <2>1
    <3> QED BY <1>1, <1>2, <1>3, <1>6, <2>1, <3>1 DEF PR!Presenting, PR!Entering
  <2>2. ASSUME NEW p \in PR!Page, st.todo = <<[what |-> "enter", page |-> p]>>
        PROVE  PR!Presenting(st') /\ (PR!Entering(st') <=> PR!Entering(st))
    <3>1. PICK d : d = [what |-> "enter", page |-> p]
      OBVIOUS
    <3>3. st.todo = <<d>> /\ q = Append(<<d>>, e)
      BY <1>4, <2>2, <3>1
    <3>2. q = <<d, e>> /\ q # <<>> /\ Head(q) = d /\ d.what = "enter" /\ st.todo # <<>> /\ Head(st.todo) = d
      <4>3. Append(<<d>>, e) = <<d, e>> /\ <<d, e>> # <<>> /\ Head(<<d, e>>) = d
        BY QueueOfTwo
      <4>4. q = <<d, e>>
        BY <3>3, <4>3, Zenon
      <4>1. q = <<d, e>> /\ q # <<>> /\ Head(q) = d
        BY <4>3, <4>4, Zenon
      <4>2. st.todo # <<>> /\ Head(st.todo) = d
        BY <3>3, QueueOfTwo
      <4> QED BY <3>1, <4>1, <4>2
    <3> QED BY <1>1, <1>2, <1>3, <1>6, <3>1, <3>2 DEF PR!Presenting, PR!Entering
  <2> QED BY <1>2, <2>1, <2>2
<1>9. PR!ModesSound(st')
  BY <1>6, <1>8 DEF PR!ModesSound, PR!Sound
<1>10. PR!Sound(st')
  BY <1>6, <1>7, <1>8, <1>9 DEF PR!Sound
<1> QED BY <1>1, <1>6, <1>10 DEF PKept, PR!PinchIsNoSwipe

(* The modes while presenting. *)
LEMMA PEntered ==
  ASSUME NEW u, PR!Shape(u), PR!DomOf(u), u.mode = u.chosen, NEW r, r = PR!Entered(u)
  PROVE  PSet(u, u.args.page, "PAGE", IF u.args.saved THEN 0 ELSE u.chosen.spread, r)
<1>1. u.args.page \in PR!Page /\ u.args.saved \in BOOLEAN /\ "PAGE" \in PR!ScrollMode /\ 0 \in PR!SpreadMode
  BY DEF PR!Shape, PR!ScrollMode, PR!SpreadMode
<1>2. u.mode \in PR!Mode /\ u.page \in PR!Page /\ u.mode.spread \in PR!SpreadMode /\ u.fingers \in Nat
  BY DEF PR!Shape, PR!Mode
<1>3. PICK w : w = PR!SetScroll(u, "PAGE")
  OBVIOUS
<1>4. PSet(u, u.page, "PAGE", u.mode.spread, w)
  BY <1>1, <1>3, PSetScroll
<1>5. PICK m : m = IF u.args.saved THEN 0 ELSE u.chosen.spread
  OBVIOUS
<1>6. m \in PR!SpreadMode
  BY <1>1, <1>2, <1>5
<1>7. PICK x : x = IF u.args.saved THEN PR!SetSpread(w, 0) ELSE w
  OBVIOUS
<1>8. PR!Shape(w) /\ PR!DomOf(w) /\ w.page = u.page /\ w.mode.scroll = "PAGE" /\ w.mode.spread = u.mode.spread
  BY <1>1, <1>2, <1>4 DEF PR!Shape, PSet, PKeep, PR!Mode
<1>9. PKeep(u, x) /\ x.page = u.page /\ x.mode = [scroll |-> "PAGE", spread |-> m] /\ PR!DomOf(x)
  <2>1. CASE u.args.saved
    <3>1. x = PR!SetSpread(w, 0)
      BY <1>7, <2>1
    <3>2. PSet(w, w.page, w.mode.scroll, 0, x)
      BY <1>1, <1>8, <3>1, PSetSpread
    <3> QED BY <1>4, <1>5, <1>8, <2>1, <3>2 DEF PSet, PKeep
  <2>2. CASE ~u.args.saved
    BY <1>4, <1>5, <1>7, <2>2 DEF PSet, PKeep
  <2> QED BY <2>1, <2>2
<1>10. r = PR!SetPage(x, u.args.page)
  BY <1>3, <1>7 DEF PR!Entered
<1>11. DOMAIN x = DOMAIN PR!Start /\ x.page \in PR!Page /\ x.mode \in PR!Mode
  BY <1>1, <1>2, <1>6, <1>9 DEF PKeep, PR!Mode
<1>12. PKeep(x, r) /\ r.page = u.args.page /\ r.mode = x.mode /\ PR!DomOf(r)
  BY <1>1, <1>9, <1>10, <1>11, PSetPage
<1> QED BY <1>5, <1>9, <1>12 DEF PSet, PKeep

(* The modes after presenting are those before it. *)
LEMMA PExited ==
  ASSUME NEW u, PR!Shape(u), PR!DomOf(u), u.args.mode = u.chosen, NEW q \in PR!Page, NEW r, r = PR!Exited(u, q),
         u.mode = [scroll |-> "PAGE", spread |-> IF u.args.saved THEN 0 ELSE u.chosen.spread]
  PROVE  /\ PR!Shape(r) /\ PR!DomOf(r) /\ r.mode = u.chosen /\ r.chosen = u.chosen /\ r.page = q /\ r.state = "NORMAL"
         /\ r.screen = u.screen /\ r.todo = u.todo /\ r.listeners = u.listeners /\ r.controls = u.controls
         /\ r.touch = u.touch /\ r.fingers = u.fingers /\ r.pinched = u.pinched
<1>1. u.args.saved \in BOOLEAN /\ u.chosen \in PR!Mode /\ u.mode \in PR!Mode /\ u.page \in PR!Page /\ u.fingers \in Nat
      /\ DOMAIN u = DOMAIN PR!Start /\ u.args \in [mode : PR!Mode, saved : BOOLEAN, page : PR!Page]
  BY DEF PR!Shape
<1>2. PICK c : c = u.chosen.scroll
  OBVIOUS
<1>3. PICK d : d = u.chosen.spread
  OBVIOUS
<1>4. c \in PR!ScrollMode /\ d \in PR!SpreadMode /\ u.chosen = [scroll |-> c, spread |-> d]
  BY <1>1, <1>2, <1>3 DEF PR!Mode
<1>5. PICK a : a = [u EXCEPT !.state = "NORMAL"]
  OBVIOUS
<1>6. /\ DOMAIN a = DOMAIN PR!Start /\ a.chosen = u.chosen /\ a.mode = u.mode /\ a.page = u.page /\ a.dom = u.dom
      /\ a.state = "NORMAL" /\ a.args = u.args /\ a.screen = u.screen /\ a.todo = u.todo
      /\ a.listeners = u.listeners /\ a.controls = u.controls
      /\ a.touch = u.touch /\ a.fingers = u.fingers /\ a.pinched = u.pinched
  BY <1>1, <1>5 DEF PR!Start
<1>7. PR!Shape(a) /\ PR!DomOf(a)
  BY <1>1, <1>6 DEF PR!Shape, PR!DomOf
<1>8. PICK w : w = PR!SetScroll(a, c)
  OBVIOUS
<1>9. PSet(a, a.page, c, a.mode.spread, w)
  BY <1>4, <1>7, <1>8, PSetScroll
<1>10. a.mode.spread \in PR!SpreadMode
  BY <1>1, <1>6 DEF PR!Mode
<1>11. PR!Shape(w) /\ PR!DomOf(w) /\ w.page = u.page /\ w.mode.scroll = c /\ w.mode.spread = a.mode.spread
  BY <1>1, <1>4, <1>6, <1>9, <1>10 DEF PR!Shape, PSet, PKeep, PR!Mode
<1>12. PICK x : x = IF u.args.saved THEN PR!SetSpread(w, d) ELSE w
  OBVIOUS
<1>13. PKeep(a, x) /\ x.page = u.page /\ x.mode = u.chosen /\ PR!DomOf(x)
  <2>1. CASE u.args.saved
    <3>1. x = PR!SetSpread(w, d)
      BY <1>12, <2>1
    <3>2. PSet(w, w.page, w.mode.scroll, d, x)
      BY <1>4, <1>11, <3>1, PSetSpread
    <3> QED BY <1>4, <1>9, <1>11, <3>2 DEF PSet, PKeep
  <2>2. CASE ~u.args.saved
    <3>1. a.mode.spread = d
      BY <1>3, <1>6, <2>2
    <3> QED BY <1>4, <1>6, <1>9, <1>12, <2>2, <3>1 DEF PSet, PKeep
  <2> QED BY <2>1, <2>2
<1>14. PICK y : y = PR!SetPage(x, q)
  OBVIOUS
<1>15. DOMAIN x = DOMAIN PR!Start /\ x.page \in PR!Page /\ x.mode \in PR!Mode
  BY <1>1, <1>13 DEF PKeep
<1>16. PKeep(x, y) /\ y.page = q /\ y.mode = x.mode /\ PR!DomOf(y)
  BY <1>13, <1>14, <1>15, PSetPage
<1>17. u.args.mode.scroll = c /\ u.args.mode.spread = d
  BY <1>2, <1>3
<1>18. r = [y EXCEPT !.args = PR!NoArgs]
  BY <1>5, <1>8, <1>12, <1>14, <1>17 DEF PR!Exited
<1>19. PKeep(a, y) /\ y.mode = u.chosen /\ DOMAIN y = DOMAIN PR!Start
  BY <1>13, <1>16 DEF PKeep
<1>20. /\ DOMAIN r = DOMAIN PR!Start /\ r.chosen = y.chosen /\ r.mode = y.mode /\ r.page = y.page /\ r.dom = y.dom
       /\ r.state = y.state /\ r.args = PR!NoArgs /\ r.screen = y.screen /\ r.todo = y.todo
       /\ r.listeners = y.listeners /\ r.controls = y.controls
       /\ r.touch = y.touch /\ r.fingers = y.fingers /\ r.pinched = y.pinched
  BY <1>18, <1>19 DEF PR!Start
<1>21. PR!NoArgs \in [mode : PR!Mode, saved : BOOLEAN, page : PR!Page]
  BY SlidesAssumption DEF PR!NoArgs, PR!Mode, PR!ScrollMode, PR!SpreadMode, PR!Page
<1>22. PR!Shape(r) /\ PR!DomOf(r)
  <2>1. r.chosen = u.chosen /\ r.mode = u.chosen /\ r.page = q /\ r.fingers = u.fingers
    BY <1>6, <1>16, <1>19, <1>20 DEF PKeep
  <2>2. PR!Shape(r)
    BY <1>1, <1>20, <1>21, <2>1 DEF PR!Shape
  <2> QED BY <1>16, <1>20, <2>2 DEF PR!DomOf
<1> QED BY <1>6, <1>16, <1>19, <1>20, <1>22 DEF PKeep

(* Timeout keeps the invariant. *)
LEMMA PTimeout ==
  ASSUME PR!Sound(st), PR!Timeout PROVE PKept
<1>1. /\ DOMAIN st = DOMAIN PR!Start /\ st.fingers \in Nat /\ st.page \in PR!Page /\ PR!Shape(st) /\ PR!DomOf(st)
      /\ st.todo # <<>>
  BY DEF PR!Timeout, PR!Sound, PR!Shape
<1>2. st.state = "FULLSCREEN" /\ st.args.mode = st.chosen
  BY <1>1 DEF PR!Sound, PR!Presenting, PR!ModesSound
<1>3. PICK t : t = Head(st.todo)
  OBVIOUS
<1>4. PICK rest : rest = Tail(st.todo)
  OBVIOUS
<1>5. PICK u : u = [st EXCEPT !.todo = rest]
  OBVIOUS
<1>6. st' = IF t.what = "enter" THEN PR!Entered(u) ELSE PR!Exited(u, t.page)
  BY <1>3, <1>4, <1>5 DEF PR!Timeout
<1>7. /\ DOMAIN u = DOMAIN PR!Start /\ u.chosen = st.chosen /\ u.mode = st.mode /\ u.page = st.page /\ u.dom = st.dom
      /\ u.state = st.state /\ u.args = st.args /\ u.screen = st.screen /\ u.todo = rest
      /\ u.listeners = st.listeners /\ u.controls = st.controls
      /\ u.touch = st.touch /\ u.fingers = st.fingers /\ u.pinched = st.pinched
  BY <1>1, <1>5 DEF PR!Start
<1>8. PR!Shape(u) /\ PR!DomOf(u)
  BY <1>1, <1>7 DEF PR!Shape, PR!DomOf
<1>9. CASE t.what = "enter"
  <2>1. st.mode = st.chosen
    BY <1>1, <1>3, <1>9 DEF PR!Sound, PR!ModesSound, PR!Entering
  <2>2. st' = PR!Entered(u)
    BY <1>6, <1>9
  <2>3. PSet(u, u.args.page, "PAGE", IF u.args.saved THEN 0 ELSE u.chosen.spread, st')
    BY <1>7, <1>8, <2>1, <2>2, PEntered
  <2>4. \/ st.screen = "full" /\ rest = <<>>
        \/ st.screen = "window" /\ \E q \in PR!Page : rest = <<[what |-> "exit", page |-> q]>>
    <3>1. CASE st.screen = "full"
      <4>1. PICK p \in PR!Page : st.todo = <<[what |-> "enter", page |-> p]>>
        BY <1>1, <3>1 DEF PR!Sound, PR!Presenting
      <4>2. PICK e : e = [what |-> "enter", page |-> p]
        OBVIOUS
      <4>3. st.todo = <<e>>
        BY <4>1, <4>2
      <4>4. rest = <<>>
        BY <1>4, <4>3, QueueOfTwo
      <4> QED BY <3>1, <4>4
    <3>2. CASE st.screen # "full"
      <4>1. PICK p \in PR!Page, q \in PR!Page :
               st.todo \in {<<[what |-> "exit", page |-> q]>>, <<[what |-> "enter", page |-> p], [what |-> "exit", page |-> q]>>}
        BY <1>2, <3>2 DEF PR!Sound, PR!Presenting
      <4>2. PICK e : e = [what |-> "exit", page |-> q]
        OBVIOUS
      <4>3. PICK d : d = [what |-> "enter", page |-> p]
        OBVIOUS
      <4>4. st.todo = <<e>> \/ st.todo = <<d, e>>
        BY <4>1, <4>2, <4>3
      <4>5. st.todo # <<e>>
        BY <1>3, <1>9, <4>2
      <4>6. rest = <<e>>
        BY <1>4, <4>4, <4>5, QueueOfTwo
      <4>7. st.screen = "window"
        BY <1>2, <3>2 DEF PR!Sound, PR!Presenting
      <4> QED BY <4>2, <4>6, <4>7
    <3> QED BY <3>1, <3>2
  <2>5. /\ DOMAIN st' = DOMAIN PR!Start /\ st'.chosen = st.chosen /\ st'.state = st.state /\ st'.args = st.args
        /\ st'.screen = st.screen /\ st'.todo = rest /\ st'.listeners = st.listeners /\ st'.controls = st.controls
        /\ st'.touch = st.touch /\ st'.fingers = st.fingers /\ st'.pinched = st.pinched /\ PR!DomOf(st')
        /\ st'.page = st.args.page
        /\ st'.mode = [scroll |-> "PAGE", spread |-> IF st.args.saved THEN 0 ELSE st.chosen.spread]
    BY <1>7, <2>3 DEF PSet, PKeep
  <2>6. PR!Presenting(st') /\ ~PR!Entering(st')
    <3>1. CASE rest = <<>>
      BY <1>2, <2>4, <2>5, <3>1 DEF PR!Presenting, PR!Entering
    <3>2. ASSUME NEW q \in PR!Page, rest = <<[what |-> "exit", page |-> q]>>, st.screen = "window"
          PROVE  PR!Presenting(st') /\ ~PR!Entering(st')
      <4>1. PICK e : e = [what |-> "exit", page |-> q]
        OBVIOUS
      <4>2. rest = <<e>> /\ Head(<<e>>) = e /\ e.what = "exit"
        BY <3>2, <4>1
      <4> QED BY <1>2, <2>5, <3>2, <4>1, <4>2 DEF PR!Presenting, PR!Entering
    <3> QED BY <2>4, <3>1, <3>2
  <2>7. st.args.saved \in BOOLEAN /\ st.args.page \in PR!Page /\ st.chosen \in PR!Mode
    BY <1>1 DEF PR!Shape
  <2>8. st'.mode \in PR!Mode
    BY <2>5, <2>7 DEF PR!Mode, PR!ScrollMode, PR!SpreadMode
  <2>9. PR!Shape(st')
    BY <1>1, <2>5, <2>7, <2>8 DEF PR!Shape
  <2>10. PR!ModesSound(st')
    BY <1>2, <2>5, <2>6 DEF PR!ModesSound
  <2>11. PR!Sound(st')
    BY <2>5, <2>6, <2>9, <2>10 DEF PR!Sound
  <2> QED BY <1>1, <2>5, <2>11 DEF PKept, PR!PinchIsNoSwipe
<1>10. CASE t.what # "enter"
  <2>1. ~PR!Entering(st) /\ st' = PR!Exited(u, t.page)
    BY <1>3, <1>6, <1>10 DEF PR!Entering
  <2>2. st.mode = [scroll |-> "PAGE", spread |-> IF st.args.saved THEN 0 ELSE st.chosen.spread]
    BY <1>2, <2>1 DEF PR!Sound, PR!ModesSound
  <2>3. st.screen = "window" /\ rest = <<>> /\ t.page \in PR!Page
    <3>1. st.screen # "full"
      <4>1. ASSUME NEW p \in PR!Page, st.todo = <<[what |-> "enter", page |-> p]>> PROVE FALSE
        BY <1>3, <1>10, <4>1
      <4> QED BY <1>1, <4>1 DEF PR!Sound, PR!Presenting
    <3>2. PICK p \in PR!Page, q \in PR!Page :
             st.todo \in {<<[what |-> "exit", page |-> q]>>, <<[what |-> "enter", page |-> p], [what |-> "exit", page |-> q]>>}
      BY <1>2, <3>1 DEF PR!Sound, PR!Presenting
    <3>3. PICK e : e = [what |-> "exit", page |-> q]
      OBVIOUS
    <3>4. PICK d : d = [what |-> "enter", page |-> p]
      OBVIOUS
    <3>5. st.todo = <<e>> \/ st.todo = <<d, e>>
      BY <3>2, <3>3, <3>4
    <3>6. st.todo # <<d, e>>
      BY <1>3, <1>10, <3>4
    <3>7. rest = <<>> /\ t = e
      BY <1>3, <1>4, <3>5, <3>6, QueueOfTwo
    <3>8. st.screen = "window"
      BY <1>2, <3>1 DEF PR!Sound, PR!Presenting
    <3> QED BY <3>3, <3>7, <3>8
  <2>4. /\ PR!Shape(st') /\ PR!DomOf(st') /\ st'.mode = u.chosen /\ st'.chosen = u.chosen /\ st'.page = t.page
        /\ st'.state = "NORMAL"
        /\ st'.screen = u.screen /\ st'.todo = u.todo /\ st'.listeners = u.listeners /\ st'.controls = u.controls
        /\ st'.touch = u.touch /\ st'.fingers = u.fingers /\ st'.pinched = u.pinched
    <3>1. u.args.mode = u.chosen /\ u.mode = [scroll |-> "PAGE", spread |-> IF u.args.saved THEN 0 ELSE u.chosen.spread]
      BY <1>2, <1>7, <2>2
    <3> QED BY <1>8, <2>1, <2>3, <3>1, PExited
  <2>5. PR!Presenting(st') /\ PR!ModesSound(st')
    BY <1>7, <2>3, <2>4 DEF PR!Presenting, PR!ModesSound
  <2>6. PR!Sound(st')
    BY <1>7, <2>4, <2>5 DEF PR!Sound
  <2> QED BY <1>1, <1>7, <2>4, <2>6 DEF PKept, PR!PinchIsNoSwipe
<1> QED BY <1>9, <1>10

(* A step of the listeners: the controls and the fingers. *)
LEMMA PListens ==
  ASSUME PR!Sound(st), NEW u, DOMAIN u = DOMAIN PR!Start, u.chosen = st.chosen, u.mode = st.mode, u.page = st.page,
         u.dom = st.dom, u.state = st.state, u.args = st.args, u.screen = st.screen, u.todo = st.todo,
         u.listeners \/ u.controls => st.listeners \/ st.controls, u.fingers \in Nat, u.pinched => u.touch = "null"
  PROVE  PR!Sound(u)
<1>1. PR!Shape(u) /\ PR!DomOf(u)
  BY DEF PR!Sound, PR!Shape, PR!DomOf
<1>2. PR!Presenting(u) /\ PR!ModesSound(u)
  BY DEF PR!Sound, PR!Presenting, PR!ModesSound, PR!Entering
<1> QED BY <1>1, <1>2 DEF PR!Sound

(* The controls keep the invariant. *)
LEMMA PControls ==
  ASSUME PR!Sound(st), PR!MouseMove \/ PR!ControlsTimer PROVE PKept
<1>1. DOMAIN st = DOMAIN PR!Start /\ st.fingers \in Nat /\ (st.pinched => st.touch = "null")
  BY DEF PR!Sound, PR!Shape
<1>2. PICK b : st' = [st EXCEPT !.controls = b] /\ (st.listeners \/ st.controls)
  BY DEF PR!MouseMove, PR!ControlsTimer
<1>3. /\ DOMAIN st' = DOMAIN PR!Start /\ st'.chosen = st.chosen /\ st'.mode = st.mode /\ st'.page = st.page /\ st'.dom = st.dom
      /\ st'.state = st.state /\ st'.args = st.args /\ st'.screen = st.screen /\ st'.todo = st.todo
      /\ st'.listeners = st.listeners
      /\ st'.touch = st.touch /\ st'.fingers = st.fingers /\ st'.pinched = st.pinched
  BY <1>1, <1>2 DEF PR!Start
<1>4. PR!Sound(st')
  BY <1>1, <1>2, <1>3, PListens
<1> QED BY <1>1, <1>3, <1>4 DEF PKept, PR!PinchIsNoSwipe

(* A touch begins or moves. *)
LEMMA PTouch ==
  ASSUME PR!Sound(st), PR!TouchStart \/ \E to \in {"back", "on"} : PR!TouchMove(to) PROVE PKept
<1>1. DOMAIN st = DOMAIN PR!Start /\ st.fingers \in Nat /\ (st.pinched => st.touch = "null")
  BY DEF PR!Sound, PR!Shape
<1>2. PICK n, b, k : /\ n \in Nat /\ st' = [st EXCEPT !.fingers = n, !.pinched = b, !.touch = k]
                     /\ n >= st.fingers /\ (b => k = "null")
  <2>1. CASE PR!TouchStart
    <3>1. PICK k : k = IF st.fingers = 1 THEN "null" ELSE "down"
      OBVIOUS
    <3>2. PICK b : b = (st.fingers = 1)
      OBVIOUS
    <3>3. PICK n : n = st.fingers + 1
      OBVIOUS
    <3>4. st' = [st EXCEPT !.fingers = n, !.pinched = b, !.touch = k]
      BY <1>1, <2>1, <3>1, <3>2, <3>3 DEF PR!TouchStart
    <3>5. n \in Nat /\ n >= st.fingers
      BY <1>1, <3>3
    <3>6. b => k = "null"
      BY <3>1, <3>2
    <3> QED BY <3>4, <3>5, <3>6
  <2>2. ASSUME NEW to \in {"back", "on"}, PR!TouchMove(to)
        PROVE  \E n, b, k : /\ n \in Nat /\ st' = [st EXCEPT !.fingers = n, !.pinched = b, !.touch = k]
                            /\ n >= st.fingers /\ (b => k = "null")
    <3>1. PICK k : k = IF st.fingers > 1 \/ st.touch = "null" THEN "null" ELSE to
      OBVIOUS
    <3>2. st' = [st EXCEPT !.touch = k] /\ (st.pinched => k = "null")
      BY <1>1, <2>2, <3>1 DEF PR!TouchMove
    <3>3. st' = [st EXCEPT !.fingers = st.fingers, !.pinched = st.pinched, !.touch = k]
      BY <1>1, <3>2 DEF PR!Start
    <3>4. st.fingers >= st.fingers
      BY <1>1
    <3> QED BY <1>1, <3>2, <3>3, <3>4
  <2> QED BY <2>1, <2>2
<1>3. /\ DOMAIN st' = DOMAIN PR!Start /\ st'.chosen = st.chosen /\ st'.mode = st.mode /\ st'.page = st.page /\ st'.dom = st.dom
      /\ st'.state = st.state /\ st'.args = st.args /\ st'.screen = st.screen /\ st'.todo = st.todo
      /\ st'.listeners = st.listeners /\ st'.controls = st.controls
      /\ st'.touch = k /\ st'.fingers = n /\ st'.pinched = b
  BY <1>1, <1>2 DEF PR!Start
<1>4. PR!Sound(st')
  BY <1>1, <1>2, <1>3, PListens
<1> QED BY <1>1, <1>2, <1>3, <1>4 DEF PKept, PR!PinchIsNoSwipe

(* A touch ends: it is a swipe or nothing, and never a swipe after a pinch. *)
LEMMA PTouchEnd ==
  ASSUME PR!Sound(st), NEW views \in SUBSET PR!Page, PR!TouchEnd(views) PROVE PKept
<1>1. DOMAIN st = DOMAIN PR!Start /\ st.fingers \in Nat /\ (st.pinched => st.touch = "null") /\ st.fingers > 0 /\ st.page \in views
  BY DEF PR!Sound, PR!Shape, PR!TouchEnd, PR!Visible
<1>2. PICK n : n = st.fingers - 1
  OBVIOUS
<1>3. PICK u : u = [st EXCEPT !.fingers = n]
  OBVIOUS
<1>4. /\ DOMAIN u = DOMAIN PR!Start /\ u.chosen = st.chosen /\ u.mode = st.mode /\ u.page = st.page /\ u.dom = st.dom
      /\ u.state = st.state /\ u.args = st.args /\ u.screen = st.screen /\ u.todo = st.todo
      /\ u.listeners = st.listeners /\ u.controls = st.controls
      /\ u.touch = st.touch /\ u.fingers = n /\ u.pinched = st.pinched
  BY <1>1, <1>3 DEF PR!Start
<1>5. n \in Nat
  BY <1>1, <1>2
<1>6. PR!Sound(u)
  BY <1>1, <1>4, <1>5, PListens
<1>7. st' = IF st.touch \in {"back", "on"} THEN PR!Turn(u, st.touch = "back", views) ELSE u
  BY <1>2, <1>3 DEF PR!TouchEnd
<1>8. CASE st.touch \in {"back", "on"}
  <2>1. PICK back : back = (st.touch = "back")
    OBVIOUS
  <2>2. back \in BOOLEAN /\ st' = PR!Turn(u, back, views) /\ u.page \in views
    BY <1>1, <1>4, <1>7, <1>8, <2>1
  <2>3. PTurned(u, views, st')
    BY <1>6, <2>2, PTurn DEF PR!Sound
  <2>4. PR!Sound(st')
    BY <1>6, <2>3, PKeepSound DEF PTurned
  <2>5. ~st.pinched
    BY <1>1, <1>8
  <2> QED BY <2>4, <2>5 DEF PKept, PR!PinchIsNoSwipe
<1>9. CASE st.touch \notin {"back", "on"}
  BY <1>4, <1>6, <1>7, <1>9 DEF PKept, PR!PinchIsNoSwipe
<1> QED BY <1>8, <1>9

(* Presenting begins with the invariant. *)
LEMMA PInit == ASSUME PR!Init PROVE PR!IInv
<1>1. st = PR!Start
  BY DEF PR!Init
<1>2. /\ DOMAIN st = DOMAIN PR!Start /\ st.mode = [scroll |-> "VERTICAL", spread |-> 0] /\ st.page = 1 /\ st.dom = PR!Layout(0)
      /\ st.state = "NORMAL" /\ st.args = PR!NoArgs /\ st.screen = "window" /\ st.todo = <<>>
      /\ st.listeners = FALSE /\ st.controls = FALSE /\ st.pinched = FALSE /\ st.fingers = 0
      /\ st.chosen = [scroll |-> "VERTICAL", spread |-> 0]
  BY <1>1 DEF PR!Start
<1>3. PR!NoArgs \in [mode : PR!Mode, saved : BOOLEAN, page : PR!Page]
  BY SlidesAssumption DEF PR!NoArgs, PR!Mode, PR!ScrollMode, PR!SpreadMode, PR!Page
<1>4. st.mode \in PR!Mode /\ st.page \in PR!Page
  BY <1>2, SlidesAssumption DEF PR!Mode, PR!ScrollMode, PR!SpreadMode, PR!Page
<1>5. PR!Shape(st)
  BY <1>2, <1>3, <1>4 DEF PR!Shape
<1>6. PR!DomOf(st)
  BY <1>2 DEF PR!DomOf
<1>7. PR!Presenting(st) /\ PR!ModesSound(st)
  BY <1>2 DEF PR!Presenting, PR!ModesSound
<1> QED BY <1>2, <1>5, <1>6, <1>7 DEF PR!IInv, PR!Sound

(* Every step of presenting keeps the invariant, and a pinch is no swipe. *)
LEMMA PStep == ASSUME PR!IInv, PR!Next PROVE PKept
<1>1. PR!Sound(st)
  BY DEF PR!IInv
<1> QED BY <1>1, PTimeout, PChooseScroll, PChooseSpread, PTurnPage, PRequest, PRefused, PEnter, PExit, PControls, PTouch, PTouchEnd
        DEF PR!Next

(* What the invariant says about modes, listeners and pages. *)
LEMMA PProps == ASSUME PR!IInv PROVE PR!DomIsLayout /\ PR!ModesRestored /\ PR!ListenersOnlyPresenting /\ PR!TurnSkipsNothing
<1>1. PR!Sound(st)
  BY DEF PR!IInv
<1>2. PR!DomIsLayout
  BY <1>1 DEF PR!Sound, PR!DomIsLayout
<1>3. PR!ModesRestored
  BY <1>1, PInWindow DEF PR!ModesRestored
<1>4. PR!ListenersOnlyPresenting
  BY <1>1 DEF PR!Sound, PR!Presenting, PR!ListenersOnlyPresenting
<1>5. PR!TurnSkipsNothing
  <2>1. ASSUME NEW views \in SUBSET PR!Page, NEW previous \in BOOLEAN, PR!Visible(views), NEW r, r = PR!Turn(st, previous, views),
               NEW q \in PR!Page, (st.page < q /\ q < r.page) \/ (r.page < q /\ q < st.page)
        PROVE  q \in views
    <3>1. st.page \in views
      BY <2>1 DEF PR!Visible
    <3>2. PTurned(st, views, r)
      BY <1>1, <2>1, <3>1, PTurn DEF PR!Sound
    <3> QED BY <2>1, <3>2 DEF PTurned
  <2> QED BY <2>1 DEF PR!TurnSkipsNothing
<1> QED BY <1>2, <1>3, <1>4, <1>5

-----------------------------------------------------------------------------
(* AltTextManager: the dialog for the text of an image. *)

(* The largest and the smallest of two numbers. *)
LEMMA AMaxOfTwo == ASSUME NEW x \in Int, NEW y \in Int PROVE AT!Max({x, y}) = IF x >= y THEN x ELSE y
<1>1. \E m \in {x, y} : \A k \in {x, y} : m >= k
  OBVIOUS
<1>2. AT!Max({x, y}) \in {x, y} /\ \A k \in {x, y} : AT!Max({x, y}) >= k
  BY <1>1 DEF AT!Max
<1> QED BY <1>2

(* The smaller of two numbers. *)
LEMMA AMinOfTwo == ASSUME NEW x \in Int, NEW y \in Int PROVE AT!Min({x, y}) = IF x <= y THEN x ELSE y
<1>1. \E m \in {x, y} : \A k \in {x, y} : m <= k
  OBVIOUS
<1>2. AT!Min({x, y}) \in {x, y} /\ \A k \in {x, y} : AT!Min({x, y}) <= k
  BY <1>1 DEF AT!Min
<1> QED BY <1>2

(* The smallest of one number. *)
LEMMA AMinOfOne == ASSUME NEW x \in Int, NEW S, S = {x} PROVE AT!Min(S) = x
<1>1. \E m \in S : \A k \in S : m <= k
  OBVIOUS
<1>2. AT!Min(S) \in S
  BY <1>1 DEF AT!Min
<1> QED BY <1>2

(* A dialog that fits into the window is put inside of it. *)
LEMMA AInside ==
  ASSUME NEW p \in Int, NEW size \in Nat, NEW window \in Nat, window >= size, NEW q, q = AT!Inside(p, size, window)
  PROVE  q \in Int /\ q >= 0 /\ q + size <= window
<1>1. PICK m \in Int : m = AT!Max({p, 0})
  BY AMaxOfTwo
<1>2. m >= 0
  BY <1>1, AMaxOfTwo
<1>3. window - (m + size) \in Int
  BY <1>1
<1>4. PICK k \in Int : k = AT!Min({window - (m + size), 0})
  BY <1>3, AMinOfTwo
<1>5. k = IF window - (m + size) <= 0 THEN window - (m + size) ELSE 0
  BY <1>3, <1>4, AMinOfTwo
<1>6. q = m + k
  BY <1>1, <1>4 DEF AT!Inside
<1> QED BY <1>1, <1>2, <1>4, <1>5, <1>6

(* Inside the window and not over the image. *)
Clear(s, r, w) ==
  /\ s.left >= 0 /\ s.left + DialogSize.w <= w.w
  /\ s.top >= 0 /\ s.top + DialogSize.h <= w.h
  /\ \/ s.left + DialogSize.w <= r.x \/ r.x + r.w <= s.left
     \/ s.top + DialogSize.h <= r.y \/ r.y + r.h <= s.top

(* Position keeps the invariant. *)
LEMMA APosition ==
  ASSUME NEW r \in ImageRects, NEW w \in WindowSizes, NEW ltr, AT!InWindow(r, w), NEW s, s = AT!Position(r, w, ltr), s.positioned
  PROVE  Clear(s, r, w)
<1>1. r.x \in Int /\ r.y \in Int /\ r.w \in Nat /\ r.h \in Nat /\ w.w \in Nat /\ w.h \in Nat /\ w.w >= DialogSize.w /\ w.h >= DialogSize.h
  BY AltTextAssumption
<1>2. DialogSize.w \in Nat /\ DialogSize.h \in Nat /\ DialogMargin \in Nat
  BY AltTextAssumption
<1>3. r.x < w.w /\ r.y < w.h /\ r.x + r.w > 0 /\ r.y + r.h > 0
  BY DEF AT!InWindow
<1>4. PICK side : side = AT!Beside(r, w, ltr)
  OBVIOUS
<1>5. PICK ends : ends = AT!AboveOrBelow(r, w)
  OBVIOUS
<1>6. CASE side # {}
  <2>1. PICK x \in Int : side = {x} /\ \/ x = r.x + r.w + DialogMargin /\ x + DialogSize.w < w.w
                                       \/ x = r.x - DialogSize.w - DialogMargin /\ x > 0
    BY <1>1, <1>2, <1>4, <1>6 DEF AT!Beside
  <2>2. AT!Min(side) = x
    BY <2>1, AMinOfOne
  <2>3. PICK y : y = AT!Inside(r.y, DialogSize.h, w.h)
    OBVIOUS
  <2>4. y \in Int /\ y >= 0 /\ y + DialogSize.h <= w.h
    BY <1>1, <1>2, <2>3, AInside
  <2>5. s = [positioned |-> TRUE, left |-> x, top |-> y]
    BY <1>4, <1>6, <2>2, <2>3 DEF AT!Position, AT!At
  <2>6. s.left = x /\ s.top = y
    BY <2>5
  <2>7. x >= 0 /\ x + DialogSize.w <= w.w /\ (x + DialogSize.w <= r.x \/ r.x + r.w <= x)
    BY <1>1, <1>2, <1>3, <2>1
  <2> QED BY <2>4, <2>6, <2>7 DEF Clear
<1>7. CASE side = {} /\ ends # {}
  <2>1. PICK y \in Int : ends = {y} /\ \/ y = r.y - DialogSize.h - DialogMargin /\ y > 0
                                       \/ y = r.y + r.h + DialogMargin /\ y + DialogSize.h < w.h
    BY <1>1, <1>2, <1>5, <1>7 DEF AT!AboveOrBelow
  <2>2. AT!Min(ends) = y
    BY <2>1, AMinOfOne
  <2>3. PICK x : x = AT!Inside(r.x, DialogSize.w, w.w)
    OBVIOUS
  <2>4. x \in Int /\ x >= 0 /\ x + DialogSize.w <= w.w
    BY <1>1, <1>2, <2>3, AInside
  <2>5. s = [positioned |-> TRUE, left |-> x, top |-> y]
    BY <1>4, <1>5, <1>7, <2>2, <2>3 DEF AT!Position, AT!At
  <2>6. s.left = x /\ s.top = y
    BY <2>5
  <2>7. y >= 0 /\ y + DialogSize.h <= w.h /\ (y + DialogSize.h <= r.y \/ r.y + r.h <= y)
    BY <1>1, <1>2, <1>3, <2>1
  <2> QED BY <2>4, <2>6, <2>7 DEF Clear
<1>8. CASE side = {} /\ ends = {}
  <2>1. s = AT!Nowhere
    BY <1>4, <1>5, <1>8 DEF AT!Position
  <2> QED BY <2>1 DEF AT!Nowhere
<1> QED BY <1>6, <1>7, <1>8

(* OverlayManager.close of the dialog, if it is open. *)
AClosed(u, r) ==
  /\ DOMAIN r = DOMAIN AT!Start(TRUE, DialogSize) /\ r.doc = u.doc /\ r.data = u.data /\ r.form = u.form /\ r.editor = u.editor
  /\ r.ui = u.ui /\ r.listens = u.listens /\ r.resizes = u.resizes /\ r.window = u.window /\ r.ltr = u.ltr
  /\ IF u.overlay = "alttext" THEN r.overlay = "null" /\ r.closing ELSE r.overlay = u.overlay /\ r.closing = u.closing

(* CloseDialog keeps the invariant. *)
LEMMA ACloseDialog ==
  ASSUME NEW u, DOMAIN u = DOMAIN AT!Start(TRUE, DialogSize), NEW r, r = AT!CloseDialog(u)
  PROVE  AClosed(u, r)
<1>1. CASE u.overlay # "alttext"
  <2>1. r = u
    BY <1>1 DEF AT!CloseDialog
  <2> QED BY <1>1, <2>1 DEF AClosed
<1>2. CASE u.overlay = "alttext"
  <2>1. r = [u EXCEPT !.overlay = "null", !.closing = TRUE, !.rect = AT!AnyRect, !.style = AT!Nowhere]
    BY <1>2 DEF AT!CloseDialog
  <2>2. /\ DOMAIN r = DOMAIN AT!Start(TRUE, DialogSize) /\ r.doc = u.doc /\ r.data = u.data /\ r.form = u.form /\ r.editor = u.editor
        /\ r.ui = u.ui /\ r.listens = u.listens /\ r.resizes = u.resizes /\ r.window = u.window /\ r.ltr = u.ltr
    BY <2>1 DEF AT!Start
  <2>3. r.overlay = "null" /\ r.closing
    BY <2>1 DEF AT!Start
  <2> QED BY <1>2, <2>2, <2>3 DEF AClosed
<1> QED BY <1>1, <1>2

(* When the dialog is not open nothing is said about its place or its form. *)
LEMMA ANotOpen ==
  ASSUME NEW u, DOMAIN u = DOMAIN AT!Start(TRUE, DialogSize), u.overlay # "alttext", DOMAIN u.form = DOMAIN AT!Blank,
         u.doc \in Nat, u.doc # 0, DOMAIN u.data = ImageIds,
         \A e \in ImageIds : DOMAIN u.data[e] = DOMAIN AT!Blank /\ u.data[e].text \in {<< >>, <<u.doc, e>>},
         u.listens = (u.ui # u.doc), u.closing => u.editor # 0, u.window \in WindowSizes
  PROVE  AT!Sound(u)
<1>1. AT!FormOf(u)
  BY DEF AT!FormOf
<1>2. AT!TextsSound(u)
  BY <1>1 DEF AT!TextsSound
<1>3. AT!KeysSound(u)
  BY DEF AT!KeysSound
<1>4. AT!PlaceSound(u)
  BY DEF AT!PlaceSound
<1> QED BY <1>2, <1>3, <1>4 DEF AT!Sound

(* Closing the dialog keeps the invariant. *)
LEMMA AClosedSound ==
  ASSUME NEW u, AT!Sound(u), NEW r, AClosed(u, r)
  PROVE  AT!Sound(r)
<1>1. AT!TextsSound(u) /\ AT!KeysSound(u) /\ AT!PlaceSound(u)
  BY DEF AT!Sound
<1>2. u.listens = (u.ui # u.doc) /\ (u.closing => u.editor # 0) /\ (u.overlay = "alttext" => u.editor # 0)
  BY <1>1, AltTextAssumption DEF AT!KeysSound
<1>3. DOMAIN r = DOMAIN AT!Start(TRUE, DialogSize) /\ r.overlay # "alttext"
  BY DEF AClosed
<1>4. /\ r.doc \in Nat /\ r.doc # 0 /\ DOMAIN r.data = ImageIds /\ DOMAIN r.form = DOMAIN AT!Blank
      /\ \A e \in ImageIds : DOMAIN r.data[e] = DOMAIN AT!Blank /\ r.data[e].text \in {<< >>, <<r.doc, e>>}
  BY <1>1 DEF AT!TextsSound, AT!FormOf, AClosed
<1>5. r.listens = (r.ui # r.doc) /\ (r.closing => r.editor # 0) /\ r.window \in WindowSizes
  BY <1>1, <1>2 DEF AClosed, AT!PlaceSound
<1> QED BY <1>3, <1>4, <1>5, ANotOpen

(* EditAltText keeps the invariant. *)
LEMMA AEditAltText ==
  ASSUME AT!IInv, NEW e \in ImageIds, NEW r \in ImageRects, AT!EditAltText(e, r)
  PROVE  AT!Sound(st')
<1>1. DOMAIN st = DOMAIN AT!Start(TRUE, DialogSize) /\ AT!TextsSound(st) /\ AT!KeysSound(st) /\ AT!PlaceSound(st)
  BY DEF AT!IInv, AT!Sound
<1>2. PICK b : b = [st EXCEPT !.form = st.data[e], !.editor = e, !.ui = st.doc, !.listens = FALSE, !.resizes = TRUE]
  OBVIOUS
<1>3. /\ st' = IF st.overlay # "null" THEN AT!Close(b)
               ELSE [b EXCEPT !.overlay = "alttext", !.rect = r, !.style = AT!Position(r, st.window, st.ltr)]
      /\ st.editor = 0 /\ AT!InWindow(r, st.window)
  BY <1>2 DEF AT!EditAltText, AT!FillForm
<1>4. /\ DOMAIN b = DOMAIN AT!Start(TRUE, DialogSize) /\ b.doc = st.doc /\ b.data = st.data /\ b.overlay = st.overlay
      /\ b.closing = st.closing /\ b.window = st.window /\ b.ltr = st.ltr
  BY <1>1, <1>2 DEF AT!Start
<1>5. b.form = st.data[e] /\ b.editor = e /\ b.ui = st.doc /\ b.listens = FALSE /\ b.resizes = TRUE
  BY <1>1, <1>2 DEF AT!Start
<1>6. /\ st.doc \in Nat /\ st.doc # 0 /\ DOMAIN st.data = ImageIds /\ st.window \in WindowSizes
      /\ \A x \in ImageIds : DOMAIN st.data[x] = DOMAIN AT!Blank /\ st.data[x].text \in {<< >>, <<st.doc, x>>}
  BY <1>1 DEF AT!TextsSound, AT!PlaceSound
<1>7. ~st.closing /\ st.overlay # "alttext"
  BY <1>1, <1>3, AltTextAssumption DEF AT!KeysSound
<1>8. CASE st.overlay # "null"
  <2>1. st' = [b EXCEPT !.editor = 0, !.ui = 0, !.resizes = FALSE, !.listens = TRUE]
    BY <1>3, <1>4, <1>5, <1>8 DEF AT!Close
  <2>2. /\ DOMAIN st' = DOMAIN AT!Start(TRUE, DialogSize) /\ st'.doc = b.doc /\ st'.data = b.data /\ st'.overlay = b.overlay
        /\ st'.closing = b.closing /\ st'.window = b.window /\ st'.form = b.form /\ st'.ui = 0 /\ st'.listens = TRUE
    BY <1>4, <2>1 DEF AT!Start
  <2>3. DOMAIN st'.form = DOMAIN AT!Blank
    BY <1>5, <1>6, <2>2
  <2>4. st'.listens = (st'.ui # st'.doc) /\ ~st'.closing
    BY <1>4, <1>6, <1>7, <2>2
  <2> QED BY <1>4, <1>6, <1>7, <2>2, <2>3, <2>4, ANotOpen
<1>9. CASE st.overlay = "null"
  <2>1. PICK s : s = AT!Position(r, st.window, st.ltr)
    OBVIOUS
  <2>2. st' = [b EXCEPT !.overlay = "alttext", !.rect = r, !.style = s]
    BY <1>3, <1>9, <2>1
  <2>3. /\ DOMAIN st' = DOMAIN AT!Start(TRUE, DialogSize) /\ st'.doc = b.doc /\ st'.data = b.data /\ st'.form = b.form
        /\ st'.closing = b.closing /\ st'.window = b.window /\ st'.ltr = b.ltr
    BY <1>4, <2>2 DEF AT!Start
  <2>4. /\ st'.editor = b.editor /\ st'.ui = b.ui /\ st'.listens = b.listens /\ st'.resizes = b.resizes
        /\ st'.overlay = "alttext" /\ st'.rect = r /\ st'.style = s
    BY <1>4, <2>2 DEF AT!Start
  <2>5. AT!FormOf(st')
    BY <1>4, <1>5, <1>6, <2>3, <2>4 DEF AT!FormOf
  <2>6. AT!TextsSound(st')
    BY <1>4, <1>6, <2>3, <2>5 DEF AT!TextsSound
  <2>7. AT!KeysSound(st')
    BY <1>4, <1>5, <1>7, <2>3, <2>4 DEF AT!KeysSound
  <2>8. AT!PlaceSound(st')
    BY <1>3, <1>4, <1>6, <2>1, <2>3, <2>4 DEF AT!PlaceSound
  <2> QED BY <2>3, <2>6, <2>7, <2>8 DEF AT!Sound
<1> QED BY <1>8, <1>9

(* Only the form changes. *)
LEMMA AWritten ==
  ASSUME NEW u, AT!Sound(u), NEW f, DOMAIN f = DOMAIN AT!Blank, f.text \in {u.form.text, << >>, <<u.doc, u.editor>>},
         NEW r, r = [u EXCEPT !.form = f]
  PROVE  AT!Sound(r)
<1>1. DOMAIN u = DOMAIN AT!Start(TRUE, DialogSize) /\ AT!TextsSound(u) /\ AT!KeysSound(u) /\ AT!PlaceSound(u)
  BY DEF AT!Sound
<1>2. /\ DOMAIN r = DOMAIN AT!Start(TRUE, DialogSize) /\ r.doc = u.doc /\ r.data = u.data /\ r.overlay = u.overlay /\ r.form = f
      /\ r.closing = u.closing /\ r.window = u.window /\ r.ltr = u.ltr
  BY <1>1 DEF AT!Start
<1>3. /\ r.editor = u.editor /\ r.ui = u.ui /\ r.listens = u.listens /\ r.resizes = u.resizes /\ r.rect = u.rect /\ r.style = u.style
  BY <1>1 DEF AT!Start
<1>4. AT!FormOf(r)
  BY <1>1, <1>2, <1>3 DEF AT!FormOf, AT!TextsSound
<1>5. AT!TextsSound(r)
  BY <1>1, <1>2, <1>4 DEF AT!TextsSound
<1>6. AT!KeysSound(r)
  BY <1>1, <1>2, <1>3 DEF AT!KeysSound
<1>7. AT!PlaceSound(r)
  BY <1>1, <1>2, <1>3 DEF AT!PlaceSound
<1> QED BY <1>2, <1>5, <1>6, <1>7 DEF AT!Sound

(* Type keeps the invariant. *)
LEMMA AType ==
  ASSUME AT!IInv, NEW text, AT!Type(text)
  PROVE  AT!Sound(st')
<1>1. AT!Sound(st) /\ DOMAIN st.form = DOMAIN AT!Blank
  BY DEF AT!IInv, AT!Sound, AT!TextsSound, AT!FormOf
<1>2. PICK f : f = [st.form EXCEPT !.text = text]
  OBVIOUS
<1>3. st' = [st EXCEPT !.form = f] /\ text \in {<< >>, <<st.doc, st.editor>>}
  BY <1>2 DEF AT!Type
<1>4. DOMAIN f = DOMAIN AT!Blank /\ f.text = text
  BY <1>1, <1>2 DEF AT!Blank
<1> QED BY <1>1, <1>3, <1>4, AWritten

(* Choose keeps the invariant. *)
LEMMA AChoose ==
  ASSUME AT!IInv, AT!Choose
  PROVE  AT!Sound(st')
<1>1. AT!Sound(st) /\ DOMAIN st.form = DOMAIN AT!Blank
  BY DEF AT!IInv, AT!Sound, AT!TextsSound, AT!FormOf
<1>2. PICK c : c = ~st.form.decorative
  OBVIOUS
<1>3. PICK f : f = [st.form EXCEPT !.decorative = c]
  OBVIOUS
<1>4. st' = [st EXCEPT !.form = f]
  BY <1>2, <1>3 DEF AT!Choose
<1>5. DOMAIN f = DOMAIN AT!Blank /\ f.text = st.form.text
  BY <1>1, <1>3 DEF AT!Blank
<1> QED BY <1>1, <1>4, <1>5, AWritten

(* Save keeps the invariant. *)
LEMMA ASave ==
  ASSUME AT!IInv, AT!Save
  PROVE  AT!Sound(st')
<1>1. DOMAIN st = DOMAIN AT!Start(TRUE, DialogSize) /\ AT!TextsSound(st) /\ AT!KeysSound(st) /\ AT!PlaceSound(st)
  BY DEF AT!IInv, AT!Sound
<1>2. PICK D : D = [st.data EXCEPT ![st.editor] = st.form]
  OBVIOUS
<1>3. PICK u : u = [st EXCEPT !.data = D]
  OBVIOUS
<1>4. st' = AT!CloseDialog(u) /\ st.overlay = "alttext"
  BY <1>2, <1>3 DEF AT!Save
<1>5. st.form.text \in {<< >>, <<st.doc, st.editor>>} /\ DOMAIN st.form = DOMAIN AT!Blank
  BY <1>1, <1>4 DEF AT!TextsSound, AT!FormOf
<1>6. DOMAIN D = ImageIds /\ \A x \in ImageIds : DOMAIN D[x] = DOMAIN AT!Blank /\ D[x].text \in {<< >>, <<st.doc, x>>}
  <2>1. DOMAIN D = ImageIds /\ \A x \in ImageIds : D[x] = IF x = st.editor THEN st.form ELSE st.data[x]
    BY <1>1, <1>2 DEF AT!TextsSound
  <2> QED BY <1>1, <1>5, <2>1 DEF AT!TextsSound
<1>7. /\ DOMAIN u = DOMAIN AT!Start(TRUE, DialogSize) /\ u.doc = st.doc /\ u.data = D /\ u.overlay = st.overlay /\ u.form = st.form
      /\ u.closing = st.closing /\ u.window = st.window /\ u.ltr = st.ltr
  BY <1>1, <1>3 DEF AT!Start
<1>8. /\ u.editor = st.editor /\ u.ui = st.ui /\ u.listens = st.listens /\ u.resizes = st.resizes /\ u.rect = st.rect /\ u.style = st.style
  BY <1>1, <1>3 DEF AT!Start
<1>9. AT!FormOf(u)
  BY <1>5, <1>7, <1>8 DEF AT!FormOf
<1>10. AT!TextsSound(u)
  BY <1>1, <1>6, <1>7, <1>9 DEF AT!TextsSound
<1>11. AT!KeysSound(u)
  BY <1>1, <1>7, <1>8 DEF AT!KeysSound
<1>12. AT!PlaceSound(u)
  BY <1>1, <1>7, <1>8 DEF AT!PlaceSound
<1>13. AT!Sound(u)
  BY <1>7, <1>10, <1>11, <1>12 DEF AT!Sound
<1>14. AClosed(u, st')
  BY <1>4, <1>7, ACloseDialog
<1> QED BY <1>13, <1>14, AClosedSound

(* Cancel keeps the invariant. *)
LEMMA ACancel ==
  ASSUME AT!IInv, AT!Cancel
  PROVE  AT!Sound(st')
<1>1. AT!Sound(st) /\ DOMAIN st = DOMAIN AT!Start(TRUE, DialogSize)
  BY DEF AT!IInv, AT!Sound
<1>2. st' = AT!CloseDialog(st)
  BY DEF AT!Cancel
<1>3. AClosed(st, st')
  BY <1>1, <1>2, ACloseDialog
<1> QED BY <1>1, <1>3, AClosedSound

(* CloseEvent keeps the invariant. *)
LEMMA ACloseEvent ==
  ASSUME AT!IInv, AT!CloseEvent
  PROVE  AT!Sound(st')
<1>1. DOMAIN st = DOMAIN AT!Start(TRUE, DialogSize) /\ AT!TextsSound(st) /\ AT!KeysSound(st) /\ AT!PlaceSound(st) /\ st.closing
  BY DEF AT!IInv, AT!Sound, AT!CloseEvent
<1>2. PICK u : u = [st EXCEPT !.closing = FALSE]
  OBVIOUS
<1>3. /\ DOMAIN u = DOMAIN AT!Start(TRUE, DialogSize) /\ u.doc = st.doc /\ u.data = st.data /\ u.overlay = st.overlay /\ u.form = st.form
      /\ u.closing = FALSE /\ u.window = st.window /\ u.ui = st.ui /\ u.listens = st.listens
  BY <1>1, <1>2 DEF AT!Start
<1>4. PICK l : l = (u.listens \/ u.ui = u.doc)
  OBVIOUS
<1>5. st' = [u EXCEPT !.editor = 0, !.ui = 0, !.resizes = FALSE, !.listens = l]
  BY <1>2, <1>4 DEF AT!CloseEvent, AT!Close
<1>6. /\ DOMAIN st' = DOMAIN AT!Start(TRUE, DialogSize) /\ st'.doc = u.doc /\ st'.data = u.data /\ st'.overlay = u.overlay /\ st'.form = u.form
      /\ st'.closing = u.closing /\ st'.window = u.window /\ st'.ui = 0 /\ st'.listens = l
  BY <1>3, <1>5 DEF AT!Start
<1>7. /\ st'.doc \in Nat /\ st'.doc # 0 /\ DOMAIN st'.data = ImageIds /\ DOMAIN st'.form = DOMAIN AT!Blank
      /\ \A e \in ImageIds : DOMAIN st'.data[e] = DOMAIN AT!Blank /\ st'.data[e].text \in {<< >>, <<st'.doc, e>>}
  BY <1>1, <1>3, <1>6 DEF AT!TextsSound, AT!FormOf
<1>8. st'.overlay # "alttext" /\ st'.window \in WindowSizes /\ ~st'.closing
  BY <1>1, <1>3, <1>6 DEF AT!KeysSound, AT!PlaceSound
<1>9. l = TRUE
  BY <1>1, <1>3, <1>4 DEF AT!KeysSound
<1>10. st'.listens = (st'.ui # st'.doc)
  BY <1>6, <1>7, <1>9
<1> QED BY <1>6, <1>7, <1>8, <1>10, ANotOpen

(* Resize keeps the invariant. *)
LEMMA AResize ==
  ASSUME AT!IInv, NEW r \in ImageRects, NEW w \in WindowSizes, AT!Resize(r, w)
  PROVE  AT!Sound(st')
<1>1. DOMAIN st = DOMAIN AT!Start(TRUE, DialogSize) /\ AT!TextsSound(st) /\ AT!KeysSound(st) /\ AT!PlaceSound(st)
  BY DEF AT!IInv, AT!Sound
<1>2. PICK s : s = AT!Position(r, w, st.ltr)
  OBVIOUS
<1>3. st.overlay = "alttext" /\ AT!InWindow(r, w)
  BY DEF AT!Resize
<1>4. st.resizes /\ st.editor # 0
  BY <1>1, <1>3, AltTextAssumption DEF AT!KeysSound
<1>5. st' = [st EXCEPT !.window = w, !.rect = r, !.style = s]
  BY <1>2, <1>4 DEF AT!Resize
<1>6. /\ DOMAIN st' = DOMAIN AT!Start(TRUE, DialogSize) /\ st'.doc = st.doc /\ st'.data = st.data /\ st'.overlay = st.overlay
      /\ st'.form = st.form /\ st'.closing = st.closing /\ st'.ltr = st.ltr
  BY <1>1, <1>5 DEF AT!Start
<1>7. /\ st'.editor = st.editor /\ st'.ui = st.ui /\ st'.listens = st.listens /\ st'.resizes = st.resizes
      /\ st'.window = w /\ st'.rect = r /\ st'.style = s
  BY <1>1, <1>5 DEF AT!Start
<1>8. AT!TextsSound(st')
  BY <1>1, <1>6, <1>7 DEF AT!TextsSound, AT!FormOf
<1>9. AT!KeysSound(st')
  BY <1>1, <1>6, <1>7 DEF AT!KeysSound
<1>10. AT!PlaceSound(st')
  BY <1>2, <1>3, <1>6, <1>7 DEF AT!PlaceSound
<1> QED BY <1>6, <1>8, <1>9, <1>10 DEF AT!Sound

(* Another dialog is opened or closed. *)
ASwapped(u, r) ==
  /\ DOMAIN r = DOMAIN AT!Start(TRUE, DialogSize) /\ r.doc = u.doc /\ r.data = u.data /\ r.overlay # "alttext" /\ r.form = u.form
  /\ r.closing = u.closing /\ r.window = u.window /\ r.editor = u.editor /\ r.ui = u.ui /\ r.listens = u.listens

(* Taking the keys away or giving them back changes nothing else. *)
LEMMA ASwap ==
  ASSUME NEW u, AT!Sound(u), NEW o \in {"other", "null"}, NEW r, r = [u EXCEPT !.overlay = o]
  PROVE  ASwapped(u, r)
<1>1. DOMAIN u = DOMAIN AT!Start(TRUE, DialogSize)
  BY DEF AT!Sound
<1> QED BY <1>1 DEF AT!Start, ASwapped

(* The other dialogs keep the invariant. *)
LEMMA AOther ==
  ASSUME NEW u, AT!Sound(u), NEW r, ASwapped(u, r)
  PROVE  AT!Sound(r)
<1>1. AT!TextsSound(u) /\ AT!KeysSound(u) /\ AT!PlaceSound(u)
  BY DEF AT!Sound
<1>2. /\ r.doc \in Nat /\ r.doc # 0 /\ DOMAIN r.data = ImageIds /\ DOMAIN r.form = DOMAIN AT!Blank
      /\ \A e \in ImageIds : DOMAIN r.data[e] = DOMAIN AT!Blank /\ r.data[e].text \in {<< >>, <<r.doc, e>>}
  BY <1>1 DEF AT!TextsSound, AT!FormOf, ASwapped
<1>3. r.listens = (r.ui # r.doc) /\ (r.closing => r.editor # 0) /\ r.window \in WindowSizes
  BY <1>1 DEF AT!KeysSound, AT!PlaceSound, ASwapped
<1>4. r.overlay # "alttext" /\ DOMAIN r = DOMAIN AT!Start(TRUE, DialogSize)
  BY DEF ASwapped
<1> QED BY <1>2, <1>3, <1>4, ANotOpen

(* OtherOpens keeps the invariant. *)
LEMMA AOtherOpens ==
  ASSUME AT!IInv, AT!OtherOpens
  PROVE  AT!Sound(st')
<1>1. AT!Sound(st) /\ DOMAIN st = DOMAIN AT!Start(TRUE, DialogSize)
  BY DEF AT!IInv, AT!Sound
<1>2. PICK u : u = AT!CloseDialog(st)
  OBVIOUS
<1>3. AClosed(st, u)
  BY <1>1, <1>2, ACloseDialog
<1>4. AT!Sound(u) /\ u.overlay # "alttext"
  BY <1>1, <1>3, AClosedSound DEF AClosed
<1>5. st' = [u EXCEPT !.overlay = "other"]
  BY <1>2 DEF AT!OtherOpens
<1>6. ASwapped(u, st')
  BY <1>4, <1>5, ASwap
<1> QED BY <1>4, <1>6, AOther

(* OtherCloses keeps the invariant. *)
LEMMA AOtherCloses ==
  ASSUME AT!IInv, AT!OtherCloses
  PROVE  AT!Sound(st')
<1>1. AT!Sound(st) /\ st.overlay # "alttext" /\ st' = [st EXCEPT !.overlay = "null"]
  BY DEF AT!IInv, AT!OtherCloses
<1>2. ASwapped(st, st')
  BY <1>1, ASwap
<1> QED BY <1>1, <1>2, AOther

(* NewDocument keeps the invariant. *)
LEMMA ANewDocument ==
  ASSUME AT!IInv, AT!NewDocument
  PROVE  AT!Sound(st')
<1>1. DOMAIN st = DOMAIN AT!Start(TRUE, DialogSize) /\ AT!TextsSound(st) /\ AT!KeysSound(st) /\ AT!PlaceSound(st)
  BY DEF AT!IInv, AT!Sound
<1>2. PICK u : u = [st EXCEPT !.ui = 0]
  OBVIOUS
<1>3. PICK v : v = AT!CloseDialog(u)
  OBVIOUS
<1>4. PICK n : n = v.doc + 1
  OBVIOUS
<1>5. PICK D : D = [e \in ImageIds |-> AT!Blank]
  OBVIOUS
<1>6. st' = [v EXCEPT !.doc = n, !.data = D, !.listens = TRUE]
  BY <1>2, <1>3, <1>4, <1>5 DEF AT!NewDocument, AT!Destroy
<1>7. /\ DOMAIN u = DOMAIN AT!Start(TRUE, DialogSize) /\ u.doc = st.doc /\ u.form = st.form /\ u.overlay = st.overlay
      /\ u.closing = st.closing /\ u.window = st.window /\ u.editor = st.editor /\ u.ui = 0
  BY <1>1, <1>2 DEF AT!Start
<1>8. AClosed(u, v)
  BY <1>3, <1>7, ACloseDialog
<1>9. DOMAIN v = DOMAIN AT!Start(TRUE, DialogSize)
  BY <1>8 DEF AClosed
<1>10. /\ DOMAIN st' = DOMAIN AT!Start(TRUE, DialogSize) /\ st'.doc = n /\ st'.data = D /\ st'.listens = TRUE /\ st'.form = v.form
       /\ st'.overlay = v.overlay /\ st'.closing = v.closing /\ st'.window = v.window /\ st'.editor = v.editor /\ st'.ui = v.ui
  BY <1>6, <1>9 DEF AT!Start
<1>11. v.ui = 0 /\ v.doc = st.doc /\ v.form = st.form /\ v.window = st.window /\ v.overlay # "alttext" /\ (v.closing => v.editor # 0)
  BY <1>1, <1>7, <1>8, AltTextAssumption DEF AClosed, AT!KeysSound
<1>12. n \in Nat /\ n # 0
  <2>1. st.doc \in Nat
    BY <1>1 DEF AT!TextsSound
  <2>2. n = st.doc + 1
    BY <1>4, <1>11
  <2> QED BY <2>1, <2>2
<1>13. DOMAIN D = ImageIds /\ \A e \in ImageIds : DOMAIN D[e] = DOMAIN AT!Blank /\ D[e].text \in {<< >>, <<n, e>>}
  BY <1>5 DEF AT!Blank
<1>14. DOMAIN st'.form = DOMAIN AT!Blank /\ st'.window \in WindowSizes
  BY <1>1, <1>10, <1>11 DEF AT!TextsSound, AT!FormOf, AT!PlaceSound
<1>15. st'.listens = (st'.ui # st'.doc) /\ (st'.closing => st'.editor # 0) /\ st'.overlay # "alttext"
  BY <1>10, <1>11, <1>12
<1> QED BY <1>10, <1>12, <1>13, <1>14, <1>15, ANotOpen

(* Init keeps the invariant. *)
LEMMA AInit ==
  ASSUME AT!Init
  PROVE  AT!IInv
<1>1. PICK l \in BOOLEAN, w \in WindowSizes : st = AT!Start(l, w)
  BY DEF AT!Init
<1>2. DOMAIN st = DOMAIN AT!Start(TRUE, DialogSize)
  BY <1>1 DEF AT!Start
<1>3. PICK D : D = [e \in ImageIds |-> AT!Blank]
  OBVIOUS
<1>4. /\ st.doc = 1 /\ st.data = D /\ st.listens = TRUE /\ st.overlay = "null" /\ st.closing = FALSE /\ st.ui = 0 /\ st.form = AT!Blank
      /\ st.window = w
  BY <1>1, <1>3 DEF AT!Start
<1>5. DOMAIN D = ImageIds /\ \A e \in ImageIds : DOMAIN D[e] = DOMAIN AT!Blank /\ D[e].text \in {<< >>, <<1, e>>}
  BY <1>3 DEF AT!Blank
<1>6. st.listens = (st.ui # st.doc) /\ st.doc \in Nat /\ st.doc # 0
  <2>1. st.ui # st.doc /\ st.doc \in Nat /\ st.doc # 0
    BY <1>4
  <2> QED BY <1>4, <2>1
<1>7. AT!Sound(st)
  BY <1>1, <1>2, <1>4, <1>5, <1>6, ANotOpen
<1> QED BY <1>7 DEF AT!IInv

(* Every step of the alt text dialog keeps the invariant. *)
LEMMA AStep ==
  ASSUME AT!IInv, AT!Next
  PROVE  AT!Sound(st')
<1>1. ASSUME NEW e \in ImageIds, NEW r \in ImageRects, AT!EditAltText(e, r) PROVE AT!Sound(st')
  BY <1>1, AEditAltText
<1>2. ASSUME NEW text, AT!Type(text) PROVE AT!Sound(st')
  BY <1>2, AType
<1>3. CASE AT!Choose
  BY <1>3, AChoose
<1>4. CASE AT!Save
  BY <1>4, ASave
<1>5. CASE AT!Cancel
  BY <1>5, ACancel
<1>6. CASE AT!CloseEvent
  BY <1>6, ACloseEvent
<1>7. ASSUME NEW r \in ImageRects, NEW w \in WindowSizes, AT!Resize(r, w) PROVE AT!Sound(st')
  BY <1>7, AResize
<1>8. CASE AT!OtherOpens
  BY <1>8, AOtherOpens
<1>9. CASE AT!OtherCloses
  BY <1>9, AOtherCloses
<1>10. CASE AT!NewDocument
  BY <1>10, ANewDocument
<1> QED BY <1>1, <1>2, <1>3, <1>4, <1>5, <1>6, <1>7, <1>8, <1>9, <1>10 DEF AT!Next

(* What the invariant says about texts, keys and place. *)
LEMMA AProps ==
  ASSUME AT!IInv
  PROVE  AT!TextOfImage /\ AT!KeysComeBack /\ AT!BesideTheImage
<1>1. AT!TextsSound(st) /\ AT!KeysSound(st) /\ AT!PlaceSound(st)
  BY DEF AT!IInv, AT!Sound
<1>2. AT!TextOfImage
  BY <1>1 DEF AT!TextsSound, AT!TextOfImage
<1>3. AT!KeysComeBack
  BY <1>1, AltTextAssumption DEF AT!KeysSound, AT!KeysComeBack
<1>4. AT!BesideTheImage
  <2>1. ASSUME st.overlay = "alttext", st.style.positioned PROVE Clear(st.style, st.rect, st.window)
    <3>1. st.rect \in ImageRects /\ st.window \in WindowSizes /\ AT!InWindow(st.rect, st.window) /\ st.style = AT!Position(st.rect, st.window, st.ltr)
      BY <1>1, <2>1 DEF AT!PlaceSound
    <3> QED BY <2>1, <3>1, APosition
  <2> QED BY <2>1 DEF AT!BesideTheImage, Clear
<1> QED BY <1>2, <1>3, <1>4

-----------------------------------------------------------------------------
(* OverlayManager, PDFPrintService and PasswordPrompt: dialogs and their jobs. *)

(* Callbacks that wait, one or two of them. *)
LEMMA KQueues ==
  ASSUME NEW a, NEW b
  PROVE  /\ Append(<<>>, a) = <<a>> /\ Append(<<a>>, b) = <<a, b>> /\ <<a>> # <<>> /\ <<a, b>> # <<>>
         /\ Head(<<a>>) = a /\ Tail(<<a>>) = <<>> /\ Head(<<a, b>>) = a /\ Tail(<<a, b>>) = <<b>>
         /\ <<>> \o <<a, b>> = <<a, b>> /\ <<>> \o <<>> = <<>>
<1>1. PICK S : S = {a, b}
  OBVIOUS
<1>2. <<>> \in Seq(S) /\ <<a, b>> \in Seq(S)
  BY <1>1
<1>3. Append(<<>>, a) = <<a>>
  OBVIOUS
<1>4. <<>> \o <<a, b>> = <<a, b>> /\ <<>> \o <<>> = <<>>
  BY <1>2, ConcatEmptySeq
<1> QED BY <1>3, <1>4, QueueOfTwo

(* What the dialogs leave alone. *)
KJobs(u, r) ==
  /\ DOMAIN r = DOMAIN PD!Start /\ r.jobs = u.jobs /\ r.activeService = u.activeService /\ r.printService = u.printService
  /\ r.phase = u.phase /\ r.page = u.page /\ r.urls = u.urls /\ r.container = u.container /\ r.style = u.style

(* What the jobs leave alone. *)
KPrompt(u, r) ==
  /\ r.asks = u.asks /\ r.live = u.live /\ r.capability = u.capability /\ r.waiting = u.waiting
  /\ r.updateCallback = u.updateCallback /\ r.answer = u.answer
KDialogs(u, r) ==
  /\ r.overlay = u.overlay /\ r.shown = u.shown /\ r.closing = u.closing /\ KPrompt(u, r) /\ r.dismissed = u.dismissed

(* What is true of the jobs stays so when none of their fields changes. *)
LEMMA KJobsKept ==
  ASSUME NEW u, PD!JobsSound(u), NEW r, KJobs(u, r)
  PROVE  PD!JobsSound(r)
<1>1. PD!Numbers(r)
  BY DEF PD!JobsSound, PD!Numbers, KJobs
<1>2. ASSUME NEW j \in PD!Job PROVE PD!JobSound(r, j)
  BY DEF PD!JobsSound, PD!JobSound, KJobs
<1>3. PD!Filled(r) = PD!Filled(u)
  BY DEF PD!Filled, KJobs
<1>4. r.container = [i \in 1 .. PD!Filled(r) |-> <<r.activeService, i>>]
  BY <1>3 DEF PD!JobsSound, KJobs
<1>5. r.activeService # 0 => r.phase[r.activeService] \notin {"none", "done"}
  BY DEF PD!JobsSound, KJobs
<1> QED BY <1>1, <1>2, <1>4, <1>5 DEF PD!JobsSound

(* What is true of the dialogs and the prompt stays so when none of their fields changes. *)
LEMMA KDialogsKept ==
  ASSUME NEW u, PD!DialogsSound(u), PD!Asked(u), NEW r, KDialogs(u, r)
  PROVE  /\ PD!DialogsSound(r) /\ PD!Asked(r) /\ (PD!Prompted(u) => PD!Prompted(r))
         /\ (r.activeService = u.activeService /\ PD!Progress(u) => PD!Progress(r)) /\ \A x : PD!Sent(r, x) <=> PD!Sent(u, x)
<1>1. \A x : PD!Sent(r, x) <=> PD!Sent(u, x)
  BY DEF PD!Sent, KDialogs
<1>2. PD!DialogsSound(r)
  BY <1>1 DEF PD!DialogsSound, KDialogs
<1>3. PD!Asked(r)
  BY <1>1 DEF PD!Asked, KDialogs, KPrompt
<1>4. PD!Waits(u) => PD!Waits(r)
  BY <1>1 DEF PD!Waits, KDialogs, KPrompt
<1>5. PD!Prompted(u) => PD!Prompted(r)
  BY <1>1, <1>4 DEF PD!Prompted, KDialogs, KPrompt
<1>6. r.activeService = u.activeService /\ PD!Progress(u) => PD!Progress(r)
  BY <1>1 DEF PD!Progress, KDialogs
<1> QED BY <1>1, <1>2, <1>3, <1>5, <1>6

(* A dialog is closed: its event is under way. *)
KClosed(u, r) ==
  /\ KJobs(u, r) /\ KPrompt(u, r) /\ r.micro = u.micro /\ r.overlay = "null"
  /\ r.dismissed = (IF u.overlay = "password" THEN u.updateCallback ELSE u.dismissed)
  /\ PD!DialogsSound(r) /\ \A x : PD!Sent(r, x) <=> PD!Sent(u, x) \/ x = u.overlay

(* OverlayManager.close: the event of the closed dialog is under way. *)
LEMMA KClose ==
  ASSUME NEW u, DOMAIN u = DOMAIN PD!Start, PD!DialogsSound(u), u.overlay # "null", NEW r, r = PD!CloseActive(u)
  PROVE  KClosed(u, r)
<1>1. PICK c : c = Append(u.closing, u.overlay)
  OBVIOUS
<1>2. PICK n \in Nat : n = Len(u.closing)
  BY DEF PD!DialogsSound
<1>3. u.closing \in Seq(PD!Dialog) /\ u.overlay \in PD!Dialog /\ DOMAIN u.closing = 1 .. n
  BY <1>2 DEF PD!DialogsSound
<1>4. c \in Seq(PD!Dialog) /\ Len(c) = n + 1 /\ c[n + 1] = u.overlay /\ \A i \in 1 .. n : c[i] = u.closing[i]
  BY <1>1, <1>2, <1>3, AppendProperties
<1>5. DOMAIN c = 1 .. n + 1
  BY <1>4
<1>6. PICK s : s = u.shown \ {u.overlay}
  OBVIOUS
<1>7. PICK x : x = IF u.overlay = "password" THEN u.updateCallback ELSE u.dismissed
  OBVIOUS
<1>8. r = [u EXCEPT !.overlay = "null", !.shown = s, !.closing = c, !.dismissed = x]
  BY <1>1, <1>6, <1>7 DEF PD!CloseActive
<1>9. KJobs(u, r)
  BY <1>8 DEF KJobs, PD!Start
<1>10. KPrompt(u, r) /\ r.micro = u.micro
  BY <1>8 DEF KPrompt, PD!Start
<1>11. r.overlay = "null" /\ r.shown = s /\ r.closing = c /\ r.dismissed = x
  BY <1>8 DEF PD!Start
<1>12. s = {}
  BY <1>6 DEF PD!DialogsSound
<1>13. ASSUME NEW y PROVE PD!Sent(r, y) <=> PD!Sent(u, y) \/ y = u.overlay
  <2>1. ASSUME PD!Sent(r, y) PROVE PD!Sent(u, y) \/ y = u.overlay
    <3>1. PICK i \in 1 .. n + 1 : c[i] = y
      BY <1>5, <1>11, <2>1 DEF PD!Sent
    <3>2. CASE i = n + 1
      BY <1>4, <3>1, <3>2
    <3>3. CASE i \in 1 .. n
      BY <1>3, <1>4, <3>1, <3>3 DEF PD!Sent
    <3> QED BY <3>2, <3>3
  <2>2. ASSUME PD!Sent(u, y) PROVE PD!Sent(r, y)
    <3>1. PICK i \in 1 .. n : u.closing[i] = y
      BY <1>3, <2>2 DEF PD!Sent
    <3>2. i \in DOMAIN c /\ c[i] = y
      BY <1>4, <1>5, <3>1
    <3> QED BY <1>11, <3>2 DEF PD!Sent
  <2>3. ASSUME y = u.overlay PROVE PD!Sent(r, y)
    <3>1. n + 1 \in DOMAIN c /\ c[n + 1] = y
      BY <1>4, <1>5, <2>3
    <3> QED BY <1>11, <3>1 DEF PD!Sent
  <2> QED BY <2>1, <2>2, <2>3
<1>14. ASSUME NEW i \in DOMAIN c, NEW j \in DOMAIN c, c[i] = "password", c[j] = "password" PROVE i = j
  <2>1. CASE u.overlay = "password"
    <3>1. \A k \in 1 .. n : u.closing[k] # "password"
      BY <1>3, <2>1 DEF PD!DialogsSound, PD!Sent
    <3>2. i = n + 1 /\ j = n + 1
      BY <1>4, <1>5, <1>14, <3>1
    <3> QED BY <3>2
  <2>2. CASE u.overlay # "password"
    <3>1. i \in 1 .. n /\ j \in 1 .. n
      BY <1>4, <1>5, <1>14, <2>2
    <3>2. u.closing[i] = "password" /\ u.closing[j] = "password"
      BY <1>4, <1>14, <3>1
    <3> QED BY <1>3, <3>1, <3>2 DEF PD!DialogsSound
  <2> QED BY <2>1, <2>2
<1>15. PD!DialogsSound(r)
  BY <1>4, <1>11, <1>12, <1>14 DEF PD!DialogsSound
<1> QED BY <1>7, <1>9, <1>10, <1>11, <1>13, <1>15 DEF KClosed

(* Closing a dialog keeps what is known of the prompt and of the progress dialog. *)
LEMMA KClosedKeeps ==
  ASSUME NEW u, PD!Asked(u), NEW r, KClosed(u, r)
  PROVE  PD!Asked(r) /\ (PD!Prompted(u) => PD!Prompted(r)) /\ (PD!Progress(u) => PD!Progress(r))
<1>1. PD!Asked(r)
  BY DEF PD!Asked, KClosed, KPrompt
<1>2. PD!Waits(u) => PD!Waits(r)
  BY DEF PD!Waits, KClosed, KPrompt
<1>3. ASSUME PD!Prompted(u) PROVE PD!Prompted(r)
  <2>1. r.capability = "pending" <=> r.overlay = "password" \/ PD!Sent(r, "password")
    BY <1>3 DEF PD!Prompted, KClosed, KPrompt
  <2>2. r.capability # "pending" => r.updateCallback = 0 /\ r.waiting = <<>>
    BY <1>3 DEF PD!Prompted, KClosed, KPrompt
  <2>3. \/ PD!Waits(r)
        \/ r.waiting = <<>> /\ (r.live # 0 => r.updateCallback = r.live /\ (r.overlay = "password" \/ r.live = r.dismissed))
    BY <1>2, <1>3 DEF PD!Prompted, KClosed, KPrompt
  <2> QED BY <2>1, <2>2, <2>3 DEF PD!Prompted
<1>4. PD!Progress(u) => PD!Progress(r)
  BY DEF PD!Progress, KClosed, KJobs
<1> QED BY <1>1, <1>3, <1>4

(* A dialog is shown where there was none. *)
KShown(u, dialog, r) ==
  /\ KJobs(u, r) /\ KPrompt(u, r) /\ r.micro = u.micro /\ r.overlay = dialog /\ r.dismissed = u.dismissed
  /\ PD!DialogsSound(r) /\ PD!Asked(r) /\ \A x : PD!Sent(r, x) <=> PD!Sent(u, x)

(* Show keeps the invariant. *)
LEMMA KShow ==
  ASSUME NEW u, DOMAIN u = DOMAIN PD!Start, PD!DialogsSound(u), PD!Asked(u), u.overlay = "null", NEW dialog \in PD!Dialog,
         dialog = "password" => ~PD!Sent(u, "password"), NEW r, r = PD!Show(u, dialog)
  PROVE  KShown(u, dialog, r)
<1>1. PICK s : s = u.shown \cup {dialog}
  OBVIOUS
<1>2. r = [u EXCEPT !.overlay = dialog, !.shown = s]
  BY <1>1 DEF PD!Show
<1>3. KJobs(u, r)
  BY <1>2 DEF KJobs, PD!Start
<1>4. KPrompt(u, r) /\ r.micro = u.micro
  BY <1>2 DEF KPrompt, PD!Start
<1>5. r.overlay = dialog /\ r.shown = s /\ r.closing = u.closing /\ r.dismissed = u.dismissed
  BY <1>2 DEF PD!Start
<1>6. s = {dialog} \ {"null"}
  BY <1>1 DEF PD!DialogsSound, PD!Dialog
<1>7. \A x : PD!Sent(r, x) <=> PD!Sent(u, x)
  BY <1>5 DEF PD!Sent
<1>8. PD!DialogsSound(r)
  BY <1>5, <1>6, <1>7 DEF PD!DialogsSound
<1>9. PD!Asked(r)
  BY <1>4, <1>5, <1>7 DEF PD!Asked, KPrompt
<1> QED BY <1>3, <1>4, <1>5, <1>7, <1>8, <1>9 DEF KShown

(* What holds between any two callbacks. *)
KGood(u) == DOMAIN u = DOMAIN PD!Start /\ PD!JobsSound(u) /\ PD!DialogsSound(u) /\ PD!Asked(u)

(* What a step promises. *)
KWhole(u, r) ==
  \A j \in PD!Job : u.phase[j] = "timer" /\ r.phase[j] = "wait" => r.container = [i \in 1 .. PrintPages |-> <<j, i>>]
KFails(u, r) ==
  r.answer = "error" /\ u.updateCallback # 0 /\ u.updateCallback # r.updateCallback => u.dismissed = u.updateCallback
KNext(u, r) == PD!Sound(r) /\ KWhole(u, r) /\ KFails(u, r)

(* Between two events no callback waits: progress dialog and prompt are as they should be. *)
LEMMA KIdle ==
  ASSUME NEW u, PD!Sound(u), u.micro = <<>>
  PROVE  KGood(u) /\ PD!Progress(u) /\ PD!Prompted(u)
<1>1. \A a, b : <<a>> # <<>> /\ <<a, b>> # <<>>
  BY KQueues
<1>2. PD!Progress(u) /\ PD!Prompted(u)
  BY <1>1 DEF PD!Sound, PD!Turn
<1> QED BY <1>2 DEF PD!Sound, KGood

(* The parts of the invariant. *)
LEMMA KTurns ==
  ASSUME NEW u, KGood(u), PD!Turn(u)
  PROVE  PD!Sound(u)
BY DEF KGood, PD!Sound

(* What leaves the jobs alone prints nothing. *)
LEMMA KOfJobs ==
  ASSUME NEW u, NEW r, KJobs(u, r)
  PROVE  KWhole(u, r)
BY DEF KJobs, KWhole

(* The queue of callbacks is changed, and nothing else. *)
KQueued(u, r) ==
  /\ KJobs(u, r) /\ KDialogs(u, r) /\ KGood(r) /\ (PD!Prompted(u) => PD!Prompted(r)) /\ (PD!Progress(u) => PD!Progress(r))
  /\ \A x : PD!Sent(r, x) <=> PD!Sent(u, x)

KPut(u, q, r) == r = [u EXCEPT !.micro = q]

(* Queueing a callback changes nothing else. *)
LEMMA KQueue ==
  ASSUME NEW u, KGood(u), NEW q, NEW r, KPut(u, q, r)
  PROVE  KQueued(u, r) /\ r.micro = q
<1>. USE DEF KPut
<1>0. DOMAIN u = DOMAIN PD!Start
  BY DEF KGood
<1>1. KJobs(u, r)
  BY <1>0 DEF KJobs, PD!Start
<1>2. KPrompt(u, r)
  BY <1>0 DEF KPrompt, PD!Start
<1>3. KDialogs(u, r) /\ r.micro = q
  BY <1>0, <1>2 DEF KDialogs, PD!Start
<1>4. PD!JobsSound(r)
  BY <1>1, KJobsKept DEF KGood
<1>5. /\ PD!DialogsSound(r) /\ PD!Asked(r) /\ (PD!Prompted(u) => PD!Prompted(r))
      /\ (r.activeService = u.activeService /\ PD!Progress(u) => PD!Progress(r)) /\ \A x : PD!Sent(r, x) <=> PD!Sent(u, x)
  BY <1>3, KDialogsKept DEF KGood
<1>6. r.activeService = u.activeService /\ DOMAIN r = DOMAIN PD!Start
  BY <1>1 DEF KJobs
<1>7. KGood(r)
  BY <1>4, <1>5, <1>6 DEF KGood
<1> QED BY <1>1, <1>3, <1>5, <1>6, <1>7 DEF KQueued

(* Closing a dialog keeps all that does not depend on the callbacks. *)
LEMMA KClosedGood ==
  ASSUME NEW u, KGood(u), NEW r, KClosed(u, r)
  PROVE  KGood(r) /\ (PD!Prompted(u) => PD!Prompted(r)) /\ (PD!Progress(u) => PD!Progress(r))
<1>1. PD!Asked(r) /\ (PD!Prompted(u) => PD!Prompted(r)) /\ (PD!Progress(u) => PD!Progress(r))
  BY KClosedKeeps DEF KGood
<1>2. KJobs(u, r) /\ PD!DialogsSound(r)
  BY DEF KClosed
<1>3. PD!JobsSound(r) /\ DOMAIN r = DOMAIN PD!Start
  BY <1>2, KJobsKept DEF KGood, KJobs
<1> QED BY <1>1, <1>2, <1>3 DEF KGood

(* Showing a dialog keeps all that does not depend on the callbacks. *)
LEMMA KShownGood ==
  ASSUME NEW u, KGood(u), u.overlay = "null", NEW dialog, NEW r, KShown(u, dialog, r)
  PROVE  /\ KGood(r) /\ (dialog # "password" /\ PD!Prompted(u) => PD!Prompted(r))
         /\ ((dialog = "print" => u.activeService # 0) /\ PD!Progress(u) => PD!Progress(r))
<1>1. KJobs(u, r) /\ PD!DialogsSound(r) /\ PD!Asked(r)
  BY DEF KShown
<1>2. PD!JobsSound(r) /\ DOMAIN r = DOMAIN PD!Start
  BY <1>1, KJobsKept DEF KGood, KJobs
<1>3. PD!Waits(u) => PD!Waits(r)
  BY DEF PD!Waits, KShown, KPrompt
<1>4. ASSUME dialog # "password", PD!Prompted(u) PROVE PD!Prompted(r)
  <2>1. r.capability = "pending" <=> r.overlay = "password" \/ PD!Sent(r, "password")
    BY <1>4 DEF PD!Prompted, KShown, KPrompt
  <2>2. r.capability # "pending" => r.updateCallback = 0 /\ r.waiting = <<>>
    BY <1>4 DEF PD!Prompted, KShown, KPrompt
  <2>3. \/ PD!Waits(r)
        \/ r.waiting = <<>> /\ (r.live # 0 => r.updateCallback = r.live /\ (r.overlay = "password" \/ r.live = r.dismissed))
    BY <1>3, <1>4 DEF PD!Prompted, KShown, KPrompt
  <2> QED BY <2>1, <2>2, <2>3 DEF PD!Prompted
<1>5. (dialog = "print" => u.activeService # 0) /\ PD!Progress(u) => PD!Progress(r)
  BY <1>1 DEF PD!Progress, KShown, KJobs
<1> QED BY <1>1, <1>2, <1>4, <1>5 DEF KGood

(* The promises of a step, from the state without the callback. *)
LEMMA KOfTaken ==
  ASSUME NEW u, NEW r, KJobs(u, r), r.updateCallback = u.updateCallback, KGood(r), PD!Turn(r)
  PROVE  KNext(u, r)
<1>1. KWhole(u, r)
  BY KOfJobs
<1>2. KFails(u, r)
  BY DEF KFails
<1> QED BY <1>1, <1>2, KTurns DEF KNext

(* The callback that opens the progress dialog, which may have to close another one first. *)
LEMMA KOpenPrint ==
  ASSUME NEW u, KGood(u), PD!Prompted(u), u.activeService # 0, u.overlay # "print", u.micro = <<>>, NEW r, r = PD!OverlayOpen(u, "print")
  PROVE  KNext(u, r)
<1>0. DOMAIN u = DOMAIN PD!Start /\ PD!DialogsSound(u) /\ PD!Asked(u) /\ "print" \in PD!Dialog
  BY DEF KGood, PD!Dialog
<1>1. CASE u.overlay = "null"
  <2>1. r = PD!Show(u, "print")
    BY <1>1 DEF PD!OverlayOpen
  <2>2. KShown(u, "print", r)
    BY <1>0, <1>1, <2>1, KShow
  <2>3. KGood(r) /\ PD!Prompted(r)
    BY <1>1, <2>2, KShownGood
  <2>4. KJobs(u, r) /\ r.updateCallback = u.updateCallback /\ r.micro = <<>> /\ r.overlay = "print"
    BY <2>2 DEF KShown, KPrompt
  <2>5. PD!Progress(r)
    BY <2>4 DEF PD!Progress, KJobs
  <2>6. PD!Turn(r)
    BY <2>3, <2>4, <2>5 DEF PD!Turn
  <2> QED BY <2>3, <2>4, <2>6, KOfTaken
<1>2. CASE u.overlay # "null"
  <2>1. PICK c : c = PD!CloseActive(u)
    OBVIOUS
  <2>2. PICK t : t = PD!Task("print", 0)
    OBVIOUS
  <2>3. KClosed(u, c)
    BY <1>0, <1>2, <2>1, KClose
  <2>4. KGood(c) /\ PD!Prompted(c)
    BY <2>3, KClosedGood
  <2>5. KJobs(u, c) /\ c.updateCallback = u.updateCallback /\ c.micro = <<>> /\ c.overlay = "null"
    BY <2>3 DEF KClosed, KPrompt
  <2>6. Append(c.micro, t) = <<t>>
    BY <2>5, KQueues
  <2>7. KPut(c, <<t>>, r)
    BY <1>2, <2>1, <2>2, <2>6 DEF PD!OverlayOpen, KPut
  <2>8. KQueued(c, r) /\ r.micro = <<t>>
    BY <2>4, <2>7, KQueue
  <2>9. KGood(r) /\ PD!Prompted(r) /\ r.overlay = "null" /\ r.updateCallback = u.updateCallback
    BY <2>4, <2>5, <2>8 DEF KQueued, KDialogs, KPrompt
  <2>10. KJobs(u, r)
    BY <2>5, <2>8 DEF KQueued, KJobs
  <2>11. r.activeService # 0
    BY <2>10 DEF KJobs
  <2>12. PD!Turn(r)
    BY <2>2, <2>8, <2>9, <2>11 DEF PD!Turn
  <2> QED BY <2>9, <2>10, <2>12, KOfTaken
<1> QED BY <1>1, <1>2

(* The progress dialog is shown once the other one is closed. *)
LEMMA KShowPrint ==
  ASSUME NEW u, KGood(u), PD!Prompted(u), u.activeService # 0, u.overlay = "null", u.micro = <<>>, NEW r, r = PD!Show(u, "print")
  PROVE  KNext(u, r)
<1>1. r = PD!OverlayOpen(u, "print")
  BY DEF PD!OverlayOpen
<1> QED BY <1>1, KOpenPrint

(* The callback that closes the progress dialog after the end of a job. *)
LEMMA KClosePrint ==
  ASSUME NEW u, KGood(u), PD!Prompted(u), u.activeService = 0, u.micro = <<>>, NEW r, r = PD!CloseIfActive(u, "print")
  PROVE  KNext(u, r)
<1>0. DOMAIN u = DOMAIN PD!Start /\ PD!DialogsSound(u) /\ PD!Asked(u)
  BY DEF KGood
<1>1. CASE u.overlay = "print"
  <2>1. r = PD!CloseActive(u)
    BY <1>1 DEF PD!CloseIfActive
  <2>2. KClosed(u, r)
    BY <1>0, <1>1, <2>1, KClose
  <2>3. KGood(r) /\ PD!Prompted(r)
    BY <2>2, KClosedGood
  <2>4. KJobs(u, r) /\ r.updateCallback = u.updateCallback /\ r.micro = <<>> /\ r.overlay = "null"
    BY <2>2 DEF KClosed, KPrompt
  <2>5. PD!Progress(r)
    BY <2>4 DEF PD!Progress, KJobs
  <2>6. PD!Turn(r)
    BY <2>3, <2>4, <2>5 DEF PD!Turn
  <2> QED BY <2>3, <2>4, <2>6, KOfTaken
<1>2. CASE u.overlay # "print"
  <2>1. r = u
    BY <1>2 DEF PD!CloseIfActive
  <2>2. PD!Turn(r)
    BY <1>2, <2>1 DEF PD!Turn, PD!Progress
  <2>3. KJobs(u, r)
    BY <1>0, <2>1 DEF KJobs
  <2> QED BY <2>1, <2>2, <2>3, KOfTaken
<1> QED BY <1>1, <1>2

(* The prompt is shown to the request that waits for it. *)
LEMMA KShowPassword ==
  ASSUME NEW u, KGood(u), PD!Asking(u), u.capability = "pending", u.updateCallback = u.asks, u.overlay = "null", u.micro = <<>>,
         NEW r, r = PD!Show(u, "password")
  PROVE  KNext(u, r)
<1>0. DOMAIN u = DOMAIN PD!Start /\ PD!DialogsSound(u) /\ PD!Asked(u) /\ "password" \in PD!Dialog /\ ~PD!Sent(u, "password")
  BY DEF KGood, PD!Dialog, PD!Asking
<1>1. KShown(u, "password", r)
  BY <1>0, KShow
<1>2. PD!Progress(u)
  BY DEF PD!Asking
<1>3. KGood(r) /\ PD!Progress(r)
  BY <1>1, <1>2, KShownGood
<1>4. KJobs(u, r) /\ r.updateCallback = u.updateCallback /\ r.micro = <<>> /\ r.overlay = "password" /\ r.capability = "pending"
  BY <1>1 DEF KShown, KPrompt
<1>5. r.waiting = <<>> /\ r.asks = u.asks
  BY <1>1 DEF KShown, KPrompt, PD!Asking
<1>6. r.live # 0 => r.updateCallback = r.live
  BY <1>3, <1>4, <1>5 DEF KGood, PD!Asked
<1>7. PD!Prompted(r)
  BY <1>4, <1>5, <1>6 DEF PD!Prompted
<1>8. PD!Turn(r)
  BY <1>3, <1>4, <1>7 DEF PD!Turn
<1> QED BY <1>3, <1>4, <1>8, KOfTaken

(* The callback that opens the prompt, which may have to close another dialog first. *)
LEMMA KOpenPassword ==
  ASSUME NEW u, KGood(u), PD!Asking(u), u.capability # "pending", u.updateCallback = u.asks, u.micro = <<>>, NEW r, r = PD!PromptOpened(u)
  PROVE  KNext(u, r)
<1>0. DOMAIN u = DOMAIN PD!Start /\ PD!JobsSound(u) /\ PD!DialogsSound(u) /\ PD!Asked(u)
  BY DEF KGood
<1>1. PICK w : w = [u EXCEPT !.capability = "pending"]
  OBVIOUS
<1>2. KJobs(u, w)
  BY <1>0, <1>1 DEF KJobs, PD!Start
<1>3. w.overlay = u.overlay /\ w.shown = u.shown /\ w.closing = u.closing /\ w.dismissed = u.dismissed /\ w.micro = <<>>
  BY <1>0, <1>1 DEF PD!Start
<1>4. /\ w.asks = u.asks /\ w.live = u.live /\ w.capability = "pending" /\ w.waiting = u.waiting
      /\ w.updateCallback = u.updateCallback /\ w.answer = u.answer
  BY <1>0, <1>1 DEF PD!Start
<1>5. \A x : PD!Sent(w, x) <=> PD!Sent(u, x)
  BY <1>3 DEF PD!Sent
<1>6. PD!DialogsSound(w)
  BY <1>0, <1>3, <1>5 DEF PD!DialogsSound
<1>7. PD!Asked(w)
  BY <1>0, <1>3, <1>4, <1>5 DEF PD!Asked
<1>8. PD!JobsSound(w) /\ DOMAIN w = DOMAIN PD!Start
  BY <1>0, <1>2, KJobsKept DEF KJobs
<1>9. KGood(w)
  BY <1>6, <1>7, <1>8 DEF KGood
<1>10. w.activeService = u.activeService
  BY <1>2 DEF KJobs
<1>11. PD!Progress(w)
  BY <1>3, <1>5, <1>10 DEF PD!Progress, PD!Asking
<1>12. PD!Asking(w)
  BY <1>3, <1>4, <1>5, <1>11 DEF PD!Asking
<1>13. w.overlay # "password" /\ u.overlay # "password"
  BY <1>12, <1>3 DEF PD!Asking
<1>14. r = PD!OverlayOpen(w, "password")
  BY <1>1, <1>13 DEF PD!PromptOpened
<1>15. w.updateCallback = w.asks
  BY <1>4
<1>16. CASE w.overlay = "null"
  <2>1. r = PD!Show(w, "password")
    BY <1>14, <1>16 DEF PD!OverlayOpen
  <2>2. KNext(w, r)
    BY <1>3, <1>4, <1>9, <1>12, <1>15, <1>16, <2>1, KShowPassword
  <2>3. KWhole(u, r)
    BY <1>2, <2>2 DEF KNext, KWhole, KJobs
  <2>4. KFails(u, r)
    BY <1>3, <1>4, <2>2 DEF KNext, KFails
  <2> QED BY <2>2, <2>3, <2>4 DEF KNext
<1>17. CASE w.overlay # "null"
  <2>1. PICK c : c = PD!CloseActive(w)
    OBVIOUS
  <2>2. PICK t : t = PD!Task("password", 0)
    OBVIOUS
  <2>3. KClosed(w, c)
    BY <1>6, <1>8, <1>17, <2>1, KClose
  <2>4. KGood(c) /\ PD!Progress(c)
    BY <1>9, <1>11, <2>3, KClosedGood
  <2>5. KJobs(w, c) /\ KPrompt(w, c) /\ c.micro = <<>> /\ c.overlay = "null" /\ ~PD!Sent(c, "password")
    BY <1>3, <1>12, <2>3 DEF KClosed, PD!Asking
  <2>6. Append(c.micro, t) = <<t>>
    BY <2>5, KQueues
  <2>7. KPut(c, <<t>>, r)
    BY <1>13, <1>14, <1>17, <2>1, <2>2, <2>6 DEF PD!OverlayOpen, KPut
  <2>8. KQueued(c, r) /\ r.micro = <<t>>
    BY <2>4, <2>7, KQueue
  <2>9. KGood(r) /\ PD!Progress(r) /\ r.overlay = "null" /\ ~PD!Sent(r, "password")
    BY <2>4, <2>5, <2>8 DEF KQueued, KDialogs
  <2>10. KPrompt(w, r)
    BY <2>5, <2>8 DEF KQueued, KDialogs, KPrompt
  <2>11. KJobs(u, r)
    BY <1>2, <2>5, <2>8 DEF KQueued, KJobs
  <2>12. PD!Asking(r)
    BY <1>12, <2>9, <2>10 DEF PD!Asking, KPrompt
  <2>13. r.capability = "pending" /\ r.updateCallback = r.asks /\ r.updateCallback = u.updateCallback
    BY <1>4, <2>10 DEF KPrompt
  <2>14. PD!Turn(r)
    BY <2>2, <2>8, <2>9, <2>12, <2>13 DEF PD!Turn
  <2> QED BY <2>9, <2>11, <2>13, <2>14, KOfTaken
<1> QED BY <1>16, <1>17

(* What a callback does is what the step does that takes it from the queue. *)
LEMMA KThrough ==
  ASSUME NEW u, NEW w, KQueued(u, w), NEW r, KNext(w, r)
  PROVE  KNext(u, r)
<1>1. KWhole(u, r)
  BY DEF KNext, KWhole, KQueued, KJobs
<1>2. KFails(u, r)
  BY DEF KNext, KFails, KQueued, KDialogs, KPrompt
<1> QED BY <1>1, <1>2 DEF KNext

(* The first callback sets the request whose prompt is to be opened. *)
LEMMA KSet ==
  ASSUME NEW u, KGood(u), PD!Asking(u), u.capability # "pending", u.updateCallback = 0, u.micro = <<PD!Task("open", 0)>>,
         NEW r, r = [u EXCEPT !.updateCallback = u.asks]
  PROVE  KNext(u, r)
<1>0. DOMAIN u = DOMAIN PD!Start /\ PD!JobsSound(u) /\ PD!DialogsSound(u) /\ PD!Asked(u)
  BY DEF KGood
<1>1. KJobs(u, r)
  BY <1>0 DEF KJobs, PD!Start
<1>2. r.overlay = u.overlay /\ r.shown = u.shown /\ r.closing = u.closing /\ r.dismissed = u.dismissed /\ r.micro = u.micro
  BY <1>0 DEF PD!Start
<1>3. /\ r.asks = u.asks /\ r.live = u.live /\ r.capability = u.capability /\ r.waiting = u.waiting
      /\ r.updateCallback = u.asks /\ r.answer = u.answer
  BY <1>0 DEF PD!Start
<1>4. \A x : PD!Sent(r, x) <=> PD!Sent(u, x)
  BY <1>2 DEF PD!Sent
<1>5. PD!DialogsSound(r)
  BY <1>0, <1>2, <1>4 DEF PD!DialogsSound
<1>6. ~PD!Sent(r, "password")
  BY <1>4 DEF PD!Asking
<1>7. PD!Asked(r)
  BY <1>0, <1>2, <1>3, <1>6 DEF PD!Asked
<1>8. PD!JobsSound(r) /\ DOMAIN r = DOMAIN PD!Start /\ r.activeService = u.activeService
  BY <1>0, <1>1, KJobsKept DEF KJobs
<1>9. KGood(r)
  BY <1>5, <1>7, <1>8 DEF KGood
<1>10. PD!Progress(r)
  BY <1>2, <1>4, <1>8 DEF PD!Progress, PD!Asking
<1>11. PD!Asking(r)
  BY <1>2, <1>3, <1>4, <1>10 DEF PD!Asking
<1>12. PD!Turn(r)
  BY <1>2, <1>3, <1>11 DEF PD!Turn
<1>13. KWhole(u, r)
  BY <1>1, KOfJobs
<1>14. KFails(u, r)
  BY DEF KFails
<1> QED BY <1>9, <1>12, <1>13, <1>14, KTurns DEF KNext

(* A callback runs. *)
LEMMA KMicrotask ==
  ASSUME NEW u, PD!Sound(u), u.micro # <<>>, NEW r, r = PD!Callback([u EXCEPT !.micro = Tail(@)], Head(u.micro))
  PROVE  KNext(u, r)
<1>0. KGood(u) /\ PD!Turn(u)
  BY DEF KGood, PD!Sound
<1>1. PICK q : q = Tail(u.micro)
  OBVIOUS
<1>2. PICK w : KPut(u, q, w)
  BY DEF KPut
<1>3. r = PD!Callback(w, Head(u.micro))
  BY <1>1, <1>2 DEF KPut
<1>4. KQueued(u, w) /\ w.micro = q
  BY <1>0, <1>2, KQueue
<1>5. KGood(w) /\ w.overlay = u.overlay /\ w.activeService = u.activeService
  BY <1>4 DEF KQueued, KDialogs, KJobs
<1>6. (PD!Prompted(u) => PD!Prompted(w)) /\ (PD!Progress(u) => PD!Progress(w))
  BY <1>4 DEF KQueued
<1>7. w.capability = u.capability /\ w.updateCallback = u.updateCallback /\ w.asks = u.asks
  BY <1>4 DEF KQueued, KDialogs, KPrompt
<1>8. PD!Asking(u) => PD!Asking(w)
  BY <1>4 DEF KQueued, KDialogs, KPrompt, PD!Asking
<1>9. CASE u.micro = <<PD!Task("openPrint", 0)>> /\ u.activeService # 0 /\ u.overlay # "print" /\ PD!Prompted(u)
  <2>1. PICK t : t = PD!Task("openPrint", 0)
    OBVIOUS
  <2>2. Head(u.micro) = t /\ q = <<>>
    BY <1>1, <1>9, <2>1, KQueues
  <2>3. r = PD!OverlayOpen(w, "print")
    BY <1>3, <1>5, <1>9, <2>1, <2>2 DEF PD!Callback, PD!Task
  <2>4. KNext(w, r)
    BY <1>4, <1>5, <1>6, <1>9, <2>2, <2>3, KOpenPrint
  <2> QED BY <1>4, <2>4, KThrough
<1>10. CASE u.micro = <<PD!Task("print", 0)>> /\ u.activeService # 0 /\ u.overlay = "null" /\ PD!Prompted(u)
  <2>1. PICK t : t = PD!Task("print", 0)
    OBVIOUS
  <2>2. Head(u.micro) = t /\ q = <<>>
    BY <1>1, <1>10, <2>1, KQueues
  <2>3. r = PD!Show(w, "print")
    BY <1>3, <2>1, <2>2 DEF PD!Callback, PD!Task
  <2>4. KNext(w, r)
    BY <1>4, <1>5, <1>6, <1>10, <2>2, <2>3, KShowPrint
  <2> QED BY <1>4, <2>4, KThrough
<1>11. CASE u.micro = <<PD!Task("closePrint", 0)>> /\ u.activeService = 0 /\ PD!Prompted(u)
  <2>1. PICK t : t = PD!Task("closePrint", 0)
    OBVIOUS
  <2>2. Head(u.micro) = t /\ q = <<>>
    BY <1>1, <1>11, <2>1, KQueues
  <2>3. r = PD!CloseIfActive(w, "print")
    BY <1>3, <2>1, <2>2 DEF PD!Callback, PD!Task
  <2>4. KNext(w, r)
    BY <1>4, <1>5, <1>6, <1>11, <2>2, <2>3, KClosePrint
  <2> QED BY <1>4, <2>4, KThrough
<1>12. CASE u.micro = <<PD!Task("openPrint", 0), PD!Task("closePrint", 0)>> /\ u.activeService = 0 /\ PD!Prompted(u)
  <2>1. PICK t : t = PD!Task("openPrint", 0)
    OBVIOUS
  <2>2. Head(u.micro) = t /\ q = <<PD!Task("closePrint", 0)>>
    BY <1>1, <1>12, <2>1, KQueues
  <2>3. r = w
    BY <1>3, <1>5, <1>12, <2>1, <2>2 DEF PD!Callback, PD!Task
  <2>4. PD!Turn(r)
    BY <1>4, <1>5, <1>6, <1>12, <2>2, <2>3 DEF PD!Turn
  <2>5. KJobs(u, r)
    BY <1>4, <2>3 DEF KQueued
  <2> QED BY <1>5, <1>7, <2>3, <2>4, <2>5, KOfTaken
<1>13. CASE u.micro = <<PD!Task("set", u.asks), PD!Task("open", 0)>> /\ u.capability # "pending" /\ u.updateCallback = 0 /\ PD!Asking(u)
  <2>1. PICK t : t = PD!Task("set", u.asks)
    OBVIOUS
  <2>2. Head(u.micro) = t /\ q = <<PD!Task("open", 0)>>
    BY <1>1, <1>13, <2>1, KQueues
  <2>3. r = [w EXCEPT !.updateCallback = w.asks]
    BY <1>3, <1>7, <2>1, <2>2 DEF PD!Callback, PD!Task
  <2>4. w.updateCallback = 0 /\ PD!Asking(w) /\ w.capability # "pending" /\ w.micro = <<PD!Task("open", 0)>>
    BY <1>4, <1>7, <1>8, <1>13, <2>2
  <2>5. KNext(w, r)
    BY <1>5, <2>3, <2>4, KSet
  <2> QED BY <1>4, <2>5, KThrough
<1>14. CASE u.micro = <<PD!Task("open", 0)>> /\ u.capability # "pending" /\ u.updateCallback = u.asks /\ PD!Asking(u)
  <2>1. PICK t : t = PD!Task("open", 0)
    OBVIOUS
  <2>2. Head(u.micro) = t /\ q = <<>>
    BY <1>1, <1>14, <2>1, KQueues
  <2>3. r = PD!PromptOpened(w)
    BY <1>3, <2>1, <2>2 DEF PD!Callback, PD!Task
  <2>4. KNext(w, r)
    BY <1>4, <1>5, <1>7, <1>8, <1>14, <2>2, <2>3, KOpenPassword
  <2> QED BY <1>4, <2>4, KThrough
<1>15. CASE /\ u.micro = <<PD!Task("password", 0)>> /\ u.capability = "pending" /\ u.updateCallback = u.asks /\ u.overlay = "null"
            /\ PD!Asking(u)
  <2>1. PICK t : t = PD!Task("password", 0)
    OBVIOUS
  <2>2. Head(u.micro) = t /\ q = <<>>
    BY <1>1, <1>15, <2>1, KQueues
  <2>3. r = PD!Show(w, "password")
    BY <1>3, <2>1, <2>2 DEF PD!Callback, PD!Task
  <2>4. KNext(w, r)
    BY <1>4, <1>5, <1>7, <1>8, <1>15, <2>2, <2>3, KShowPassword
  <2> QED BY <1>4, <2>4, KThrough
<1> QED BY <1>0, <1>9, <1>10, <1>11, <1>12, <1>13, <1>14, <1>15 DEF PD!Turn

(* A dialog is closed from outside. *)
LEMMA KEscape ==
  ASSUME NEW u, PD!Sound(u), u.micro = <<>>, u.overlay # "null", NEW r, r = PD!CloseActive(u)
  PROVE  KNext(u, r)
<1>1. KGood(u) /\ PD!Progress(u) /\ PD!Prompted(u)
  BY KIdle
<1>2. DOMAIN u = DOMAIN PD!Start /\ PD!DialogsSound(u)
  BY <1>1 DEF KGood
<1>3. KClosed(u, r)
  BY <1>2, KClose
<1>4. KGood(r) /\ PD!Prompted(r) /\ PD!Progress(r)
  BY <1>1, <1>3, KClosedGood
<1>5. KJobs(u, r) /\ r.updateCallback = u.updateCallback /\ r.micro = <<>>
  BY <1>3 DEF KClosed, KPrompt
<1>6. PD!Turn(r)
  BY <1>4, <1>5 DEF PD!Turn
<1> QED BY <1>4, <1>5, <1>6, KOfTaken

(* The cancel button of the prompt. *)
LEMMA KClosePrompt ==
  ASSUME NEW u, PD!Sound(u), u.micro = <<>>, "password" \in u.shown, NEW r, r = PD!CloseIfActive(u, "password")
  PROVE  KNext(u, r)
<1>1. u.overlay = "password"
  BY DEF PD!Sound, PD!DialogsSound
<1>2. r = PD!CloseActive(u) /\ u.overlay # "null"
  BY <1>1 DEF PD!CloseIfActive
<1> QED BY <1>2, KEscape

(* A dialog that closes no other one. *)
LEMMA KOpenOther ==
  ASSUME NEW u, PD!Sound(u), u.micro = <<>>, u.overlay = "null", NEW r, r = PD!Show(u, "other")
  PROVE  KNext(u, r)
<1>1. KGood(u) /\ PD!Progress(u) /\ PD!Prompted(u)
  BY KIdle
<1>2. DOMAIN u = DOMAIN PD!Start /\ PD!DialogsSound(u) /\ PD!Asked(u) /\ "other" \in PD!Dialog
  BY <1>1 DEF KGood, PD!Dialog
<1>3. KShown(u, "other", r)
  BY <1>2, KShow
<1>4. KGood(r) /\ PD!Prompted(r) /\ PD!Progress(r)
  BY <1>1, <1>3, KShownGood
<1>5. KJobs(u, r) /\ r.updateCallback = u.updateCallback /\ r.micro = <<>>
  BY <1>3 DEF KShown, KPrompt
<1>6. PD!Turn(r)
  BY <1>4, <1>5 DEF PD!Turn
<1> QED BY <1>4, <1>5, <1>6, KOfTaken

(* What the fields of the prompt are changed to; the dialogs and the jobs stay. *)
KAnswered(u, w) ==
  /\ KJobs(u, w) /\ w.overlay = u.overlay /\ w.shown = u.shown /\ w.closing = u.closing
  /\ w.micro = u.micro /\ w.asks = u.asks

(* What is true of jobs and dialogs when only fields of the prompt change. *)
LEMMA KAnsweredKeeps ==
  ASSUME NEW u, KGood(u), NEW w, KAnswered(u, w), PD!Asked(w)
  PROVE  KGood(w) /\ (PD!Progress(u) => PD!Progress(w)) /\ \A x : PD!Sent(w, x) <=> PD!Sent(u, x)
<1>1. \A x : PD!Sent(w, x) <=> PD!Sent(u, x)
  BY DEF PD!Sent, KAnswered
<1>2. PD!DialogsSound(w)
  BY <1>1 DEF PD!DialogsSound, KAnswered, KGood
<1>3. KJobs(u, w)
  BY DEF KAnswered
<1>4. PD!JobsSound(w) /\ DOMAIN w = DOMAIN PD!Start /\ w.activeService = u.activeService
  BY <1>3, KJobsKept DEF KJobs, KGood
<1>5. PD!Progress(u) => PD!Progress(w)
  BY <1>1, <1>4 DEF PD!Progress, KAnswered
<1> QED BY <1>1, <1>2, <1>4, <1>5 DEF KGood

(* The document whose password is asked for is closed. *)
LEMMA KCloseDocument ==
  ASSUME NEW u, PD!Sound(u), u.micro = <<>>, NEW w, w = [u EXCEPT !.live = 0, !.answer = "none"],
         NEW r, r = PD!CloseIfActive(w, "password")
  PROVE  KNext(u, r)
<1>1. KGood(u) /\ PD!Progress(u) /\ PD!Prompted(u)
  BY KIdle
<1>2. DOMAIN u = DOMAIN PD!Start /\ PD!Asked(u)
  BY <1>1 DEF KGood
<1>3. KJobs(u, w)
  BY <1>2 DEF KJobs, PD!Start
<1>4. w.overlay = u.overlay /\ w.shown = u.shown /\ w.closing = u.closing /\ w.micro = u.micro /\ w.dismissed = u.dismissed
  BY <1>2 DEF PD!Start
<1>5. /\ w.asks = u.asks /\ w.live = 0 /\ w.capability = u.capability /\ w.waiting = u.waiting
      /\ w.updateCallback = u.updateCallback /\ w.answer = "none"
  BY <1>2 DEF PD!Start
<1>6. KAnswered(u, w)
  BY <1>3, <1>4, <1>5 DEF KAnswered
<1>7. PD!Asked(w)
  BY <1>2, <1>4, <1>5 DEF PD!Asked, PD!Sent
<1>8. KGood(w) /\ PD!Progress(w) /\ \A x : PD!Sent(w, x) <=> PD!Sent(u, x)
  BY <1>1, <1>6, <1>7, KAnsweredKeeps
<1>9. PICK n : n = u.asks
  OBVIOUS
<1>10. w.capability = "pending" <=> w.overlay = "password" \/ PD!Sent(w, "password")
  BY <1>1, <1>4, <1>5, <1>8 DEF PD!Prompted
<1>11. w.capability # "pending" => w.updateCallback = 0 /\ w.waiting = <<>>
  BY <1>1, <1>5 DEF PD!Prompted
<1>12. \/ w.waiting = <<PD!Task("set", w.asks), PD!Task("open", 0)>> /\ w.asks # 0 /\ w.updateCallback # w.asks
       \/ w.waiting = <<>>
  BY <1>1, <1>5 DEF PD!Prompted, PD!Waits
<1>13. <<PD!Task("set", w.asks), PD!Task("open", 0)>> # <<>>
  BY KQueues
<1>14. CASE w.overlay = "password"
  <2>1. r = PD!CloseActive(w)
    BY <1>14 DEF PD!CloseIfActive
  <2>2. DOMAIN w = DOMAIN PD!Start /\ PD!DialogsSound(w) /\ w.overlay # "null"
    BY <1>8, <1>14 DEF KGood
  <2>3. KClosed(w, r)
    BY <2>1, <2>2, KClose
  <2>4. KGood(r) /\ PD!Progress(r)
    BY <1>8, <2>3, KClosedGood
  <2>5. KJobs(w, r) /\ KPrompt(w, r) /\ r.micro = <<>> /\ PD!Sent(r, "password")
    BY <1>4, <1>14, <2>3 DEF KClosed
  <2>6. r.updateCallback = u.updateCallback /\ r.answer = "none"
    BY <1>5, <2>5 DEF KPrompt
  <2>7. PD!Prompted(r)
    <3>1. r.capability = "pending"
      BY <1>10, <1>14, <2>5 DEF KPrompt
    <3>2. r.live = 0
      BY <1>5, <2>5 DEF KPrompt
    <3>3. PD!Waits(r) \/ r.waiting = <<>>
      BY <1>12, <2>5, <2>6 DEF PD!Waits, KPrompt
    <3> QED BY <2>5, <3>1, <3>2, <3>3 DEF PD!Prompted
  <2>8. PD!Turn(r)
    BY <2>4, <2>5, <2>7 DEF PD!Turn
  <2>9. KJobs(u, r)
    BY <1>3, <2>5 DEF KJobs
  <2> QED BY <2>4, <2>6, <2>8, <2>9, KOfTaken
<1>15. CASE w.overlay # "password"
  <2>1. r = w
    BY <1>15 DEF PD!CloseIfActive
  <2>2. w.answer # "password"
    BY <1>5
  <2>3. PD!Waits(w) \/ w.waiting = <<>>
    <3>1. CASE w.waiting = <<>>
      BY <3>1
    <3>2. CASE w.waiting = <<PD!Task("set", w.asks), PD!Task("open", 0)>> /\ w.asks # 0 /\ w.updateCallback # w.asks
      <4>1. w.capability = "pending"
        BY <1>11, <1>13, <3>2
      <4>2. PD!Sent(w, "password")
        BY <1>10, <1>15, <4>1
      <4> QED BY <2>2, <3>2, <4>2 DEF PD!Waits
    <3> QED BY <1>12, <3>1, <3>2
  <2>4. PD!Prompted(w)
    BY <1>5, <1>10, <1>11, <2>3 DEF PD!Prompted
  <2>5. PD!Turn(w)
    BY <1>4, <1>8, <2>4 DEF PD!Turn
  <2> QED BY <1>3, <1>5, <1>8, <2>1, <2>5, KOfTaken
<1> QED BY <1>14, <1>15

(* A password is given. *)
LEMMA KSubmit ==
  ASSUME NEW u, PD!Sound(u), u.micro = <<>>, "password" \in u.shown, NEW r, r = PD!InvokeCallback(u, "password")
  PROVE  KNext(u, r)
<1>1. KGood(u) /\ PD!Progress(u) /\ PD!Prompted(u)
  BY KIdle
<1>2. DOMAIN u = DOMAIN PD!Start /\ PD!Asked(u) /\ PD!DialogsSound(u)
  BY <1>1 DEF KGood
<1>3. u.overlay = "password" /\ ~PD!Sent(u, "password")
  BY <1>2 DEF PD!DialogsSound
<1>4. CASE u.updateCallback = 0
  <2>1. r = u
    BY <1>4 DEF PD!InvokeCallback
  <2>2. PD!Turn(r) /\ KGood(r)
    BY <1>1, <2>1 DEF PD!Turn
  <2>3. KJobs(u, r)
    BY <1>2, <2>1 DEF KJobs
  <2> QED BY <2>1, <2>2, <2>3, KOfTaken
<1>5. CASE u.updateCallback # 0
  <2>1. PICK c : c = PD!CloseActive(u)
    OBVIOUS
  <2>2. u.overlay # "null"
    BY <1>3
  <2>3. KClosed(u, c)
    BY <1>2, <2>1, <2>2, KClose
  <2>4. KGood(c) /\ PD!Progress(c) /\ PD!Prompted(c)
    BY <1>1, <2>3, KClosedGood
  <2>5. KJobs(u, c) /\ KPrompt(u, c) /\ c.micro = <<>> /\ PD!Sent(c, "password")
    BY <1>3, <2>3 DEF KClosed
  <2>6. PICK k : k = u.updateCallback
    OBVIOUS
  <2>7. PICK a : a = IF u.live = k THEN "password" ELSE "none"
    OBVIOUS
  <2>8. PICK l : l = IF c.live = k THEN 0 ELSE c.live
    OBVIOUS
  <2>9. r = [c EXCEPT !.answer = a, !.updateCallback = 0, !.live = l, !.dismissed = 0]
    BY <1>3, <1>5, <2>1, <2>6, <2>7, <2>8 DEF PD!InvokeCallback, PD!CloseIfActive
  <2>10. DOMAIN c = DOMAIN PD!Start /\ PD!Asked(c)
    BY <2>4 DEF KGood
  <2>11. KJobs(c, r)
    BY <2>9, <2>10 DEF KJobs, PD!Start
  <2>12. r.overlay = c.overlay /\ r.shown = c.shown /\ r.closing = c.closing /\ r.micro = c.micro
    BY <2>9, <2>10 DEF PD!Start
  <2>13. r.asks = c.asks /\ r.capability = c.capability /\ r.waiting = c.waiting
    BY <2>9, <2>10 DEF PD!Start
  <2>14. r.answer = a /\ r.updateCallback = 0 /\ r.live = l
    BY <2>9, <2>10 DEF PD!Start
  <2>15. KAnswered(c, r)
    BY <2>11, <2>12, <2>13 DEF KAnswered
  <2>16. PD!Asked(r)
    BY <2>8, <2>10, <2>13, <2>14 DEF PD!Asked
  <2>17. KGood(r) /\ PD!Progress(r) /\ \A x : PD!Sent(r, x) <=> PD!Sent(c, x)
    BY <2>4, <2>15, <2>16, KAnsweredKeeps
  <2>18. r.capability = "pending" /\ PD!Sent(r, "password")
    BY <2>4, <2>5, <2>13, <2>17 DEF PD!Prompted
  <2>19. PD!Waits(r) \/ (r.waiting = <<>> /\ r.live = 0)
    <3>1. CASE PD!Waits(u)
      <4>1. u.live = u.asks /\ u.updateCallback # u.asks
        BY <1>3, <3>1 DEF PD!Waits
      <4>2. r.live = r.asks
        BY <2>5, <2>6, <2>8, <2>13, <2>14, <4>1 DEF KPrompt
      <4>3. r.waiting = <<PD!Task("set", r.asks), PD!Task("open", 0)>> /\ r.asks # 0
        BY <2>5, <2>13, <3>1 DEF KPrompt, PD!Waits
      <4>4. r.updateCallback # r.asks
        BY <2>14, <4>3
      <4> QED BY <4>2, <4>3, <4>4 DEF PD!Waits
    <3>2. CASE ~PD!Waits(u)
      <4>1. u.waiting = <<>> /\ (u.live # 0 => u.updateCallback = u.live)
        BY <1>1, <3>2 DEF PD!Prompted
      <4>2. r.waiting = <<>>
        BY <2>5, <2>13, <4>1 DEF KPrompt
      <4>3. r.live = 0
        BY <2>5, <2>6, <2>8, <2>14, <4>1 DEF KPrompt
      <4> QED BY <4>2, <4>3
    <3> QED BY <3>1, <3>2
  <2>20. PD!Prompted(r)
    BY <2>18, <2>19 DEF PD!Prompted
  <2>21. PD!Turn(r)
    BY <2>5, <2>12, <2>17, <2>20 DEF PD!Turn
  <2>22. PD!Sound(r)
    BY <2>17, <2>21, KTurns
  <2>23. KWhole(u, r)
    BY <2>5, <2>11 DEF KWhole, KJobs
  <2>24. KFails(u, r)
    BY <2>7, <2>14 DEF KFails
  <2> QED BY <2>22, <2>23, <2>24 DEF KNext
<1> QED BY <1>4, <1>5

(* A document asks for its password. *)
LEMMA KOnPassword ==
  ASSUME NEW u, PD!Sound(u), u.micro = <<>>, u.live = 0, u.closing = <<>> \/ u.answer = "password", NEW k, k = u.asks + 1,
         NEW w, w = [u EXCEPT !.asks = k, !.live = k, !.answer = "none"], NEW r, r = PD!PromptOpen(PD!SetUpdateCallback(w, k))
  PROVE  KNext(u, r)
<1>1. KGood(u) /\ PD!Progress(u) /\ PD!Prompted(u)
  BY KIdle
<1>2. DOMAIN u = DOMAIN PD!Start /\ PD!Asked(u) /\ PD!DialogsSound(u)
  BY <1>1 DEF KGood
<1>3. PICK b : b = PD!Task("set", k)
  OBVIOUS
<1>4. PICK o : o = PD!Task("open", 0)
  OBVIOUS
<1>5. u.waiting = <<>>
  <2>1. u.closing = <<>> => ~PD!Sent(u, "password")
    <3>1. ASSUME u.closing = <<>>, PD!Sent(u, "password") PROVE FALSE
      <4>1. PICK i \in DOMAIN u.closing : TRUE
        BY <3>1 DEF PD!Sent
      <4>2. DOMAIN u.closing = 1 .. Len(u.closing)
        BY <1>2 DEF PD!DialogsSound
      <4>3. Len(u.closing) = 0
        BY <1>2, <3>1, EmptySeq DEF PD!DialogsSound
      <4> QED BY <4>1, <4>2, <4>3
    <3> QED BY <3>1
  <2>2. ASSUME PD!Waits(u) PROVE FALSE
    BY <2>1, <2>2 DEF PD!Waits
  <2> QED BY <1>1, <2>2 DEF PD!Prompted
<1>6. k \in Nat /\ k # 0 /\ u.updateCallback < k /\ u.updateCallback \in Nat
  BY <1>2 DEF PD!Asked
<1>7. KJobs(u, w)
  BY <1>2 DEF KJobs, PD!Start
<1>8. w.overlay = u.overlay /\ w.shown = u.shown /\ w.closing = u.closing /\ w.micro = <<>> /\ w.dismissed = u.dismissed
  BY <1>2 DEF PD!Start
<1>9. /\ w.asks = k /\ w.live = k /\ w.capability = u.capability /\ w.waiting = <<>>
      /\ w.updateCallback = u.updateCallback /\ w.answer = "none"
  BY <1>2, <1>5 DEF PD!Start
<1>10. DOMAIN w = DOMAIN PD!Start /\ w.activeService = u.activeService /\ PD!JobsSound(w)
  BY <1>1, <1>7, KJobsKept DEF KJobs, KGood
<1>11. Append(<<>>, o) = <<o>> /\ Append(<<>>, b) = <<b>> /\ Append(<<b>>, o) = <<b, o>>
  BY KQueues
<1>12. u.capability # "pending" => u.updateCallback = 0 /\ u.overlay # "password" /\ ~PD!Sent(u, "password")
  BY <1>1 DEF PD!Prompted
<1>13. ASSUME NEW r1, KJobs(w, r1), r1.overlay = w.overlay, r1.shown = w.shown, r1.closing = w.closing, r1.dismissed = w.dismissed,
              r1.asks = k, r1.live = k, r1.updateCallback = w.updateCallback \/ (r1.updateCallback = k /\ u.capability # "pending")
       PROVE  KGood(r1) /\ PD!Progress(r1) /\ KJobs(u, r1) /\ \A x : PD!Sent(r1, x) <=> PD!Sent(u, x)
  <2>1. \A x : PD!Sent(r1, x) <=> PD!Sent(u, x)
    BY <1>8, <1>13 DEF PD!Sent
  <2>2. PD!DialogsSound(r1)
    BY <1>2, <1>8, <1>13, <2>1 DEF PD!DialogsSound
  <2>3. PD!JobsSound(r1) /\ DOMAIN r1 = DOMAIN PD!Start /\ r1.activeService = u.activeService
    BY <1>10, <1>13, KJobsKept DEF KJobs
  <2>4. r1.asks \in Nat /\ r1.live \in {0, r1.asks} /\ r1.updateCallback \in Nat /\ r1.updateCallback <= r1.asks
    BY <1>6, <1>9, <1>13
  <2>5. PD!Sent(r1, "password") /\ r1.updateCallback # 0 => r1.dismissed = r1.updateCallback
    BY <1>2, <1>8, <1>9, <1>12, <1>13, <2>1 DEF PD!Asked
  <2>6. PD!Asked(r1)
    BY <2>4, <2>5 DEF PD!Asked
  <2>7. PD!Progress(r1)
    BY <1>1, <1>8, <1>13, <2>1, <2>3 DEF PD!Progress
  <2>8. KJobs(u, r1)
    BY <1>7, <1>13 DEF KJobs
  <2> QED BY <2>1, <2>2, <2>3, <2>6, <2>7, <2>8 DEF KGood
<1>14. CASE u.capability = "null"
  <2>1. PICK v : v = [w EXCEPT !.updateCallback = k]
    OBVIOUS
  <2>2. v.capability = "null" /\ v.micro = <<>>
    BY <1>8, <1>9, <1>10, <1>14, <2>1 DEF PD!Start
  <2>3. r = [v EXCEPT !.micro = <<o>>]
    BY <1>4, <1>9, <1>11, <1>14, <2>1, <2>2 DEF PD!SetUpdateCallback, PD!PromptOpen, PD!AwaitPrompt
  <2>4. r = [w EXCEPT !.updateCallback = k, !.micro = <<o>>]
    BY <2>1, <2>3
  <2>5. KJobs(w, r)
    BY <1>10, <2>4 DEF KJobs, PD!Start
  <2>6. r.overlay = w.overlay /\ r.shown = w.shown /\ r.closing = w.closing /\ r.dismissed = w.dismissed /\ r.micro = <<o>>
    BY <1>10, <2>4 DEF PD!Start
  <2>7. r.asks = k /\ r.live = k /\ r.updateCallback = k /\ r.waiting = <<>> /\ r.capability = "null" /\ r.answer = "none"
    BY <1>9, <1>10, <1>14, <2>4 DEF PD!Start
  <2>8. KGood(r) /\ PD!Progress(r) /\ KJobs(u, r) /\ \A x : PD!Sent(r, x) <=> PD!Sent(u, x)
    BY <1>13, <1>14, <2>5, <2>6, <2>7
  <2>9. PD!Asking(r)
    BY <1>6, <1>8, <1>12, <1>14, <2>6, <2>7, <2>8 DEF PD!Asking
  <2>10. PD!Turn(r)
    BY <1>4, <2>6, <2>7, <2>9 DEF PD!Turn
  <2>11. KWhole(u, r) /\ KFails(u, r)
    BY <2>7, <2>8, KOfJobs DEF KFails
  <2> QED BY <2>8, <2>10, <2>11, KTurns DEF KNext
<1>15. CASE u.capability # "null" /\ u.capability # "pending"
  <2>1. PICK v : v = [w EXCEPT !.micro = <<b>>]
    OBVIOUS
  <2>2. v.capability # "pending" /\ v.micro = <<b>>
    BY <1>8, <1>9, <1>10, <1>15, <2>1 DEF PD!Start
  <2>3. v = PD!SetUpdateCallback(w, k)
    BY <1>3, <1>8, <1>9, <1>11, <1>15, <2>1 DEF PD!SetUpdateCallback, PD!AwaitPrompt
  <2>4. r = [v EXCEPT !.micro = <<b, o>>]
    BY <1>4, <1>11, <2>2, <2>3 DEF PD!PromptOpen, PD!AwaitPrompt
  <2>5. r = [w EXCEPT !.micro = <<b, o>>]
    BY <2>1, <2>4
  <2>6. KJobs(w, r)
    BY <1>10, <2>5 DEF KJobs, PD!Start
  <2>7. r.overlay = w.overlay /\ r.shown = w.shown /\ r.closing = w.closing /\ r.dismissed = w.dismissed /\ r.micro = <<b, o>>
    BY <1>10, <2>5 DEF PD!Start
  <2>8. r.asks = k /\ r.live = k /\ r.updateCallback = w.updateCallback /\ r.waiting = <<>> /\ r.capability = u.capability /\ r.answer = "none"
    BY <1>9, <1>10, <2>5 DEF PD!Start
  <2>9. KGood(r) /\ PD!Progress(r) /\ KJobs(u, r) /\ \A x : PD!Sent(r, x) <=> PD!Sent(u, x)
    BY <1>13, <2>6, <2>7, <2>8
  <2>10. PD!Asking(r)
    BY <1>6, <1>8, <1>12, <1>15, <2>7, <2>8, <2>9 DEF PD!Asking
  <2>11. r.updateCallback = 0
    BY <1>9, <1>12, <1>15, <2>8
  <2>12. PD!Turn(r)
    BY <1>3, <1>4, <1>15, <2>7, <2>8, <2>10, <2>11 DEF PD!Turn
  <2>13. KWhole(u, r) /\ KFails(u, r)
    BY <2>8, <2>9, KOfJobs DEF KFails
  <2> QED BY <2>9, <2>12, <2>13, KTurns DEF KNext
<1>16. CASE u.capability = "pending"
  <2>1. PICK v : v = [w EXCEPT !.waiting = <<b>>]
    OBVIOUS
  <2>2. v.capability = "pending" /\ v.waiting = <<b>>
    BY <1>9, <1>10, <1>16, <2>1 DEF PD!Start
  <2>3. v = PD!SetUpdateCallback(w, k)
    BY <1>3, <1>9, <1>11, <1>16, <2>1 DEF PD!SetUpdateCallback, PD!AwaitPrompt
  <2>4. r = [v EXCEPT !.waiting = <<b, o>>]
    BY <1>4, <1>11, <2>2, <2>3 DEF PD!PromptOpen, PD!AwaitPrompt
  <2>5. r = [w EXCEPT !.waiting = <<b, o>>]
    BY <2>1, <2>4
  <2>6. KJobs(w, r)
    BY <1>10, <2>5 DEF KJobs, PD!Start
  <2>7. r.overlay = w.overlay /\ r.shown = w.shown /\ r.closing = w.closing /\ r.dismissed = w.dismissed /\ r.micro = <<>>
    BY <1>8, <1>10, <2>5 DEF PD!Start
  <2>8. r.asks = k /\ r.live = k /\ r.updateCallback = w.updateCallback /\ r.waiting = <<b, o>> /\ r.capability = "pending" /\ r.answer = "none"
    BY <1>9, <1>10, <1>16, <2>5 DEF PD!Start
  <2>9. KGood(r) /\ PD!Progress(r) /\ KJobs(u, r) /\ \A x : PD!Sent(r, x) <=> PD!Sent(u, x)
    BY <1>13, <2>6, <2>7, <2>8
  <2>10. r.updateCallback # r.asks
    BY <1>6, <1>9, <2>8
  <2>11. PD!Waits(r)
    BY <1>3, <1>4, <1>6, <2>8, <2>10 DEF PD!Waits
  <2>12. r.overlay = "password" \/ PD!Sent(r, "password")
    BY <1>1, <1>8, <1>16, <2>7, <2>9 DEF PD!Prompted
  <2>13. PD!Prompted(r)
    BY <2>8, <2>11, <2>12 DEF PD!Prompted
  <2>14. PD!Turn(r)
    BY <2>7, <2>9, <2>13 DEF PD!Turn
  <2>15. KWhole(u, r) /\ KFails(u, r)
    BY <2>8, <2>9, KOfJobs DEF KFails
  <2> QED BY <2>9, <2>14, <2>15, KTurns DEF KNext
<1> QED BY <1>14, <1>15, <1>16

(* The container without pages. *)
LEMMA KEmpty ==
  ASSUME NEW j, NEW n, n = 0
  PROVE  [i \in 1 .. n |-> <<j, i>>] = <<>>
<1>1. PICK s : s = [i \in 1 .. 0 |-> <<j, i>>]
  OBVIOUS
<1>2. PICK S : S = {s[i] : i \in 1 .. 0}
  OBVIOUS
<1>3. s \in Seq(S) /\ Len(s) = 0
  BY <1>1, <1>2
<1> QED BY <1>1, <1>3, EmptySeq

(* One page more. *)
LEMMA KOneMore ==
  ASSUME NEW j, NEW n \in Nat, NEW s, s = [i \in 1 .. n |-> <<j, i>>]
  PROVE  Append(s, <<j, n + 1>>) = [i \in 1 .. n + 1 |-> <<j, i>>]
<1>1. PICK S : S = {<<j, i>> : i \in Nat}
  OBVIOUS
<1>2. s \in Seq(S) /\ Len(s) = n /\ <<j, n + 1>> \in S
  BY <1>1
<1>3. PICK r : r = [i \in 1 .. n + 1 |-> <<j, i>>]
  OBVIOUS
<1>4. r \in Seq(S) /\ Len(r) = n + 1
  BY <1>1, <1>3
<1>5. PICK c : c = Append(s, <<j, n + 1>>)
  OBVIOUS
<1>6. c \in Seq(S) /\ Len(c) = n + 1 /\ c[n + 1] = <<j, n + 1>> /\ \A i \in 1 .. n : c[i] = s[i]
  BY <1>2, <1>5, AppendProperties
<1>7. \A i \in 1 .. n + 1 : c[i] = r[i]
  <2>1. TAKE i \in 1 .. n + 1
  <2>2. CASE i = n + 1
    BY <1>3, <1>6, <2>2
  <2>3. CASE i \in 1 .. n
    BY <1>3, <1>6, <2>3
  <2> QED BY <2>2, <2>3
<1>8. c = r
  BY <1>4, <1>6, <1>7, SeqEqual
<1> QED BY <1>3, <1>5, <1>8

(* A job ends; the queue gets the callback that closes the dialog. *)
KEnded(u, r) ==
  /\ PD!JobsSound(r) /\ DOMAIN r = DOMAIN PD!Start /\ KDialogs(u, r) /\ r.activeService = 0
  /\ r.micro = Append(u.micro, PD!Task("closePrint", 0))

(* At most the phases of the jobs change. *)
KPhased(u, phase, w) ==
  /\ DOMAIN w = DOMAIN PD!Start /\ w.jobs = u.jobs /\ w.activeService = u.activeService /\ w.printService = u.printService
  /\ w.phase = phase /\ w.page = u.page /\ w.urls = u.urls /\ w.container = u.container /\ w.style = u.style
  /\ w.micro = u.micro /\ KDialogs(u, w)

(* Abort keeps the invariant. *)
LEMMA KAbort ==
  ASSUME NEW u, KGood(u), u.activeService # 0, NEW phase, DOMAIN phase = PD!Job,
         \A i \in PD!Job : phase[i] = u.phase[i] \/ (i = u.activeService /\ phase[i] = "done"),
         NEW w, KPhased(u, phase, w), NEW r, r = PD!Abort(w)
  PROVE  KEnded(u, r) /\ r.phase = phase
<1>0. DOMAIN u = DOMAIN PD!Start /\ PD!Numbers(u) /\ \A j \in PD!Job : PD!JobSound(u, j)
  BY DEF KGood, PD!JobsSound
<1>1. PICK a : a = u.activeService
  OBVIOUS
<1>2. PICK t : t = PD!Task("closePrint", 0)
  OBVIOUS
<1>3. a \in PD!Job /\ a <= u.jobs /\ a # 0 /\ u.jobs \in Nat
  BY <1>0, <1>1, DialogsAssumption DEF PD!Numbers, PD!Job
<1>4. PICK urls : urls = [u.urls EXCEPT ![a] = 0]
  OBVIOUS
<1>5. w.activeService = a /\ w.urls = u.urls /\ w.micro = u.micro /\ DOMAIN w = DOMAIN PD!Start
  BY <1>0, <1>1 DEF KPhased
<1>6. PICK q : q = Append(u.micro, t)
  OBVIOUS
<1>7. PICK v : v = [w EXCEPT !.container = <<>>, !.style = 0, !.urls = urls, !.activeService = 0, !.micro = q]
  OBVIOUS
<1>8. r = [v EXCEPT !.printService = 0]
  <2>1. r = PD!AfterPrint(PD!Destroy(w))
    BY <1>3, <1>5 DEF PD!Abort
  <2>2. PD!Destroy(w) = v
    BY <1>2, <1>4, <1>5, <1>6, <1>7 DEF PD!Destroy
  <2> QED BY <2>1, <2>2 DEF PD!AfterPrint
<1>9. DOMAIN v = DOMAIN PD!Start /\ v.jobs = w.jobs /\ v.phase = w.phase /\ v.page = w.page /\ v.urls = urls
  BY <1>5, <1>7 DEF PD!Start
<1>10. v.container = <<>> /\ v.style = 0 /\ v.activeService = 0 /\ v.micro = q
  BY <1>5, <1>7 DEF PD!Start
<1>11. KPrompt(w, v)
  BY <1>5, <1>7 DEF PD!Start, KPrompt
<1>12. KDialogs(w, v)
  BY <1>5, <1>7, <1>11 DEF PD!Start, KDialogs
<1>13. DOMAIN r = DOMAIN PD!Start /\ r.jobs = v.jobs /\ r.phase = v.phase /\ r.page = v.page /\ r.urls = v.urls
  BY <1>8, <1>9 DEF PD!Start
<1>14. r.container = v.container /\ r.style = v.style /\ r.activeService = v.activeService /\ r.micro = v.micro /\ r.printService = 0
  BY <1>8, <1>9 DEF PD!Start
<1>15. KPrompt(v, r)
  BY <1>8, <1>9 DEF PD!Start, KPrompt
<1>16. KDialogs(v, r)
  BY <1>8, <1>9, <1>15 DEF PD!Start, KDialogs
<1>17. DOMAIN r = DOMAIN PD!Start /\ r.jobs = u.jobs /\ r.phase = phase /\ r.page = u.page /\ r.urls = urls
  BY <1>9, <1>13 DEF KPhased
<1>18. r.container = <<>> /\ r.style = 0 /\ r.activeService = 0 /\ r.micro = q /\ r.printService = 0
  BY <1>10, <1>14
<1>19. KDialogs(u, r)
  BY <1>12, <1>16 DEF KPhased, KDialogs, KPrompt
<1>20. DOMAIN urls = PD!Job /\ urls[a] = 0 /\ \A i \in PD!Job : i # a => urls[i] = u.urls[i]
  BY <1>0, <1>3, <1>4 DEF PD!Numbers
<1>21. PD!Numbers(r)
  BY <1>0, <1>17, <1>18, <1>20 DEF PD!Numbers
<1>22. ASSUME NEW j \in PD!Job PROVE PD!JobSound(r, j)
  <2>1. PD!JobSound(u, j) /\ j \in Nat
    BY <1>0, DialogsAssumption DEF PD!Job
  <2>2. CASE j = a
    <3>1. phase[j] \in PD!Phase
      BY <1>22, <2>1 DEF PD!JobSound, PD!Phase
    <3>2. ~(j > u.jobs)
      BY <1>3, <2>1, <2>2
    <3> QED BY <1>17, <1>18, <1>20, <2>1, <2>2, <3>1, <3>2 DEF PD!JobSound
  <2>3. CASE j # a
    <3>1. phase[j] = u.phase[j] /\ urls[j] = u.urls[j]
      BY <1>1, <1>20, <1>22, <2>3
    <3> QED BY <1>1, <1>17, <1>18, <2>1, <2>3, <3>1 DEF PD!JobSound
  <2> QED BY <2>2, <2>3
<1>23. PD!Filled(r) = 0
  BY <1>18 DEF PD!Filled
<1>24. r.container = [i \in 1 .. PD!Filled(r) |-> <<r.activeService, i>>]
  BY <1>18, <1>23, KEmpty
<1>25. PD!JobsSound(r)
  BY <1>18, <1>21, <1>22, <1>24 DEF PD!JobsSound
<1> QED BY <1>2, <1>6, <1>17, <1>18, <1>19, <1>25 DEF KEnded

(* After the end of a job the callback that closes the dialog comes next. *)
LEMMA KEndedTurns ==
  ASSUME NEW u, KGood(u), PD!Prompted(u), u.micro = <<>>, NEW r, KEnded(u, r)
  PROVE  PD!Sound(r) /\ KFails(u, r)
<1>1. PICK t : t = PD!Task("closePrint", 0)
  OBVIOUS
<1>2. r.micro = <<t>> /\ KDialogs(u, r)
  BY <1>1, KQueues DEF KEnded
<1>3. PD!DialogsSound(u) /\ PD!Asked(u)
  BY DEF KGood
<1>4. PD!DialogsSound(r) /\ PD!Asked(r) /\ PD!Prompted(r)
  BY <1>2, <1>3, KDialogsKept
<1>5. PD!Turn(r)
  BY <1>1, <1>2, <1>4 DEF PD!Turn, KEnded
<1>6. PD!Sound(r)
  BY <1>4, <1>5 DEF PD!Sound, KEnded
<1>7. KFails(u, r)
  BY <1>2 DEF KFails, KDialogs, KPrompt
<1> QED BY <1>6, <1>7

(* abort of the active job. *)
LEMMA KCancel ==
  ASSUME NEW u, KGood(u), PD!Prompted(u), u.micro = <<>>, u.activeService # 0, NEW r, r = PD!Abort(u)
  PROVE  KNext(u, r)
<1>1. PICK p : p = u.phase
  OBVIOUS
<1>2. DOMAIN u = DOMAIN PD!Start /\ DOMAIN p = PD!Job
  BY <1>1 DEF KGood, PD!JobsSound, PD!Numbers
<1>3. KPhased(u, p, u)
  BY <1>1, <1>2 DEF KPhased, KDialogs, KPrompt
<1>4. KEnded(u, r) /\ r.phase = p
  BY <1>1, <1>2, <1>3, KAbort
<1>5. KWhole(u, r)
  BY <1>1, <1>4 DEF KWhole
<1>6. PD!Sound(r) /\ KFails(u, r)
  BY <1>4, KEndedTurns
<1> QED BY <1>5, <1>6 DEF KNext

(* The cancel button of the progress dialog. *)
LEMMA KCancelPrint ==
  ASSUME NEW u, PD!Sound(u), u.micro = <<>>, "print" \in u.shown, NEW r, r = PD!Abort(u)
  PROVE  KNext(u, r)
<1>1. KGood(u) /\ PD!Progress(u) /\ PD!Prompted(u)
  BY KIdle
<1>2. u.activeService # 0
  BY <1>1 DEF PD!Progress, KGood, PD!DialogsSound
<1> QED BY <1>1, <1>2, KCancel

(* A `close' event arrives. *)
KArrived(u, h, w) ==
  /\ KJobs(u, w) /\ KPrompt(u, w) /\ w.overlay = u.overlay /\ w.dismissed = u.dismissed /\ w.micro = u.micro
  /\ PD!Sent(u, h) /\ (h = "password" => ~PD!Sent(w, h)) /\ \A x : (PD!Sent(w, x) => PD!Sent(u, x)) /\ (PD!Sent(u, x) => PD!Sent(w, x) \/ x = h)

(* The first of the events under way is taken; the others stay. *)
LEMMA KArrive ==
  ASSUME NEW u, KGood(u), u.closing # <<>>, NEW h, h = Head(u.closing), NEW w, w = [u EXCEPT !.closing = Tail(@)]
  PROVE  KArrived(u, h, w) /\ KGood(w) /\ h \in PD!Dialog
<1>0. DOMAIN u = DOMAIN PD!Start /\ PD!JobsSound(u) /\ PD!DialogsSound(u) /\ PD!Asked(u)
  BY DEF KGood
<1>1. PICK c : c = Tail(u.closing)
  OBVIOUS
<1>2. PICK n \in Nat : n = Len(u.closing)
  BY <1>0 DEF PD!DialogsSound
<1>3. u.closing \in Seq(PD!Dialog) /\ DOMAIN u.closing = 1 .. n
  BY <1>0, <1>2 DEF PD!DialogsSound
<1>4. n >= 1 /\ h = u.closing[1] /\ h \in PD!Dialog
  BY <1>2, <1>3, EmptySeq
<1>5. c \in Seq(PD!Dialog) /\ Len(c) = n - 1 /\ \A i \in 1 .. n - 1 : c[i] = u.closing[i + 1]
  BY <1>1, <1>2, <1>3, <1>4, HeadTailProperties
<1>6. DOMAIN c = 1 .. n - 1
  BY <1>5
<1>7. KJobs(u, w)
  BY <1>0 DEF KJobs, PD!Start
<1>8. KPrompt(u, w)
  BY <1>0 DEF KPrompt, PD!Start
<1>9. w.overlay = u.overlay /\ w.dismissed = u.dismissed /\ w.micro = u.micro /\ w.shown = u.shown /\ w.closing = c
  BY <1>0, <1>1 DEF PD!Start
<1>10. ASSUME NEW x, PD!Sent(w, x) PROVE PD!Sent(u, x)
  <2>1. PICK i \in 1 .. n - 1 : c[i] = x
    BY <1>6, <1>9, <1>10 DEF PD!Sent
  <2>2. i + 1 \in 1 .. n /\ u.closing[i + 1] = x
    BY <1>5, <2>1
  <2> QED BY <1>3, <2>2 DEF PD!Sent
<1>11. ASSUME NEW x, PD!Sent(u, x) PROVE PD!Sent(w, x) \/ x = h
  <2>1. PICK i \in 1 .. n : u.closing[i] = x
    BY <1>3, <1>11 DEF PD!Sent
  <2>2. CASE i = 1
    BY <1>4, <2>1, <2>2
  <2>3. CASE i # 1
    <3>1. PICK k : k = i - 1
      OBVIOUS
    <3>2. k \in 1 .. n - 1 /\ k + 1 = i
      BY <2>1, <2>3, <3>1
    <3>3. c[k] = x
      BY <1>5, <2>1, <3>2
    <3> QED BY <1>6, <1>9, <3>2, <3>3 DEF PD!Sent
  <2> QED BY <2>2, <2>3
<1>12. PD!Sent(u, h)
  BY <1>3, <1>4 DEF PD!Sent
<1>13. \A i, j \in 1 .. n : u.closing[i] = "password" /\ u.closing[j] = "password" => i = j
  BY <1>0, <1>3 DEF PD!DialogsSound
<1>14. ASSUME h = "password" PROVE ~PD!Sent(w, h)
  <2>1. ASSUME PD!Sent(w, h) PROVE FALSE
    <3>1. PICK i \in 1 .. n - 1 : c[i] = h
      BY <1>6, <1>9, <2>1 DEF PD!Sent
    <3>2. i + 1 \in 1 .. n /\ u.closing[i + 1] = h /\ 1 \in 1 .. n /\ i + 1 # 1
      BY <1>4, <1>5, <3>1
    <3> QED BY <1>4, <1>13, <1>14, <3>2
  <2> QED BY <2>1
<1>15. KArrived(u, h, w)
  BY <1>7, <1>8, <1>9, <1>10, <1>11, <1>12, <1>14 DEF KArrived
<1>16. ASSUME NEW i \in 1 .. n - 1, NEW j \in 1 .. n - 1, c[i] = "password", c[j] = "password" PROVE i = j
  <2>1. i + 1 \in 1 .. n /\ j + 1 \in 1 .. n /\ u.closing[i + 1] = "password" /\ u.closing[j + 1] = "password"
    BY <1>5, <1>16
  <2>2. i + 1 = j + 1
    BY <1>13, <2>1
  <2> QED BY <1>16, <2>2
<1>17. PD!DialogsSound(w)
  BY <1>0, <1>5, <1>6, <1>9, <1>10, <1>16 DEF PD!DialogsSound
<1>18. PD!Asked(w)
  BY <1>0, <1>8, <1>9, <1>10 DEF PD!Asked, KPrompt
<1>19. PD!JobsSound(w) /\ DOMAIN w = DOMAIN PD!Start
  BY <1>0, <1>7, KJobsKept DEF KJobs
<1> QED BY <1>4, <1>15, <1>17, <1>18, <1>19 DEF KGood

(* The dialogs do not depend on the prompt. *)
LEMMA KSameDialogs ==
  ASSUME NEW u, PD!DialogsSound(u), NEW r, r.overlay = u.overlay /\ r.shown = u.shown /\ r.closing = u.closing
  PROVE  PD!DialogsSound(r)
BY DEF PD!DialogsSound, PD!Sent

(* A `close' event ends the job of its dialog, and dismisses no prompt but its own. *)
LEMMA KCloseEvent ==
  ASSUME NEW u, PD!Sound(u), u.micro = <<>>, u.closing # <<>>, NEW h, h = Head(u.closing),
         NEW w, w = [u EXCEPT !.closing = Tail(@)], NEW r, r = PD!Closed(w, h)
  PROVE  KNext(u, r)
<1>1. KGood(u) /\ PD!Progress(u) /\ PD!Prompted(u)
  BY KIdle
<1>2. KArrived(u, h, w) /\ KGood(w) /\ h \in PD!Dialog
  BY <1>1, KArrive
<1>3. w.micro = <<>> /\ KJobs(u, w) /\ w.updateCallback = u.updateCallback /\ w.activeService = u.activeService /\ w.answer = u.answer
  BY <1>2 DEF KArrived, KPrompt, KJobs
<1>4. w.overlay = u.overlay /\ w.dismissed = u.dismissed /\ w.capability = u.capability /\ w.waiting = u.waiting /\ w.live = u.live /\ w.asks = u.asks
  BY <1>2 DEF KArrived, KPrompt
<1>5. ASSUME h # "password" PROVE PD!Prompted(w)
  <2>1. PD!Sent(w, "password") <=> PD!Sent(u, "password")
    BY <1>2, <1>5 DEF KArrived
  <2>2. PD!Waits(u) => PD!Waits(w)
    BY <1>3, <1>4, <2>1 DEF PD!Waits
  <2> QED BY <1>1, <1>3, <1>4, <2>1, <2>2 DEF PD!Prompted
<1>6. CASE h = "other"
  <2>1. r = w
    BY <1>6 DEF PD!Closed
  <2>2. PD!Prompted(w)
    BY <1>5, <1>6
  <2>3. PD!Sent(u, "print") => PD!Sent(w, "print")
    BY <1>2, <1>6 DEF KArrived
  <2>4. PD!Progress(w)
    BY <1>1, <1>3, <1>4, <2>3 DEF PD!Progress
  <2>5. PD!Turn(w)
    BY <1>3, <2>2, <2>4 DEF PD!Turn
  <2> QED BY <1>2, <1>3, <2>1, <2>5, KOfTaken
<1>7. CASE h = "print"
  <2>1. r = PD!Abort(w)
    BY <1>7 DEF PD!Closed
  <2>2. PD!Prompted(w)
    BY <1>5, <1>7
  <2>3. CASE w.activeService = 0
    <3>1. r = w
      BY <2>1, <2>3 DEF PD!Abort
    <3>2. PD!Progress(w)
      BY <1>1, <1>3, <1>4, <2>3 DEF PD!Progress
    <3>3. PD!Turn(w)
      BY <1>3, <2>2, <3>2 DEF PD!Turn
    <3> QED BY <1>2, <1>3, <3>1, <3>3, KOfTaken
  <2>4. CASE w.activeService # 0
    <3>1. KNext(w, r)
      BY <1>2, <1>3, <2>1, <2>2, <2>4, KCancel
    <3>2. KWhole(u, r)
      BY <1>3, <3>1 DEF KNext, KWhole, KJobs
    <3>3. KFails(u, r)
      BY <1>3, <1>4, <3>1 DEF KNext, KFails
    <3> QED BY <3>1, <3>2, <3>3 DEF KNext
  <2> QED BY <2>3, <2>4
<1>8. CASE h = "password"
  <2>1. PD!Sent(u, "password") /\ ~PD!Sent(w, "password") /\ u.overlay # "password"
    BY <1>1, <1>2, <1>8 DEF KArrived, KGood, PD!DialogsSound
  <2>2. PICK v : v = PD!InvokeCallback(w, "error")
    OBVIOUS
  <2>3. r = PD!Resolve(v)
    BY <1>8, <2>2 DEF PD!Closed
  <2>4. DOMAIN w = DOMAIN PD!Start
    BY <1>2 DEF KGood
  <2>5. /\ KJobs(w, v) /\ v.overlay = w.overlay /\ v.shown = w.shown /\ v.closing = w.closing /\ v.micro = <<>>
        /\ v.asks = w.asks /\ v.waiting = w.waiting /\ v.updateCallback = 0
        /\ v.live = IF w.updateCallback # 0 /\ w.live = w.updateCallback THEN 0 ELSE w.live
    <3>1. CASE w.updateCallback = 0
      <4>1. v = w
        BY <2>2, <3>1 DEF PD!InvokeCallback
      <4> QED BY <1>3, <2>4, <3>1, <4>1 DEF KJobs
    <3>2. CASE w.updateCallback # 0
      <4>1. PICK l : l = IF w.live = w.updateCallback THEN 0 ELSE w.live
        OBVIOUS
      <4>2. PICK x : x = w.dismissed
        OBVIOUS
      <4>3. w.overlay # "password"
        BY <1>4, <2>1
      <4>4. v = [w EXCEPT !.answer = "error", !.updateCallback = 0, !.live = l, !.dismissed = x]
        BY <2>2, <3>2, <4>1, <4>2, <4>3 DEF PD!InvokeCallback, PD!CloseIfActive
      <4>5. KJobs(w, v)
        BY <2>4, <4>4 DEF PD!Start, KJobs
      <4>6. v.overlay = w.overlay /\ v.shown = w.shown /\ v.closing = w.closing /\ v.micro = <<>>
        BY <1>3, <2>4, <4>4 DEF PD!Start
      <4>7. v.asks = w.asks /\ v.waiting = w.waiting /\ v.updateCallback = 0 /\ v.live = l
        BY <2>4, <4>4 DEF PD!Start
      <4> QED BY <3>2, <4>1, <4>5, <4>6, <4>7
    <3> QED BY <3>1, <3>2
  <2>6. DOMAIN v = DOMAIN PD!Start
    BY <2>5 DEF KJobs
  <2>7. PICK q : q = v.micro \o v.waiting
    OBVIOUS
  <2>8. r = [v EXCEPT !.capability = "resolved", !.micro = q, !.waiting = <<>>]
    BY <2>3, <2>7 DEF PD!Resolve
  <2>9. KJobs(v, r)
    BY <2>6, <2>8 DEF PD!Start, KJobs
  <2>10. r.overlay = v.overlay /\ r.shown = v.shown /\ r.closing = v.closing /\ r.micro = q
    BY <2>6, <2>8 DEF PD!Start
  <2>11. r.asks = v.asks /\ r.waiting = <<>> /\ r.updateCallback = v.updateCallback /\ r.live = v.live /\ r.capability = "resolved"
    BY <2>6, <2>8 DEF PD!Start
  <2>12. KJobs(w, r)
    BY <2>5, <2>9 DEF KJobs
  <2>13. KJobs(u, r)
    BY <1>3, <2>12 DEF KJobs
  <2>14. PD!Asked(r)
    <3>1. PD!Asked(w)
      BY <1>2 DEF KGood
    <3>2. r.live \in {0, r.asks} /\ r.asks \in Nat /\ r.updateCallback = 0
      BY <2>5, <2>11, <3>1 DEF PD!Asked
    <3> QED BY <3>2 DEF PD!Asked
  <2>15. \A x : PD!Sent(r, x) <=> PD!Sent(w, x)
    BY <2>5, <2>10 DEF PD!Sent
  <2>16. PD!DialogsSound(r)
    <3>1. PD!DialogsSound(w)
      BY <1>2 DEF KGood
    <3>2. r.overlay = w.overlay /\ r.shown = w.shown /\ r.closing = w.closing
      BY <2>5, <2>10
    <3> QED BY <3>1, <3>2, KSameDialogs
  <2>17. PD!JobsSound(r) /\ DOMAIN r = DOMAIN PD!Start /\ r.activeService = w.activeService
    BY <1>2, <2>12, KJobsKept DEF KJobs, KGood
  <2>18. KGood(r)
    BY <2>14, <2>16, <2>17 DEF KGood
  <2>19. PD!Sent(u, "print") => PD!Sent(r, "print")
    BY <1>2, <1>8, <2>15 DEF KArrived
  <2>20. PD!Progress(r)
    BY <1>1, <1>3, <1>4, <2>5, <2>10, <2>17, <2>19 DEF PD!Progress
  <2>21. r.overlay # "password" /\ ~PD!Sent(r, "password") /\ r.updateCallback = 0 /\ r.waiting = <<>> /\ r.asks = u.asks
    BY <1>4, <2>1, <2>5, <2>10, <2>11, <2>15
  <2>22. q = <<>> \o u.waiting
    BY <1>4, <2>5, <2>7
  <2>23. PD!Turn(r)
    <3>1. CASE PD!Waits(u)
      <4>1. PICK b : b = PD!Task("set", u.asks)
        OBVIOUS
      <4>2. PICK o : o = PD!Task("open", 0)
        OBVIOUS
      <4>3. u.waiting = <<b, o>> /\ u.asks # 0
        BY <3>1, <4>1, <4>2 DEF PD!Waits
      <4>4. q = <<b, o>>
        BY <2>22, <4>3, KQueues
      <4>5. PD!Asking(r)
        BY <2>20, <2>21, <4>3 DEF PD!Asking
      <4> QED BY <2>10, <2>11, <2>21, <4>1, <4>2, <4>4, <4>5 DEF PD!Turn
    <3>2. CASE ~PD!Waits(u)
      <4>1. u.waiting = <<>> /\ (u.live # 0 => u.updateCallback = u.live)
        BY <1>1, <3>2 DEF PD!Prompted
      <4>2. r.micro = <<>>
        BY <2>10, <2>22, <4>1, KQueues
      <4>3. r.live = 0
        BY <1>3, <1>4, <2>5, <2>11, <4>1
      <4>4. PD!Prompted(r)
        BY <2>11, <2>21, <4>3 DEF PD!Prompted
      <4> QED BY <2>20, <4>2, <4>4 DEF PD!Turn
    <3> QED BY <3>1, <3>2
  <2>24. KWhole(u, r)
    BY <2>13, KOfJobs
  <2>25. KFails(u, r)
    BY <1>1, <2>1 DEF KFails, KGood, PD!Asked
  <2> QED BY <2>18, <2>23, <2>24, <2>25, KTurns DEF KNext
<1> QED BY <1>2, <1>6, <1>7, <1>8 DEF PD!Dialog

(* A function changes at one place at most. *)
KAt(f, j, v, g) == DOMAIN g = DOMAIN f /\ g[j] = v /\ \A i \in DOMAIN f : i # j => g[i] = f[i]

(* One job goes on: its phase, its page and its pictures change, and maybe the container. *)
KWent(u, j, p, n, m, c, r) ==
  /\ DOMAIN r = DOMAIN PD!Start /\ r.jobs = u.jobs /\ r.activeService = u.activeService /\ r.printService = u.printService
  /\ KAt(u.phase, j, p, r.phase) /\ KAt(u.page, j, n, r.page) /\ KAt(u.urls, j, m, r.urls)
  /\ r.container = c /\ r.style = u.style /\ r.micro = u.micro /\ KDialogs(u, r)

(* How many pages the container has when the active job is in a phase. *)
KPages(p, n) == IF p = "draw" THEN n - 1 ELSE IF p \in {"timer", "wait"} THEN PrintPages ELSE n

(* A job that goes on keeps the invariant when the container stays that of the active one. *)
LEMMA KGoesOn ==
  ASSUME NEW u, PD!Sound(u), u.micro = <<>>, NEW j \in PD!Job, u.phase[j] # "none",
         NEW p \in PD!Phase \ {"none"}, NEW n \in 1 .. PrintPages, NEW m \in Nat, NEW c,
         j # u.activeService => m <= 1 /\ (p = "blob" => m = 0) /\ c = u.container,
         j = u.activeService => p # "done" /\ c = [i \in 1 .. KPages(p, n) |-> <<j, i>>],
         p = "wait" => c = [i \in 1 .. PrintPages |-> <<j, i>>],
         NEW r, KWent(u, j, p, n, m, c, r)
  PROVE  KNext(u, r)
<1>1. KGood(u) /\ PD!Progress(u) /\ PD!Prompted(u)
  BY KIdle
<1>2. PD!Numbers(u) /\ (\A i \in PD!Job : PD!JobSound(u, i)) /\ PD!DialogsSound(u) /\ PD!Asked(u)
  BY <1>1 DEF KGood, PD!JobsSound
<1>3. DOMAIN u.phase = PD!Job /\ DOMAIN u.page = PD!Job /\ DOMAIN u.urls = PD!Job /\ u.jobs \in Nat
  BY <1>2 DEF PD!Numbers
<1>4. DOMAIN r.phase = PD!Job /\ DOMAIN r.page = PD!Job /\ DOMAIN r.urls = PD!Job
  BY <1>3 DEF KWent, KAt
<1>5. r.phase[j] = p /\ r.page[j] = n /\ r.urls[j] = m
  BY <1>3 DEF KWent, KAt
<1>6. \A i \in PD!Job : i # j => r.phase[i] = u.phase[i] /\ r.page[i] = u.page[i] /\ r.urls[i] = u.urls[i]
  BY <1>3 DEF KWent, KAt
<1>7. r.jobs = u.jobs /\ r.activeService = u.activeService /\ r.container = c /\ r.micro = <<>> /\ KDialogs(u, r)
  BY DEF KWent
<1>8. PD!Numbers(r)
  BY <1>2, <1>4, <1>7 DEF PD!Numbers, KWent
<1>9. ASSUME NEW i \in PD!Job PROVE PD!JobSound(r, i)
  <2>1. PD!JobSound(u, i) /\ PD!JobSound(u, j) /\ i \in Nat
    BY <1>2, DialogsAssumption DEF PD!Job
  <2>2. CASE i = j
    <3>1. ~(i > u.jobs)
      BY <2>1, <2>2 DEF PD!JobSound
    <3> QED BY <1>5, <1>7, <2>2, <3>1 DEF PD!JobSound
  <2>3. CASE i # j
    <3>1. r.phase[i] = u.phase[i] /\ r.page[i] = u.page[i] /\ r.urls[i] = u.urls[i]
      BY <1>6, <2>3
    <3> QED BY <1>7, <2>1, <3>1 DEF PD!JobSound
  <2> QED BY <2>2, <2>3
<1>10. u.activeService # 0 => u.activeService \in PD!Job
  BY <1>2, DialogsAssumption DEF PD!Numbers, PD!Job
<1>11. u.activeService # 0 => u.phase[u.activeService] \notin {"none", "done"}
  BY <1>1 DEF KGood, PD!JobsSound
<1>12. r.activeService # 0 => r.phase[r.activeService] \notin {"none", "done"}
  BY <1>5, <1>6, <1>7, <1>10, <1>11
<1>13. j # 0
  BY DialogsAssumption DEF PD!Job
<1>14. r.container = [i \in 1 .. PD!Filled(r) |-> <<r.activeService, i>>]
  <2>1. CASE j = u.activeService
    <3>1. PD!Filled(r) = KPages(p, n)
      BY <1>5, <1>7, <1>13, <2>1 DEF PD!Filled, KPages
    <3> QED BY <1>7, <2>1, <3>1
  <2>2. CASE j # u.activeService
    <3>1. PD!Filled(r) = PD!Filled(u)
      <4>1. CASE u.activeService = 0
        BY <1>7, <4>1 DEF PD!Filled
      <4>2. CASE u.activeService # 0
        <5>1. r.phase[u.activeService] = u.phase[u.activeService] /\ r.page[u.activeService] = u.page[u.activeService]
          BY <1>6, <1>10, <2>2, <4>2
        <5> QED BY <1>7, <5>1 DEF PD!Filled
      <4> QED BY <4>1, <4>2
    <3>2. u.container = [i \in 1 .. PD!Filled(u) |-> <<u.activeService, i>>]
      BY <1>1 DEF KGood, PD!JobsSound
    <3> QED BY <1>7, <2>2, <3>1, <3>2
  <2> QED BY <2>1, <2>2
<1>15. PD!JobsSound(r)
  BY <1>8, <1>9, <1>12, <1>14 DEF PD!JobsSound
<1>16. PD!DialogsSound(r) /\ PD!Asked(r) /\ PD!Prompted(r) /\ PD!Progress(r)
  BY <1>1, <1>2, <1>7, KDialogsKept
<1>17. PD!Turn(r)
  BY <1>7, <1>16 DEF PD!Turn
<1>18. PD!Sound(r)
  BY <1>15, <1>16, <1>17 DEF PD!Sound, KWent
<1>19. KWhole(u, r)
  <2>1. SUFFICES ASSUME NEW i \in PD!Job, u.phase[i] = "timer", r.phase[i] = "wait"
                 PROVE  r.container = [k \in 1 .. PrintPages |-> <<i, k>>]
    BY DEF KWhole
  <2>2. i = j
    BY <1>6, <2>1
  <2> QED BY <1>5, <1>7, <2>1, <2>2
<1>20. KFails(u, r)
  BY <1>7 DEF KFails, KDialogs, KPrompt
<1> QED BY <1>18, <1>19, <1>20 DEF KNext

(* Facts about the job that goes on. *)
LEMMA KJobOf ==
  ASSUME NEW u, PD!Sound(u), NEW j \in PD!Job
  PROVE  /\ DOMAIN u = DOMAIN PD!Start /\ DOMAIN u.phase = PD!Job /\ DOMAIN u.page = PD!Job /\ DOMAIN u.urls = PD!Job
         /\ u.page[j] \in 1 .. PrintPages /\ u.urls[j] \in Nat /\ j # 0
         /\ (j # u.activeService => u.urls[j] <= 1 /\ (u.phase[j] = "blob" => u.urls[j] = 0))
         /\ (j = u.activeService => u.container = [i \in 1 .. KPages(u.phase[j], u.page[j]) |-> <<j, i>>])
<1>1. PD!Numbers(u) /\ PD!JobSound(u, j) /\ DOMAIN u = DOMAIN PD!Start
  BY DEF PD!Sound, PD!JobsSound
<1>2. j # 0
  BY DialogsAssumption DEF PD!Job
<1>3. ASSUME j = u.activeService PROVE u.container = [i \in 1 .. KPages(u.phase[j], u.page[j]) |-> <<j, i>>]
  <2>1. PD!Filled(u) = KPages(u.phase[j], u.page[j])
    BY <1>2, <1>3 DEF PD!Filled, KPages
  <2> QED BY <1>3, <2>1 DEF PD!Sound, PD!JobsSound
<1> QED BY <1>1, <1>2, <1>3 DEF PD!Numbers, PD!JobSound

(* The frame of such a step. *)
KChanged(u, f, g, e, c, r) ==
  /\ DOMAIN r = DOMAIN PD!Start /\ r.jobs = u.jobs /\ r.activeService = u.activeService /\ r.printService = u.printService
  /\ r.phase = f /\ r.page = g /\ r.urls = e /\ r.container = c /\ r.style = u.style /\ r.micro = u.micro /\ KDialogs(u, r)

(* The frame of a step, place by place. *)
LEMMA KWentOf ==
  ASSUME NEW u, NEW j, NEW p, NEW n, NEW m, NEW c, NEW f, KAt(u.phase, j, p, f), NEW g, KAt(u.page, j, n, g),
         NEW e, KAt(u.urls, j, m, e), NEW r, KChanged(u, f, g, e, c, r)
  PROVE  KWent(u, j, p, n, m, c, r)
BY DEF KWent, KChanged

(* Only the phases change. *)
LEMMA KChangedPhase ==
  ASSUME NEW u, DOMAIN u = DOMAIN PD!Start, NEW f, NEW r, r = [u EXCEPT !.phase = f]
  PROVE  KChanged(u, f, u.page, u.urls, u.container, r)
<1>1. DOMAIN r = DOMAIN PD!Start /\ r.jobs = u.jobs /\ r.activeService = u.activeService /\ r.printService = u.printService
  BY DEF PD!Start
<1>2. r.phase = f /\ r.page = u.page /\ r.urls = u.urls /\ r.container = u.container
  BY DEF PD!Start
<1>3. r.style = u.style /\ r.micro = u.micro
  BY DEF PD!Start
<1>4. KPrompt(u, r)
  BY DEF PD!Start, KPrompt
<1>5. KDialogs(u, r)
  BY <1>4 DEF PD!Start, KDialogs
<1> QED BY <1>1, <1>2, <1>3, <1>5 DEF KChanged

(* The container and the phases change. *)
LEMMA KChangedDrawn ==
  ASSUME NEW u, DOMAIN u = DOMAIN PD!Start, NEW c, NEW f, NEW r, r = [u EXCEPT !.container = c, !.phase = f]
  PROVE  KChanged(u, f, u.page, u.urls, c, r)
<1>1. DOMAIN r = DOMAIN PD!Start /\ r.jobs = u.jobs /\ r.activeService = u.activeService /\ r.printService = u.printService
  BY DEF PD!Start
<1>2. r.phase = f /\ r.page = u.page /\ r.urls = u.urls /\ r.container = c
  BY DEF PD!Start
<1>3. r.style = u.style /\ r.micro = u.micro
  BY DEF PD!Start
<1>4. KPrompt(u, r)
  BY DEF PD!Start, KPrompt
<1>5. KDialogs(u, r)
  BY <1>4 DEF PD!Start, KDialogs
<1> QED BY <1>1, <1>2, <1>3, <1>5 DEF KChanged

(* The phases and the pictures change. *)
LEMMA KChangedBlob ==
  ASSUME NEW u, DOMAIN u = DOMAIN PD!Start, NEW f, NEW e, NEW r, r = [u EXCEPT !.phase = f, !.urls = e]
  PROVE  KChanged(u, f, u.page, e, u.container, r)
<1>1. DOMAIN r = DOMAIN PD!Start /\ r.jobs = u.jobs /\ r.activeService = u.activeService /\ r.printService = u.printService
  BY DEF PD!Start
<1>2. r.phase = f /\ r.page = u.page /\ r.urls = e /\ r.container = u.container
  BY DEF PD!Start
<1>3. r.style = u.style /\ r.micro = u.micro
  BY DEF PD!Start
<1>4. KPrompt(u, r)
  BY DEF PD!Start, KPrompt
<1>5. KDialogs(u, r)
  BY <1>4 DEF PD!Start, KDialogs
<1> QED BY <1>1, <1>2, <1>3, <1>5 DEF KChanged

(* The phases and the pages change. *)
LEMMA KChangedLoaded ==
  ASSUME NEW u, DOMAIN u = DOMAIN PD!Start, NEW f, NEW g, NEW r, r = [u EXCEPT !.phase = f, !.page = g]
  PROVE  KChanged(u, f, g, u.urls, u.container, r)
<1>1. DOMAIN r = DOMAIN PD!Start /\ r.jobs = u.jobs /\ r.activeService = u.activeService /\ r.printService = u.printService
  BY DEF PD!Start
<1>2. r.phase = f /\ r.page = g /\ r.urls = u.urls /\ r.container = u.container
  BY DEF PD!Start
<1>3. r.style = u.style /\ r.micro = u.micro
  BY DEF PD!Start
<1>4. KPrompt(u, r)
  BY DEF PD!Start, KPrompt
<1>5. KDialogs(u, r)
  BY <1>4 DEF PD!Start, KDialogs
<1> QED BY <1>1, <1>2, <1>3, <1>5 DEF KChanged

(* A job is over. *)
LEMMA KJobDone ==
  ASSUME NEW u, PD!Sound(u), u.micro = <<>>, NEW j \in PD!Job, u.phase[j] \notin {"none", "done"}, NEW r, r = PD!JobDone(u, j)
  PROVE  KNext(u, r)
<1>1. PICK f : f = [u.phase EXCEPT ![j] = "done"]
  OBVIOUS
<1>2. PICK w : w = [u EXCEPT !.phase = f]
  OBVIOUS
<1>3. /\ DOMAIN u = DOMAIN PD!Start /\ DOMAIN u.phase = PD!Job /\ DOMAIN u.page = PD!Job /\ DOMAIN u.urls = PD!Job
      /\ u.page[j] \in 1 .. PrintPages /\ u.urls[j] \in Nat /\ j # 0
      /\ (j # u.activeService => u.urls[j] <= 1 /\ (u.phase[j] = "blob" => u.urls[j] = 0))
  BY KJobOf
<1>4. DOMAIN w = DOMAIN PD!Start /\ w.jobs = u.jobs /\ w.activeService = u.activeService /\ w.printService = u.printService
  BY <1>2, <1>3 DEF PD!Start
<1>5. w.phase = f /\ w.page = u.page /\ w.urls = u.urls /\ w.container = u.container /\ w.style = u.style /\ w.micro = u.micro
  BY <1>2, <1>3 DEF PD!Start
<1>6. KPrompt(u, w)
  BY <1>2, <1>3 DEF PD!Start, KPrompt
<1>7. KDialogs(u, w)
  BY <1>2, <1>3, <1>6 DEF PD!Start, KDialogs
<1>8. DOMAIN f = PD!Job /\ f[j] = "done" /\ \A i \in PD!Job : i # j => f[i] = u.phase[i]
  BY <1>1, <1>3
<1>9. KGood(u) /\ PD!Progress(u) /\ PD!Prompted(u)
  BY KIdle
<1>10. CASE u.activeService = j
  <2>1. r = PD!Abort(w)
    BY <1>1, <1>2, <1>10 DEF PD!JobDone
  <2>2. KPhased(u, f, w)
    BY <1>4, <1>5, <1>7 DEF KPhased
  <2>3. \A i \in PD!Job : f[i] = u.phase[i] \/ (i = u.activeService /\ f[i] = "done")
    BY <1>8, <1>10
  <2>4. u.activeService # 0
    BY <1>3, <1>10
  <2>5. KEnded(u, r) /\ r.phase = f
    BY <1>8, <1>9, <2>1, <2>2, <2>3, <2>4, KAbort
  <2>6. KWhole(u, r)
    BY <1>8, <2>5 DEF KWhole
  <2>7. PD!Sound(r) /\ KFails(u, r)
    BY <1>9, <2>5, KEndedTurns
  <2> QED BY <2>6, <2>7 DEF KNext
<1>11. CASE u.activeService # j
  <2>1. r = w
    BY <1>1, <1>2, <1>11 DEF PD!JobDone
  <2>2. PICK n : n = u.page[j]
    OBVIOUS
  <2>3. PICK m : m = u.urls[j]
    OBVIOUS
  <2>4. KAt(u.phase, j, "done", f) /\ KAt(u.page, j, n, u.page) /\ KAt(u.urls, j, m, u.urls)
    BY <1>3, <1>8, <2>2, <2>3 DEF KAt
  <2>5. KWent(u, j, "done", n, m, u.container, r)
    BY <1>4, <1>5, <1>7, <2>1, <2>4 DEF KWent
  <2>6. "done" \in PD!Phase \ {"none"}
    BY DEF PD!Phase
  <2> QED BY <1>3, <1>11, <2>2, <2>3, <2>5, <2>6, KGoesOn
<1> QED BY <1>10, <1>11

(* A page of the active job is put into the container. *)
LEMMA KDrawn ==
  ASSUME NEW u, PD!Sound(u), u.micro = <<>>, NEW j \in PD!Job, u.phase[j] = "draw", u.activeService = j,
         NEW r, r = [u EXCEPT !.container = Append(@, <<j, u.page[j]>>), !.phase[j] = "blob"]
  PROVE  KNext(u, r)
<1>1. PICK n : n = u.page[j]
  OBVIOUS
<1>2. PICK m : m = u.urls[j]
  OBVIOUS
<1>3. /\ DOMAIN u = DOMAIN PD!Start /\ DOMAIN u.phase = PD!Job /\ DOMAIN u.page = PD!Job /\ DOMAIN u.urls = PD!Job
      /\ n \in 1 .. PrintPages /\ m \in Nat
  BY <1>1, <1>2, KJobOf
<1>4. u.container = [i \in 1 .. n - 1 |-> <<j, i>>]
  <2>1. KPages("draw", n) = n - 1
    BY DEF KPages
  <2> QED BY <1>1, <2>1, KJobOf
<1>5. PICK c : c = Append(u.container, <<j, n>>)
  OBVIOUS
<1>6. c = [i \in 1 .. n |-> <<j, i>>]
  <2>1. PICK k : k = n - 1
    OBVIOUS
  <2>2. k \in Nat /\ k + 1 = n
    BY <1>3, <2>1, DialogsAssumption
  <2>3. u.container = [i \in 1 .. k |-> <<j, i>>]
    BY <1>4, <2>1
  <2>4. Append(u.container, <<j, k + 1>>) = [i \in 1 .. k + 1 |-> <<j, i>>]
    BY <2>2, <2>3, KOneMore
  <2> QED BY <1>5, <2>2, <2>4
<1>7. PICK f : f = [u.phase EXCEPT ![j] = "blob"]
  OBVIOUS
<1>8. r = [u EXCEPT !.container = c, !.phase = f]
  BY <1>1, <1>5, <1>7
<1>9. KChanged(u, f, u.page, u.urls, c, r)
  BY <1>3, <1>8, KChangedDrawn
<1>10. KAt(u.phase, j, "blob", f) /\ KAt(u.page, j, n, u.page) /\ KAt(u.urls, j, m, u.urls)
  BY <1>1, <1>2, <1>3, <1>7 DEF KAt
<1>11. KWent(u, j, "blob", n, m, c, r)
  BY <1>9, <1>10, KWentOf
<1>12. "blob" \in PD!Phase \ {"none"} /\ KPages("blob", n) = n
  BY DEF PD!Phase, KPages
<1>13. j = u.activeService => c = [i \in 1 .. KPages("blob", n) |-> <<j, i>>]
  BY <1>6, <1>12
<1> QED BY <1>3, <1>11, <1>12, <1>13, KGoesOn

(* The picture of a page gets its URL. *)
LEMMA KBlob ==
  ASSUME NEW u, PD!Sound(u), u.micro = <<>>, NEW j \in PD!Job, u.phase[j] = "blob",
         NEW r, r = [u EXCEPT !.phase[j] = "load", !.urls[j] = @ + 1]
  PROVE  KNext(u, r)
<1>1. PICK n : n = u.page[j]
  OBVIOUS
<1>2. PICK m : m = u.urls[j] + 1
  OBVIOUS
<1>3. /\ DOMAIN u = DOMAIN PD!Start /\ DOMAIN u.phase = PD!Job /\ DOMAIN u.page = PD!Job /\ DOMAIN u.urls = PD!Job
      /\ n \in 1 .. PrintPages /\ u.urls[j] \in Nat /\ (j # u.activeService => u.urls[j] = 0)
      /\ (j = u.activeService => u.container = [i \in 1 .. KPages("blob", n) |-> <<j, i>>])
  BY <1>1, KJobOf
<1>4. PICK f : f = [u.phase EXCEPT ![j] = "load"]
  OBVIOUS
<1>5. PICK e : e = [u.urls EXCEPT ![j] = m]
  OBVIOUS
<1>6. r = [u EXCEPT !.phase = f, !.urls = e]
  BY <1>2, <1>4, <1>5
<1>7. KChanged(u, f, u.page, e, u.container, r)
  BY <1>3, <1>6, KChangedBlob
<1>8. KAt(u.phase, j, "load", f) /\ KAt(u.page, j, n, u.page) /\ KAt(u.urls, j, m, e)
  BY <1>1, <1>3, <1>4, <1>5 DEF KAt
<1>9. KWent(u, j, "load", n, m, u.container, r)
  BY <1>7, <1>8, KWentOf
<1>10. "load" \in PD!Phase \ {"none"} /\ KPages("load", n) = KPages("blob", n)
  BY DEF PD!Phase, KPages
<1>11. m \in Nat /\ (j # u.activeService => m <= 1)
  BY <1>2, <1>3
<1>12. j = u.activeService => u.container = [i \in 1 .. KPages("load", n) |-> <<j, i>>]
  BY <1>3, <1>10
<1> QED BY <1>3, <1>9, <1>10, <1>11, <1>12, KGoesOn

(* The picture is loaded and there are more pages. *)
LEMMA KNextPage ==
  ASSUME NEW u, PD!Sound(u), u.micro = <<>>, NEW j \in PD!Job, u.phase[j] = "load", u.activeService = j, u.page[j] < PrintPages,
         NEW r, r = [u EXCEPT !.phase[j] = "draw", !.page[j] = @ + 1]
  PROVE  KNext(u, r)
<1>1. PICK n : n = u.page[j] + 1
  OBVIOUS
<1>2. PICK m : m = u.urls[j]
  OBVIOUS
<1>3. /\ DOMAIN u = DOMAIN PD!Start /\ DOMAIN u.phase = PD!Job /\ DOMAIN u.page = PD!Job /\ DOMAIN u.urls = PD!Job
      /\ u.page[j] \in 1 .. PrintPages /\ m \in Nat
      /\ u.container = [i \in 1 .. KPages("load", u.page[j]) |-> <<j, i>>]
  BY <1>2, KJobOf
<1>4. PICK f : f = [u.phase EXCEPT ![j] = "draw"]
  OBVIOUS
<1>5. PICK g : g = [u.page EXCEPT ![j] = n]
  OBVIOUS
<1>6. r = [u EXCEPT !.phase = f, !.page = g]
  BY <1>1, <1>4, <1>5
<1>7. KChanged(u, f, g, u.urls, u.container, r)
  BY <1>3, <1>6, KChangedLoaded
<1>8. KAt(u.phase, j, "draw", f) /\ KAt(u.page, j, n, g) /\ KAt(u.urls, j, m, u.urls)
  BY <1>2, <1>3, <1>4, <1>5 DEF KAt
<1>9. KWent(u, j, "draw", n, m, u.container, r)
  BY <1>7, <1>8, KWentOf
<1>10. "draw" \in PD!Phase \ {"none"} /\ n \in 1 .. PrintPages
  BY <1>1, <1>3, DialogsAssumption DEF PD!Phase
<1>11. KPages("draw", n) = KPages("load", u.page[j])
  BY <1>1, <1>3, DialogsAssumption DEF KPages
<1>12. j = u.activeService => u.container = [i \in 1 .. KPages("draw", n) |-> <<j, i>>]
  BY <1>3, <1>11
<1> QED BY <1>3, <1>9, <1>10, <1>12, KGoesOn

(* The last picture was loaded, or the timer fired. *)
LEMMA KTimed ==
  ASSUME NEW u, PD!Sound(u), u.micro = <<>>, NEW j \in PD!Job, u.activeService = j, NEW p \in {"timer", "wait"},
         \/ u.phase[j] = "load" /\ ~(u.page[j] < PrintPages)
         \/ u.phase[j] = "timer",
         NEW r, r = [u EXCEPT !.phase[j] = p]
  PROVE  KNext(u, r)
<1>1. PICK n : n = u.page[j]
  OBVIOUS
<1>2. PICK m : m = u.urls[j]
  OBVIOUS
<1>3. /\ DOMAIN u = DOMAIN PD!Start /\ DOMAIN u.phase = PD!Job /\ DOMAIN u.page = PD!Job /\ DOMAIN u.urls = PD!Job
      /\ n \in 1 .. PrintPages /\ m \in Nat
      /\ u.container = [i \in 1 .. KPages(u.phase[j], n) |-> <<j, i>>]
  BY <1>1, <1>2, KJobOf
<1>4. PICK f : f = [u.phase EXCEPT ![j] = p]
  OBVIOUS
<1>5. r = [u EXCEPT !.phase = f]
  BY <1>4
<1>6. KChanged(u, f, u.page, u.urls, u.container, r)
  BY <1>3, <1>5, KChangedPhase
<1>7. KAt(u.phase, j, p, f) /\ KAt(u.page, j, n, u.page) /\ KAt(u.urls, j, m, u.urls)
  BY <1>1, <1>2, <1>3, <1>4 DEF KAt
<1>8. KWent(u, j, p, n, m, u.container, r)
  BY <1>6, <1>7, KWentOf
<1>9. p \in PD!Phase \ {"none"} /\ p # "done" /\ u.phase[j] # "none"
  BY DEF PD!Phase
<1>10. KPages(u.phase[j], n) = PrintPages
  BY <1>1, <1>3, DialogsAssumption DEF KPages
<1>11. KPages(p, n) = PrintPages
  BY DEF KPages
<1>12. u.container = [i \in 1 .. PrintPages |-> <<j, i>>] /\ u.container = [i \in 1 .. KPages(p, n) |-> <<j, i>>]
  BY <1>3, <1>10, <1>11
<1> QED BY <1>3, <1>8, <1>9, <1>12, KGoesOn

(* Printing begins, or is given up at once. *)
LEMMA KPressPrint ==
  ASSUME NEW u, PD!Sound(u), u.micro = <<>>, u.activeService = 0, u.jobs < PrintJobs, NEW ready \in BOOLEAN,
         NEW r, r = PD!StartPrint(u, ready)
  PROVE  KNext(u, r)
<1>1. KGood(u) /\ PD!Progress(u) /\ PD!Prompted(u)
  BY KIdle
<1>2. /\ DOMAIN u = DOMAIN PD!Start /\ PD!Numbers(u) /\ (\A i \in PD!Job : PD!JobSound(u, i)) /\ PD!DialogsSound(u) /\ PD!Asked(u)
      /\ u.container = [i \in 1 .. PD!Filled(u) |-> <<u.activeService, i>>]
  BY <1>1 DEF KGood, PD!JobsSound
<1>3. PICK o : o = PD!Task("openPrint", 0)
  OBVIOUS
<1>4. PICK x : x = PD!Task("closePrint", 0)
  OBVIOUS
<1>5. Append(<<>>, o) = <<o>> /\ Append(<<o>>, x) = <<o, x>>
  BY KQueues
<1>6. PICK w : KPut(u, <<o>>, w)
  BY DEF KPut
<1>7. KQueued(u, w) /\ w.micro = <<o>>
  BY <1>1, <1>6, KQueue
<1>8. KGood(w) /\ PD!Prompted(w) /\ w.activeService = 0 /\ KJobs(u, w) /\ KDialogs(u, w) /\ DOMAIN w = DOMAIN PD!Start
  BY <1>1, <1>7 DEF KQueued, KJobs
<1>9. w = [u EXCEPT !.micro = Append(@, PD!Task("openPrint", 0))]
  BY <1>3, <1>5, <1>6 DEF KPut
<1>10. u.printService = 0
  BY <1>2 DEF PD!Numbers
<1>11. CASE ~ready
  <2>1. KPut(w, <<o, x>>, r)
    BY <1>4, <1>5, <1>7, <1>9, <1>11 DEF PD!StartPrint, KPut
  <2>2. KQueued(w, r) /\ r.micro = <<o, x>>
    BY <1>8, <2>1, KQueue
  <2>3. KGood(r) /\ PD!Prompted(r) /\ KJobs(w, r) /\ r.activeService = 0
    BY <1>8, <2>2 DEF KQueued, KJobs
  <2>4. r.updateCallback = u.updateCallback
    BY <1>8, <2>2 DEF KQueued, KDialogs, KPrompt
  <2>5. KJobs(u, r)
    BY <1>8, <2>3 DEF KJobs
  <2>6. PD!Turn(r)
    BY <1>3, <1>4, <2>2, <2>3 DEF PD!Turn
  <2> QED BY <2>3, <2>4, <2>5, <2>6, KOfTaken
<1>12. CASE ready
  <2>1. PICK j : j = u.jobs + 1
    OBVIOUS
  <2>2. j \in PD!Job /\ j # 0 /\ j \in Nat /\ j > u.jobs
    BY <1>2, <2>1, DialogsAssumption DEF PD!Numbers, PD!Job
  <2>3. PICK f : f = [u.phase EXCEPT ![j] = "draw"]
    OBVIOUS
  <2>4. w.phase = u.phase
    BY <1>8 DEF KJobs
  <2>5. r = [w EXCEPT !.jobs = j, !.activeService = j, !.printService = j, !.style = j, !.phase = f]
    BY <1>9, <1>10, <1>12, <2>1, <2>3, <2>4 DEF PD!StartPrint
  <2>6. DOMAIN r = DOMAIN PD!Start /\ r.jobs = j /\ r.activeService = j /\ r.printService = j /\ r.style = j
    BY <1>8, <2>5 DEF PD!Start
  <2>7. r.phase = f /\ r.page = w.page /\ r.urls = w.urls /\ r.container = w.container /\ r.micro = <<o>>
    BY <1>7, <1>8, <2>5 DEF PD!Start
  <2>8. KPrompt(w, r)
    BY <1>8, <2>5 DEF PD!Start, KPrompt
  <2>9. KDialogs(w, r)
    BY <1>8, <2>5, <2>8 DEF PD!Start, KDialogs
  <2>10. KDialogs(u, r)
    BY <1>8, <2>9 DEF KDialogs, KPrompt
  <2>11. r.page = u.page /\ r.urls = u.urls /\ r.container = u.container
    BY <1>8, <2>7 DEF KJobs
  <2>12. DOMAIN u.phase = PD!Job /\ DOMAIN u.page = PD!Job /\ DOMAIN u.urls = PD!Job /\ u.jobs \in Nat
    BY <1>2 DEF PD!Numbers
  <2>13. DOMAIN f = PD!Job /\ f[j] = "draw" /\ \A i \in PD!Job : i # j => f[i] = u.phase[i]
    BY <2>2, <2>3, <2>12
  <2>14. j <= PrintJobs
    BY <2>2, DialogsAssumption DEF PD!Job
  <2>15. PD!Numbers(r)
    BY <2>2, <2>6, <2>7, <2>11, <2>12, <2>13, <2>14 DEF PD!Numbers
  <2>16. PD!JobSound(u, j)
    BY <1>2, <2>2
  <2>17. u.page[j] = 1 /\ u.urls[j] = 0
    BY <2>2, <2>16 DEF PD!JobSound
  <2>18. ASSUME NEW i \in PD!Job PROVE PD!JobSound(r, i)
    <3>1. PD!JobSound(u, i) /\ i \in Nat
      BY <1>2, DialogsAssumption DEF PD!Job
    <3>2. CASE i = j
      <4>1. ~(i > r.jobs) /\ i = r.activeService
        BY <2>2, <2>6, <3>2
      <4>2. r.phase[i] \in PD!Phase
        BY <2>7, <2>13, <3>2 DEF PD!Phase
      <4>3. r.page[i] \in 1 .. PrintPages /\ r.urls[i] \in Nat
        BY <2>11, <3>1 DEF PD!JobSound
      <4> QED BY <4>1, <4>2, <4>3 DEF PD!JobSound
    <3>3. CASE i # j
      <4>1. r.phase[i] = u.phase[i] /\ r.page[i] = u.page[i] /\ r.urls[i] = u.urls[i]
        BY <2>7, <2>11, <2>13, <3>3
      <4>2. (i > r.jobs => i > u.jobs) /\ i # u.activeService
        BY <2>1, <2>2, <2>6, <2>12, <3>1, DialogsAssumption DEF PD!Job
      <4> QED BY <3>1, <4>1, <4>2 DEF PD!JobSound
    <3> QED BY <3>2, <3>3
  <2>19. PD!Filled(r) = 0 /\ PD!Filled(u) = 0
    BY <2>2, <2>6, <2>7, <2>11, <2>13, <2>17 DEF PD!Filled
  <2>20. r.container = <<>> /\ [i \in 1 .. PD!Filled(r) |-> <<r.activeService, i>>] = <<>>
    BY <1>2, <2>11, <2>19, KEmpty
  <2>21. r.phase[r.activeService] \notin {"none", "done"}
    BY <2>6, <2>7, <2>13
  <2>22. PD!JobsSound(r)
    BY <2>15, <2>18, <2>20, <2>21 DEF PD!JobsSound
  <2>23. PD!DialogsSound(r) /\ PD!Asked(r) /\ PD!Prompted(r)
    BY <1>1, <1>2, <2>10, KDialogsKept
  <2>24. r.overlay # "print"
    BY <1>1, <2>10 DEF PD!Progress, KDialogs
  <2>25. PD!Turn(r)
    BY <1>3, <2>2, <2>6, <2>7, <2>23, <2>24 DEF PD!Turn
  <2>26. PD!Sound(r)
    BY <2>6, <2>22, <2>23, <2>25 DEF PD!Sound
  <2>27. KWhole(u, r)
    BY <2>7, <2>13 DEF KWhole
  <2>28. KFails(u, r)
    BY <2>10 DEF KFails, KDialogs, KPrompt
  <2> QED BY <2>26, <2>27, <2>28 DEF KNext
<1> QED BY <1>11, <1>12

(* One job takes a step. *)
LEMMA KJobStep ==
  ASSUME PD!Sound(st), st.micro = <<>>, NEW j \in PD!Job, NEW ok \in BOOLEAN,
         PD!Drawn(j, ok) \/ PD!Blob(j) \/ PD!Loaded(j, ok) \/ PD!PrintTimer(j)
  PROVE  KNext(st, st')
<1>1. CASE PD!Drawn(j, ok)
  <2>1. CASE ok /\ st.activeService = j
    <3>1. st.phase[j] = "draw" /\ st' = [st EXCEPT !.container = Append(@, <<j, st.page[j]>>), !.phase[j] = "blob"]
      BY <1>1, <2>1 DEF PD!Drawn
    <3> QED BY <2>1, <3>1, KDrawn
  <2>2. CASE ~(ok /\ st.activeService = j)
    <3>1. st.phase[j] \notin {"none", "done"} /\ st' = PD!JobDone(st, j)
      BY <1>1, <2>2 DEF PD!Drawn
    <3> QED BY <3>1, KJobDone
  <2> QED BY <2>1, <2>2
<1>2. CASE PD!Blob(j)
  BY <1>2, KBlob DEF PD!Blob
<1>3. CASE PD!Loaded(j, ok)
  <2>0. st.phase[j] = "load"
    BY <1>3 DEF PD!Loaded
  <2>1. CASE ~ok \/ st.activeService # j
    <3>1. st.phase[j] \notin {"none", "done"} /\ st' = PD!JobDone(st, j)
      BY <1>3, <2>1 DEF PD!Loaded
    <3> QED BY <3>1, KJobDone
  <2>2. CASE ok /\ st.activeService = j /\ st.page[j] < PrintPages
    <3>1. st' = [st EXCEPT !.phase[j] = "draw", !.page[j] = @ + 1]
      BY <1>3, <2>2 DEF PD!Loaded
    <3> QED BY <2>0, <2>2, <3>1, KNextPage
  <2>3. CASE ok /\ st.activeService = j /\ ~(st.page[j] < PrintPages)
    <3>1. st' = [st EXCEPT !.phase[j] = "timer"]
      BY <1>3, <2>3 DEF PD!Loaded
    <3> QED BY <2>0, <2>3, <3>1, KTimed
  <2> QED BY <2>1, <2>2, <2>3
<1>4. CASE PD!PrintTimer(j)
  <2>1. CASE st.phase[j] = "timer" /\ st.activeService = j /\ st' = [st EXCEPT !.phase[j] = "wait"]
    BY <2>1, KTimed
  <2>2. CASE st.phase[j] \in {"timer", "wait"} /\ st' = PD!JobDone(st, j)
    BY <2>2, KJobDone
  <2> QED BY <1>4, <2>1, <2>2 DEF PD!PrintTimer
<1> QED BY <1>1, <1>2, <1>3, <1>4

(* The dialogs and the jobs begin as the invariant says. *)
LEMMA KInit ==
  ASSUME PD!Init
  PROVE  PD!Sound(st)
<1>1. st = PD!Start
  BY DEF PD!Init
<1>2. DOMAIN st = DOMAIN PD!Start
  BY <1>1
<1>3. st.jobs = 0 /\ st.activeService = 0 /\ st.printService = 0 /\ st.style = 0 /\ st.container = <<>>
  BY <1>1 DEF PD!Start
<1>4. st.phase = [j \in PD!Job |-> "none"] /\ st.page = [j \in PD!Job |-> 1] /\ st.urls = [j \in PD!Job |-> 0]
  BY <1>1 DEF PD!Start
<1>5. st.overlay = "null" /\ st.shown = {} /\ st.closing = <<>> /\ st.micro = <<>> /\ st.asks = 0 /\ st.live = 0
  BY <1>1 DEF PD!Start
<1>6. st.capability = "null" /\ st.waiting = <<>> /\ st.updateCallback = 0
  BY <1>1 DEF PD!Start
<1>7. PD!Numbers(st)
  BY <1>3, <1>4, DialogsAssumption DEF PD!Numbers
<1>8. ASSUME NEW j \in PD!Job PROVE PD!JobSound(st, j)
  BY <1>3, <1>4, DialogsAssumption DEF PD!JobSound, PD!Phase, PD!Job
<1>9. PD!Filled(st) = 0
  BY <1>3 DEF PD!Filled
<1>10. st.container = [i \in 1 .. PD!Filled(st) |-> <<st.activeService, i>>]
  BY <1>3, <1>9, KEmpty
<1>11. PD!JobsSound(st)
  BY <1>3, <1>7, <1>8, <1>10 DEF PD!JobsSound
<1>12. ASSUME NEW x PROVE ~PD!Sent(st, x)
  <2>1. st.closing \in Seq({}) /\ Len(st.closing) = 0
    BY <1>5, EmptySeq
  <2>2. DOMAIN st.closing = 1 .. 0
    BY <2>1
  <2> QED BY <2>2 DEF PD!Sent
<1>13. PD!DialogsSound(st)
  <2>1. st.closing \in Seq(PD!Dialog)
    BY <1>5
  <2>2. \A i \in DOMAIN st.closing : FALSE
    BY <1>12 DEF PD!Sent
  <2> QED BY <1>5, <1>12, <2>1, <2>2 DEF PD!DialogsSound
<1>14. PD!Asked(st)
  BY <1>5, <1>6 DEF PD!Asked
<1>15. PD!Progress(st)
  BY <1>3, <1>5 DEF PD!Progress
<1>16. PD!Prompted(st)
  BY <1>5, <1>6, <1>12 DEF PD!Prompted
<1>17. PD!Turn(st)
  BY <1>5, <1>15, <1>16 DEF PD!Turn
<1> QED BY <1>2, <1>11, <1>13, <1>14, <1>17 DEF PD!Sound

(* Every step keeps the invariant and the order of the events. *)
LEMMA KStep ==
  ASSUME PD!Sound(st), PD!Next
  PROVE  PD!Sound(st') /\ PD!PrintedWhole /\ PD!FailsWhenDismissed
<1>1. KNext(st, st')
  <2>1. CASE PD!Microtask
    BY <2>1, KMicrotask DEF PD!Microtask
  <2>2. CASE st.micro = <<>>
    <3>1. ASSUME NEW ready \in BOOLEAN, PD!PressPrint(ready) PROVE KNext(st, st')
      BY <2>2, <3>1, KPressPrint DEF PD!PressPrint
    <3>2. CASE PD!CancelPrint
      BY <2>2, <3>2, KCancelPrint DEF PD!CancelPrint
    <3>3. CASE PD!Escape
      BY <2>2, <3>3, KEscape DEF PD!Escape
    <3>4. CASE PD!CloseEvent
      BY <2>2, <3>4, KCloseEvent DEF PD!CloseEvent
    <3>5. ASSUME NEW ok \in BOOLEAN, PD!Answer(ok) \/ PD!Picture(ok) PROVE KNext(st, st')
      <4>1. PICK j \in PD!Job : PD!Drawn(j, ok) \/ PD!Blob(j) \/ PD!Loaded(j, ok)
        BY <3>5 DEF PD!Answer, PD!Picture
      <4> QED BY <2>2, <4>1, KJobStep
    <3>6. CASE PD!Timer
      <4>1. PICK j \in PD!Job : PD!PrintTimer(j)
        BY <3>6 DEF PD!Timer
      <4>2. TRUE \in BOOLEAN
        OBVIOUS
      <4> QED BY <2>2, <4>1, <4>2, KJobStep
    <3>7. CASE PD!OnPassword
      <4>1. PICK k : k = st.asks + 1
        OBVIOUS
      <4>2. PICK w : w = [st EXCEPT !.asks = k, !.live = k, !.answer = "none"]
        OBVIOUS
      <4>3. /\ st.live = 0 /\ (st.closing = <<>> \/ st.answer = "password")
            /\ st' = PD!PromptOpen(PD!SetUpdateCallback(w, k))
        BY <3>7, <4>1, <4>2 DEF PD!OnPassword
      <4> QED BY <2>2, <4>1, <4>2, <4>3, KOnPassword
    <3>8. CASE PD!Submit
      BY <2>2, <3>8, KSubmit DEF PD!Submit
    <3>9. CASE PD!ClosePrompt
      BY <2>2, <3>9, KClosePrompt DEF PD!ClosePrompt
    <3>10. CASE PD!CloseDocument
      BY <2>2, <3>10, KCloseDocument DEF PD!CloseDocument
    <3>11. CASE PD!OpenOther
      BY <2>2, <3>11, KOpenOther DEF PD!OpenOther
    <3>12. \/ PD!Microtask \/ (\E ready \in BOOLEAN : PD!PressPrint(ready)) \/ PD!CancelPrint \/ PD!Escape \/ PD!CloseEvent
           \/ (\E ok \in BOOLEAN : PD!Answer(ok) \/ PD!Picture(ok)) \/ PD!Timer
           \/ PD!OnPassword \/ PD!Submit \/ PD!ClosePrompt \/ PD!CloseDocument \/ PD!OpenOther
      BY DEF PD!Next
    <3> QED BY <2>1, <3>1, <3>2, <3>3, <3>4, <3>5, <3>6, <3>7, <3>8, <3>9, <3>10, <3>11, <3>12
  <2> QED BY <2>1, <2>2 DEF PD!Next
<1>2. PD!PrintedWhole
  BY <1>1 DEF KNext, KWhole, PD!PrintedWhole
<1>3. PD!FailsWhenDismissed
  BY <1>1 DEF KNext, KFails, PD!FailsWhenDismissed
<1> QED BY <1>1, <1>2, <1>3 DEF KNext

(* What the invariant says of the dialogs and the jobs. *)
LEMMA KProps ==
  ASSUME PD!Sound(st)
  PROVE  PD!ContainerIsJob /\ PD!JobsAgree /\ PD!ProgressShown /\ PD!PicturesRevoked /\ PD!OneDialog /\ PD!RequestIsPrompted
<1>1. PD!JobsSound(st) /\ PD!DialogsSound(st)
  BY DEF PD!Sound
<1>2. PD!ContainerIsJob
  <2>1. PICK a : a = st.activeService
    OBVIOUS
  <2>2. PICK n : n = PD!Filled(st)
    OBVIOUS
  <2>3. st.container = [i \in 1 .. n |-> <<a, i>>]
    BY <1>1, <2>1, <2>2 DEF PD!JobsSound
  <2>4. DOMAIN st.container = 1 .. n
    BY <2>3
  <2>5. st.container = [i \in DOMAIN st.container |-> <<a, i>>]
    BY <2>3, <2>4
  <2>6. st.style = a
    BY <1>1, <2>1 DEF PD!JobsSound, PD!Numbers
  <2> QED BY <2>1, <2>5, <2>6 DEF PD!ContainerIsJob
<1>3. PD!JobsAgree
  BY <1>1 DEF PD!JobsSound, PD!Numbers, PD!JobsAgree
<1>4. PD!PicturesRevoked
  BY <1>1 DEF PD!JobsSound, PD!JobSound, PD!PicturesRevoked
<1>5. PD!OneDialog
  BY <1>1 DEF PD!DialogsSound, PD!OneDialog
<1>6. PD!ProgressShown
  <2>1. ASSUME st.micro = <<>> PROVE PD!Progress(st)
    BY <2>1, KIdle
  <2> QED BY <2>1 DEF PD!Progress, PD!ProgressShown, PD!Sent
<1>7. PD!RequestIsPrompted
  <2>1. SUFFICES ASSUME st.live # 0, st.micro = <<>>
                 PROVE  \/ st.updateCallback = st.live /\ (st.overlay = "password" \/ st.live = st.dismissed)
                        \/ PD!Task("set", st.live) \in {st.waiting[i] : i \in DOMAIN st.waiting}
    BY DEF PD!RequestIsPrompted
  <2>2. PD!Prompted(st) /\ st.live = st.asks
    BY <2>1, KIdle DEF KGood, PD!Asked
  <2>3. CASE PD!Waits(st)
    <3>1. PICK b : b = PD!Task("set", st.asks)
      OBVIOUS
    <3>2. PICK o : o = PD!Task("open", 0)
      OBVIOUS
    <3>3. st.waiting = <<b, o>>
      BY <2>3, <3>1, <3>2 DEF PD!Waits
    <3>4. 1 \in DOMAIN <<b, o>> /\ <<b, o>>[1] = b
      OBVIOUS
    <3> QED BY <2>2, <3>1, <3>3, <3>4
  <2>4. CASE ~PD!Waits(st)
    BY <2>1, <2>2, <2>4 DEF PD!Prompted
  <2> QED BY <2>3, <2>4
<1> QED BY <1>2, <1>3, <1>4, <1>5, <1>6, <1>7
=============================================================================
