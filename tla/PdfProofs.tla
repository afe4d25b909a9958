------------------------------- MODULE PdfProofs -------------------------------
(***************************************************************************)
(* TLAPS proofs about the whitepaper viewer (MCPdf), for every number of   *)
(* documents, pages, jobs, files, requests and steps: the parts that       *)
(* ViewerProofs and DocumentProofs are about and the layers keep their     *)
(* inductive invariants, and with them what the run pdf_viewer checks of   *)
(* them.                                                                   *)
(***************************************************************************)
EXTENDS MCPdf, ViewerProofs, DocumentProofs

-----------------------------------------------------------------------------
(***************************************************************************)
(* The layers of a page.                                                   *)
(***************************************************************************)
(* The last continuation after one was added, taken away or gone on with. *)
LEMMA LastOfQueue ==
  ASSUME NEW S, NEW q \in Seq(S), NEW c \in S
  PROVE  /\ Append(q, c) \in Seq(S) /\ Append(q, c) # <<>> /\ Append(q, c)[Len(Append(q, c))] = c
         /\ q # <<>> => Head(q) \in S /\ Head(q) = q[1] /\ Tail(q) \in Seq(S)
         /\ q # <<>> /\ Tail(q) # <<>> => Tail(q)[Len(Tail(q))] = q[Len(q)]
         /\ q # <<>> /\ Tail(q) = <<>> => q[Len(q)] = Head(q)
         /\ q # <<>> => <<c>> \o Tail(q) \in Seq(S) /\ <<c>> \o Tail(q) # <<>>
         /\ q # <<>> => (<<c>> \o Tail(q))[Len(<<c>> \o Tail(q))] = IF Tail(q) = <<>> THEN c ELSE q[Len(q)]
<1>1. /\ Append(q, c) \in Seq(S) /\ Append(q, c) # <<>> /\ Append(q, c)[Len(Append(q, c))] = c
  OBVIOUS
<1>2. q # <<>> => Head(q) \in S /\ Head(q) = q[1] /\ Tail(q) \in Seq(S)
  OBVIOUS
<1>3. ASSUME q # <<>>, Tail(q) # <<>>
      PROVE  Tail(q)[Len(Tail(q))] = q[Len(q)]
  <2>1. /\ Tail(q) \in Seq(S) /\ Len(q) \in Nat /\ Len(q) > 0 /\ Len(Tail(q)) = Len(q) - 1
        /\ \A i \in 1 .. Len(q) - 1 : Tail(q)[i] = q[i + 1]
    BY <1>3
  <2>2. Len(Tail(q)) # 0
    BY <1>3, <2>1
  <2> QED BY <2>1, <2>2
<1>4. ASSUME q # <<>>, Tail(q) = <<>>
      PROVE  q[Len(q)] = Head(q)
  <2>1. Len(q) \in Nat /\ Len(q) > 0 /\ Len(Tail(q)) = Len(q) - 1
    BY <1>4
  <2>2. Len(Tail(q)) = 0
    BY <1>4, EmptySeq
  <2>3. Len(q) = 1
    BY <2>1, <2>2
  <2> QED BY <2>3, <1>2, <1>4
<1>5. ASSUME q # <<>>
      PROVE  /\ <<c>> \o Tail(q) \in Seq(S) /\ <<c>> \o Tail(q) # <<>>
             /\ (<<c>> \o Tail(q))[Len(<<c>> \o Tail(q))] = IF Tail(q) = <<>> THEN c ELSE q[Len(q)]
  <2>1. Tail(q) \in Seq(S) /\ <<c>> \in Seq(S) /\ Len(<<c>>) = 1
    BY <1>5
  <2>2. /\ <<c>> \o Tail(q) \in Seq(S) /\ Len(<<c>> \o Tail(q)) = 1 + Len(Tail(q))
        /\ \A i \in 1 .. 1 + Len(Tail(q)) : (<<c>> \o Tail(q))[i] = IF i <= 1 THEN c ELSE Tail(q)[i - 1]
    BY <2>1, ConcatProperties
  <2>3. Len(Tail(q)) \in Nat
    BY <2>1
  <2>4. Tail(q) = <<>> => Len(Tail(q)) = 0
    BY EmptySeq
  <2>5. Tail(q) # <<>> => Len(Tail(q)) # 0
    BY <2>1, EmptySeq
  <2>6. Len(Tail(q)) \in Nat /\ (Tail(q) = <<>> <=> Len(Tail(q)) = 0)
    BY <2>3, <2>4, <2>5
  <2>7. (<<c>> \o Tail(q))[Len(<<c>> \o Tail(q))] = IF Tail(q) = <<>> THEN c ELSE Tail(q)[Len(Tail(q))]
    BY <2>2, <2>6
  <2> QED BY <2>2, <2>6, <2>7, <1>3, <1>5
<1> QED BY <1>1, <1>2, <1>3, <1>4, <1>5

(* A continuation of draw(). *)
Continuation == [at : {"annotation", "links"}, annot : Nat, run : Nat, wrapper : Nat]

(* A page that was never drawn has no layers. *)
LEMMA LayersInit == LA!Init => LA!IInv
<1> SUFFICES ASSUME LA!Init PROVE LA!IInv
  OBVIOUS
<1>1. LA!LayersSound
  BY DEF LA!Init, LA!LayersSound, LA!Layer
<1>2. conts \in Seq([at : {"annotation", "links"}, annot : Nat, run : Nat, wrapper : Nat])
  BY EmptySeq DEF LA!Init
<1>3. {n, runs, text, annot, editor, wrapper} \subseteq Nat
  BY DEF LA!Init
<1>4. {textDone, annotDiv, postponed} \subseteq BOOLEAN
  BY DEF LA!Init
<1>5. rs = "INITIAL" /\ ~postponed /\ conts = <<>>
  BY DEF LA!Init
<1>6. LA!Numbers
  BY <1>2, <1>3, <1>4, <1>5 DEF LA!Numbers
<1>7. LA!DrawEnds
  BY DEF LA!Init, LA!DrawEnds
<1> QED BY <1>1, <1>6, <1>7 DEF LA!IInv

(* draw(), up to the canvas. *)
LEMMA LayersDraw ==
  ASSUME LA!IInv, LA!Draw
  PROVE  LA!IInv'
<1>1. LA!LayersSound'
  BY DEF LA!IInv, LA!LayersSound, LA!Numbers, LA!Draw, LA!Layer
<1>2. LA!Numbers'
  BY DEF LA!IInv, LA!LayersSound, LA!Numbers, LA!Draw
<1>3. LA!DrawEnds'
  BY DEF LA!DrawEnds, LA!Draw
<1> QED BY <1>1, <1>2, <1>3 DEF LA!IInv

(* #renderTextLayer and the new continuation, of a view that has a text. *)
LEMMA LayersStart ==
  ASSUME LA!IInv, NEW a \in Nat, LA!StartLayers(a), text # 0
  PROVE  /\ conts' = Append(conts, [at |-> "annotation", annot |-> a, run |-> runs', wrapper |-> wrapper])
         /\ conts' \in Seq(Continuation) /\ conts' # <<>> /\ runs' \in Nat
         /\ conts'[Len(conts')] = [at |-> "annotation", annot |-> a, run |-> runs', wrapper |-> wrapper]
         /\ hidden' \subseteq hidden /\ "text" \notin hidden'
         /\ textDone \/ textRun' # 0
<1>1. runs' \in Nat /\ hidden' \subseteq hidden /\ "text" \notin hidden' /\ (textDone \/ textRun' # 0)
  BY DEF LA!StartLayers, LA!RenderTextLayer, LA!IInv, LA!Numbers, LA!LayersSound, LA!Layer
<1> DEFINE c == [at |-> "annotation", annot |-> a, run |-> runs', wrapper |-> wrapper]
<1>2. c \in Continuation /\ conts \in Seq(Continuation) /\ conts' = Append(conts, c)
  BY <1>1 DEF LA!StartLayers, LA!IInv, LA!Numbers, Continuation
<1> HIDE DEF c
<1>3. conts' \in Seq(Continuation) /\ conts' # <<>> /\ conts'[Len(conts')] = c
  BY <1>2, LastOfQueue
<1> QED BY <1>1, <1>2, <1>3 DEF c

(* The canvas is finished. *)
LEMMA LayersFinish ==
  ASSUME LA!IInv, LA!Finish
  PROVE  LA!IInv'
<1>1. text # 0 /\ annot # 0 /\ annot \in Nat /\ n > 0
  BY DEF LA!IInv, LA!Numbers, LA!Finish
<1>2. LA!StartLayers(annot)
  BY DEF LA!Finish
<1>3. LA!LayersSound'
  BY <1>1, <1>2, LayersStart DEF LA!IInv, LA!LayersSound, LA!Finish
<1>4. LA!Numbers'
  BY <1>1, <1>2, LayersStart DEF LA!IInv, LA!Numbers, LA!Finish, Continuation
<1>5. /\ conts' # <<>> /\ conts'[Len(conts')].annot = annot /\ conts'[Len(conts')].wrapper = wrapper
      /\ conts'[Len(conts')].at = "annotation" /\ "text" \notin hidden' /\ (textDone \/ textRun' # 0)
  <2>1. conts' # <<>> /\ "text" \notin hidden' /\ (textDone \/ textRun' # 0)
    BY <1>1, <1>2, LayersStart
  <2>2. conts'[Len(conts')] = [at |-> "annotation", annot |-> annot, run |-> runs', wrapper |-> wrapper]
    BY <1>1, <1>2, LayersStart
  <2> QED BY <2>1, <2>2
<1>6. LA!DrawEnds'
  BY <1>1, <1>5 DEF LA!DrawEnds, LA!Finish
<1> QED BY <1>3, <1>4, <1>6 DEF LA!IInv

(* The annotations of a builder are rendered, if the view still has it. *)
LEMMA LayersAnnotated ==
  ASSUME LA!IInv, NEW a, LA!AnnotationRendered(a),
         UNCHANGED <<text, annot, editor, textRun, textDone>>
  PROVE  /\ LA!LayersSound'
         /\ annotDiv' \in BOOLEAN /\ (annotDiv => annotDiv') /\ hidden' \subseteq hidden
         /\ dom'["editor"] = dom["editor"]
         /\ a # 0 /\ a = annot => annotDiv' /\ "annot" \notin hidden'
<1>1. CASE a # 0 /\ a = annot
  BY <1>1 DEF LA!AnnotationRendered, LA!IInv, LA!LayersSound, LA!Numbers, LA!Layer
<1>2. CASE ~(a # 0 /\ a = annot)
  BY <1>2 DEF LA!AnnotationRendered, LA!IInv, LA!LayersSound, LA!Numbers
<1> QED BY <1>1, <1>2

(* A continuation has its annotations and goes on to the links. *)
LEMMA LayersAnnotations ==
  ASSUME LA!IInv, LA!Annotations
  PROVE  LA!IInv'
<1> DEFINE h == Head(conts)
           c == [Head(conts) EXCEPT !.at = "links"]
<1>1. conts # <<>> /\ conts \in Seq(Continuation) /\ LA!AnnotationRendered(h.annot)
  BY DEF LA!Annotations, LA!IInv, LA!Numbers, Continuation
<1>2. h \in Continuation
  BY <1>1, LastOfQueue
<1>3. c \in Continuation /\ c.annot = h.annot /\ c.wrapper = h.wrapper /\ c.at = "links"
  BY <1>2 DEF Continuation
<1>4. conts' = <<c>> \o Tail(conts)
  BY DEF LA!Annotations
<1> HIDE DEF h, c
<1>5. /\ conts' \in Seq(Continuation) /\ conts' # <<>>
      /\ conts'[Len(conts')] = IF Tail(conts) = <<>> THEN c ELSE conts[Len(conts)]
  BY <1>1, <1>3, <1>4, LastOfQueue
<1>6. Tail(conts) = <<>> => conts[Len(conts)] = h
  BY <1>1, <1>3, LastOfQueue DEF h
<1>7. UNCHANGED <<rs, n, wrapper, text, annot, editor, textRun, runs, textDone, parent, postponed>>
  BY DEF LA!Annotations
<1>8. /\ LA!LayersSound'
      /\ annotDiv' \in BOOLEAN /\ (annotDiv => annotDiv') /\ hidden' \subseteq hidden
      /\ h.annot # 0 /\ h.annot = annot => annotDiv' /\ "annot" \notin hidden'
  BY <1>1, <1>7, LayersAnnotated
<1>9. LA!Numbers'
  BY <1>1, <1>5, <1>7, <1>8 DEF LA!IInv, LA!Numbers, Continuation
<1>10. LA!DrawEnds'
  <2> SUFFICES ASSUME rs = "FINISHED", ~postponed
               PROVE  /\ annot # 0 /\ (textDone \/ textRun # 0) /\ "text" \notin hidden'
                      /\ conts'[Len(conts')].annot = annot /\ conts'[Len(conts')].wrapper = wrapper
                      /\ conts'[Len(conts')].at = "links" => annotDiv' /\ "annot" \notin hidden'
    BY <1>5, <1>7 DEF LA!DrawEnds
  <2>1. /\ annot # 0 /\ (textDone \/ textRun # 0) /\ "text" \notin hidden
        /\ conts[Len(conts)].annot = annot /\ conts[Len(conts)].wrapper = wrapper
        /\ conts[Len(conts)].at = "links" => annotDiv /\ "annot" \notin hidden
    BY <1>1 DEF LA!IInv, LA!DrawEnds
  <2>2. CASE Tail(conts) = <<>>
    BY <2>1, <2>2, <1>3, <1>5, <1>6, <1>8
  <2>3. CASE Tail(conts) # <<>>
    BY <2>1, <2>3, <1>5, <1>8
  <2> QED BY <2>2, <2>3
<1> QED BY <1>8, <1>9, <1>10 DEF LA!IInv

(* The oldest continuation ends with the draw layer and the editor. *)
LEMMA LayersLinks ==
  ASSUME LA!IInv, LA!Links
  PROVE  LA!IInv'
<1> DEFINE h == Head(conts)
<1>1. conts # <<>> /\ conts \in Seq(Continuation) /\ h.at = "links" /\ conts' = Tail(conts) /\ parent' = h.wrapper
  BY DEF LA!Links, LA!Ready, LA!IInv, LA!Numbers, Continuation
<1>2. h \in Continuation /\ Tail(conts) \in Seq(Continuation)
  BY <1>1, LastOfQueue
<1> HIDE DEF h
<1>3. Tail(conts) = <<>> => conts[Len(conts)] = h
  BY <1>1, <1>2, LastOfQueue DEF h
<1>4. Tail(conts) # <<>> => Tail(conts)[Len(Tail(conts))] = conts[Len(conts)]
  BY <1>1, <1>2, LastOfQueue
<1>5. UNCHANGED <<rs, n, wrapper, text, annot, annotDiv, textRun, runs, textDone, postponed>> /\ LA!Editor
  BY DEF LA!Links
<1>6. n > 0 /\ n \in Nat
  BY <1>1 DEF LA!IInv, LA!Numbers
<1>7. /\ LA!LayersSound' /\ hidden' \subseteq hidden /\ editor' \in Nat
      /\ annot # 0 => dom'["editor"] # 0 /\ "editor" \notin hidden'
  <2>1. CASE annot # 0
    <3>1. editor' \in Nat /\ editor' # 0
      BY <2>1, <1>5, <1>6 DEF LA!Editor, LA!IInv, LA!Numbers
    <3>2. dom' = [dom EXCEPT !["editor"] = editor'] /\ hidden' = hidden \ {"editor"}
      BY <2>1, <1>5 DEF LA!Editor
    <3>3. /\ dom' \in [LA!Layer -> Nat] /\ dom'["editor"] = editor'
          /\ dom'["text"] = dom["text"] /\ dom'["annot"] = dom["annot"]
      BY <3>1, <3>2 DEF LA!IInv, LA!LayersSound, LA!Layer
    <3> QED BY <3>1, <3>2, <3>3, <1>5 DEF LA!IInv, LA!LayersSound, LA!Layer
  <2>2. CASE annot = 0
    BY <2>2, <1>5 DEF LA!Editor, LA!IInv, LA!LayersSound, LA!Numbers
  <2> QED BY <2>1, <2>2
<1>8. LA!Numbers'
  BY <1>1, <1>2, <1>5, <1>6, <1>7 DEF LA!IInv, LA!Numbers, Continuation
<1>9. LA!DrawEnds'
  <2> SUFFICES ASSUME rs = "FINISHED", ~postponed
               PROVE  LA!DrawEnds'
    BY <1>5 DEF LA!DrawEnds
  <2>1. /\ annot # 0 /\ (textDone \/ textRun # 0) /\ "text" \notin hidden
        /\ conts[Len(conts)].annot = annot /\ conts[Len(conts)].wrapper = wrapper
        /\ conts[Len(conts)].at = "links" => annotDiv /\ "annot" \notin hidden
    BY <1>1 DEF LA!IInv, LA!DrawEnds
  <2>2. CASE Tail(conts) = <<>>
    BY <2>1, <2>2, <1>1, <1>3, <1>5, <1>7 DEF LA!DrawEnds
  <2>3. CASE Tail(conts) # <<>>
    BY <2>1, <2>3, <1>1, <1>4, <1>5, <1>7 DEF LA!DrawEnds
  <2> QED BY <2>2, <2>3
<1> QED BY <1>7, <1>8, <1>9 DEF LA!IInv

(* A run of the text layer ends. *)
LEMMA LayersText ==
  ASSUME LA!IInv, LA!TextRendered
  PROVE  LA!IInv'
<1>1. LA!LayersSound'
  BY DEF LA!IInv, LA!LayersSound, LA!Numbers, LA!TextRendered, LA!Layer
<1>2. LA!Numbers'
  BY DEF LA!IInv, LA!Numbers, LA!TextRendered
<1>3. LA!DrawEnds'
  BY DEF LA!IInv, LA!LayersSound, LA!DrawEnds, LA!TextRendered, LA!Layer
<1> QED BY <1>1, <1>2, <1>3 DEF LA!IInv

(* The view is to be drawn again, with its layers or without. *)
LEMMA LayersReset ==
  ASSUME LA!IInv, LA!ResetKeep \/ LA!Destroy
  PROVE  LA!IInv'
<1>1. LA!LayersSound'
  <2>1. CASE LA!ResetKeep
    BY <2>1 DEF LA!IInv, LA!LayersSound, LA!Numbers, LA!ResetKeep, LA!CancelKeep
  <2>2. CASE LA!Destroy
    BY <2>2 DEF LA!IInv, LA!LayersSound, LA!Destroy, LA!CancelAll, LA!Layer
  <2> QED BY <2>1, <2>2
<1>2. LA!Numbers'
  <2>1. /\ rs' = "INITIAL" /\ postponed' = FALSE /\ n > 0 /\ UNCHANGED <<n, runs, conts>>
        /\ annot' \in {annot, 0} /\ text' \in {text, 0} /\ editor' \in {editor, 0} /\ wrapper' \in {wrapper, 0}
        /\ textDone' \in {textDone, FALSE} /\ annotDiv' \in {annotDiv, FALSE}
    BY DEF LA!ResetKeep, LA!CancelKeep, LA!Destroy, LA!CancelAll
  <2>2. {n', runs', text', annot', editor', wrapper'} \subseteq Nat
    BY <2>1 DEF LA!IInv, LA!Numbers
  <2>3. {textDone', annotDiv', postponed'} \subseteq BOOLEAN
    BY <2>1 DEF LA!IInv, LA!Numbers
  <2>4. conts' \in Seq([at : {"annotation", "links"}, annot : Nat, run : Nat, wrapper : Nat])
    BY <2>1 DEF LA!IInv, LA!Numbers
  <2> QED BY <2>1, <2>2, <2>3, <2>4 DEF LA!Numbers
<1>3. LA!DrawEnds'
  BY DEF LA!DrawEnds, LA!ResetKeep, LA!Destroy
<1> QED BY <1>1, <1>2, <1>3 DEF LA!IInv

(* A zoom with a drawing delay, while the canvas is drawn or when it is there. *)
LEMMA LayersZoom ==
  ASSUME LA!IInv, LA!PostponedZoom
  PROVE  LA!IInv'
<1>1. LA!DrawEnds'
  BY DEF LA!DrawEnds, LA!PostponedZoom
<1>2. CASE rs = "RUNNING"
  <2>1. LA!CancelKeep /\ LA!StartLayers(annot') /\ text # 0 /\ n > 0 /\ rs' = "FINISHED" /\ postponed'
    BY <1>2 DEF LA!PostponedZoom, LA!IInv, LA!Numbers, LA!AfterCancel
  <2>2. annot' \in Nat
    BY <2>1 DEF LA!CancelKeep, LA!IInv, LA!Numbers
  <2>3. UNCHANGED <<n, wrapper, text, draw, editor, annotDiv, textDone, parent, dom>>
    BY DEF LA!PostponedZoom
  <2>4. LA!LayersSound'
    BY <2>1, <2>2, <2>3, LayersStart DEF LA!IInv, LA!LayersSound, LA!CancelKeep, LA!Numbers
  <2>5. LA!Numbers'
    BY <2>1, <2>2, <2>3, LayersStart DEF LA!IInv, LA!Numbers, Continuation
  <2> QED BY <1>1, <2>4, <2>5 DEF LA!IInv
<1>3. CASE rs = "FINISHED"
  <2>1. /\ UNCHANGED <<rs, annot, runs, textRun, conts, n, wrapper, text, draw, editor, annotDiv, textDone, parent, dom>>
        /\ hidden' = (hidden \ {"editor"}) \cup (IF textDone THEN {"text"} ELSE {}) /\ postponed'
    BY <1>3 DEF LA!PostponedZoom
  <2>2. LA!LayersSound'
    BY <2>1 DEF LA!IInv, LA!LayersSound, LA!Layer
  <2>3. LA!Numbers'
    BY <1>3, <2>1 DEF LA!IInv, LA!Numbers
  <2> QED BY <1>1, <2>2, <2>3 DEF LA!IInv
<1> QED BY <1>2, <1>3 DEF LA!PostponedZoom

(* The annotations that cssTransform renders again are there. *)
LEMMA LayersRedrawn ==
  ASSUME LA!IInv, NEW a, LA!Redrawn(a)
  PROVE  LA!IInv'
<1>1. LA!AnnotationRendered(a) /\ UNCHANGED <<text, annot, editor, textRun, textDone>>
  BY DEF LA!Redrawn
<1>2. UNCHANGED <<rs, n, wrapper, runs, parent, conts, postponed>>
  BY DEF LA!Redrawn
<1>3. /\ LA!LayersSound'
      /\ annotDiv' \in BOOLEAN /\ (annotDiv => annotDiv') /\ hidden' \subseteq hidden
      /\ dom'["editor"] = dom["editor"]
  BY <1>1, LayersAnnotated
<1>4. LA!Numbers'
  BY <1>1, <1>2, <1>3 DEF LA!IInv, LA!Numbers
<1>5. LA!DrawEnds'
  BY <1>1, <1>2, <1>3 DEF LA!IInv, LA!DrawEnds
<1> QED BY <1>3, <1>4, <1>5 DEF LA!IInv

(* Every step keeps the invariant of the layers. *)
LEMMA LayersStep ==
  ASSUME LA!IInv, LA!Next
  PROVE  LA!IInv'
BY LayersDraw, LayersFinish, LayersAnnotations, LayersLinks, LayersText, LayersReset, LayersZoom, LayersRedrawn DEF LA!Next

(* The invariant of the layers has what is checked of them. *)
LEMMA LayersProps == LA!IInv => LA!NoOrphanLayer /\ LA!LayersComplete
<1> SUFFICES ASSUME LA!IInv PROVE LA!NoOrphanLayer /\ LA!LayersComplete
  OBVIOUS
<1>1. LA!NoOrphanLayer
  BY DEF LA!IInv, LA!LayersSound, LA!NoOrphanLayer
<1>2. ASSUME LA!Quiet
      PROVE  (\A l \in LA!Layer : dom[l] # 0) /\ hidden = {} /\ parent = wrapper
  BY <1>2 DEF LA!IInv, LA!LayersSound, LA!Numbers, LA!DrawEnds, LA!Quiet, LA!Layer
<1> QED BY <1>1, <1>2 DEF LA!LayersComplete

-----------------------------------------------------------------------------
(***************************************************************************)
(* The viewer.                                                             *)
(***************************************************************************)
(* The inductive invariant of the part that runs. *)
Sound ==
  /\ part = "HI" => HI!IInv
  /\ part = "TO" => TO!IInv
  /\ part = "PR" => PR!IInv
  /\ part = "AT" => AT!IInv
  /\ part = "PD" => PD!IInv
  /\ part = "DO" => DO!IInv
  /\ part = "SC" => SC!IInv
  /\ part = "SB" => SB!IInv
  /\ part = "TR" => TR!IInv
  /\ part = "LA" => LA!IInv
  /\ part = "TH" => TH!IInv

(* Every part begins with its invariant. *)
LEMMA SoundInit == Init => Sound
<1> SUFFICES ASSUME Init PROVE Sound
  OBVIOUS
<1>1. /\ part = "HI" => HI!Init
      /\ part = "TO" => TO!Init
      /\ part = "PR" => PR!Init
      /\ part = "AT" => AT!Init
      /\ part = "PD" => PD!Init
      /\ part = "DO" => DO!Init
      /\ part = "SC" => SC!Init
      /\ part = "SB" => SB!Init
      /\ part = "TR" => TR!Init
      /\ part = "LA" => LA!Init
      /\ part = "TH" => TH!Init
  BY DEF Init
<1>2. part = "HI" => HI!IInv
  BY <1>1, HInit
<1>3. part = "TO" => TO!IInv
  BY <1>1, TInit
<1>4. part = "PR" => PR!IInv
  BY <1>1, PInit
<1>5. part = "AT" => AT!IInv
  BY <1>1, AInit DEF AT!IInv
<1>6. part = "PD" => PD!IInv
  BY <1>1, KInit DEF PD!IInv
<1>7. part = "DO" => DO!IInv
  BY <1>1, DInit
<1>8. part = "SC" => SC!IInv
  BY <1>1, SInit DEF SC!IInv
<1>9. part = "SB" => SB!IInv
  BY <1>1, VInit DEF SB!IInv
<1>10. part = "TR" => TR!IInv
  BY <1>1, RInit DEF TR!IInv
<1>11. part = "LA" => LA!IInv
  BY <1>1, LayersInit
<1>12. part = "TH" => TH!IInv
  BY <1>1, ThumbsInit
<1> QED BY <1>2, <1>3, <1>4, <1>5, <1>6, <1>7, <1>8, <1>9, <1>10, <1>11, <1>12 DEF Sound

(* A step of a behaviour of one part is a step of that part. *)
LEMMA StepOfViewer ==
  ASSUME Next
  PROVE  /\ part' = part
         /\ part = "HI" => HI!Next
         /\ part = "TO" => TO!Next
         /\ part = "PR" => PR!Next
         /\ part = "AT" => AT!Next
         /\ part = "PD" => PD!Next
         /\ part = "DO" => DO!Next
         /\ part = "SC" => SC!Next
         /\ part = "SB" => SB!Next
         /\ part = "TR" => TR!Next
         /\ part = "LA" => LA!Next
         /\ part = "TH" => TH!Next
BY DEF Next

(* What an ordinary step promises beside the invariant. *)
Ordered ==
  /\ part = "HI" => HI!JumpIsUndoable
  /\ part = "PR" => PR!PinchIsNoSwipe
  /\ part = "PD" => PD!PrintedWhole /\ PD!FailsWhenDismissed
  /\ part = "DO" => DO!ChangesSaved
  /\ part = "SC" => SC!ClosedAfterOpened

(* Every step of every part keeps its invariant and its promise. *)
LEMMA SoundStep ==
  ASSUME Sound, Next
  PROVE  Sound' /\ Ordered
<1>1. part' = part
  BY StepOfViewer
<1>2. part = "HI" => HI!IInv' /\ HI!JumpIsUndoable
  BY StepOfViewer, HStep DEF Sound, HKept, HI!IInv
<1>3. part = "TO" => TO!IInv'
  BY StepOfViewer, TStep DEF Sound
<1>4. part = "PR" => PR!IInv' /\ PR!PinchIsNoSwipe
  BY StepOfViewer, PStep DEF Sound, PKept, PR!IInv
<1>5. part = "AT" => AT!IInv'
  BY StepOfViewer, AStep DEF Sound, AT!IInv
<1>6. part = "PD" => PD!IInv' /\ PD!PrintedWhole /\ PD!FailsWhenDismissed
  BY StepOfViewer, KStep DEF Sound, PD!IInv
<1>7. part = "DO" => DO!IInv' /\ DO!ChangesSaved
  BY StepOfViewer, DStep DEF Sound, DKept, DO!IInv
<1>8. part = "SC" => SC!IInv' /\ SC!ClosedAfterOpened
  BY StepOfViewer, SStep DEF Sound, SKept, SC!IInv
<1>9. part = "SB" => SB!IInv'
  BY StepOfViewer, VStep DEF Sound, SB!IInv
<1>10. part = "TR" => TR!IInv'
  BY StepOfViewer, RStep DEF Sound, TR!IInv
<1>11. part = "LA" => LA!IInv'
  BY StepOfViewer, LayersStep DEF Sound
<1>12. part = "TH" => TH!IInv'
  BY StepOfViewer, ThumbsStep DEF Sound
<1> QED BY <1>1, <1>2, <1>3, <1>4, <1>5, <1>6, <1>7, <1>8, <1>9, <1>10, <1>11, <1>12 DEF Sound, Ordered

(* A step that changes nothing keeps the invariant. *)
LEMMA SoundStutters ==
  ASSUME Sound, UNCHANGED vars
  PROVE  Sound'
<1>1. part' = part /\ st' = st
  BY DEF vars
<1>2. LA!IInv => LA!IInv'
  <2>1. UNCHANGED <<rs, n, wrapper, text, annot, editor, annotDiv, textRun, runs, textDone, parent, dom, hidden, conts,
                    postponed>>
    BY DEF vars, layers
  <2> QED BY <2>1 DEF LA!IInv, LA!LayersSound, LA!Numbers, LA!DrawEnds
<1> QED BY <1>1, <1>2
        DEF Sound, HI!IInv, TO!IInv, PR!IInv, AT!IInv, PD!IInv, DO!IInv, SC!IInv, SB!IInv, TR!IInv, TH!IInv

(* The parts of the viewer keep their inductive invariants. *)
THEOREM ViewerSound == Spec => []Sound
<1>1. Sound /\ [Next]_vars => Sound'
  BY SoundStep, SoundStutters
<1> QED BY <1>1, SoundInit, PTL DEF Spec

(* PDFHistory: through traversals that are reported late, the browser's entries are     *)
(* numbered in their order, the internal state is that of the current entry, and back() *)
(* of the viewer never leads out of it.                                                 *)
THEOREM HistoryLeadsBackTheorem == Spec => []HistoryLeadsBack
<1>1. Sound => HistoryLeadsBack
  BY HProps DEF Sound, HistoryLeadsBack
<1> QED BY <1>1, ViewerSound, PTL

(* PDFPresentationMode and PDFCursorTools: after presenting and editing, in any order   *)
(* and inside each other, modes, cursor tool and buttons are as the user chose them, no *)
(* listener or drag is left, and turning pages skips none.                              *)
THEOREM ModesComeBackTheorem == Spec => []ModesComeBack
<1>1. Sound => ModesComeBack
  BY PProps, TProps DEF Sound, ModesComeBack
<1> QED BY <1>1, ViewerSound, PTL

(* PDFPageView, OverlayManager, PDFPrintService, PasswordPrompt and AltTextManager:     *)
(* what interrupted draws, cancelled jobs and closed dialogs still deliver does no harm *)
(* to layers, container and pictures; a document that waits for a password has its      *)
(* prompt; the alt text dialog stays beside its image and mixes up no texts.            *)
THEOREM CancelledWorkIsHarmlessTheorem == Spec => []CancelledWorkIsHarmless
<1>1. Sound => CancelledWorkIsHarmless
  BY KProps, AProps, LayersProps DEF Sound, CancelledWorkIsHarmless, PD!IInv, AT!IInv
<1> QED BY <1>1, ViewerSound, PTL

(* PDFViewerApplication and PDFScriptingManager: late answers of one document never     *)
(* become those of the next, and every document gets a sandbox made from its own fields *)
(* or nobody waits for one.                                                             *)
THEOREM DocumentIsItsOwnTheorem == Spec => []DocumentIsItsOwn
<1>1. Sound => DocumentIsItsOwn
  BY DProps, SProps DEF Sound, DocumentIsItsOwn, SC!IInv
<1> QED BY <1>1, ViewerSound, PTL

(* ViewsManager, PDFOutlineViewer, ViewHistory, PDFAttachmentViewer, PDFLayerViewer:    *)
(* whatever the order of the answers, the sidebar shows a view that is enabled and that *)
(* all were told, items, files and layers are those of the open document, and the       *)
(* history stays within its size.  PDFThumbnailView: a finished thumbnail shows its     *)
(* page as it is rotated now, once all canvases are encoded, no drawing outlives a      *)
(* reset, and the viewer is idle only when all thumbnails in view are finished.         *)
THEOREM SidebarOfDocumentTheorem == Spec => []SidebarOfDocument
<1>1. Sound => SidebarOfDocument
  BY VProps, RProps, ThumbsProps DEF Sound, SidebarOfDocument, SB!IInv, TR!IInv
<1> QED BY <1>1, ViewerSound, PTL

(* No step jumps without an entry that leads back, turns a page after a pinch, prints   *)
(* less than the whole document, fails a request whose prompt was not dismissed, closes *)
(* a changed document unsaved, or tells a sandbox of the closing of a page it has not   *)
(* heard of.                                                                            *)
THEOREM EventsInOrderTheorem == Spec => EventsInOrder
<1>1. Sound /\ [Next]_vars =>
        [/\ part = "HI" => HI!JumpIsUndoable
         /\ part = "PR" => PR!PinchIsNoSwipe
         /\ part = "PD" => PD!PrintedWhole /\ PD!FailsWhenDismissed
         /\ part = "DO" => DO!ChangesSaved
         /\ part = "SC" => SC!ClosedAfterOpened]_vars
  BY SoundStep DEF Ordered
<1> QED BY <1>1, ViewerSound, PTL DEF Spec, EventsInOrder
=============================================================================
