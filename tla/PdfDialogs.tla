------------------------------ MODULE PdfDialogs ------------------------------
(***************************************************************************)
(* The modal dialogs and the two jobs behind them: printing and the        *)
(* question for a password.  A dialog that is closed sends its `close'     *)
(* event as a task of its own, so other events may come first; promise     *)
(* callbacks run one by one before the next task.  A print job goes on by  *)
(* itself after it was cancelled and has to find out.  A third dialog      *)
(* stands for those that close no other.                                   *)
(***************************************************************************)
EXTENDS Integers, Sequences, FiniteSets

CONSTANTS NPages, MaxJobs, MaxAsks, MaxClosing

VARIABLE d

Job    == 1 .. MaxJobs
Ask    == 1 .. MaxAsks
Dialog == {"print", "password", "other"}
Phase  == {"none", "draw", "blob", "load", "timer", "wait", "done"}

TypeOK ==
  /\ d.jobs \in 0 .. MaxJobs
  /\ d.activeService \in 0 .. MaxJobs /\ d.printService \in 0 .. MaxJobs  \* of the module, of the application
  /\ d.phase \in [Job -> Phase] /\ d.page \in [Job -> 1 .. NPages]
  /\ d.urls \in [Job -> 0 .. NPages]                   \* object URLs that were not revoked
  /\ d.container \in Seq(Job \X (1 .. NPages)) /\ d.style \in 0 .. MaxJobs
  /\ d.overlay \in Dialog \cup {"null"} /\ d.shown \subseteq Dialog
  /\ d.closing \in Seq(Dialog)                         \* `close' events under way
  /\ d.micro \in Seq([what : Dialog \cup {"openPrint", "closePrint", "set", "open"}, ask : 0 .. MaxAsks])
  /\ d.asks \in 0 .. MaxAsks /\ d.live \in 0 .. MaxAsks  \* of the document that is being loaded
  /\ d.capability \in {"null", "pending", "resolved"}
  /\ d.waiting \in Seq([what : {"set", "open"}, ask : 0 .. MaxAsks])
  /\ d.updateCallback \in 0 .. MaxAsks
  /\ d.answer \in {"none", "password", "error"}        \* the last one
  /\ d.dismissed \in 0 .. MaxAsks                      \* whose prompt was closed without an answer

Task(what, ask) == [what |-> what, ask |-> ask]

-----------------------------------------------------------------------------
\* OverlayManager.close of the active dialog; the prompt of a request may go with it.
CloseActive(u) ==
  [u EXCEPT !.overlay = "null", !.shown = @ \ {u.overlay}, !.closing = Append(@, u.overlay),
            !.dismissed = IF u.overlay = "password" THEN u.updateCallback ELSE @]

CloseIfActive(u, dialog) == IF u.overlay = dialog THEN CloseActive(u) ELSE u

Show(u, dialog) == [u EXCEPT !.overlay = dialog, !.shown = @ \cup {dialog}]

\* OverlayManager.open of a dialog that may close another one: it waits for that.
OverlayOpen(u, dialog) ==
  IF u.overlay = dialog THEN u
  ELSE IF u.overlay = "null" THEN Show(u, dialog)
  ELSE [CloseActive(u) EXCEPT !.micro = Append(@, Task(dialog, 0))]

-----------------------------------------------------------------------------

\* PDFPrintService.destroy of the active service.
Destroy(u) ==
  [u EXCEPT !.container = <<>>, !.style = 0, !.urls[u.activeService] = 0, !.activeService = 0,
            !.micro = Append(@, Task("closePrint", 0))]

\* The application hears of the end; its service was destroyed before.
AfterPrint(u) == [u EXCEPT !.printService = 0]

Abort(u) == IF u.activeService = 0 THEN u ELSE AfterPrint(Destroy(u))

\* What follows when the chain of promises of a job ends.
JobDone(u, j) ==
  LET w == [u EXCEPT !.phase[j] = "done"] IN IF u.activeService = j THEN Abort(w) ELSE w

\* window.print with beforePrint: createPrintService and layout, if the pages are ready.
StartPrint(u, ready) ==
  LET j == u.jobs + 1
      w == [u EXCEPT !.micro = Append(@, Task("openPrint", 0))]
  IN  IF ready /\ u.printService = 0
      THEN [w EXCEPT !.jobs = j, !.activeService = j, !.printService = j, !.style = j, !.phase[j] = "draw"]
      ELSE [w EXCEPT !.micro = Append(@, Task("closePrint", 0))]

-----------------------------------------------------------------------------
Resolve(u) == [u EXCEPT !.capability = "resolved", !.micro = @ \o u.waiting, !.waiting = <<>>]

\* `await this.#activeCapability?.promise'
AwaitPrompt(u, task) ==
  IF u.capability = "pending" THEN [u EXCEPT !.waiting = Append(@, task)] ELSE [u EXCEPT !.micro = Append(@, task)]

SetUpdateCallback(u, ask) ==
  IF u.capability = "null" THEN [u EXCEPT !.updateCallback = ask] ELSE AwaitPrompt(u, Task("set", ask))

PromptOpen(u) == AwaitPrompt(u, Task("open", 0))

\* The rest of PasswordPrompt.open.
PromptOpened(u) ==
  IF u.overlay = "password" THEN Resolve(u) ELSE OverlayOpen([u EXCEPT !.capability = "pending"], "password")

\* #invokeCallback
InvokeCallback(u, answer) ==
  IF u.updateCallback = 0 THEN u
  ELSE LET w == CloseIfActive(u, "password")
           k == u.updateCallback
       IN  [w EXCEPT !.answer = IF answer = "error" \/ u.live = k THEN answer ELSE "none",
                     !.updateCallback = 0, !.live = IF @ = k THEN 0 ELSE @,
                     !.dismissed = IF answer = "password" THEN 0 ELSE u.dismissed]

\* The listeners of the `close' events: abort and #cancel.
Closed(u, dialog) ==
  CASE dialog = "print" -> Abort(u)
    [] dialog = "password" -> Resolve(InvokeCallback(u, "error"))
    [] OTHER -> u

-----------------------------------------------------------------------------
Callback(u, t) ==
  CASE t.what = "openPrint"  -> IF u.activeService # 0 THEN OverlayOpen(u, "print") ELSE u
    [] t.what = "closePrint" -> CloseIfActive(u, "print")
    [] t.what = "set"        -> [u EXCEPT !.updateCallback = t.ask]
    [] t.what = "open"       -> PromptOpened(u)
    [] OTHER                 -> Show(u, t.what)

Microtask == d.micro # <<>> /\ d' = Callback([d EXCEPT !.micro = Tail(@)], Head(d.micro))

Start ==
  [jobs |-> 0, activeService |-> 0, printService |-> 0, phase |-> [j \in Job |-> "none"],
   page |-> [j \in Job |-> 1], urls |-> [j \in Job |-> 0], container |-> <<>>, style |-> 0,
   overlay |-> "null", shown |-> {}, closing |-> <<>>, micro |-> <<>>, asks |-> 0, live |-> 0,
   capability |-> "null", waiting |-> <<>>, updateCallback |-> 0, answer |-> "none",
   dismissed |-> 0]

Init == d = Start

\* Ctrl+P, the button, or the document asks to be printed; ignored while a job is active.
PressPrint(ready) == d.activeService = 0 /\ d.jobs < MaxJobs /\ d' = StartPrint(d, ready)

CancelPrint == "print" \in d.shown /\ d' = Abort(d)

\* Escape: the event `cancel' comes first, then the browser closes the dialog.
Escape == d.overlay # "null" /\ d' = CloseActive(d)

CloseEvent ==
  /\ d.closing # <<>>
  /\ d' = Closed([d EXCEPT !.closing = Tail(@)], Head(d.closing))

\* Mutant: a page that comes after the end of the job is used.
DrawnLate(j, ok) ==
  /\ d.phase[j] = "draw"
  /\ d' = IF ok THEN [d EXCEPT !.container = Append(@, <<j, d.page[j]>>), !.phase[j] = "blob"] ELSE JobDone(d, j)

\* A page was drawn, or could not be: useRenderedPage.
Drawn(j, ok) ==
  /\ d.phase[j] = "draw"
  /\ d' = IF ok /\ d.activeService = j
          THEN [d EXCEPT !.container = Append(@, <<j, d.page[j]>>), !.phase[j] = "blob"]
          ELSE JobDone(d, j)

\* toBlob calls back.
Blob(j) == d.phase[j] = "blob" /\ d' = [d EXCEPT !.phase[j] = "load", !.urls[j] = @ + 1]

\* The picture is loaded, or could not be: renderNextPage, and performPrint after the last.
Loaded(j, ok) ==
  /\ d.phase[j] = "load"
  /\ d' = CASE ~ok \/ d.activeService # j -> JobDone(d, j)
            [] ok /\ d.activeService = j /\ d.page[j] < NPages -> [d EXCEPT !.phase[j] = "draw", !.page[j] = @ + 1]
            [] OTHER -> [d EXCEPT !.phase[j] = "timer"]

\* The two timers of performPrint: the browser's own print, and 20 ms later the end.
PrintTimer(j) ==
  \/ /\ d.phase[j] = "timer"
     /\ d' = IF d.activeService = j THEN [d EXCEPT !.phase[j] = "wait"] ELSE JobDone(d, j)
  \/ d.phase[j] = "wait" /\ d' = JobDone(d, j)

\* onPassword, for a document that is being loaded.  Loading another one takes the
\* worker longer than a `close' event.
OnPassword ==
  /\ d.live = 0 /\ d.asks < MaxAsks
  /\ d.closing = <<>> \/ d.answer = "password"
  /\ LET k == d.asks + 1
     IN  d' = PromptOpen(SetUpdateCallback([d EXCEPT !.asks = k, !.live = k, !.answer = "none"], k))

Submit == "password" \in d.shown /\ d' = InvokeCallback(d, "password")

\* The cancel button, or the application closes the document.
ClosePrompt == "password" \in d.shown /\ d' = CloseIfActive(d, "password")
CloseDocument == d.live # 0 /\ d' = CloseIfActive([d EXCEPT !.live = 0, !.answer = "none"], "password")

\* A dialog that may not close another one is opened.
OpenOther == d.overlay = "null" /\ Len(d.closing) < MaxClosing /\ d' = Show(d, "other")

Answer(ok) == \E j \in Job : Drawn(j, ok)
Picture(ok) == \E j \in Job : Blob(j) \/ Loaded(j, ok)
In(phases) == d.micro = <<>> /\ \E j \in Job : d.phase[j] \in phases
Timer == \E j \in Job : PrintTimer(j)

Next ==
  \/ Microtask
  \/ /\ d.micro = <<>>
     /\ \/ \E ready \in BOOLEAN : PressPrint(ready)
        \/ CancelPrint \/ Escape \/ CloseEvent
        \/ \E ok \in BOOLEAN : Answer(ok) \/ Picture(ok)
        \/ Timer
        \/ OnPassword \/ Submit \/ ClosePrompt \/ CloseDocument \/ OpenOther

Spec == Init /\ [][Next]_d

-----------------------------------------------------------------------------
\* The print container never mixes jobs: it holds the first pages of the active job,
\* in order, whatever cancelled jobs still deliver.
ContainerIsJob ==
  /\ d.container = [i \in DOMAIN d.container |-> <<d.activeService, i>>]
  /\ d.style = d.activeService

\* Nothing but a whole document is printed.
PrintedWhole ==
  \A j \in Job : d.phase[j] = "timer" /\ d'.phase[j] = "wait" => d'.container = [i \in 1 .. NPages |-> <<j, i>>]

\* The module and the application agree on whether a job is active: a cancelled job
\* does not keep the application from printing again.
JobsAgree == d.printService = d.activeService

\* The progress dialog is there exactly while a job is active, unless it was closed
\* and its event will end the job.
ProgressShown ==
  d.micro = <<>> =>
    /\ d.overlay = "print" => d.activeService # 0
    /\ d.activeService # 0 => d.overlay = "print" \/ \E i \in DOMAIN d.closing : d.closing[i] = "print"

\* A job that was cancelled leaves at most the one picture that was being made.
PicturesRevoked == \A j \in Job : j # d.activeService => d.urls[j] <= 1

\* At most one dialog is open, the one the overlay manager knows.
OneDialog == d.shown = {d.overlay} \ {"null"}

\* A request for a password fails only when its own prompt was dismissed: the `close'
\* event of an earlier prompt cancels no later one.
FailsWhenDismissed ==
  d'.answer = "error" /\ d.updateCallback # 0 /\ d.updateCallback # d'.updateCallback => d.dismissed = d.updateCallback

\* A document that waits for a password has its prompt, or will get it when the
\* earlier one is gone.
RequestIsPrompted ==
  LET k == d.live
  IN  k # 0 /\ d.micro = <<>> =>
        \/ d.updateCallback = k /\ (d.overlay = "password" \/ k = d.dismissed)
        \/ Task("set", k) \in {d.waiting[i] : i \in DOMAIN d.waiting}

\* What makes these inductive.  Of the jobs: how many pages the active one has put into the
\* container, and that the others have at most one picture to come.
Numbers(u) ==
  /\ u.jobs \in Nat /\ u.jobs <= MaxJobs /\ u.activeService \in Nat /\ u.activeService <= u.jobs
  /\ u.printService = u.activeService /\ u.style = u.activeService
  /\ DOMAIN u.phase = Job /\ DOMAIN u.page = Job /\ DOMAIN u.urls = Job
JobSound(u, j) ==
  /\ u.phase[j] \in Phase /\ u.page[j] \in 1 .. NPages /\ u.urls[j] \in Nat
  /\ j > u.jobs => u.phase[j] = "none" /\ u.page[j] = 1 /\ u.urls[j] = 0
  /\ j # u.activeService => u.urls[j] <= 1 /\ (u.phase[j] = "blob" => u.urls[j] = 0)
Filled(u) ==
  LET j == u.activeService
  IN  IF j = 0 THEN 0 ELSE IF u.phase[j] = "draw" THEN u.page[j] - 1
      ELSE IF u.phase[j] \in {"timer", "wait"} THEN NPages ELSE u.page[j]
JobsSound(u) ==
  /\ Numbers(u) /\ \A j \in Job : JobSound(u, j)
  /\ u.activeService # 0 => u.phase[u.activeService] \notin {"none", "done"}
  /\ u.container = [i \in 1 .. Filled(u) |-> <<u.activeService, i>>]

\* Of the dialogs: what is still to come for each of them.
Sent(u, dialog) == \E i \in DOMAIN u.closing : u.closing[i] = dialog
DialogsSound(u) ==
  /\ u.closing \in Seq(Dialog) /\ u.overlay \in Dialog \cup {"null"} /\ u.shown = {u.overlay} \ {"null"}
  /\ \A i, j \in DOMAIN u.closing : u.closing[i] = "password" /\ u.closing[j] = "password" => i = j
  /\ u.overlay = "password" => ~Sent(u, "password")
Progress(u) ==
  /\ u.overlay = "print" => u.activeService # 0
  /\ u.activeService # 0 => u.overlay = "print" \/ Sent(u, "print")

\* Of the prompt: it is open, or closed and its event under way, exactly while the capability
\* is pending; one request at most waits for that.
Asked(u) ==
  /\ u.asks \in Nat /\ u.live \in {0, u.asks} /\ u.updateCallback \in Nat /\ u.updateCallback <= u.asks
  /\ Sent(u, "password") /\ u.updateCallback # 0 => u.dismissed = u.updateCallback
Waits(u) ==
  /\ u.waiting = <<Task("set", u.asks), Task("open", 0)>> /\ u.asks # 0 /\ u.updateCallback # u.asks
  /\ u.live = u.asks \/ (Sent(u, "password") /\ u.answer # "password")
Prompted(u) ==
  /\ u.capability = "pending" <=> u.overlay = "password" \/ Sent(u, "password")
  /\ u.capability # "pending" => u.updateCallback = 0 /\ u.waiting = <<>>
  /\ \/ Waits(u)
     \/ u.waiting = <<>> /\ (u.live # 0 => u.updateCallback = u.live /\ (u.overlay = "password" \/ u.live = u.dismissed))
Asking(u) == u.waiting = <<>> /\ u.overlay # "password" /\ ~Sent(u, "password") /\ u.asks # 0 /\ Progress(u)

\* The callbacks that are to run, and what holds before each of them.
Turn(u) ==
  \/ u.micro = <<>> /\ Progress(u) /\ Prompted(u)
  \/ u.micro = <<Task("openPrint", 0)>> /\ u.activeService # 0 /\ u.overlay # "print" /\ Prompted(u)
  \/ u.micro = <<Task("print", 0)>> /\ u.activeService # 0 /\ u.overlay = "null" /\ Prompted(u)
  \/ u.micro = <<Task("closePrint", 0)>> /\ u.activeService = 0 /\ Prompted(u)
  \/ u.micro = <<Task("openPrint", 0), Task("closePrint", 0)>> /\ u.activeService = 0 /\ Prompted(u)
  \/ u.micro = <<Task("set", u.asks), Task("open", 0)>> /\ u.capability # "pending" /\ u.updateCallback = 0 /\ Asking(u)
  \/ u.micro = <<Task("open", 0)>> /\ u.capability # "pending" /\ u.updateCallback = u.asks /\ Asking(u)
  \/ /\ u.micro = <<Task("password", 0)>> /\ u.capability = "pending" /\ u.updateCallback = u.asks /\ u.overlay = "null"
     /\ Asking(u)

Sound(u) == DOMAIN u = DOMAIN Start /\ JobsSound(u) /\ DialogsSound(u) /\ Asked(u) /\ Turn(u)
IInv == Sound(d)
=============================================================================
