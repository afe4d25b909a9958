-------------------------------- MODULE Poller --------------------------------
(***************************************************************************)
(* usePoller, the hook behind every live figure of the desktop wallet, as  *)
(* OverviewTab uses it: fn asks for the chain statistics, the balance and  *)
(* the bridge status one after the other and shows each as it comes.  The  *)
(* ref `running' is shared by all the effects of one mounted component, and *)
(* nothing cancels an fn that waits: were the endpoint changed under an     *)
(* open tab, its immediate run would be skipped and the old answer shown.   *)
(* App mounts one tab at a time and every setting is changed in another.    *)
(***************************************************************************)
EXTENDS Naturals

CONSTANTS Dep,         \* what the effect depends on: endpoint and address
          None,
          MaxMounts    \* bound: how often the tab is opened

VARIABLES
  inst,      \* the mounted component, 0 while the tab is closed
  mounts,    \* components mounted so far
  dep,       \* the dependencies of the current effect
  running,   \* running.current of the mounted component
  calls,     \* fn invocations that have not returned, each at its await
  started,   \* the dependencies fn was last started for
  stats, balance, bridge   \* what the tab shows, and for which dependencies

vars  == <<inst, mounts, dep, running, calls, started, stats, balance, bridge>>
shown == <<stats, balance, bridge>>

Step == {"stats", "balance", "bridge"}
Call == [inst : 1 .. MaxMounts, dep : Dep, step : Step]

TypeOK ==
  /\ inst \in 0 .. MaxMounts /\ mounts \in 0 .. MaxMounts
  /\ dep \in Dep
  /\ running \in BOOLEAN
  /\ calls \subseteq Call
  /\ {started, stats, balance, bridge} \subseteq Dep \cup {None}

Init ==
  /\ inst = 0 /\ mounts = 0
  /\ dep \in Dep
  /\ running = FALSE /\ calls = {}
  /\ started = None /\ stats = None /\ balance = None /\ bridge = None

-----------------------------------------------------------------------------

\* tick: unless fn is running, run it for the dependencies of this effect.
Tick(i, d) ==
  IF running
  THEN UNCHANGED <<running, calls, started>>
  ELSE /\ running' = TRUE
       /\ calls' = calls \cup {[inst |-> i, dep |-> d, step |-> "stats"]}
       /\ started' = d

\* The tab is opened: fresh state, a fresh ref, the first effect ticks.
Mount ==
  /\ inst = 0 /\ mounts < MaxMounts
  /\ mounts' = mounts + 1 /\ inst' = mounts + 1
  /\ stats' = None /\ balance' = None /\ bridge' = None
  /\ running' = TRUE
  /\ calls' = calls \cup {[inst |-> mounts + 1, dep |-> dep, step |-> "stats"]}
  /\ started' = dep
  /\ UNCHANGED dep

\* The tab is closed; what fn still waits for is not cancelled.
Unmount ==
  /\ inst # 0
  /\ inst' = 0
  /\ UNCHANGED <<mounts, dep, running, calls, started, shown>>

\* Mutant: a setting that can be changed from the open tab.
ChangeDepsHere(d) ==
  /\ d # dep
  /\ dep' = d
  /\ IF inst = 0 THEN UNCHANGED <<running, calls, started>> ELSE Tick(inst, d)
  /\ UNCHANGED <<inst, mounts, shown>>

\* Another network or endpoint is chosen, in NetworkTab or SettingsTab: this
\* tab is closed then.
ChangeDeps(d) ==
  /\ inst = 0 /\ d # dep
  /\ dep' = d
  /\ UNCHANGED <<inst, mounts, running, calls, started, shown>>

\* The interval fires.
Interval ==
  /\ inst # 0
  /\ Tick(inst, dep)
  /\ UNCHANGED <<inst, mounts, dep, shown>>

\* setState of a component that is gone does nothing.
Live(c) == c.inst = inst

Goto(c, s) == calls' = (calls \ {c}) \cup {[c EXCEPT !.step = s]}

\* getChainStats answers or fails: three calls of which one failure is enough.
SetStats(c) == IF Live(c) THEN stats' \in {c.dep, None} ELSE UNCHANGED stats

Stats(c) ==
  /\ c \in calls /\ c.step = "stats"
  /\ SetStats(c)
  /\ Goto(c, "balance")
  /\ UNCHANGED <<inst, mounts, dep, running, started, balance, bridge>>

\* getBalance: a failure keeps the balance shown before.
SetBalance(c) == IF Live(c) THEN balance' \in {c.dep, balance} ELSE UNCHANGED balance

Balance(c) ==
  /\ c \in calls /\ c.step = "balance"
  /\ SetBalance(c)
  /\ Goto(c, "bridge")
  /\ UNCHANGED <<inst, mounts, dep, running, started, stats, bridge>>

\* Mutant: `running' is reset in the try block only, so not after a failure.
ReleaseOnSuccess(c, ok) == running' = IF Live(c) /\ ok THEN FALSE ELSE running

\* The finally block of tick.
Release(c, ok) == running' = IF Live(c) THEN FALSE ELSE running

\* bridgeApi.status is the last call of fn; then `running' is released.
Bridge(c, ok) ==
  /\ c \in calls /\ c.step = "bridge"
  /\ IF Live(c) THEN bridge' = (IF ok THEN c.dep ELSE None) ELSE UNCHANGED bridge
  /\ calls' = calls \ {c}
  /\ Release(c, ok)
  /\ UNCHANGED <<inst, mounts, dep, started, stats, balance>>

-----------------------------------------------------------------------------
\* An HTTP call ends, in an answer or an error.
CallEnds == \E c \in calls : Stats(c) \/ Balance(c) \/ \E ok \in BOOLEAN : Bridge(c, ok)

Next ==
  \/ Mount \/ Unmount \/ Interval \/ CallEnds
  \/ \E d \in Dep : ChangeDeps(d)

Spec == Init /\ [][Next]_vars

-----------------------------------------------------------------------------
\* "Guards against overlapping invocations if fn is slower than the interval":
\* a mounted component has one fn under way, through any change of settings.
NoOverlap ==
  inst # 0 => IF running THEN \E c \in calls : \A d \in calls : d.inst = inst <=> d = c
                         ELSE \A c \in calls : c.inst # inst

\* The figures on the screen are those of the endpoint selected, also when calls
\* made for another endpoint, before the tab was opened again, answer late.
ShownIsForSelected == inst # 0 => {stats, balance, bridge} \subseteq {dep, None}

\* While a tab stays open its figures are fetched again and again, whether the
\* calls succeed or fail.
PollingGoesOn == <>[](inst # 0) => []<>(running = TRUE) /\ []<>(running = FALSE)

\* "Runs fn immediately, then every intervalMs while mounted": fn has been
\* started for the dependencies of the effect that is mounted.
RunsImmediately == inst # 0 => started = dep

-----------------------------------------------------------------------------
\* The inductive invariant.  Calls belong to components mounted so far, and those of the
\* mounted one were made for the endpoint selected.
CallsOfMounts == inst <= mounts /\ \A c \in calls : c.inst <= mounts

LiveCallsAreCurrent == \A c \in calls : c.inst = inst => c.dep = dep

IInv == TypeOK /\ CallsOfMounts /\ NoOverlap /\ LiveCallsAreCurrent /\ ShownIsForSelected /\ RunsImmediately
=============================================================================
