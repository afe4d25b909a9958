---------------------------- MODULE DesktopConsole ----------------------------
(***************************************************************************)
(* The console tab of the desktop wallet and the log it shows: a bounded   *)
(* list of entries, written by every RPC call of the wallet, and one call  *)
(* at a time of the console itself, whose tab may be left while the call   *)
(* is open.                                                                *)
(***************************************************************************)
EXTENDS Naturals, Sequences

CONSTANTS MaxEntries,   \* MAX_ENTRIES
          MaxLogs,      \* bound: messages logged
          MaxMounts     \* bound: times the tab is opened

VARIABLE c    \* the console and the log

Console ==
  [entries : Seq(1 .. MaxLogs), logs : 0 .. MaxLogs, kept : 0 .. MaxLogs,
   mounted : BOOLEAN, mounts : 0 .. MaxMounts, busy : BOOLEAN, result : {"null", "value", "error"},
   calls : SUBSET (1 .. MaxMounts),   \* of the console, by the mount that made them
   others : 0 .. 1,                   \* calls of the rest of the wallet
   nextId : 1 .. MaxLogs + 1]

TypeOK == c \in Console

Init == c = [entries |-> <<>>, logs |-> 0, kept |-> 0, mounted |-> FALSE, mounts |-> 0, busy |-> FALSE,
             result |-> "null", calls |-> {}, others |-> 0, nextId |-> 1]

-----------------------------------------------------------------------------

\* log: the last MAX_ENTRIES - 1 entries and the new one.
Log(d) ==
  [d EXCEPT !.logs = @ + 1,
            !.entries = SubSeq(@, IF Len(@) > MaxEntries - 1 THEN Len(@) - MaxEntries + 2 ELSE 1, Len(@)) \o <<d.logs + 1>>]

ClearLogs == c' = [c EXCEPT !.entries = <<>>, !.kept = c.logs]

\* rpcCall up to the fetch; its end, by an answer or by an error it throws on.
RpcStart(d) == [Log(d) EXCEPT !.nextId = @ + 1]
RpcEnd(d)   == Log(d)

-----------------------------------------------------------------------------
Mount   == /\ ~c.mounted /\ c.mounts < MaxMounts
           /\ c' = [c EXCEPT !.mounted = TRUE, !.mounts = @ + 1, !.busy = FALSE, !.result = "null"]
Unmount == c.mounted /\ c' = [c EXCEPT !.mounted = FALSE]

\* `Call': parameters that are no JSON array fail before anything is sent.
Call(valid) ==
  /\ c.mounted /\ ~c.busy
  /\ c' = IF valid THEN [RpcStart(c) EXCEPT !.busy = TRUE, !.result = "null", !.calls = @ \cup {c.mounts}]
          ELSE [Log(c) EXCEPT !.result = "error"]

\* The call of mount m ends; a tab that is gone shows nothing of it.
CallEnds(m, good) ==
  LET d == IF good THEN RpcEnd(c) ELSE Log(RpcEnd(c))
      e == [d EXCEPT !.calls = @ \ {m}]
  IN  /\ m \in c.calls
      /\ c' = IF c.mounted /\ m = c.mounts
              THEN [e EXCEPT !.busy = FALSE, !.result = IF good THEN "value" ELSE "error"] ELSE e

\* A poller of another tab calls, and its call ends.
OtherStart == c.others = 0 /\ c' = [RpcStart(c) EXCEPT !.others = 1]
OtherEnds  == c.others = 1 /\ c' = [RpcEnd(c) EXCEPT !.others = 0]

Next ==
  \/ Mount \/ Unmount \/ ClearLogs
  \/ /\ c.logs + 1 < MaxLogs
     /\ \/ \E valid \in BOOLEAN : Call(valid)
        \/ \E m \in c.calls, good \in BOOLEAN : CallEnds(m, good)
        \/ OtherStart \/ OtherEnds

Spec == Init /\ [][Next]_c

-----------------------------------------------------------------------------
\* How many of n messages the log shows, and which.
Kept(n) == IF n < MaxEntries THEN n ELSE MaxEntries

Newest(d) ==
  d.entries = [i \in 1 .. Kept(d.logs - d.kept) |-> d.logs - Kept(d.logs - d.kept) + i]

\* The log shows the newest messages since it was cleared, in their order and never
\* more than MAX_ENTRIES, whoever writes to it and however calls interleave.
LogKeepsNewest == Newest(c)

\* The button is disabled exactly while the call of the open tab is under way: calls
\* of a tab that was left neither block nor release it.
BusyIsTheCall == c.mounted => (c.busy <=> c.mounts \in c.calls)

-----------------------------------------------------------------------------
\* The inductive invariant: every call has an id and an entry of its own, and calls belong
\* to mounts so far.
CountsAgree ==
  /\ c.kept <= c.logs /\ c.nextId <= c.logs + 1 /\ c.calls \subseteq 1 .. c.mounts
  /\ c.mounted => c.mounts > 0

IInv == TypeOK /\ CountsAgree /\ LogKeepsNewest /\ BusyIsTheCall
=============================================================================
