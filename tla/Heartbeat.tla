------------------------------- MODULE Heartbeat -------------------------------
(***************************************************************************)
(* The federation's check-in and the status the API derives from it.  The  *)
(* federation posts /v1/fed/checkin once per cycle, before the rows; the   *)
(* API calls it online for 60 seconds after.  Time is counted in units of  *)
(* the poll interval, ten seconds.  A cycle takes as long as its rows do.  *)
(***************************************************************************)
EXTENDS Naturals

CONSTANTS
  Window,      \* the 60 seconds of the API, in poll intervals
  MaxRows,     \* bound: rows of one cycle
  RowTime,     \* bound: poll intervals one row may take
  MaxTime      \* bound: length of a behaviour

Never == MaxTime + 1   \* no check-in yet

VARIABLES
  now,       \* the clock
  pc,        \* the federation: where its loop is
  rows,      \* rows left in this cycle
  ok,        \* did the check-in of this cycle succeed
  wait,      \* time until its current await returns at the latest
  meta,      \* meta.fed_last_checkin
  read,      \* GET /v1/bridge/status: the row it read, or nothing under way
  answer     \* the last answer: online, the check-in it is based on and when

vars == <<now, pc, rows, ok, wait, meta, read, answer>>

Time == 0 .. MaxTime

TypeOK ==
  /\ now \in Time
  /\ pc \in {"checkin", "rows", "sleep", "down"}
  /\ rows \in 0 .. MaxRows /\ ok \in BOOLEAN
  /\ wait \in 0 .. (IF RowTime > 1 THEN RowTime ELSE 1)
  /\ meta \in Time \cup {Never}
  /\ read \in [on : BOOLEAN, last : Time \cup {Never}]
  /\ answer \in [online : BOOLEAN, last : Time \cup {Never}, at : Time]

Init ==
  /\ now = 0 /\ pc = "down" /\ rows = 0 /\ wait = 0 /\ ok = FALSE
  /\ meta = Never
  /\ read = [on |-> FALSE, last |-> Never]
  /\ answer = [online |-> FALSE, last |-> Never, at |-> 0]

-----------------------------------------------------------------------------
\* Time passes; an await that is due returns first.
Tick ==
  /\ now < MaxTime /\ (pc \in {"rows", "sleep"} => wait > 0) /\ pc # "checkin"
  /\ now' = now + 1
  /\ wait' = IF wait > 0 THEN wait - 1 ELSE 0
  /\ UNCHANGED <<pc, rows, ok, meta, read, answer>>

Boot ==
  /\ pc = "down"
  /\ pc' = "checkin" /\ wait' = 0
  /\ UNCHANGED <<now, rows, ok, meta, read, answer>>

Crash ==
  /\ pc # "down"
  /\ pc' = "down" /\ rows' = 0 /\ wait' = 0 /\ ok' = FALSE
  /\ UNCHANGED <<now, meta, read, answer>>

\* INSERT OR REPLACE INTO meta, with the API's clock.
Stamp == meta' = now

\* The pending rows are fetched: any number of them, each taking its time.
BeginRows ==
  \E n \in 0 .. MaxRows, t \in 0 .. RowTime :
    IF n = 0 THEN pc' = "sleep" /\ rows' = 0 /\ wait' = 1
             ELSE pc' = "rows" /\ rows' = n /\ wait' = t

CheckIn ==
  /\ pc = "checkin"
  /\ Stamp /\ ok' = TRUE
  /\ BeginRows
  /\ UNCHANGED <<now, read, answer>>

\* checkIn swallows its error: the cycle goes on unannounced.
CheckInFailed ==
  /\ pc = "checkin"
  /\ ok' = FALSE
  /\ BeginRows
  /\ UNCHANGED <<now, meta, read, answer>>

\* A row is done, with an error or without; the next, or the sleep.
RowDone ==
  /\ pc = "rows" /\ wait = 0
  /\ \E t \in 0 .. RowTime :
       IF rows > 1 THEN pc' = "rows" /\ rows' = rows - 1 /\ wait' = t
                   ELSE pc' = "sleep" /\ rows' = 0 /\ wait' = 1
  /\ UNCHANGED <<now, ok, meta, read, answer>>

Wake ==
  /\ pc = "sleep" /\ wait = 0
  /\ pc' = "checkin"
  /\ UNCHANGED <<now, rows, ok, wait, meta, read, answer>>

\* GET /v1/bridge/status: SELECT, then the comparison with the clock.
StatusRead ==
  /\ ~read.on
  /\ read' = [on |-> TRUE, last |-> meta]
  /\ UNCHANGED <<now, pc, rows, ok, wait, meta, answer>>

\* Mutant: never checked in counts as just checked in.
OnlineNull(last) == IF last = Never THEN TRUE ELSE now - last < Window

\* lastCheckin !== null && Date.now() - lastCheckin < 60000.
Online(last) == last # Never /\ now - last < Window

StatusAnswer ==
  /\ read.on
  /\ answer' = [online |-> Online(read.last), last |-> read.last, at |-> now]
  /\ read' = [on |-> FALSE, last |-> Never]
  /\ UNCHANGED <<now, pc, rows, ok, wait, meta>>

\* The query throws: `offline' and no check-in, whatever the row says.
StatusFailed ==
  /\ read.on
  /\ answer' = [online |-> FALSE, last |-> Never, at |-> now]
  /\ read' = [on |-> FALSE, last |-> Never]
  /\ UNCHANGED <<now, pc, rows, ok, wait, meta>>

Next ==
  \/ Tick \/ Boot \/ Crash \/ CheckIn \/ CheckInFailed \/ RowDone \/ Wake
  \/ StatusRead \/ StatusAnswer \/ StatusFailed

Spec == Init /\ [][Next]_vars

-----------------------------------------------------------------------------
\* `Online' is never said of a federation that has not checked in during the
\* window before the answer, read and comparison being two steps.
OnlineMeansRecent == answer.online => meta # Never /\ answer.at - meta < Window

\* The check-in shown never goes back, through crashes and failed check-ins.
CheckInAdvances == meta # Never => meta' # Never /\ meta' >= meta

-----------------------------------------------------------------------------
\* The inductive invariant: what was read is a check-in, perhaps replaced since, and the
\* last answer is based on one.
StampsArePast ==
  /\ meta # Never => meta <= now
  /\ read.last # Never => meta # Never /\ read.last <= meta

AnswerIsRecent ==
  /\ answer.at <= now
  /\ answer.online => /\ meta # Never /\ answer.last # Never
                      /\ answer.last <= meta /\ answer.last <= answer.at
                      /\ answer.at - answer.last < Window

IInv == TypeOK /\ StampsArePast /\ AnswerIsRecent
=============================================================================
