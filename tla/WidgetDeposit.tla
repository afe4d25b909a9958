----------------------------- MODULE WidgetDeposit -----------------------------
(***************************************************************************)
(* The deposit form of the bridge page (BridgeWidget.astro): `Generate     *)
(* address' posts a request and polls it every three seconds; the answers  *)
(* of the polls come back in any order and write to the same elements of   *)
(* the page.  Nothing ties an answer to the deposit now on the screen, and *)
(* one global, depositPollId, names the interval to clear.                 *)
(*                                                                         *)
(* The federation and the API are an environment here (see DepositFlow):   *)
(* the row of a deposit moves from pending to minted.                      *)
(***************************************************************************)
EXTENDS Naturals, FiniteSets

CONSTANTS Deposit, None,
          MaxFaults   \* bound: lost calls

VARIABLES
  server,     \* the deposits table, as GET /bridge/deposit/:id shows it
  posts,      \* POST /bridge/deposit calls in flight
  gets,       \* answers of GET /bridge/deposit/:id on their way
  timers,     \* live intervals, each polls one deposit
  pollId,     \* depositPollId: the interval created last, cleared or not
  latest,     \* the deposit the user asked for last
  loading,    \* #deposit-loading
  qr,         \* is #deposit-qr-wrap visible
  addr,       \* the deposit whose address #deposit-addr shows
  badge,      \* the deposit and status #deposit-status shows
  faults

vars == <<server, posts, gets, timers, pollId, latest, loading, qr, addr, badge, faults>>

Stage  == {"none", "pending", "address", "confirmed", "minted"}
Answer == [dep : Deposit, stage : Stage]

TypeOK ==
  /\ server \in [Deposit -> Stage]
  /\ posts \subseteq Deposit
  /\ gets \subseteq Answer
  /\ timers \subseteq Deposit
  /\ pollId \in Deposit \cup {None}
  /\ latest \in Deposit \cup {None}
  /\ loading \in {"hidden", "generating", "waiting", "error"}
  /\ qr \in BOOLEAN
  /\ addr \in Deposit \cup {None}
  /\ badge \in [dep : Deposit, stage : {"confirmed", "minted"}] \cup {None}
  /\ faults \in 0 .. MaxFaults

Init ==
  /\ server = [d \in Deposit |-> "none"]
  /\ posts = {} /\ gets = {} /\ timers = {}
  /\ pollId = None /\ latest = None
  /\ loading = "hidden" /\ qr = FALSE /\ addr = None /\ badge = None
  /\ faults = 0

Lost == faults < MaxFaults /\ faults' = faults + 1

-----------------------------------------------------------------------------
\* The click handler of #generate-deposit, up to its await.  The status badge
\* of an earlier deposit stays.
Generate(d) ==
  /\ server[d] = "none" /\ d \notin posts
  /\ posts' = posts \cup {d}
  /\ latest' = d
  /\ loading' = "generating"
  /\ qr' = FALSE
  /\ UNCHANGED <<server, gets, timers, pollId, addr, badge, faults>>

\* POST /v1/bridge/deposit inserts the row.
Created(d) ==
  /\ d \in posts /\ server[d] = "none"
  /\ server' = [server EXCEPT ![d] = "pending"]
  /\ UNCHANGED <<posts, gets, timers, pollId, latest, loading, qr, addr, badge, faults>>

\* Mutant: the interval of the earlier deposit is not cleared.
PollDepositKeep(d) == timers' = timers \cup {d} /\ pollId' = d

\* pollDeposit: clear the last interval, start another.
PollDeposit(d) == timers' = (timers \ {pollId}) \cup {d} /\ pollId' = d

Posted(d) ==
  /\ d \in posts /\ server[d] # "none"
  /\ posts' = posts \ {d}
  /\ loading' = "waiting"
  /\ PollDeposit(d)
  /\ UNCHANGED <<server, gets, latest, qr, addr, badge, faults>>

\* The call fails; the row may have been created.
PostFailed(d) ==
  /\ d \in posts
  /\ Lost
  /\ posts' = posts \ {d}
  /\ loading' = "error"
  /\ UNCHANGED <<server, gets, timers, pollId, latest, qr, addr, badge>>

\* The API refuses and answers without an id, which changes nothing on the page.
PostRefused(d) ==
  /\ d \in posts /\ server[d] = "none"
  /\ Lost
  /\ posts' = posts \ {d}
  /\ UNCHANGED <<server, gets, timers, pollId, latest, loading, qr, addr, badge>>

\* The interval fires and the API answers; the answer is then under way.
Poll(d) ==
  /\ d \in timers
  /\ gets' = gets \cup {[dep |-> d, stage |-> server[d]]}
  /\ UNCHANGED <<server, posts, timers, pollId, latest, loading, qr, addr, badge, faults>>

\* Mutant: polling ends as soon as the deposit is confirmed.
StopConfirmed(a) == timers' = IF a.stage \in {"confirmed", "minted"} THEN timers \ {pollId} ELSE timers

\* clearInterval(depositPollId) on 'minted', whichever deposit that id polls now.
Stop(a) == timers' = IF a.stage = "minted" THEN timers \ {pollId} ELSE timers

\* setStatusBadge, unless the status is 'pending'.
ShowBadge(a) == badge' = IF a.stage \in {"confirmed", "minted"} THEN a ELSE badge

\* The continuation of the poll: every answer is shown.
Answered(a) ==
  /\ a \in gets
  /\ gets' = gets \ {a}
  /\ IF a.stage \in {"address", "confirmed", "minted"}
     THEN loading' = "hidden" /\ qr' = TRUE /\ addr' = a.dep
     ELSE UNCHANGED <<loading, qr, addr>>
  /\ ShowBadge(a)
  /\ Stop(a)
  /\ UNCHANGED <<server, posts, pollId, latest, faults>>

AnswerLost(a) ==
  /\ a \in gets
  /\ Lost
  /\ gets' = gets \ {a}
  /\ UNCHANGED <<server, posts, timers, pollId, latest, loading, qr, addr, badge>>

\* The federation's side.
Advance(d) ==
  /\ \E s \in {<<"pending", "address">>, <<"address", "confirmed">>, <<"confirmed", "minted">>} :
       server[d] = s[1] /\ server' = [server EXCEPT ![d] = s[2]]
  /\ UNCHANGED <<posts, gets, timers, pollId, latest, loading, qr, addr, badge, faults>>

-----------------------------------------------------------------------------
Next ==
  \/ \E d \in Deposit : \/ Generate(d) \/ Created(d) \/ Posted(d) \/ PostFailed(d) \/ PostRefused(d)
                        \/ Poll(d) \/ Advance(d)
  \/ \E a \in gets : Answered(a) \/ AnswerLost(a)

Spec == Init /\ [][Next]_vars

-----------------------------------------------------------------------------
\* Two requests may be under way at once and be answered in either order; still
\* at most one interval is live, the one depositPollId names (pollDeposit).
OneInterval == timers \subseteq {pollId}

\* An interval ends only because another one took its place, or because some
\* deposit of this page was minted.
PollEndsForAReason ==
  \A d \in timers \ timers' :
    \/ \E e \in timers' : e # d
    \/ \E e \in Deposit : server[e] = "minted"

\* While the page says it waits for an address, an interval is live: whatever
\* late answer ends the interval also takes that text away.
WaitingIsPolling == loading = "waiting" => timers # {}

-----------------------------------------------------------------------------
\* The inductive invariant: an answer on its way that says `minted' tells the truth.
MintedAnswersAreTrue == \A a \in gets : a.stage = "minted" => server[a.dep] = "minted"

IInv == TypeOK /\ OneInterval /\ WaitingIsPolling /\ MintedAnswersAreTrue
=============================================================================
