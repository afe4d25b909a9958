---------------------------- MODULE DesktopDeposit ----------------------------
(***************************************************************************)
(* DepositPane of the desktop wallet: create a deposit, then poll it every *)
(* ten seconds until it is minted.  The effect is keyed on the deposit's   *)
(* id and status; its cleanup clears the interval but does not cancel a    *)
(* call that waits, whose answer still replaces the deposit shown.         *)
(***************************************************************************)
EXTENDS Naturals, FiniteSets

CONSTANTS Deposit, None,
          MaxFaults   \* bound: failed calls

VARIABLES
  server,    \* the deposits table: the stage of each deposit
  creating,  \* createDeposit and the getDeposit after it, in flight
  busy,      \* the button is disabled
  shown,     \* the state `deposit'
  timer,     \* the deposit the interval of the current effect polls
  gets,      \* answers of getDeposit on their way
  latest,    \* the deposit created last
  faults

vars == <<server, creating, busy, shown, timer, gets, latest, faults>>

Stage  == {"none", "pending", "address", "confirmed", "minted"}
Answer == [dep : Deposit, stage : Stage \ {"none"}]

TypeOK ==
  /\ server \in [Deposit -> Stage]
  /\ creating \subseteq Deposit /\ busy \in BOOLEAN
  /\ shown \in Answer \cup {None}
  /\ timer \in Deposit \cup {None}
  /\ gets \subseteq Answer
  /\ latest \in Deposit \cup {None}
  /\ faults \in 0 .. MaxFaults

Init ==
  /\ server = [d \in Deposit |-> "none"]
  /\ creating = {} /\ busy = FALSE /\ shown = None /\ timer = None
  /\ gets = {} /\ latest = None /\ faults = 0

\* The row's status: a row with an address is still 'pending'.
Status(a) == IF a.stage \in {"pending", "address"} THEN "pending" ELSE a.stage

Row(d) == [dep |-> d, stage |-> server[d]]

-----------------------------------------------------------------------------

\* What the effect polls for a deposit.
Polled(a) == IF Status(a) = "minted" THEN None ELSE a.dep

\* The effect: it runs again only when the id or the status changes.
Effect(a) ==
  timer' = IF shown # None /\ shown.dep = a.dep /\ Status(shown) = Status(a)
           THEN timer ELSE Polled(a)

\* setDeposit and the effect after the render.
SetDeposit(a) == shown' = a /\ Effect(a)

\* The click handler of `Create Deposit Address'.
Create(d) ==
  /\ ~busy /\ server[d] = "none" /\ d \notin creating
  /\ creating' = creating \cup {d}
  /\ busy' = TRUE
  /\ UNCHANGED <<server, shown, timer, gets, latest, faults>>

\* POST /v1/bridge/deposit.
Created(d) ==
  /\ d \in creating /\ server[d] = "none"
  /\ server' = [server EXCEPT ![d] = "pending"]
  /\ UNCHANGED <<creating, busy, shown, timer, gets, latest, faults>>

\* The two calls are answered and the new deposit is shown.
Ready(d) ==
  /\ d \in creating /\ server[d] # "none"
  /\ creating' = creating \ {d}
  /\ busy' = FALSE
  /\ latest' = d
  /\ SetDeposit(Row(d))
  /\ UNCHANGED <<server, gets, faults>>

\* One of them fails: the row may exist, its id is lost with the answer.
CreateFailed(d) ==
  /\ d \in creating
  /\ faults < MaxFaults /\ faults' = faults + 1
  /\ creating' = creating \ {d}
  /\ busy' = FALSE
  /\ UNCHANGED <<server, shown, timer, gets, latest>>

\* The interval fires and the API reads the row.
Poll ==
  /\ timer # None
  /\ gets' = gets \cup {Row(timer)}
  /\ UNCHANGED <<server, creating, busy, shown, timer, latest, faults>>

\* The answer comes, in any order with others.
Answered(a) ==
  /\ a \in gets
  /\ gets' = gets \ {a}
  /\ SetDeposit(a)
  /\ UNCHANGED <<server, creating, busy, latest, faults>>

\* It does not: `transient'.
PollFailed(a) ==
  /\ a \in gets
  /\ faults < MaxFaults /\ faults' = faults + 1
  /\ gets' = gets \ {a}
  /\ UNCHANGED <<server, creating, busy, shown, timer, latest>>

\* The federation's side, see DepositFlow.
Advance(d) ==
  /\ \E s \in {<<"pending", "address">>, <<"address", "confirmed">>, <<"confirmed", "minted">>} :
       server[d] = s[1] /\ server' = [server EXCEPT ![d] = s[2]]
  /\ UNCHANGED <<creating, busy, shown, timer, gets, latest, faults>>

Next ==
  \/ \E d \in Deposit : Create(d) \/ Created(d) \/ Ready(d) \/ CreateFailed(d) \/ Advance(d)
  \/ \E a \in gets : Answered(a) \/ PollFailed(a)
  \/ Poll

Spec == Init /\ [][Next]_vars

-----------------------------------------------------------------------------
\* What is polled is what is shown, and it is polled exactly while it is not
\* minted: answers out of order, for other deposits or older than the status
\* shown restart the interval or end it, never leave it behind.
PolledIsShown ==
  timer = IF shown = None \/ shown.stage = "minted" THEN None ELSE shown.dep

\* A mint is shown in the end for the deposit on the screen, although a late
\* 'confirmed' may take it back for a while.
MintIsShown ==
  \A d \in Deposit :
    (shown # None /\ shown.dep = d /\ server[d] = "minted")
    ~> (shown = None \/ shown.dep # d \/ shown.stage = "minted")

-----------------------------------------------------------------------------
\* The inductive invariant: an answer and the deposit shown have a row in the table.
RowsExist ==
  /\ \A a \in gets : server[a.dep] # "none"
  /\ shown # None => server[shown.dep] # "none"

IInv == TypeOK /\ PolledIsShown /\ RowsExist
=============================================================================
