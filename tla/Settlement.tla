------------------------------ MODULE Settlement ------------------------------
(***************************************************************************)
(* What either half of the bridge promises to its users, without the loop, *)
(* the chains and the calls: an order is settled by one transaction, and   *)
(* no other is sent for it as long as the service knows of one.  A crash,  *)
(* or an answer that does not come, makes the service forget a             *)
(* transaction; only then does it send another.  For a deposit the         *)
(* transaction is the mint on the L2, for a withdrawal the payout on the   *)
(* L1.                                                                     *)
(***************************************************************************)
CONSTANTS Order, Tx

VARIABLES state,   \* of each order
          known,   \* transactions for it that the service keeps track of
          lost     \* transactions for it that it has lost track of

v == <<state, known, lost>>

Init ==
  /\ state = [o \in Order |-> "none"]
  /\ known = [o \in Order |-> {}]
  /\ lost  = [o \in Order |-> {}]

Fresh(t) == \A o \in Order : t \notin known[o] \cup lost[o]

Submit(o) ==
  /\ state[o] = "none"
  /\ state' = [state EXCEPT ![o] = "open"]
  /\ UNCHANGED <<known, lost>>

\* A transaction is sent for an open order, when none is known; it may be lost at once.
Send(o, t) ==
  /\ state[o] = "open" /\ known[o] = {} /\ Fresh(t)
  /\ \/ known' = [known EXCEPT ![o] = {t}] /\ UNCHANGED lost
     \/ lost' = [lost EXCEPT ![o] = @ \cup {t}] /\ UNCHANGED known
  /\ UNCHANGED state

Forget(o, t) ==
  /\ state[o] = "open" /\ t \in known[o]
  /\ known' = [known EXCEPT ![o] = {}]
  /\ lost'  = [lost EXCEPT ![o] = @ \cup {t}]
  /\ UNCHANGED state

\* A transaction turns out to have had no effect.
Void(o, t) ==
  /\ t \in known[o] => state[o] = "open"
  /\ t \in known[o] \cup lost[o]
  /\ known' = [known EXCEPT ![o] = @ \ {t}]
  /\ lost'  = [lost EXCEPT ![o] = @ \ {t}]
  /\ UNCHANGED state

\* An order ends, with its transaction or without any the service knows of.
Settle(o) ==
  /\ state[o] = "open" /\ known[o] # {}
  /\ state' = [state EXCEPT ![o] = "settled"]
  /\ UNCHANGED <<known, lost>>

Drop(o) ==
  /\ state[o] = "open" /\ known[o] = {}
  /\ state' = [state EXCEPT ![o] = "dropped"]
  /\ UNCHANGED <<known, lost>>

Next ==
  \E o \in Order :
    \/ Submit(o) \/ Settle(o) \/ Drop(o)
    \/ \E t \in Tx : Send(o, t) \/ Forget(o, t) \/ Void(o, t)

Spec == Init /\ [][Next]_v
=============================================================================
