---------------------------- MODULE DesktopWithdraw ----------------------------
(***************************************************************************)
(* WithdrawPane of the desktop wallet, with sendEcx and createWithdrawal.  *)
(* `Burn' sends ECX to the zero address and keeps the hash in a field;     *)
(* `Initiate Withdrawal' burns first if the field is empty and then posts  *)
(* the request.  A handler goes on after its pane is closed; the hash in   *)
(* the field does not survive it.                                          *)
(***************************************************************************)
EXTENDS Naturals

CONSTANTS Network, Tx, None,
          MaxMounts   \* bound: how often the pane is opened

VARIABLES
  net,        \* settings.activeNetwork
  inst,       \* the mounted pane, 0 while it is closed
  mounts,     \* panes mounted so far
  burnTx,     \* the hash in the field
  busy,       \* the state `busy' of the mounted pane
  handlers,   \* click handlers at an await
  sent,       \* the chain a burn was sent to, None while unsent
  known,      \* burns whose hash sendEcx returned, and to which handler
  attempted,  \* requests posted, whether they arrived or not
  requests    \* the withdrawals table

vars == <<net, inst, mounts, burnTx, busy, handlers, sent, known, attempted, requests>>

Handler == [inst : 1 .. MaxMounts, kind : {"burn", "initiate"}, net : Network,
            step : {"burn", "submit"}, tx : Tx]
Request == [tx : Tx, network : Network]

TypeOK ==
  /\ net \in Network
  /\ inst \in 0 .. MaxMounts /\ mounts \in 0 .. MaxMounts
  /\ burnTx \in Tx \cup {None}
  /\ busy \in {None, "burn", "submit"}
  /\ handlers \subseteq Handler
  /\ sent \in [Tx -> Network \cup {None}]
  /\ known \subseteq Tx \X {"burn", "initiate"}
  /\ attempted \subseteq Request /\ requests \subseteq attempted

Init ==
  /\ net \in Network
  /\ inst = 0 /\ mounts = 0 /\ burnTx = None /\ busy = None
  /\ handlers = {} /\ sent = [t \in Tx |-> None] /\ known = {}
  /\ attempted = {} /\ requests = {}

Live(h) == h.inst = inst

-----------------------------------------------------------------------------
\* The pane is opened with fresh state, or closed with handlers still waiting.
Mount ==
  /\ inst = 0 /\ mounts < MaxMounts
  /\ mounts' = mounts + 1 /\ inst' = mounts + 1
  /\ burnTx' = None /\ busy' = None
  /\ UNCHANGED <<net, handlers, sent, known, attempted, requests>>

Unmount ==
  /\ inst # 0
  /\ inst' = 0
  /\ UNCHANGED <<net, mounts, burnTx, busy, handlers, sent, known, attempted, requests>>

\* NetworkTab: the pane is closed while the network is changed.
ChangeNetwork(n) ==
  /\ inst = 0 /\ n # net
  /\ net' = n
  /\ UNCHANGED <<inst, mounts, burnTx, busy, handlers, sent, known, attempted, requests>>

\* The user pastes the hash of a burn, or clears the field.
EditField ==
  /\ inst # 0
  /\ burnTx' \in {None} \cup {t \in Tx : sent[t] # None}
  /\ burnTx' # burnTx
  /\ UNCHANGED <<net, inst, mounts, busy, handlers, sent, known, attempted, requests>>

Unused(t) == sent[t] = None /\ \A h \in handlers : h.tx # t

Start(kind, step, t) ==
  /\ busy' = step
  /\ handlers' = handlers \cup
       {[inst |-> inst, kind |-> kind, net |-> net, step |-> step, tx |-> t]}

\* disabled={... || busy !== null} on both buttons.
Idle == inst # 0 /\ busy = None

\* `Burn ECX' calls doBurn; sendEcx reads the network and the key at once.
ClickBurn(t) ==
  /\ Idle /\ Unused(t)
  /\ Start("burn", "burn", t)
  /\ UNCHANGED <<net, inst, mounts, burnTx, sent, known, attempted, requests>>

\* `Initiate Withdrawal' with an empty field burns first.
InitiateBurns(t) ==
  /\ Idle /\ burnTx = None /\ Unused(t)
  /\ Start("initiate", "burn", t)
  /\ UNCHANGED <<net, inst, mounts, burnTx, sent, known, attempted, requests>>

\* With a hash in the field it submits.
InitiateSubmits ==
  /\ Idle /\ burnTx # None
  /\ Start("initiate", "submit", burnTx)
  /\ UNCHANGED <<net, inst, mounts, burnTx, sent, known, attempted, requests>>

\* Mutant: the second half of the handler is skipped once the pane is closed.
ContinueIfMounted(h) ==
  /\ handlers' = (handlers \ {h}) \cup
       (IF h.kind = "initiate" /\ Live(h) THEN {[h EXCEPT !.step = "submit"]} ELSE {})
  /\ busy' = IF ~Live(h) THEN busy ELSE IF h.kind = "initiate" THEN "submit" ELSE None

\* doBurn returned a hash: the initiate handler goes on to the request, with the
\* network of the render it was made in.
Continue(h) ==
  /\ handlers' = (handlers \ {h}) \cup
       (IF h.kind = "initiate" THEN {[h EXCEPT !.step = "submit"]} ELSE {})
  /\ busy' = IF ~Live(h) THEN busy ELSE IF h.kind = "initiate" THEN "submit" ELSE None

\* sendTransaction returns the hash.
Burned(h) ==
  /\ h \in handlers /\ h.step = "burn"
  /\ sent' = [sent EXCEPT ![h.tx] = h.net]
  /\ known' = known \cup {<<h.tx, h.kind>>}
  /\ burnTx' = IF Live(h) THEN h.tx ELSE burnTx
  /\ Continue(h)
  /\ UNCHANGED <<net, inst, mounts, attempted, requests>>

\* One of the calls of sendEcx fails, or the answer of the last is lost after
\* the transaction went out.
BurnFailed(h) ==
  /\ h \in handlers /\ h.step = "burn"
  /\ sent' \in {sent, [sent EXCEPT ![h.tx] = h.net]}
  /\ handlers' = handlers \ {h}
  /\ busy' = IF Live(h) THEN None ELSE busy
  /\ UNCHANGED <<net, inst, mounts, burnTx, known, attempted, requests>>

Body(h) == [tx |-> h.tx, network |-> h.net]

\* A submitted request clears the form of its pane.
Clear(h) == burnTx' = IF Live(h) THEN None ELSE burnTx

\* createWithdrawal is answered with an id.
Submitted(h) ==
  /\ h \in handlers /\ h.step = "submit"
  /\ attempted' = attempted \cup {Body(h)} /\ requests' = requests \cup {Body(h)}
  /\ handlers' = handlers \ {h}
  /\ Clear(h)
  /\ busy' = IF Live(h) THEN None ELSE busy
  /\ UNCHANGED <<net, inst, mounts, sent, known>>

\* It fails, before or after the row was made: the hash stays in the field.
SubmitFailed(h) ==
  /\ h \in handlers /\ h.step = "submit"
  /\ attempted' = attempted \cup {Body(h)}
  /\ requests' \in {requests, requests \cup {Body(h)}}
  /\ handlers' = handlers \ {h}
  /\ busy' = IF Live(h) THEN None ELSE busy
  /\ UNCHANGED <<net, inst, mounts, burnTx, sent, known>>

Next ==
  \/ Mount \/ Unmount \/ EditField \/ InitiateSubmits
  \/ \E n \in Network : ChangeNetwork(n)
  \/ \E t \in Tx : ClickBurn(t) \/ InitiateBurns(t)
  \/ \E h \in handlers : Burned(h) \/ BurnFailed(h) \/ Submitted(h) \/ SubmitFailed(h)

Spec == Init /\ [][Next]_vars

-----------------------------------------------------------------------------
\* `busy' of the open pane is the step of its one handler; handlers of closed
\* panes neither block it nor release it.
BusyIsTheHandler ==
  inst # 0 => \/ busy = None /\ \A h \in handlers : h.inst # inst
              \/ \E g \in handlers : busy = g.step /\ \A h \in handlers : h.inst = inst <=> h = g

\* ECX burned by `Initiate Withdrawal', with its hash known, is claimed on the
\* network it was burned on: the request was posted, or is about to be, even when
\* the pane was closed and the network changed while the burn was under way.
KnownBurnsAreClaimed ==
  \A k \in known : k[2] = "initiate" =>
    LET claim == [tx |-> k[1], network |-> sent[k[1]]]
    IN claim \in attempted \/ \E h \in handlers : h.step = "submit" /\ Body(h) = claim

-----------------------------------------------------------------------------
\* The inductive invariant.  Handlers belong to panes mounted so far, an unsent burn has
\* one handler, and the field and the answers hold hashes of what was sent.
HandlersOfPanes == inst <= mounts /\ \A h \in handlers : h.inst <= mounts

BurnsAreUnsent ==
  \A h \in handlers :
    /\ h.step = "burn" <=> sent[h.tx] = None
    /\ \A g \in handlers : h.step = "burn" /\ g.tx = h.tx => g = h

HashesWereSent ==
  /\ burnTx # None => sent[burnTx] # None
  /\ \A k \in known : sent[k[1]] # None

IInv == TypeOK /\ HandlersOfPanes /\ BusyIsTheHandler /\ BurnsAreUnsent /\ HashesWereSent /\ KnownBurnsAreClaimed
=============================================================================
