---------------------------- MODULE WidgetWithdraw ----------------------------
(***************************************************************************)
(* The withdrawal form of the bridge page (BridgeWidget.astro).  A user    *)
(* burns ECX with the browser wallet, `Burn ECX' or the first click on     *)
(* `Initiate Withdrawal', and then posts the request with the hash of the  *)
(* burn.  The wallet asks the user before it sends or switches: each       *)
(* prompt stays open for any time while the page goes on, and the wallet   *)
(* sends on the chain it is on when the user accepts.  What becomes of a   *)
(* request in the API's table is WithdrawFlow's.                           *)
(***************************************************************************)
EXTENDS Naturals, FiniteSets

CONSTANTS Network, Tx, None,
          MaxSwitch,  \* bound: prompts to switch the chain
          MaxPosts    \* bound: requests in flight

VARIABLES
  currentNetwork,  \* what #network-select says
  connected,       \* is walletAddress set
  chain,           \* the chain the wallet is on
  switches,        \* open wallet_switchEthereumChain prompts
  switched,        \* how many of them were opened
  burns,           \* open eth_sendTransaction prompts and who awaits them
  burned,          \* the chain a transaction went to, None while unsent
  field,           \* #withdraw-burn-tx
  result,          \* #withdraw-result
  disabled,        \* #burn-ecx.disabled
  posts            \* POST /bridge/withdraw calls in flight, with what they say

vars == <<currentNetwork, connected, chain, switches, switched, burns, burned, field,
          result, disabled, posts>>
wallet == <<chain, switches, switched>>

\* What #withdraw-burn-tx may hold: nothing, the hash of a burn of this wallet, or any
\* other text the user types, which nobody checks.
Text    == Tx \cup {None, "other"}
Prompt  == [tx : Tx, by : {"burn", "initiate"}]
Request == [network : Network, tx : Text]

TypeOK ==
  /\ currentNetwork \in Network /\ connected \in BOOLEAN
  /\ chain \in Network /\ switches \subseteq Network /\ switched \in 0 .. MaxSwitch
  /\ burns \subseteq Prompt /\ burned \in [Tx -> Network \cup {None}]
  /\ field \in Text
  /\ result \in {"blank", "burning", "burned", "submitting", "submitted", "error"}
  /\ disabled \in BOOLEAN
  /\ posts \subseteq Request

Init ==
  /\ currentNetwork \in Network /\ connected = FALSE
  /\ chain \in Network /\ switches = {} /\ switched = 0
  /\ burns = {} /\ burned = [t \in Tx |-> None]
  /\ field = None /\ result = "blank" /\ disabled = FALSE
  /\ posts = {}

-----------------------------------------------------------------------------
\* switchNetwork, up to the prompt.
SwitchNetwork(n) ==
  /\ switched < MaxSwitch
  /\ switched' = switched + 1
  /\ switches' = switches \cup {n}

\* connectWallet: the accounts are granted, then the chain is asked for.
ConnectWallet ==
  /\ ~connected
  /\ connected' = TRUE
  /\ SwitchNetwork(currentNetwork)
  /\ UNCHANGED <<currentNetwork, chain, burns, burned, field, result, disabled, posts>>

\* disconnectWallet, from its button or from accountsChanged with no account:
\* the burn hash and the result stay on the page.
DisconnectWallet ==
  /\ connected
  /\ connected' = FALSE
  /\ UNCHANGED <<currentNetwork, wallet, burns, burned, field, result, disabled, posts>>

\* The change handler of #network-select does not wait for the wallet.
SelectNetwork(n) ==
  /\ n # currentNetwork
  /\ currentNetwork' = n
  /\ IF connected THEN SwitchNetwork(n) ELSE UNCHANGED <<switches, switched>>
  /\ UNCHANGED <<connected, chain, burns, burned, field, result, disabled, posts>>

\* The user accepts a switch, or refuses it: then only the console knows.
AnswerSwitch(n) ==
  /\ n \in switches
  /\ switches' = switches \ {n}
  /\ chain' \in {n, chain}
  /\ UNCHANGED <<currentNetwork, connected, switched, burns, burned, field, result, disabled, posts>>

-----------------------------------------------------------------------------
\* burnECX, up to the prompt: t is the transaction the wallet is asked for.
BurnECX(t, by) ==
  /\ burned[t] = None /\ \A b \in burns : b.tx # t
  /\ burns' = burns \cup {[tx |-> t, by |-> by]}
  /\ result' = "burning"

\* The click handler of #burn-ecx.
ClickBurn(t) ==
  /\ ~disabled /\ connected
  /\ BurnECX(t, "burn")
  /\ UNCHANGED <<currentNetwork, connected, wallet, burned, field, disabled, posts>>

\* The click handler of #initiate-withdraw without a hash and with a wallet.
InitiateBurns(t) ==
  /\ field = None /\ connected
  /\ disabled' = TRUE
  /\ BurnECX(t, "initiate")
  /\ UNCHANGED <<currentNetwork, connected, wallet, burned, field, posts>>

\* The body of the POST.
Body == [network |-> currentNetwork, tx |-> field]

\* The same handler with a hash, or without a wallet.
InitiatePosts ==
  /\ field # None \/ ~connected
  /\ Body \notin posts /\ Cardinality(posts) < MaxPosts
  /\ posts' = posts \cup {Body}
  /\ result' = "submitting"
  /\ UNCHANGED <<currentNetwork, connected, wallet, burns, burned, field, disabled>>

\* #burn-ecx is enabled again on both paths of the initiate handler.
Enable(b, sent) == disabled' = IF b.by = "initiate" THEN FALSE ELSE disabled

\* The wallet sends on its chain and burnECX fills in the hash.
Fill(b) == field' = b.tx /\ burned' = [burned EXCEPT ![b.tx] = chain]

\* The user accepts the burn; the initiate handler then says `submitted'.
BurnSent(b) ==
  /\ b \in burns
  /\ burns' = burns \ {b}
  /\ Fill(b)
  /\ result' = IF b.by = "initiate" THEN "submitted" ELSE "burned"
  /\ Enable(b, TRUE)
  /\ UNCHANGED <<currentNetwork, connected, wallet, posts>>

BurnRefused(b) ==
  /\ b \in burns
  /\ burns' = burns \ {b}
  /\ result' = "error"
  /\ Enable(b, FALSE)
  /\ UNCHANGED <<currentNetwork, connected, wallet, burned, field, posts>>

\* The API inserts the row, answers, and the page shows the id.
Posted(r) ==
  /\ r \in posts
  /\ posts' = posts \ {r}
  /\ result' = "submitted"
  /\ UNCHANGED <<currentNetwork, connected, wallet, burns, burned, field, disabled>>

\* The call is lost before the API, or its answer after the insert.
PostFailed(r) ==
  /\ r \in posts
  /\ posts' = posts \ {r}
  /\ result' = "error"
  /\ UNCHANGED <<currentNetwork, connected, wallet, burns, burned, field, disabled>>

\* The API refuses and answers without an id: `Submitting...' stays.
PostRefused(r) ==
  /\ r \in posts
  /\ posts' = posts \ {r}
  /\ UNCHANGED <<currentNetwork, connected, wallet, burns, burned, field, result, disabled>>

\* The user clears the field, pastes the hash of a burn, or types anything else.
EditField ==
  /\ field' \in {None, "other"} \cup {t \in Tx : burned[t] # None}
  /\ field' # field
  /\ UNCHANGED <<currentNetwork, connected, wallet, burns, burned, result, disabled, posts>>

\* The user answers a prompt of the wallet, one way or the other.
AnswerBurn == \E b \in burns : BurnSent(b) \/ BurnRefused(b)

-----------------------------------------------------------------------------
Next ==
  \/ ConnectWallet \/ DisconnectWallet \/ InitiatePosts \/ EditField
  \/ \E n \in Network : SelectNetwork(n) \/ AnswerSwitch(n)
  \/ \E t \in Tx : ClickBurn(t) \/ InitiateBurns(t)
  \/ AnswerBurn
  \/ \E r \in posts : Posted(r) \/ PostFailed(r) \/ PostRefused(r)

Spec == Init /\ [][Next]_vars

-----------------------------------------------------------------------------
\* `Burning...' is shown only while a burn started by the initiate handler is
\* open, however many handlers run and whoever disconnects meanwhile.
DisabledWhileBurning == disabled => \E b \in burns : b.by = "initiate"

\* The burn button comes back, whether the burn is sent, refused or the wallet
\* is disconnected while the prompt is open.
ButtonComesBack == disabled = TRUE ~> disabled = FALSE

-----------------------------------------------------------------------------
\* The inductive invariant.
IInv == TypeOK /\ DisabledWhileBurning
=============================================================================
