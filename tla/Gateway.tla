-------------------------------- MODULE Gateway --------------------------------
(***************************************************************************)
(* How the API worker routes a request: handlers in the order they are     *)
(* registered, the bearer check in front of /v1/fed/*, the RPC proxies and *)
(* the esplora proxy that takes what is left of /v1/*; and how the page,   *)
(* the desktop wallet and the federation put their URLs together.  A path  *)
(* is the sequence of its segments.                                        *)
(***************************************************************************)
EXTENDS Sequences, Naturals, FiniteSets

CONSTANTS Token,     \* FEDERATION_TOKEN
          NoToken    \* any other Authorization header, or none

Networks == {"mainnet", "testnet", "signet"}

\* The bridge and federation routes: method, path after /v1, the handler.  A
\* segment "id" stands for a parameter.
SystemRoutes == {
  <<"GET",   <<"status">>,                            "apiStatus">>,
  <<"GET",   <<"bridge", "status">>,                  "bridgeStatus">> }

DepositRoutes == {
  <<"POST",  <<"bridge", "deposit">>,                 "createDeposit">>,
  <<"GET",   <<"bridge", "deposit", "id">>,           "getDeposit">>,
  <<"GET",   <<"bridge", "deposits", "id">>,          "listDeposits">> }

WithdrawRoutes == {
  <<"POST",  <<"bridge", "withdraw">>,                "createWithdrawal">>,
  <<"GET",   <<"bridge", "withdrawals", "id">>,       "listWithdrawals">> }

FedDepositRoutes == {
  <<"POST",  <<"fed", "checkin">>,                    "checkin">>,
  <<"GET",   <<"fed", "deposits", "pending">>,        "pendingDeposits">>,
  <<"PATCH", <<"fed", "deposit", "id">>,              "patchDeposit">> }

FedWithdrawRoutes == {
  <<"GET",   <<"fed", "deposits", "funded">>,         "fundedDeposits">>,
  <<"GET",   <<"fed", "withdrawals", "pending">>,     "pendingWithdrawals">>,
  <<"PATCH", <<"fed", "withdraw", "id">>,             "patchWithdrawal">> }

FedRoutes == FedDepositRoutes \cup FedWithdrawRoutes
Routes == SystemRoutes \cup DepositRoutes \cup WithdrawRoutes \cup FedRoutes

FedHandlers == {r[3] : r \in FedRoutes}

\* What a client asks for: the base URL it has, the path it appends.  The page's base
\* ends in /v1 and its paths begin with /bridge; so does the base the desktop wallet
\* ships with, but its paths begin with /v1/bridge.
Bases == {<<"v1">>, <<>>, <<"v1", "esplora", "signet">>, <<"v1", "esplora", "other">>}
Tails == {r[2] : r \in Routes} \cup {<<"v1">> \o r[2] : r \in Routes}
         \cup {<<n>> : n \in Networks} \cup {<<"blocks", "tip">>, <<"fed", "other">>, <<"esplora">>}

Call == [method : {"GET", "POST", "PATCH"}, base : Bases, tail : Tails, auth : {Token, NoToken}]

VARIABLES
  call,    \* the client's call, or no call yet
  pc,      \* where the worker is with it
  answer   \* who answered and with which upstream path

vars == <<call, pc, answer>>

NoAnswer == [by |-> "nobody", network |-> "none", path |-> <<>>]

Init == call \in Call /\ pc = "received" /\ answer = NoAnswer

Url(c) == c.base \o c.tail
Rest(p) == SubSeq(p, 2, Len(p))

\* Does a path match the pattern of a route.
Matches(p, pattern) ==
  /\ Len(p) = Len(pattern)
  /\ \A i \in 1 .. Len(p) : pattern[i] \in {p[i], "id"}

\* app.use('/v1/fed/*').
UnderFed(p) == Len(p) >= 2 /\ p[1] = "v1" /\ p[2] = "fed"

\* The token is asked for below /v1/fed.
Passed(c) == UnderFed(Url(c)) => c.auth = Token

\* The middleware answers 401 or passes on.
Authorise ==
  /\ pc = "received"
  /\ IF Passed(call)
     THEN pc' = "routing" /\ UNCHANGED answer
     ELSE pc' = "done" /\ answer' = [NoAnswer EXCEPT !.by = "unauthorized"]
  /\ UNCHANGED call

\* The routes registered with openapi.
Matching(c) ==
  {r \in Routes : r[1] = c.method /\ Url(c) # <<>> /\ Url(c)[1] = "v1" /\ Matches(Rest(Url(c)), r[2])}

Handle ==
  /\ pc = "routing" /\ Matching(call) # {}
  /\ \E r \in Matching(call) : answer' = [NoAnswer EXCEPT !.by = r[3]]
  /\ pc' = "done"
  /\ UNCHANGED call

\* The RPC proxies, /{network} and below, any method: the upstream path is fixed.
ProxyRpc ==
  /\ pc = "routing" /\ Matching(call) = {}
  /\ Url(call) # <<>> /\ Url(call)[1] \in Networks
  /\ answer' \in {[by |-> b, network |-> Url(call)[1], path |-> <<>>] : b \in {"rpc", "rpcFailed"}}
  /\ pc' = "done"
  /\ UNCHANGED call

\* /esplora/{network}/... goes to that network, everything else to testnet.
Esplora(p) ==
  IF Len(p) >= 2 /\ p[1] = "esplora"
  THEN [network |-> IF p[2] \in Networks THEN p[2] ELSE "testnet", path |-> Rest(Rest(p))]
  ELSE [network |-> "testnet", path |-> p]

\* The catch-all of /v1/*.
ProxyEsplora ==
  /\ pc = "routing" /\ Matching(call) = {}
  /\ Url(call) # <<>> /\ Url(call)[1] = "v1"
  /\ LET e == Esplora(Rest(Url(call)))
     IN answer' \in {[by |-> b, network |-> e.network, path |-> e.path] : b \in {"esplora", "esploraFailed"}}
  /\ pc' = "done"
  /\ UNCHANGED call

NotFound ==
  /\ pc = "routing" /\ Matching(call) = {}
  /\ Url(call) = <<>> \/ Url(call)[1] \notin Networks \cup {"v1"}
  /\ answer' = [NoAnswer EXCEPT !.by = "notFound"]
  /\ pc' = "done"
  /\ UNCHANGED call

Next == Authorise \/ Handle \/ ProxyRpc \/ ProxyEsplora \/ NotFound

Spec == Init /\ [][Next]_vars

-----------------------------------------------------------------------------
\* No path, method or combination of prefixes reaches a federation handler
\* without the token.
FedNeedsToken == answer.by \in FedHandlers => call.auth = Token

\* A request for a handler of this worker is never sent to an upstream: the
\* catch-all that takes every other /v1 path is the last to be asked.
OwnPathsStayHere ==
  answer.by \in {"esplora", "esploraFailed", "rpc", "rpcFailed"} =>
    ~\E r \in Routes : r[1] = call.method /\ Url(call) = <<"v1">> \o r[2]

-----------------------------------------------------------------------------
\* The inductive invariant: who answered follows from the call.
Decided ==
  /\ pc \in {"received", "routing"} => answer = NoAnswer
  /\ pc = "routing" => Passed(call)
  /\ pc = "done" => \/ ~Passed(call) /\ answer.by = "unauthorized"
                    \/ Passed(call) /\ \E r \in Matching(call) : answer.by = r[3]
                    \/ /\ Matching(call) = {}
                       /\ answer.by \in {"rpc", "rpcFailed", "esplora", "esploraFailed", "notFound"}

IInv == call \in Call /\ pc \in {"received", "routing", "done"} /\ Decided
=============================================================================
