----------------------------- MODULE ServerProofs -----------------------------
(***************************************************************************)
(* TLAPS proofs about the API (MCApps): the status it derives from the     *)
(* federation's check-in, for every window, length of a cycle and horizon, *)
(* and the routing of its requests.                                        *)
(***************************************************************************)
EXTENDS ClientProofs

(* What the assumptions say of the constants of the check-in. *)
LEMMA ServerConstants ==
  OnlineWindow \in Nat /\ CycleRows \in Nat /\ RowTicks \in Nat /\ Horizon \in Nat
BY AppsAssumption

-----------------------------------------------------------------------------
(***************************************************************************)
(* The check-in.                                                           *)
(***************************************************************************)
(* The inductive invariant of the check-in holds in the beginning. *)
LEMMA CheckInInit == HB!Init => HB!IInv
<1> SUFFICES ASSUME HB!Init PROVE HB!IInv
  OBVIOUS
<1>1. now \in HB!Time /\ rows \in 0 .. CycleRows /\ meta \in HB!Time \cup {HB!Never}
  BY ServerConstants DEF HB!Init, HB!Time
<1>2. wait \in 0 .. (IF RowTicks > 1 THEN RowTicks ELSE 1)
  BY ServerConstants DEF HB!Init
<1>3. ok \in BOOLEAN
  BY DEF HB!Init
<1>4. /\ read \in [on : BOOLEAN, last : HB!Time \cup {HB!Never}]
      /\ answer \in [online : BOOLEAN, last : HB!Time \cup {HB!Never}, at : HB!Time]
  BY <1>1 DEF HB!Init
<1>5. HB!TypeOK
  BY <1>1, <1>2, <1>3, <1>4 DEF HB!TypeOK, HB!Init
<1>6. HB!StampsArePast /\ HB!AnswerIsRecent
  BY DEF HB!Init, HB!StampsArePast, HB!AnswerIsRecent
<1> QED BY <1>5, <1>6 DEF HB!IInv

(* Every step of the federation, the API and the clock keeps the types. *)
LEMMA CheckInTypeStep == HB!TypeOK /\ [HB!Next]_hb => HB!TypeOK'
<1> SUFFICES ASSUME HB!TypeOK, [HB!Next]_hb PROVE HB!TypeOK'
  OBVIOUS
<1> USE ServerConstants
<1>0. ok' \in BOOLEAN
  BY DEF HB!TypeOK, HB!Next, HB!Tick, HB!Boot, HB!Crash, HB!CheckIn, HB!CheckInFailed, HB!RowDone,
     HB!Wake, HB!StatusRead, HB!StatusAnswer, HB!StatusFailed, hb
<1>1. CASE HB!Tick
  <2>1. now' \in HB!Time /\ wait' \in 0 .. (IF RowTicks > 1 THEN RowTicks ELSE 1)
    BY <1>1 DEF HB!Tick, HB!TypeOK, HB!Time
  <2> QED BY <1>0, <1>1, <2>1 DEF HB!Tick, HB!TypeOK
<1>2. CASE HB!Boot \/ HB!Crash \/ HB!Wake
  BY <1>0, <1>2 DEF HB!Boot, HB!Crash, HB!Wake, HB!TypeOK
<1>3. ASSUME HB!BeginRows
      PROVE  /\ pc' \in {"checkin", "rows", "sleep", "down"} /\ rows' \in 0 .. CycleRows
             /\ wait' \in 0 .. (IF RowTicks > 1 THEN RowTicks ELSE 1)
  BY <1>3 DEF HB!BeginRows
<1>4. CASE HB!CheckIn \/ HB!CheckInFailed
  <2>1. HB!BeginRows /\ meta' \in {meta, now} /\ UNCHANGED <<now, read, answer>>
    BY <1>4 DEF HB!CheckIn, HB!CheckInFailed, HB!Stamp
  <2> QED BY <1>0, <1>3, <2>1 DEF HB!TypeOK
<1>5. CASE HB!RowDone
  <2>1. /\ pc' \in {"checkin", "rows", "sleep", "down"} /\ rows' \in 0 .. CycleRows
        /\ wait' \in 0 .. (IF RowTicks > 1 THEN RowTicks ELSE 1)
    BY <1>5 DEF HB!RowDone, HB!TypeOK
  <2> QED BY <1>0, <1>5, <2>1 DEF HB!RowDone, HB!TypeOK
<1>6. CASE HB!StatusRead
  BY <1>0, <1>6 DEF HB!StatusRead, HB!TypeOK
<1>7. CASE HB!StatusAnswer \/ HB!StatusFailed
  <2>1. HB!Online(read.last) \in BOOLEAN
    BY DEF HB!Online
  <2>2. read' \in [on : BOOLEAN, last : HB!Time \cup {HB!Never}]
    <3>1. read' = [on |-> FALSE, last |-> HB!Never]
      BY <1>7 DEF HB!StatusAnswer, HB!StatusFailed
    <3> QED BY <3>1
  <2>3. answer' \in [online : BOOLEAN, last : HB!Time \cup {HB!Never}, at : HB!Time]
    <3>1. CASE HB!StatusAnswer
      BY <2>1, <3>1 DEF HB!StatusAnswer, HB!TypeOK
    <3>2. CASE HB!StatusFailed
      <4>1. answer' = [online |-> FALSE, last |-> HB!Never, at |-> now] /\ now \in HB!Time
        BY <3>2 DEF HB!StatusFailed, HB!TypeOK
      <4> QED BY <4>1
    <3> QED BY <1>7, <3>1, <3>2
  <2> QED BY <1>0, <1>7, <2>2, <2>3 DEF HB!StatusAnswer, HB!StatusFailed, HB!TypeOK
<1>8. CASE UNCHANGED hb
  BY <1>8 DEF hb, HB!TypeOK
<1> QED BY <1>1, <1>2, <1>4, <1>5, <1>6, <1>7, <1>8 DEF HB!Next

(* The times of the check-in are numbers, and `never' comes after all of them. *)
LEMMA Stamps ==
  ASSUME HB!TypeOK
  PROVE  /\ now \in Nat /\ now < HB!Never /\ HB!Never \in Nat
         /\ meta \in Nat /\ read.last \in Nat /\ answer.last \in Nat /\ answer.at \in Nat
BY ServerConstants DEF HB!TypeOK, HB!Time, HB!Never

(* A check-in replaces one of an earlier or the same time, and nothing else changes the row. *)
LEMMA CheckInAdvancing == HB!IInv /\ [HB!Next]_hb => HB!CheckInAdvances
<1> SUFFICES ASSUME HB!IInv, [HB!Next]_hb, meta # HB!Never PROVE meta' # HB!Never /\ meta' >= meta
  BY DEF HB!CheckInAdvances
<1>0. now \in Nat /\ now < HB!Never /\ HB!Never \in Nat /\ meta \in Nat /\ meta <= now
  BY Stamps DEF HB!IInv, HB!StampsArePast
<1>1. meta' \in {meta, now}
  BY DEF HB!Next, HB!Tick, HB!Boot, HB!Crash, HB!CheckIn, HB!CheckInFailed, HB!RowDone, HB!Stamp,
     HB!Wake, HB!StatusRead, HB!StatusAnswer, HB!StatusFailed, hb
<1> QED BY <1>0, <1>1

(* Every step keeps the invariant of the check-in: what a status request has read is never newer *)
(* than the row, and the row never newer than the clock. *)
LEMMA CheckInStep == HB!IInv /\ [HB!Next]_hb => HB!IInv'
<1> SUFFICES ASSUME HB!IInv, [HB!Next]_hb PROVE HB!IInv'
  OBVIOUS
<1>0. HB!TypeOK /\ HB!TypeOK'
  BY CheckInTypeStep DEF HB!IInv
<1>1. /\ now \in Nat /\ now < HB!Never /\ HB!Never \in Nat
      /\ meta \in Nat /\ read.last \in Nat /\ answer.last \in Nat /\ answer.at \in Nat
  BY <1>0, Stamps
<1>2. CASE HB!Tick
  <2>1. now' = now + 1 /\ UNCHANGED <<meta, read, answer>>
    BY <1>2 DEF HB!Tick
  <2>2. HB!StampsArePast'
    BY <1>1, <2>1 DEF HB!IInv, HB!StampsArePast, HB!Never
  <2>3. HB!AnswerIsRecent'
    BY <1>1, <2>1 DEF HB!IInv, HB!AnswerIsRecent, HB!Never
  <2> QED BY <1>0, <2>2, <2>3 DEF HB!IInv
<1>3. ASSUME UNCHANGED <<now, meta, read, answer>> PROVE HB!IInv'
  BY <1>0, <1>3 DEF HB!IInv, HB!StampsArePast, HB!AnswerIsRecent, HB!Never
<1>4. CASE HB!CheckIn
  <2>1. meta' = now /\ UNCHANGED <<now, read, answer>>
    BY <1>4 DEF HB!CheckIn, HB!Stamp
  <2>2. HB!StampsArePast'
    BY <1>1, <2>1 DEF HB!IInv, HB!StampsArePast, HB!Never
  <2>3. HB!AnswerIsRecent'
    BY <1>1, <2>1 DEF HB!IInv, HB!StampsArePast, HB!AnswerIsRecent, HB!Never
  <2> QED BY <1>0, <2>2, <2>3 DEF HB!IInv
<1>5. CASE HB!StatusRead
  BY <1>0, <1>1, <1>5 DEF HB!StatusRead, HB!IInv, HB!StampsArePast, HB!AnswerIsRecent, HB!Never
<1>6. CASE HB!StatusAnswer
  <2>1. /\ UNCHANGED <<now, meta>> /\ read'.last = HB!Never
        /\ answer'.online = HB!Online(read.last) /\ answer'.last = read.last /\ answer'.at = now
    BY <1>6 DEF HB!StatusAnswer
  <2>2. HB!StampsArePast'
    BY <1>1, <2>1 DEF HB!IInv, HB!StampsArePast, HB!Never
  <2>3. HB!AnswerIsRecent'
    <3>1. answer'.at <= now'
      BY <1>1, <2>1
    <3>2. ASSUME answer'.online
          PROVE  /\ meta # HB!Never /\ read.last # HB!Never
                 /\ read.last <= meta /\ read.last <= now /\ now - read.last < OnlineWindow
      <4>1. HB!Online(read.last)
        BY <2>1, <3>2
      <4>2. read.last # HB!Never /\ now - read.last < OnlineWindow
        BY <4>1 DEF HB!Online
      <4>3. meta # HB!Never /\ read.last <= meta /\ meta <= now
        BY <4>2 DEF HB!IInv, HB!StampsArePast
      <4> QED BY <1>1, <4>2, <4>3
    <3> QED BY <2>1, <3>1, <3>2 DEF HB!AnswerIsRecent, HB!Never
  <2> QED BY <1>0, <2>2, <2>3 DEF HB!IInv
<1>7. CASE HB!StatusFailed
  <2>1. /\ UNCHANGED <<now, meta>> /\ read'.last = HB!Never /\ answer'.online = FALSE /\ answer'.at = now
    BY <1>7 DEF HB!StatusFailed
  <2>2. HB!StampsArePast'
    BY <1>1, <2>1 DEF HB!IInv, HB!StampsArePast, HB!Never
  <2>3. HB!AnswerIsRecent'
    BY <1>1, <2>1 DEF HB!AnswerIsRecent
  <2> QED BY <1>0, <2>2, <2>3 DEF HB!IInv
<1> QED BY <1>2, <1>3, <1>4, <1>5, <1>6, <1>7 DEF HB!Next, HB!Boot, HB!Crash, HB!CheckInFailed,
           HB!RowDone, HB!Wake, hb

(* An answer that says online is based on a check-in in the window before, which the row still  *)
(* holds or has replaced by a later one. *)
LEMMA OnlineIsRecent == HB!IInv => HB!OnlineMeansRecent
<1> SUFFICES ASSUME HB!IInv, answer.online PROVE meta # HB!Never /\ answer.at - meta < OnlineWindow
  BY DEF HB!OnlineMeansRecent
<1>1. meta \in Nat /\ answer.last \in Nat /\ answer.at \in Nat
  BY Stamps DEF HB!IInv
<1>2. meta # HB!Never /\ answer.last <= meta /\ answer.at - answer.last < OnlineWindow
  BY DEF HB!IInv, HB!AnswerIsRecent
<1> QED BY <1>1, <1>2, ServerConstants

-----------------------------------------------------------------------------
(***************************************************************************)
(* Paths: sequences of segments.                                           *)
(***************************************************************************)
(* The segments of the routes and of the paths of the clients. *)
Words == {"v1", "status", "bridge", "deposit", "deposits", "withdraw", "withdrawals", "id", "fed", "checkin",
          "pending", "funded", "esplora", "signet", "testnet", "mainnet", "other", "blocks", "tip"}

(* What is left of a path without its first segment. *)
LEMMA RestOfPath ==
  ASSUME NEW S, NEW p \in Seq(S), p # <<>>
  PROVE  /\ Len(p) \in Nat /\ Len(p) >= 1
         /\ GW!Rest(p) \in Seq(S) /\ Len(GW!Rest(p)) = Len(p) - 1
         /\ \A i \in 1 .. Len(p) - 1 : GW!Rest(p)[i] = p[i + 1]
<1>0. Len(p) \in Nat /\ Len(p) >= 1
  <2>1. Len(p) \in Nat
    BY LenProperties
  <2>2. Len(p) # 0
    BY EmptySeq
  <2> QED BY <2>1, <2>2
<1>1. \A i \in 2 .. Len(p) : p[i] \in S
  BY <1>0, ElementOfSeq
<1>2. /\ SubSeq(p, 2, Len(p)) \in Seq(S)
      /\ \A i \in 1 .. Len(p) - 1 : SubSeq(p, 2, Len(p))[i] = p[i + 1]
  BY <1>0, <1>1, SubSeqProperties
<1>3. Len(SubSeq(p, 2, Len(p))) = Len(p) - 1
  <2>1. PICK n : n = Len(p)
    OBVIOUS
  <2>2. Len(SubSeq(p, 2, n)) = IF 2 <= n THEN n - 2 + 1 ELSE 0
    BY <1>0, <1>1, <2>1, SubSeqProperties
  <2> QED BY <1>0, <2>1, <2>2
<1> QED BY <1>0, <1>2, <1>3 DEF GW!Rest

(* A segment put before a path. *)
LEMMA SegmentBefore ==
  ASSUME NEW S, NEW x \in S, NEW t \in Seq(S), NEW p, p = <<x>> \o t
  PROVE  /\ p \in Seq(S) /\ Len(t) \in Nat /\ Len(p) = Len(t) + 1 /\ p # <<>> /\ p[1] = x
         /\ \A i \in 1 .. Len(t) : p[i + 1] = t[i]
<1>1. <<x>> \in Seq(S) /\ Len(<<x>>) = 1 /\ <<x>>[1] = x
  OBVIOUS
<1>2. PICK n \in Nat : n = Len(t)
  BY LenProperties
<1>3. /\ p \in Seq(S) /\ Len(p) = 1 + Len(t)
      /\ \A i \in 1 .. 1 + Len(t) : p[i] = IF i <= 1 THEN <<x>>[i] ELSE t[i - 1]
  BY <1>1, ConcatProperties
<1>4. p # <<>> /\ p[1] = x
  BY <1>1, <1>2, <1>3
<1>5. ASSUME NEW i \in 1 .. n PROVE p[i + 1] = t[i]
  <2>1. i + 1 \in 1 .. 1 + n /\ ~(i + 1 <= 1) /\ (i + 1) - 1 = i
    OBVIOUS
  <2> QED BY <1>2, <1>3, <2>1
<1> QED BY <1>2, <1>3, <1>4, <1>5

(* What follows a segment is what is left without it. *)
LEMMA RestBehind ==
  ASSUME NEW S, NEW x \in S, NEW t \in Seq(S)
  PROVE  GW!Rest(<<x>> \o t) = t
<1>1. PICK p : p = <<x>> \o t
  OBVIOUS
<1>2. /\ p \in Seq(S) /\ Len(t) \in Nat /\ Len(p) = Len(t) + 1 /\ p # <<>>
      /\ \A i \in 1 .. Len(t) : p[i + 1] = t[i]
  BY <1>1, SegmentBefore
<1>3. PICK q : q = GW!Rest(p)
  OBVIOUS
<1>4. q \in Seq(S) /\ Len(q) = Len(p) - 1 /\ \A i \in 1 .. Len(p) - 1 : q[i] = p[i + 1]
  BY <1>2, <1>3, RestOfPath
<1>5. Len(q) = Len(t) /\ \A i \in 1 .. Len(q) : q[i] = t[i]
  BY <1>2, <1>4
<1>6. q = t
  BY <1>4, <1>5, SeqEqual
<1> QED BY <1>1, <1>3, <1>6

-----------------------------------------------------------------------------
(***************************************************************************)
(* The routing.                                                            *)
(***************************************************************************)
(* Short paths are sequences of segments. *)
LEMMA ShortPaths ==
  ASSUME NEW S, NEW x \in S, NEW y \in S, NEW z \in S
  PROVE  /\ <<x>> \in Seq(S) /\ Len(<<x>>) = 1
         /\ <<x, y>> \in Seq(S) /\ Len(<<x, y>>) = 2
         /\ <<x, y, z>> \in Seq(S) /\ Len(<<x, y, z>>) = 3
OBVIOUS

(* The routes under fed. *)
LEMMA FedRoutesRegistered ==
  ASSUME NEW r \in GW!FedRoutes
  PROVE  /\ r[2] \in Seq(Words) /\ Len(r[2]) >= 2 /\ r[2][1] = "fed"
         /\ r[3] \in {"checkin", "pendingDeposits", "patchDeposit", "fundedDeposits",
                      "pendingWithdrawals", "patchWithdrawal"}
<1> USE DEF Words
<1>1. CASE r = <<"POST", <<"fed", "checkin">>, "checkin">>
  BY <1>1, ShortPaths
<1>2. CASE r = <<"GET", <<"fed", "deposits", "pending">>, "pendingDeposits">>
  BY <1>2, ShortPaths
<1>3. CASE r = <<"PATCH", <<"fed", "deposit", "id">>, "patchDeposit">>
  BY <1>3, ShortPaths
<1>4. CASE r = <<"GET", <<"fed", "deposits", "funded">>, "fundedDeposits">>
  BY <1>4, ShortPaths
<1>5. CASE r = <<"GET", <<"fed", "withdrawals", "pending">>, "pendingWithdrawals">>
  BY <1>5, ShortPaths
<1>6. CASE r = <<"PATCH", <<"fed", "withdraw", "id">>, "patchWithdrawal">>
  BY <1>6, ShortPaths
<1> QED BY <1>1, <1>2, <1>3, <1>4, <1>5, <1>6 DEF GW!FedRoutes, GW!FedDepositRoutes, GW!FedWithdrawRoutes

(* The other routes of the worker. *)
LEMMA OpenRoutesRegistered ==
  ASSUME NEW r \in GW!SystemRoutes \cup GW!DepositRoutes \cup GW!WithdrawRoutes
  PROVE  /\ r[2] \in Seq(Words) /\ Len(r[2]) >= 1
         /\ r[3] \in {"apiStatus", "bridgeStatus", "createDeposit", "getDeposit", "listDeposits",
                      "createWithdrawal", "listWithdrawals"}
<1> USE DEF Words
<1>1. CASE r = <<"GET", <<"status">>, "apiStatus">>
  BY <1>1, ShortPaths
<1>2. CASE r = <<"GET", <<"bridge", "status">>, "bridgeStatus">>
  BY <1>2, ShortPaths
<1>3. CASE r = <<"POST", <<"bridge", "deposit">>, "createDeposit">>
  BY <1>3, ShortPaths
<1>4. CASE r = <<"GET", <<"bridge", "deposit", "id">>, "getDeposit">>
  BY <1>4, ShortPaths
<1>5. CASE r = <<"GET", <<"bridge", "deposits", "id">>, "listDeposits">>
  BY <1>5, ShortPaths
<1>6. CASE r = <<"POST", <<"bridge", "withdraw">>, "createWithdrawal">>
  BY <1>6, ShortPaths
<1>7. CASE r = <<"GET", <<"bridge", "withdrawals", "id">>, "listWithdrawals">>
  BY <1>7, ShortPaths
<1> QED BY <1>1, <1>2, <1>3, <1>4, <1>5, <1>6, <1>7 DEF GW!SystemRoutes, GW!DepositRoutes, GW!WithdrawRoutes

(* The handlers that need the token. *)
LEMMA FedHandlersRegistered ==
  GW!FedHandlers \subseteq {"checkin", "pendingDeposits", "patchDeposit", "fundedDeposits",
                           "pendingWithdrawals", "patchWithdrawal"}
BY FedRoutesRegistered DEF GW!FedHandlers

(* A route leads to a handler of the worker, to one of the federation's only from below fed. *)
LEMMA RoutesRegistered ==
  ASSUME NEW r \in GW!Routes
  PROVE  /\ r[2] \in Seq(Words) /\ Len(r[2]) >= 1
         /\ r[3] \in GW!FedHandlers => Len(r[2]) >= 2 /\ r[2][1] = "fed"
         /\ r[3] \notin {"nobody", "unauthorized", "notFound", "rpc", "rpcFailed", "esplora", "esploraFailed"}
<1>1. CASE r \in GW!FedRoutes
  BY <1>1, FedRoutesRegistered
<1>2. CASE r \in GW!SystemRoutes \cup GW!DepositRoutes \cup GW!WithdrawRoutes
  <2>1. /\ r[2] \in Seq(Words) /\ Len(r[2]) >= 1
        /\ r[3] \in {"apiStatus", "bridgeStatus", "createDeposit", "getDeposit", "listDeposits",
                     "createWithdrawal", "listWithdrawals"}
    BY <1>2, OpenRoutesRegistered
  <2>2. r[3] \notin GW!FedHandlers
    BY <2>1, FedHandlersRegistered
  <2> QED BY <2>1, <2>2
<1> QED BY <1>1, <1>2 DEF GW!Routes

(* A path a client asks for is one of segments. *)
LEMMA UrlsAreSegments ==
  ASSUME NEW c \in GW!Call
  PROVE  GW!Url(c) \in Seq(Words)
<1>1. c.base \in GW!Bases /\ c.tail \in GW!Tails
  BY DEF GW!Call
<1>2. c.base \in Seq(Words)
  <2>1. CASE c.base = <<>>
    BY <2>1, EmptySeq
  <2>2. CASE c.base # <<>>
    <3>1. <<"v1">> \in Seq(Words)
      BY ShortPaths DEF Words
    <3>2. <<"v1", "esplora", "signet">> \in Seq(Words)
      BY ShortPaths DEF Words
    <3>3. <<"v1", "esplora", "other">> \in Seq(Words)
      BY ShortPaths DEF Words
    <3> QED BY <1>1, <2>2, <3>1, <3>2, <3>3 DEF GW!Bases
  <2> QED BY <2>1, <2>2
<1>3. "v1" \in Words
  BY DEF Words
<1>4. \A r \in GW!Routes : r[2] \in Seq(Words) /\ <<"v1">> \o r[2] \in Seq(Words)
  <2> SUFFICES ASSUME NEW r \in GW!Routes PROVE r[2] \in Seq(Words) /\ <<"v1">> \o r[2] \in Seq(Words)
    OBVIOUS
  <2>1. r[2] \in Seq(Words)
    BY RoutesRegistered
  <2> QED BY <1>3, <2>1, SegmentBefore
<1>5. <<"blocks", "tip">> \in Seq(Words) /\ <<"fed", "other">> \in Seq(Words) /\ <<"esplora">> \in Seq(Words)
  BY ShortPaths DEF Words
<1>6. \A n \in GW!Networks : <<n>> \in Seq(Words)
  BY ShortPaths DEF Words, GW!Networks
<1>7. c.tail \in Seq(Words)
  BY <1>1, <1>4, <1>5, <1>6 DEF GW!Tails
<1>8. c.base \o c.tail \in Seq(Words)
  BY <1>2, <1>7, ConcatProperties
<1> QED BY <1>8 DEF GW!Url

(* The request for a route is matched by it: the path of a route matches itself. *)
LEMMA OwnRouteMatches ==
  ASSUME NEW c, NEW r \in GW!Routes, r[1] = c.method, GW!Url(c) = <<"v1">> \o r[2]
  PROVE  r \in GW!Matching(c)
<1>1. r[2] \in Seq(Words) /\ "v1" \in Words
  BY RoutesRegistered DEF Words
<1>2. GW!Url(c) # <<>> /\ GW!Url(c)[1] = "v1" /\ GW!Rest(GW!Url(c)) = r[2]
  <2>1. PICK t : t = r[2]
    OBVIOUS
  <2>2. PICK x : x = "v1"
    OBVIOUS
  <2>3. PICK p : p = <<x>> \o t
    OBVIOUS
  <2>4. t \in Seq(Words) /\ x \in Words
    BY <1>1, <2>1, <2>2
  <2>5. p # <<>> /\ p[1] = x
    BY <2>3, <2>4, SegmentBefore
  <2>6. GW!Rest(<<x>> \o t) = t
    BY <2>4, RestBehind
  <2> QED BY <2>1, <2>2, <2>3, <2>5, <2>6
<1>3. GW!Matches(r[2], r[2])
  BY DEF GW!Matches
<1> QED BY <1>2, <1>3 DEF GW!Matching

(* A request matched by a route of the federation's handlers is below /v1/fed: no    *)
(* parameter of a route takes the place of fed. *)
LEMMA FedRoutesAreUnderFed ==
  ASSUME NEW c \in GW!Call, NEW r \in GW!Matching(c), r[3] \in GW!FedHandlers
  PROVE  GW!UnderFed(GW!Url(c))
<1>1. PICK p : p = GW!Url(c)
  OBVIOUS
<1>2. PICK q : q = r[2]
  OBVIOUS
<1>3. r \in GW!Routes /\ p # <<>> /\ p[1] = "v1" /\ GW!Matches(GW!Rest(p), q)
  BY <1>1, <1>2 DEF GW!Matching
<1>4. Len(q) >= 2 /\ q[1] = "fed"
  BY <1>2, <1>3, RoutesRegistered
<1>5. p \in Seq(Words)
  BY <1>1, UrlsAreSegments
<1>6. /\ Len(p) \in Nat /\ Len(GW!Rest(p)) = Len(p) - 1
      /\ \A i \in 1 .. Len(p) - 1 : GW!Rest(p)[i] = p[i + 1]
  BY <1>3, <1>5, RestOfPath
<1>7. Len(GW!Rest(p)) = Len(q) /\ \A i \in 1 .. Len(GW!Rest(p)) : q[i] \in {GW!Rest(p)[i], "id"}
  BY <1>3 DEF GW!Matches
<1>8. Len(p) - 1 >= 2 /\ q[1] \in {GW!Rest(p)[1], "id"}
  BY <1>4, <1>6, <1>7
<1>9. GW!Rest(p)[1] = "fed" /\ GW!Rest(p)[1] = p[2]
  BY <1>4, <1>6, <1>8
<1> QED BY <1>1, <1>3, <1>6, <1>8, <1>9 DEF GW!UnderFed

-----------------------------------------------------------------------------
(***************************************************************************)
(* A request and who answers it.                                           *)
(***************************************************************************)
(* In the beginning a request has come in. *)
LEMMA RoutingInit == GW!Init => GW!IInv
BY DEF GW!Init, GW!IInv, GW!Decided

(* Every step of the worker is decided by the request. *)
LEMMA RoutingStep == GW!IInv /\ [GW!Next]_gw => GW!IInv'
<1> SUFFICES ASSUME GW!IInv, [GW!Next]_gw PROVE GW!IInv'
  OBVIOUS
<1>1. UNCHANGED call
  BY DEF GW!Next, GW!Authorise, GW!Handle, GW!ProxyRpc, GW!ProxyEsplora, GW!NotFound, gw
<1>2. PICK M, v : M = GW!Matching(call) /\ v = GW!Passed(call)
  OBVIOUS
<1>3. (GW!Passed(call))' = v /\ (GW!Matching(call))' = M
  BY <1>1, <1>2 DEF GW!Passed, GW!Matching, GW!Rest, GW!Url, GW!UnderFed, GW!Matches
<1>4. call' \in GW!Call
  BY <1>1 DEF GW!IInv
<1>5. CASE GW!Authorise
  <2>1. CASE v
    <3>1. at' = "routing" /\ reply' = reply
      BY <1>2, <1>5, <2>1 DEF GW!Authorise
    <3> QED BY <1>3, <1>4, <1>5, <2>1, <3>1 DEF GW!IInv, GW!Decided, GW!Authorise
  <2>2. CASE ~v
    <3>1. at' = "done" /\ reply'.by = "unauthorized"
      BY <1>2, <1>5, <2>2 DEF GW!Authorise, GW!NoAnswer
    <3> QED BY <1>3, <1>4, <2>2, <3>1 DEF GW!IInv, GW!Decided
  <2> QED BY <2>1, <2>2
<1>6. CASE GW!Handle
  <2>1. at' = "done" /\ v /\ \E r \in M : reply'.by = r[3]
    BY <1>2, <1>6 DEF GW!Handle, GW!NoAnswer, GW!IInv, GW!Decided
  <2> QED BY <1>3, <1>4, <2>1 DEF GW!IInv, GW!Decided
<1>7. CASE GW!ProxyRpc \/ GW!ProxyEsplora \/ GW!NotFound
  <2>1. at' = "done" /\ M = {} /\ reply'.by \in {"rpc", "rpcFailed", "esplora", "esploraFailed", "notFound"}
    BY <1>2, <1>7 DEF GW!ProxyRpc, GW!ProxyEsplora, GW!NotFound, GW!NoAnswer
  <2> QED BY <1>3, <1>4, <2>1 DEF GW!IInv, GW!Decided
<1>8. CASE UNCHANGED gw
  <2>1. at' = at /\ reply' = reply
    BY <1>8 DEF gw
  <2> QED BY <1>2, <1>3, <1>4, <2>1 DEF GW!IInv, GW!Decided
<1> QED BY <1>5, <1>6, <1>7, <1>8 DEF GW!Next

(* No path, method or combination of prefixes reaches a handler of the federation without the token. *)
LEMMA TokenForFed == GW!IInv => GW!FedNeedsToken
<1> SUFFICES ASSUME GW!IInv, reply.by \in GW!FedHandlers PROVE call.auth = Token
  BY DEF GW!FedNeedsToken
<1>1. reply.by \notin {"nobody", "unauthorized", "rpc", "rpcFailed", "notFound", "esplora", "esploraFailed"}
  BY FedHandlersRegistered
<1>2. at = "done"
  BY <1>1 DEF GW!IInv, GW!Decided, GW!NoAnswer
<1>3. GW!Passed(call) /\ \E r \in GW!Matching(call) : reply.by = r[3]
  BY <1>1, <1>2 DEF GW!IInv, GW!Decided
<1>4. call \in GW!Call
  BY DEF GW!IInv
<1>5. GW!UnderFed(GW!Url(call))
  BY <1>3, <1>4, FedRoutesAreUnderFed
<1> QED BY <1>3, <1>5 DEF GW!Passed

(* A request for a handler of the worker is not sent to an upstream. *)
LEMMA OwnRequestsStay == GW!IInv => GW!OwnPathsStayHere
<1> SUFFICES ASSUME GW!IInv, reply.by \in {"esplora", "esploraFailed", "rpc", "rpcFailed"},
                    NEW r \in GW!Routes, r[1] = call.method, GW!Url(call) = <<"v1">> \o r[2]
             PROVE  FALSE
  BY DEF GW!OwnPathsStayHere
<1>1. r \in GW!Matching(call)
  BY OwnRouteMatches
<1>2. at = "done"
  BY DEF GW!IInv, GW!Decided, GW!NoAnswer
<1>3. PICK s \in GW!Matching(call) : reply.by = s[3]
  BY <1>1, <1>2 DEF GW!IInv, GW!Decided
<1>4. s \in GW!Routes
  BY <1>3 DEF GW!Matching
<1> QED BY <1>3, <1>4, RoutesRegistered

-----------------------------------------------------------------------------
(***************************************************************************)
(* The behaviours.                                                         *)
(***************************************************************************)
ServerInv ==
  /\ part = "HB" => HB!IInv
  /\ part = "GW" => GW!IInv

(* The inductive invariants of the check-in and of the routing hold in every reachable state. *)
THEOREM ServerInvariance == Spec => []ServerInv
<1>1. Init => ServerInv
  BY CheckInInit, RoutingInit DEF Init, ServerInv
<1>2. ServerInv /\ [Next]_vars => ServerInv'
  BY StepOfPart, CheckInStep, RoutingStep DEF ServerInv
<1> QED BY <1>1, <1>2, PTL DEF Spec

(* Whatever path is put together from a base URL and a tail, a handler of the federation answers *)
(* only with the token and a request for an own route is not proxied; and                        *)
(* whatever the federation's cycles take, crashes and lost check-ins included, `online' means a  *)
(* check-in within the window (packages/api). *)
THEOREM ApiAnswersHold == Spec => []ApiAnswers
<1>1. ServerInv => ApiAnswers
  BY TokenForFed, OwnRequestsStay, OnlineIsRecent DEF ServerInv, ApiAnswers
<1> QED BY <1>1, ServerInvariance, PTL

(* No step ends an interval of the page without a reason (clearInterval in BridgeWidget.astro),  *)
(* and none takes the federation's check-in back. *)
THEOREM StepsKeepTrackHolds == Spec => StepsKeepTrack
<1>1. FormsInv /\ ServerInv /\ [Next]_vars =>
        [/\ part = "WD" => WD!PollEndsForAReason
         /\ part = "HB" => HB!CheckInAdvances]_vars
  BY StepOfPart, FormPollEnds, CheckInAdvancing DEF FormsInv, ServerInv
<1> QED BY <1>1, FormsInvariance, ServerInvariance, PTL DEF Spec, StepsKeepTrack
=============================================================================
