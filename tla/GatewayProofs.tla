--------------------------- MODULE GatewayProofs ---------------------------
(***************************************************************************)
(* Theorems about Gateway for every finite set of requests, any users and  *)
(* roles, any number of slots and attempts, and whether or not the two     *)
(* context keys are one pointer.                                           *)
(***************************************************************************)
EXTENDS Gateway, FiniteSetTheorems, TLAPS

\* The kinds of values in a context are told apart.
LEMMA Kinds ==
    /\ Nothing \notin Requests /\ Nothing \notin UserInfos /\ Nothing \notin Users
    /\ \A r \in Requests : r \notin UserInfos /\ r # Nothing /\ r # NoId
    /\ \A u \in UserInfos : u \notin Requests /\ u # Nothing /\ u.user \in Users /\ u.role \in Roles
    /\ \A u \in Users : [user |-> u, role |-> RoleOf[u]] \in UserInfos /\ u # Nobody /\ u # "me"
  BY SentinelAssumption, RoleAssumption DEF UserInfos

\* What a client sent, by field.
LEMMA Fields ==
    \A q \in Sent :
        /\ q \in HttpRequests /\ q # NoHttp
        /\ q.route \in Routes /\ q.query \in BOOLEAN /\ q.cookie \in BOOLEAN
        /\ q.auth \in {"none", "malformed", "bearer"} /\ q.body \in {"ok", "garbled", "invalid"}
        /\ q.bearer \in Users \cup {Nobody} /\ q.target \in Users \cup {"me"}
  BY SentAssumption, SentinelAssumption DEF HttpRequests

\* The RPCs that are built are RPCs.
LEMMA RpcTypes ==
    /\ \A op \in Ops, rq \in Requests \cup {NoId, Nothing}, x \in {"request", "background"},
          info \in UserInfos \cup {Nothing}, t \in Users \cup {Nothing} :
          Rpc(op, rq, x, info, t) \in Rpcs /\ Rpc(op, rq, x, info, t) # NoRpc
    /\ \A t \in Users \cup {Nobody, "me"}, rq \in Requests \cup {NoId, Nothing} :
          ExtJWTData(t, rq).rpc \in Rpcs /\ ExtJWTData(t, rq).rpc # NoRpc
  BY SentinelAssumption DEF Rpc, Rpcs, ExtJWTData, Sends, Ops

\* An outcome is an answer or an RPC.
WellFormed(o) ==
    /\ o.rpc \in Rpcs \cup {NoRpc}
    /\ o.rpc = NoRpc => o.answer \in {"200", "400", "401", "500"}

\* An RPC of request r that speaks for user u, or for nobody.
Speaks(p, r, q, u) ==
    /\ p.rq \in {r, NoId}
    /\ p.op \in Public
       \/ /\ p.op = "DelUser" /\ p.rq = r
          /\ p.info = [user |-> u, role |-> RoleOf[u]]
          /\ q.target = "me" => p.target = u

\* Without a user in the context no handler gets past the public RPCs.
LEMMA WithoutUser ==
    ASSUME NEW r \in Requests, NEW q \in Sent, NEW c \in [Cells -> Values],
           IdIn(c) = r, UserIn(c) = Nothing, q.route # "delUser"
    PROVE  LET o == RegisterRoutes(r, q, c) IN
           /\ WellFormed(o)
           /\ o.rpc # NoRpc => o.rpc.op \in Public /\ o.rpc.rq = r
<1> USE Kinds, Fields, RpcTypes
<1> DEFINE o == RegisterRoutes(r, q, c)
<1>1. CASE q.route = "regUser"
  <2>1. o = regUser(q, c)
    BY <1>1 DEF RegisterRoutes
  <2>2. QED
    BY <2>1 DEF regUser, Answers, Sends, WellFormed, Rpc, Public, OrElse, Ops
<1>2. CASE q.route = "logUser"
  <2>1. o = logUser(q, c)
    BY <1>2 DEF RegisterRoutes
  <2>2. QED
    BY <2>1 DEF logUser, Answers, Sends, WellFormed, Rpc, Public, OrElse, Ops
<1>3. CASE q.route = "extUserId"
  <2>1. o = extUserId(q, c)
    BY <1>3 DEF RegisterRoutes
  <2>2. o \in {Answers("400"), ExtJWTData(q.target, r)}
    BY <2>1 DEF extUserId, OrElse
  <2>3. QED
    BY <2>2 DEF Answers, ExtJWTData, Sends, WellFormed, Public
<1>4. CASE q.route = "addOrder"
  <2>1. o = addOrder(q, c)
    BY <1>4 DEF RegisterRoutes
  <2>2. QED
    BY <2>1 DEF addOrder, Answers, Panics, WellFormed
<1>5. CASE q.route \in {"orderInfo", "delOrder", "page"}
  <2>1. o = orderInfo(q, c) \/ o = delOrder(q, c) \/ o = Answers("200")
    BY <1>5 DEF RegisterRoutes
  <2>2. QED
    BY <2>1 DEF orderInfo, delOrder, UserInfoString, Answers, Panics, WellFormed
<1>6. QED
  BY <1>1, <1>2, <1>3, <1>4, <1>5 DEF Routes, UserRoutes, OrderRoutes

\* With a user in the context the handlers of the users group speak for it.
LEMMA WithUser ==
    ASSUME NEW r \in Requests, NEW q \in Sent, NEW c \in [Cells -> Values], NEW u \in Users,
           IdIn(c) \in {r, Nothing}, UserIn(c) = [user |-> u, role |-> RoleOf[u]],
           q.route \in UserRoutes, q.cookie
    PROVE  LET o == RegisterRoutes(r, q, c) IN
           /\ WellFormed(o)
           /\ o.rpc # NoRpc => Speaks(o.rpc, r, q, u)
           /\ q.route = "delUser" => o.rpc # NoRpc /\ o.rpc.op = "DelUser"
           /\ o.rpc # NoRpc /\ q.route # "delUser" => o.rpc.op \in Public
<1> USE Kinds, Fields, RpcTypes
<1> DEFINE o == RegisterRoutes(r, q, c)
<1>1. CASE q.route = "regUser"
  <2>1. o = regUser(q, c)
    BY <1>1 DEF RegisterRoutes
  <2>2. QED
    BY <1>1, <2>1 DEF regUser, Answers, Sends, WellFormed, Rpc, Speaks, Public, OrElse, Ops
<1>2. CASE q.route = "logUser"
  <2>1. o = logUser(q, c)
    BY <1>2 DEF RegisterRoutes
  <2>2. QED
    BY <1>2, <2>1, SMTT(30)
       DEF logUser, Answers, Sends, WellFormed, Rpc, Speaks, Public, OrElse, Ops
<1>3. CASE q.route = "extUserId"
  <2>1. o = extUserId(q, c)
    BY <1>3 DEF RegisterRoutes
  <2>2. o \in {ExtJWTData(q.target, r), ExtJWTData(q.target, NoId)}
    BY <2>1 DEF extUserId, OrElse
  <2>3. QED
    BY <1>3, <2>2 DEF ExtJWTData, Sends, WellFormed, Speaks, Public
<1>4. CASE q.route = "delUser"
  <2>1. o = delUser(r, q, c)
    BY <1>4 DEF RegisterRoutes
  <2>2. OrElse(IdIn(c), HeaderId(r)) = r
    BY DEF OrElse, HeaderId
  <2>3. PICK t \in Users :
            /\ o = Sends(Rpc("DelUser", r, "background", [user |-> u, role |-> RoleOf[u]], t))
            /\ q.target = "me" => t = u
    BY <2>1, <2>2 DEF delUser
  <2>4. /\ o.rpc \in Rpcs /\ o.rpc # NoRpc
        /\ o.rpc.op = "DelUser" /\ Speaks(o.rpc, r, q, u)
    BY <2>3 DEF Sends, Rpc, Speaks, Ops
  <2>5. QED
    BY <1>4, <2>4 DEF WellFormed
<1>5. QED
  BY <1>1, <1>2, <1>3, <1>4 DEF UserRoutes

\* The context JWTAuth hands on shows the user, whatever the two keys are.
LEMMA AuthContextShowsUser ==
    ASSUME TypeOK, NEW r \in Requests, NEW u \in Users, NEW c \in [Cells -> Values]
    PROVE  LET d == AuthContext(c, r, [user |-> u, role |-> RoleOf[u]]) IN
           /\ d \in [Cells -> Values]
           /\ UserIn(d) = [user |-> u, role |-> RoleOf[u]]
           /\ IdIn(d) \in {r, Nothing}
<1> DEFINE info == [user |-> u, role |-> RoleOf[u]]
<1>1. info \in UserInfos /\ ReqCell \in Cells /\ UserCell \in Cells
  BY Kinds DEF ReqCell, UserCell, Cells
<1>2. WithValue(c, ReqCell, r) \in [Cells -> Values]
  BY DEF WithValue, Values
<1>3. AuthContext(c, r, info) = [[c EXCEPT ![ReqCell] = r] EXCEPT ![UserCell] = info]
  BY DEF AuthContext, WithValue
<1>4. AuthContext(c, r, info) \in [Cells -> Values]
  BY <1>1, <1>2, <1>3 DEF WithValue, Values
<1>5. AuthContext(c, r, info)[UserCell] = info /\ AuthContext(c, r, info)[ReqCell] \in {r, info}
  BY <1>1, <1>3
<1>6. QED
  BY <1>1, <1>4, <1>5, Kinds DEF UserIn, IdIn

-----------------------------------------------------------------------------
(* Slots                                                                    *)

LEMMA HoldersFinite == IsFiniteSet(Holders)
  BY RequestsAssumption, FS_Subset DEF Holders

\* A request that leaves gives back the slot it held.
LEMMA LeaveKeepsSlots ==
    ASSUME TypeOK, SlotsAccounted, NEW r \in Requests, pc[r] \in Holding,
           pc' = [pc EXCEPT ![r] = "done"], tokens' = tokens + 1
    PROVE  SlotsAccounted' /\ tokens' \in 0 .. Limit
<1>1. Holders' = Holders \ {r} /\ r \in Holders
  BY DEF Holders, TypeOK, Holding
<1>2. /\ Cardinality(Holders') = Cardinality(Holders) - 1
      /\ Cardinality(Holders) \in Nat /\ Cardinality(Holders') \in Nat
  BY <1>1, HoldersFinite, FS_RemoveElement, FS_CardinalityType
<1>3. QED
  BY <1>2, LimitAssumption DEF SlotsAccounted, TypeOK

\* A request that stays inside keeps its slot.
LEMMA StayKeepsSlots ==
    ASSUME SlotsAccounted, tokens' = tokens,
           \A r \in Requests : pc'[r] \in Holding <=> pc[r] \in Holding
    PROVE  SlotsAccounted'
<1>1. Holders' = Holders
  BY DEF Holders
<1>2. QED
  BY <1>1 DEF SlotsAccounted

-----------------------------------------------------------------------------
(* Steps                                                                    *)

\* What the invariant says of one request.
Kept(r) ==
    /\ Progress(r)
    /\ rpc[r] # NoRpc /\ rpc[r].op \notin Public =>
        /\ rpc[r].info \in UserInfos
        /\ rpc[r].info.user = http[r].bearer /\ http[r].bearer = http[r].sk
        /\ rpc[r].info.role = RoleOf[http[r].bearer]
        /\ http[r].target = "me" => rpc[r].target = rpc[r].info.user
    /\ rpc[r] # NoRpc => rpc[r].rq \in {r, NoId}
    /\ http[r] # NoHttp /\ http[r].route = "delUser" =>
          /\ answer[r] # "401"
          /\ rpc[r] # NoRpc => rpc[r].rq = r
          /\ answer[r] = "200" => "DelUser" \in acked[r]

LEMMA InvariantByRequest ==
    /\ IInv <=> TypeOK /\ SlotsAccounted /\ \A r \in Requests : Kept(r)
    /\ IInv' <=> TypeOK' /\ SlotsAccounted' /\ \A r \in Requests : Kept(r)'
  BY DEF IInv, Kept, ActsForItsCaller, IdentityAndIdArrive, DeletedMeansDone, Public

\* A step of request r is invisible to the others.
Others(r) ==
    \A s \in Requests \ {r} :
        /\ pc'[s] = pc[s] /\ http'[s] = http[s] /\ context'[s] = context[s] /\ rpc'[s] = rpc[s]
        /\ acked'[s] = acked[s] /\ answer'[s] = answer[s]

LEMMA OthersKeep ==
    ASSUME NEW r \in Requests, Others(r), NEW s \in Requests \ {r}, Kept(s)
    PROVE  Kept(s)'
  BY DEF Others, Kept, Progress, ReqCell

\* The steps in which request r leaves with an answer that its route may give.
LEMMA LeaveStep ==
    ASSUME IInv, NEW r \in Requests, pc[r] \in Holding, NEW a, Leave(r, a),
           a \in {"200", "400", "401", "500"}, UNCHANGED <<http, rpc, tries, sameKey, up, gone>>,
           acked' \in [Requests -> SUBSET Ops], context' \in [Requests -> [Cells -> Values]],
           \A s \in Requests \ {r} : acked'[s] = acked[s] /\ context'[s] = context[s],
           http[r].route = "delUser" => a # "401" /\ (a = "200" => "DelUser" \in acked'[r])
    PROVE  IInv'
<1>1. TypeOK /\ SlotsAccounted /\ \A s \in Requests : Kept(s)
  BY InvariantByRequest
<1>2. SlotsAccounted' /\ tokens' \in 0 .. Limit
  BY <1>1, LeaveKeepsSlots DEF Leave
<1>3. TypeOK'
  BY <1>1, <1>2 DEF TypeOK, Leave
<1>4. Others(r) /\ pc'[r] = "done" /\ answer'[r] = a
  BY <1>1 DEF Others, TypeOK, Leave
<1>5. pc[r] # "idle" /\ http[r] # NoHttp
  BY <1>1 DEF Kept, Progress, Holding
<1>6. Kept(r)'
  BY <1>1, <1>4, <1>5 DEF Kept, Progress, Holding
<1>7. QED
  BY <1>1, <1>2, <1>3, <1>4, <1>6, OthersKeep, InvariantByRequest

\* The steps in which request r starts to wait for an RPC.
LEMMA WaitStep ==
    ASSUME IInv, NEW r \in Requests, pc[r] \in {"entered", "auth"},
           NEW p \in Rpcs, NEW label \in {"auth", "call"},
           pc' = [pc EXCEPT ![r] = label], rpc' = [rpc EXCEPT ![r] = p],
           tries' = [tries EXCEPT ![r] = 0],
           UNCHANGED <<answer, tokens, http, sameKey, up, gone>>,
           acked' \in [Requests -> SUBSET Ops], context' \in [Requests -> [Cells -> Values]],
           \A s \in Requests \ {r} : acked'[s] = acked[s] /\ context'[s] = context[s],
           p # NoRpc, label = "auth" \/ http[r].route # "delUser" => p.op \in Public,
           label = "auth" => /\ p = ExtJWTData(http[r].bearer, r).rpc
                             /\ http[r].route \in UserRoutes
                             /\ http[r].cookie /\ context'[r][ReqCell] = r,
           label = "call" /\ http[r].route = "delUser" => p.op = "DelUser",
           p.op \notin Public =>
               /\ Speaks(p, r, http[r], http[r].bearer)
               /\ http[r].bearer \in Users /\ http[r].bearer = http[r].sk,
           p.rq \in {r, NoId}, http[r].route = "delUser" => p.rq = r
    PROVE  IInv'
<1>1. TypeOK /\ SlotsAccounted /\ \A s \in Requests : Kept(s)
  BY InvariantByRequest
<1>2. SlotsAccounted'
  <2>1. \A s \in Requests : pc'[s] \in Holding <=> pc[s] \in Holding
    BY <1>1 DEF TypeOK, Holding
  <2>2. QED
    BY <1>1, <2>1, StayKeepsSlots
<1>3. TypeOK'
  BY <1>1, LimitAssumption DEF TypeOK, Holding
<1>4. Others(r) /\ pc'[r] = label /\ rpc'[r] = p
  BY <1>1 DEF Others, TypeOK
<1>5. pc[r] # "idle" /\ http[r] # NoHttp /\ answer[r] = "none"
  BY <1>1 DEF Kept, Progress, Holding
<1>6. Progress(r)'
  BY <1>4, <1>5 DEF Progress, Holding, ExtJWTData, Sends
<1>7. p.op \notin Public => /\ p.info = [user |-> http[r].bearer, role |-> RoleOf[http[r].bearer]]
                            /\ p.info \in UserInfos
                            /\ http[r].target = "me" => p.target = p.info.user
  BY Kinds DEF Speaks
<1>8. Kept(r)'
  BY <1>4, <1>5, <1>6, <1>7 DEF Kept
<1>9. QED
  BY <1>1, <1>2, <1>3, <1>4, <1>8, OthersKeep, InvariantByRequest

LEMMA EnterStep ==
    ASSUME IInv, NEW r \in Requests, NEW q \in Sent, Enter(r, q)
    PROVE  IInv'
<1>1. TypeOK /\ SlotsAccounted /\ \A s \in Requests : Kept(s)
  BY InvariantByRequest
<1>2. /\ pc[r] = "idle" /\ rpc[r] = NoRpc /\ acked[r] = {} /\ http'[r] = q /\ q # NoHttp
      /\ context[r] = [x \in Cells |-> Nothing]
      /\ UNCHANGED <<context, rpc, tries, acked, gone, up, sameKey>>
  BY <1>1, Fields DEF Enter, Kept, Progress, TypeOK
<1>3. \/ pc'[r] = "entered" /\ answer' = answer
      \/ pc'[r] = "done" /\ answer'[r] = "429"
  BY <1>1 DEF Enter, TypeOK
<1>4. SlotsAccounted' /\ tokens' \in 0 .. Limit
  <2>1. CASE tokens > 0 /\ tokens' = tokens - 1 /\ pc' = [pc EXCEPT ![r] = "entered"]
    <3>1. Holders' = Holders \cup {r} /\ r \notin Holders
      BY <1>1, <1>2, <2>1 DEF Holders, TypeOK, Holding
    <3>2. Cardinality(Holders') = Cardinality(Holders) + 1 /\ Cardinality(Holders) \in Nat
      BY <3>1, HoldersFinite, FS_AddElement, FS_CardinalityType
    <3>3. QED
      BY <1>1, <2>1, <3>2, LimitAssumption DEF SlotsAccounted, TypeOK
  <2>2. CASE tokens' = tokens /\ pc' = [pc EXCEPT ![r] = "done"]
    <3>1. \A s \in Requests : pc'[s] \in Holding <=> pc[s] \in Holding
      BY <1>1, <1>2, <2>2 DEF TypeOK, Holding
    <3>2. QED
      BY <1>1, <2>2, <3>1, StayKeepsSlots DEF TypeOK
  <2>3. QED
    BY <2>1, <2>2 DEF Enter
<1>5. TypeOK'
  BY <1>1, <1>4 DEF TypeOK, Enter, Holding
<1>6. Others(r)
  BY <1>1 DEF Others, TypeOK, Enter
<1>7. answer[r] = "none" /\ pc'[r] # "idle" /\ (pc'[r] = "entered" => answer'[r] = "none")
  BY <1>1, <1>2, <1>3 DEF Kept, Progress
<1>8. Kept(r)'
  BY <1>2, <1>3, <1>7 DEF Kept, Progress
<1>9. QED
  BY <1>1, <1>4, <1>5, <1>6, <1>8, OthersKeep, InvariantByRequest

\* The middlewares and the part of the handlers before their first wait.
LEMMA DispatchStep ==
    ASSUME IInv, NEW r \in Requests, Dispatch(r)
    PROVE  IInv'
<1> DEFINE q == http[r]
           c == IF q.route = "page" THEN context[r] ELSE WithValue(context[r], ReqCell, r)
           o == IF q.route \in UserRoutes /\ ~isPublicRoute(q)
                THEN JWTAuth(r, q, c) ELSE RegisterRoutes(r, q, c)
           label == IF q.route \in UserRoutes /\ ~isPublicRoute(q) THEN "auth" ELSE "call"
<1>1. TypeOK /\ pc[r] = "entered" /\ Kept(r)
  BY InvariantByRequest DEF Dispatch
<1>2. q \in Sent /\ context[r] = [x \in Cells |-> Nothing]
  BY <1>1 DEF Kept, Progress, TypeOK
<1>3. c \in [Cells -> Values]
  BY <1>1 DEF TypeOK, WithValue, Values, ReqCell, Cells
<1>4. /\ context' = [context EXCEPT ![r] = c] /\ Continue(r, o, label)
      /\ UNCHANGED <<http, acked, gone, up, sameKey>>
  BY DEF Dispatch
<1>5. q.route # "page" => IdIn(c) = r /\ UserIn(c) = Nothing /\ c[ReqCell] = r
  BY <1>2, Kinds DEF WithValue, IdIn, UserIn, ReqCell, UserCell, Cells
<1>6. CASE label = "auth"
  <2>1. o = Answers("400") \/ (o = ExtJWTData(q.bearer, r) /\ q.cookie)
    BY <1>2, <1>5, <1>6, Kinds, Fields DEF JWTAuth, OrElse, HeaderId, UserRoutes
  <2>2. CASE o = Answers("400")
    <3>1. o.rpc = NoRpc /\ o.answer = "400"
      BY <2>2 DEF Answers
    <3>2. Leave(r, "400") /\ UNCHANGED <<rpc, tries>>
      BY <1>4, <3>1 DEF Continue
    <3>3. acked' \in [Requests -> SUBSET Ops] /\ context' \in [Requests -> [Cells -> Values]]
      BY <1>1, <1>3, <1>4 DEF TypeOK
    <3>4. \A s \in Requests \ {r} : acked'[s] = acked[s] /\ context'[s] = context[s]
      BY <1>1, <1>4 DEF TypeOK
    <3>5. pc[r] \in Holding
      BY <1>1 DEF Holding
    <3>6. QED
      BY <1>4, <3>2, <3>3, <3>4, <3>5, LeaveStep
  <2>3. CASE o = ExtJWTData(q.bearer, r) /\ q.cookie
    <3>1. /\ o.rpc \in Rpcs /\ o.rpc # NoRpc /\ o.rpc.op = "ExtJWTData" /\ o.rpc.rq = r
      BY <1>2, <2>3, RpcTypes, Fields DEF ExtJWTData, Sends
    <3>2. c[ReqCell] = r /\ context'[r] = c /\ q.route # "page"
      BY <1>1, <1>4, <1>5, <1>6 DEF TypeOK, UserRoutes
    <3>3. QED
      BY <1>1, <1>3, <1>4, <1>6, <2>3, <3>1, <3>2, WaitStep DEF Continue, TypeOK, Public
  <2>4. QED
    BY <2>1, <2>2, <2>3
<1>7. CASE label = "call"
  <2>1. /\ WellFormed(o) /\ q.route # "delUser"
        /\ o.rpc # NoRpc => o.rpc.op \in Public /\ o.rpc.rq = r
    <3>1. CASE q.route = "page"
      <4>1. o = Answers("200")
        BY <3>1 DEF RegisterRoutes, UserRoutes
      <4>2. QED
        BY <3>1, <4>1 DEF Answers, WellFormed
    <3>2. CASE q.route # "page"
      <4>1. q.route # "delUser" /\ o = RegisterRoutes(r, q, c)
        BY <1>7 DEF UserRoutes, isPublicRoute
      <4>2. QED
        BY <1>2, <1>3, <1>5, <3>2, <4>1, WithoutUser
    <3>3. QED
      BY <3>1, <3>2
  <2>2. CASE o.rpc = NoRpc
    BY <1>1, <1>3, <1>4, <2>1, <2>2, LeaveStep DEF Continue, WellFormed, TypeOK, Holding
  <2>3. CASE o.rpc # NoRpc
    BY <1>1, <1>3, <1>4, <1>7, <2>1, <2>3, WaitStep DEF Continue, WellFormed, TypeOK
  <2>4. QED
    BY <2>2, <2>3
<1>8. QED
  BY <1>6, <1>7

\* ExtJWTData confirmed the token: the handler runs, with the user in the context.
LEMMA AuthStep ==
    ASSUME IInv, NEW r \in Requests, pc[r] = "auth", Succeed(r)
    PROVE  IInv'
<1> DEFINE q == http[r]
           u == q.bearer
           info == [user |-> u, role |-> RoleOf[u]]
           c == AuthContext(context[r], r, info)
           o == RegisterRoutes(r, q, c)
<1>1. TypeOK /\ Kept(r)
  BY InvariantByRequest
<1>2. /\ q \in Sent /\ q.cookie /\ rpc[r].token = u /\ rpc[r].rq = r
      /\ rpc[r].op = "ExtJWTData" /\ u \in Users /\ q.sk = u
  BY <1>1 DEF Kept, Progress, TypeOK, Succeed, Confirmable, ExtJWTData, Sends
<1>3. /\ context' = [context EXCEPT ![r] = c] /\ Continue(r, o, "call")
      /\ acked' = [acked EXCEPT ![r] = @ \cup {"ExtJWTData"}]
      /\ UNCHANGED <<http, gone, up, sameKey>>
  BY <1>2 DEF Succeed
<1>4. /\ c \in [Cells -> Values] /\ UserIn(c) = info /\ IdIn(c) \in {r, Nothing}
  BY <1>1, <1>2, AuthContextShowsUser DEF TypeOK
<1>5. q.route \in UserRoutes
  BY <1>1 DEF Kept, Progress
<1>6. /\ WellFormed(o)
      /\ o.rpc # NoRpc => Speaks(o.rpc, r, q, u)
      /\ o.rpc # NoRpc /\ q.route # "delUser" => o.rpc.op \in Public
      /\ q.route = "delUser" => o.rpc # NoRpc /\ o.rpc.op = "DelUser"
  BY <1>2, <1>4, <1>5, WithUser
<1>7. /\ acked' \in [Requests -> SUBSET Ops] /\ context' \in [Requests -> [Cells -> Values]]
      /\ \A s \in Requests \ {r} : acked'[s] = acked[s] /\ context'[s] = context[s]
  BY <1>1, <1>3, <1>4 DEF TypeOK, Ops
<1>8. CASE o.rpc = NoRpc
  BY <1>3, <1>6, <1>7, <1>8, LeaveStep DEF Continue, WellFormed, Holding
<1>9. CASE o.rpc # NoRpc
  <2>1. /\ pc' = [pc EXCEPT ![r] = "call"] /\ rpc' = [rpc EXCEPT ![r] = o.rpc]
        /\ tries' = [tries EXCEPT ![r] = 0] /\ UNCHANGED <<answer, tokens>>
    BY <1>3, <1>9 DEF Continue
  <2>2. o.rpc \in Rpcs /\ o.rpc # NoRpc /\ Speaks(o.rpc, r, q, u)
    BY <1>6, <1>9 DEF WellFormed
  <2>3. o.rpc.rq \in {r, NoId}
    BY <2>2 DEF Speaks
  <2>4. q.route = "delUser" => o.rpc.op = "DelUser" /\ o.rpc.rq = r
    BY <1>6, <2>2 DEF Speaks, Public
  <2>5. q.route # "delUser" => o.rpc.op \in Public
    BY <1>6, <1>9
  <2>6. o.rpc.op \notin Public => Speaks(o.rpc, r, q, u) /\ u \in Users /\ u = q.sk
    BY <1>2, <2>2
  <2> DEFINE p == o.rpc
  <2> HIDE DEF p
  <2>7. QED
    BY <1>2, <1>3, <1>7, <2>1, <2>2, <2>3, <2>4, <2>5, <2>6, WaitStep DEF p
<1>10. QED
  BY <1>8, <1>9

\* The handler's RPC succeeded, or an RPC failed for good.
LEMMA EndStep ==
    ASSUME IInv, NEW r \in Requests, \/ pc[r] = "call" /\ Succeed(r)
                                     \/ pc[r] \in {"auth", "call"} /\ Fail(r)
    PROVE  IInv'
<1>1. TypeOK /\ Kept(r)
  BY InvariantByRequest
<1>2. CASE pc[r] = "call" /\ Succeed(r)
  <2>1. /\ acked' = [acked EXCEPT ![r] = @ \cup {rpc[r].op}] /\ Leave(r, "200")
        /\ rpc[r].op \in Ops /\ (http[r].route = "delUser" => rpc[r].op = "DelUser")
    BY <1>1, <1>2 DEF Succeed, Kept, Progress, TypeOK, Rpcs
  <2>2. QED
    BY <1>1, <1>2, <2>1, LeaveStep DEF Succeed, TypeOK, Holding
<1>3. CASE pc[r] \in {"auth", "call"} /\ Fail(r)
  BY <1>1, <1>3, LeaveStep DEF Fail, TypeOK, Holding
<1>4. QED
  BY <1>2, <1>3

LEMMA RetryStep ==
    ASSUME IInv, NEW r \in Requests, pc[r] \in {"auth", "call"}, Retry(r)
    PROVE  IInv'
<1>1. CASE Fail(r)
  BY <1>1, EndStep
<1>2. CASE /\ tries[r] + 1 < MaxRetries /\ tries' = [tries EXCEPT ![r] = @ + 1]
           /\ UNCHANGED <<sameKey, up, tokens, pc, http, context, rpc, acked, answer, gone>>
  <2>1. TypeOK' /\ SlotsAccounted'
    BY <1>2, LimitAssumption DEF IInv, TypeOK, SlotsAccounted, Holders
  <2>2. \A s \in Requests : Kept(s)'
    BY <1>2, InvariantByRequest DEF Kept, Progress, ReqCell
  <2>3. QED
    BY <2>1, <2>2, InvariantByRequest
<1>3. QED
  BY <1>1, <1>2 DEF Retry

\* Steps that touch nothing the invariant reads beyond its types.
LEMMA SilentStep ==
    ASSUME IInv, TypeOK', UNCHANGED <<tokens, pc, http, context, rpc, acked, answer>>
    PROVE  IInv'
<1>1. SlotsAccounted'
  BY DEF IInv, SlotsAccounted, Holders
<1>2. \A s \in Requests : Kept(s)'
  BY InvariantByRequest DEF Kept, Progress, ReqCell
<1>3. QED
  BY <1>1, <1>2, InvariantByRequest

LEMMA NextKeeps == IInv /\ [Next]_vars => IInv'
<1> SUFFICES ASSUME IInv, [Next]_vars PROVE IInv'
  OBVIOUS
<1>1. ASSUME NEW r \in Requests, Attempt(r) \/ Break(r) \/ Cancel(r) PROVE IInv'
  <2>1. pc[r] \in {"auth", "call"} /\ (Succeed(r) \/ Fail(r) \/ Retry(r))
    BY <1>1 DEF Attempt, Break, Cancel
  <2>2. QED
    BY <2>1, AuthStep, EndStep, RetryStep
<1>2. ASSUME NEW r \in Requests, Disconnect(r) PROVE IInv'
  BY <1>2, SilentStep DEF Disconnect, IInv, TypeOK
<1>3. CASE Toggle
  BY <1>3, SilentStep DEF Toggle, IInv, TypeOK
<1>4. CASE UNCHANGED vars
  BY <1>4, SilentStep DEF vars, IInv, TypeOK
<1>5. QED
  BY <1>1, <1>2, <1>3, <1>4, EnterStep, DispatchStep DEF Next

LEMMA InitEstablishes == Init => IInv
<1> SUFFICES ASSUME Init PROVE IInv
  OBVIOUS
<1>1. TypeOK
  BY LimitAssumption DEF Init, TypeOK, Values
<1>2. SlotsAccounted
  <2>1. Holders = {}
    BY DEF Init, Holders, Holding
  <2>2. QED
    BY <2>1, FS_EmptySet, LimitAssumption DEF Init, SlotsAccounted
<1>3. \A r \in Requests : Kept(r)
  BY DEF Init, Kept, Progress
<1>4. QED
  BY <1>1, <1>2, <1>3, InvariantByRequest

-----------------------------------------------------------------------------
(* What leaves the gateway, and how often                                   *)

\* Without a user the handlers of the orders answer their refusal.
LEMMA OrderWithoutUser ==
    ASSUME NEW r \in Requests, NEW q \in Sent, NEW c, IdIn(c) = r, UserIn(c) = Nothing,
           q.route \in OrderRoutes
    PROVE  LET o == RegisterRoutes(r, q, c) IN o.rpc = NoRpc /\ o.answer = Refusal(q)
<1> DEFINE o == RegisterRoutes(r, q, c)
<1>1. CASE q.route = "addOrder"
  <2>1. o = addOrder(q, c)
    BY <1>1 DEF RegisterRoutes
  <2>2. o = IF q.body = "garbled" THEN Answers("400") ELSE Answers("401")
    BY <2>1, Kinds DEF addOrder
  <2>3. QED
    BY <1>1, <2>2 DEF Answers, Refusal
<1>2. CASE q.route # "addOrder"
  <2>1. o = orderInfo(q, c) \/ o = delOrder(q, c)
    BY <1>2 DEF RegisterRoutes, OrderRoutes
  <2>2. o = Panics
    BY <2>1 DEF orderInfo, delOrder, UserInfoString
  <2>3. QED
    BY <1>2, <2>2 DEF Panics, Answers, Refusal
<1>3. QED
  BY <1>1, <1>2

\* Where the middlewares and the handler leave a request.
Ends(r, orders) ==
    pc'[r] = "done" /\ rpc'[r] = rpc[r] /\ (orders => answer'[r] = Refusal(http[r]))

Waits(r, label) ==
    /\ pc'[r] = label /\ tries'[r] = 0 /\ rpc'[r] # NoRpc
    /\ rpc'[r].op \in Public \cup {"DelUser"}

LEMMA DispatchOutcome ==
    ASSUME IInv, NEW r \in Requests, Dispatch(r)
    PROVE  \/ Ends(r, http[r].route \in OrderRoutes)
           \/ http[r].route \notin OrderRoutes /\ (Waits(r, "auth") \/ Waits(r, "call"))
<1> DEFINE q == http[r]
           c == IF q.route = "page" THEN context[r] ELSE WithValue(context[r], ReqCell, r)
<1>1. TypeOK /\ q \in Sent /\ context[r] = [x \in Cells |-> Nothing]
  BY DEF IInv, TypeOK, Progress, Dispatch
<1>2. c \in [Cells -> Values]
  BY <1>1 DEF TypeOK, WithValue, Values, ReqCell, Cells
<1>3. q.route # "page" => IdIn(c) = r
  BY <1>1, Kinds DEF WithValue, IdIn, ReqCell, Cells
<1>4. UserIn(c) = Nothing
  BY <1>1, Kinds DEF WithValue, UserIn, ReqCell, UserCell, Cells
<1>5. ASSUME NEW o, NEW label \in {"auth", "call"}, Continue(r, o, label)
      PROVE  IF o.rpc = NoRpc
             THEN pc'[r] = "done" /\ rpc'[r] = rpc[r] /\ answer'[r] = o.answer
             ELSE pc'[r] = label /\ tries'[r] = 0 /\ rpc'[r] = o.rpc
  BY <1>1, <1>5 DEF Continue, Leave, TypeOK
<1>6. CASE q.route \in UserRoutes /\ ~isPublicRoute(q)
  <2>1. Continue(r, JWTAuth(r, q, c), "auth") /\ q.route \notin OrderRoutes
    BY <1>6 DEF Dispatch, UserRoutes, OrderRoutes
  <2>2. JWTAuth(r, q, c) = Answers("400") \/ JWTAuth(r, q, c) = ExtJWTData(q.bearer, r)
    BY <1>1, <1>3, <1>6, Kinds, Fields DEF JWTAuth, OrElse, HeaderId, UserRoutes
  <2>3. Answers("400").rpc = NoRpc
    BY DEF Answers
  <2>4. ExtJWTData(q.bearer, r).rpc # NoRpc /\ ExtJWTData(q.bearer, r).rpc.op = "ExtJWTData"
    BY <1>1, RpcTypes, Fields DEF ExtJWTData, Sends
  <2>5. QED
    BY <1>5, <2>1, <2>2, <2>3, <2>4 DEF Ends, Waits, Public
<1>7. CASE ~(q.route \in UserRoutes /\ ~isPublicRoute(q))
  <2>1. Continue(r, RegisterRoutes(r, q, c), "call")
    BY <1>7 DEF Dispatch
  <2>2. CASE q.route \in OrderRoutes
    <3>1. q.route # "page"
      BY <2>2 DEF OrderRoutes
    <3>2. RegisterRoutes(r, q, c).rpc = NoRpc /\ RegisterRoutes(r, q, c).answer = Refusal(q)
      BY <1>1, <1>3, <1>4, <2>2, <3>1, OrderWithoutUser
    <3>3. QED
      BY <1>5, <2>1, <3>2 DEF Ends
  <2>3. CASE q.route = "page"
    <3>1. RegisterRoutes(r, q, c).rpc = NoRpc /\ q.route \notin OrderRoutes
      BY <2>3 DEF RegisterRoutes, Answers, OrderRoutes
    <3>2. QED
      BY <1>5, <2>1, <3>1 DEF Ends
  <2>4. CASE q.route \in {"regUser", "logUser"}
    <3>1. RegisterRoutes(r, q, c).rpc # NoRpc => RegisterRoutes(r, q, c).rpc.op \in Public
      BY <1>1, <1>2, <1>3, <1>4, <2>4, WithoutUser
    <3>2. q.route \notin OrderRoutes
      BY <2>4 DEF OrderRoutes
    <3>3. QED
      BY <1>5, <2>1, <3>1, <3>2 DEF Ends, Waits
  <2>5. QED
    BY <1>1, <1>7, <2>2, <2>3, <2>4, Fields DEF Routes, UserRoutes, isPublicRoute
<1>8. QED
  BY <1>6, <1>7

LEMMA AuthOutcome ==
    ASSUME IInv, NEW r \in Requests, pc[r] = "auth", Succeed(r)
    PROVE  Ends(r, FALSE) \/ Waits(r, "call")
<1> DEFINE q == http[r]
           u == q.bearer
           c == AuthContext(context[r], r, [user |-> u, role |-> RoleOf[u]])
           o == RegisterRoutes(r, q, c)
<1>1. TypeOK /\ Progress(r)
  BY DEF IInv
<1>2. /\ q \in Sent /\ q.cookie /\ rpc[r].token = u /\ rpc[r].rq = r /\ u \in Users
      /\ q.route \in UserRoutes
  BY <1>1 DEF Progress, TypeOK, Succeed, Confirmable, ExtJWTData, Sends
<1>3. Continue(r, o, "call")
  BY <1>2 DEF Succeed
<1>4. o.rpc # NoRpc => o.rpc.op \in Public \cup {"DelUser"}
  <2>1. c \in [Cells -> Values] /\ UserIn(c) = [user |-> u, role |-> RoleOf[u]]
        /\ IdIn(c) \in {r, Nothing}
    BY <1>1, <1>2, AuthContextShowsUser DEF TypeOK
  <2>2. o.rpc # NoRpc => Speaks(o.rpc, r, q, u)
    BY <1>2, <2>1, WithUser
  <2>3. QED
    BY <2>2 DEF Speaks
<1> HIDE DEF o
<1>5. QED
  BY <1>1, <1>3, <1>4 DEF Continue, Leave, TypeOK, Ends, Waits

\* A step of a running RPC, of whatever cause.
Steps(r) == pc[r] \in {"auth", "call"} /\ (Succeed(r) \/ Fail(r) \/ Retry(r))

LEMMA StepOutcome ==
    ASSUME IInv, NEW r \in Requests, Steps(r)
    PROVE  /\ UNCHANGED http
           /\ \/ Ends(r, FALSE)
              \/ Waits(r, "call") /\ pc[r] = "auth"
              \/ UNCHANGED <<pc, rpc, answer>> /\ tries'[r] = tries[r] + 1
<1>1. TypeOK /\ Progress(r)
  BY DEF IInv
<1>2. CASE Fail(r)
  BY <1>1, <1>2 DEF Fail, Leave, TypeOK, Ends
<1>3. CASE Retry(r) /\ ~Fail(r)
  BY <1>1, <1>3 DEF Retry, TypeOK
<1>4. CASE Succeed(r) /\ pc[r] = "call"
  BY <1>1, <1>4 DEF Succeed, Leave, TypeOK, Ends
<1>5. CASE Succeed(r) /\ pc[r] = "auth"
  BY <1>5, AuthOutcome DEF Succeed, Ends
<1>6. QED
  BY <1>2, <1>3, <1>4, <1>5 DEF Steps

\* What the other requests see of a step.
LEMMA StepIsPrivate ==
    ASSUME TypeOK, NEW r \in Requests,
           (\E q \in Sent : Enter(r, q)) \/ Dispatch(r) \/ Steps(r)
    PROVE  \A s \in Requests \ {r} :
               /\ pc'[s] = pc[s] /\ rpc'[s] = rpc[s] /\ tries'[s] = tries[s]
               /\ http'[s] = http[s] /\ answer'[s] = answer[s]
<1>1. CASE \E q \in Sent : Enter(r, q)
  BY <1>1 DEF Enter, TypeOK
<1>2. ASSUME NEW o, NEW label, Continue(r, o, label)
      PROVE  \A s \in Requests \ {r} : /\ pc'[s] = pc[s] /\ rpc'[s] = rpc[s]
                                         /\ tries'[s] = tries[s] /\ answer'[s] = answer[s]
  BY <1>2 DEF Continue, Leave, TypeOK
<1>3. CASE Dispatch(r)
  BY <1>2, <1>3 DEF Dispatch
<1>4. CASE Steps(r)
  <2>1. CASE Succeed(r) /\ pc[r] = "auth"
    BY <1>2, <2>1 DEF Succeed
  <2>2. CASE (Succeed(r) /\ pc[r] # "auth") \/ Fail(r) \/ Retry(r)
    BY <1>4, <2>2 DEF Steps, Succeed, Fail, Retry, Leave, TypeOK
  <2>3. QED
    BY <1>4, <2>1, <2>2 DEF Steps
<1>5. QED
  BY <1>1, <1>3, <1>4

\* The steps of one request, and those of none.
LEMMA NextBySteps ==
    ASSUME [Next]_vars
    PROVE  \/ \E r \in Requests : (\E q \in Sent : Enter(r, q)) \/ Dispatch(r) \/ Steps(r)
           \/ UNCHANGED <<pc, rpc, tries, http, answer>>
  BY DEF Next, Attempt, Break, Cancel, Steps, Disconnect, Toggle, vars

LEMMA OrdersStep == IInv /\ OrdersAreTurnedAway /\ [Next]_vars => OrdersAreTurnedAway'
<1> DEFINE Away(r) ==
        /\ rpc[r] # NoRpc => rpc[r].op \notin {"AddOrder", "OrderInfo", "DelOrder"}
        /\ http[r] # NoHttp /\ http[r].route \in OrderRoutes =>
              rpc[r] = NoRpc /\ answer[r] \in {"none", "429", Refusal(http[r])}
<1> SUFFICES ASSUME IInv, OrdersAreTurnedAway, [Next]_vars, NEW s \in Requests PROVE Away(s)'
  BY DEF OrdersAreTurnedAway
<1>1. TypeOK /\ Progress(s) /\ Away(s)
  BY DEF IInv, OrdersAreTurnedAway
<1>2. CASE UNCHANGED <<pc, rpc, tries, http, answer>>
  BY <1>1, <1>2
<1>3. ASSUME NEW r \in Requests \ {s}, (\E q \in Sent : Enter(r, q)) \/ Dispatch(r) \/ Steps(r)
      PROVE  Away(s)'
  BY <1>1, <1>3, StepIsPrivate
<1>4. ASSUME NEW q \in Sent, Enter(s, q) PROVE Away(s)'
  <2>1. rpc'[s] = NoRpc
    BY <1>1, <1>4 DEF Enter, Progress
  <2>2. answer'[s] \in {"none", "429"}
    BY <1>1, <1>4 DEF Enter, Progress, TypeOK
  <2>3. QED
    BY <2>1, <2>2
<1>5. CASE Dispatch(s)
  <2>1. UNCHANGED http /\ rpc[s] = NoRpc
    BY <1>1, <1>5 DEF Dispatch, Progress
  <2>2. QED
    BY <1>5, <2>1, DispatchOutcome DEF Ends, Waits, Public
<1>6. CASE Steps(s)
  <2>1. pc[s] = "call" => rpc[s] # NoRpc
    BY <1>1 DEF Progress
  <2>2. pc[s] = "auth" => http[s].route \notin OrderRoutes
    BY <1>1 DEF Progress, UserRoutes, OrderRoutes
  <2>3. http[s] # NoHttp
    BY <1>1, <1>6 DEF Steps, Progress
  <2>4. QED
    BY <1>1, <1>6, <2>1, <2>2, <2>3, StepOutcome DEF Ends, Waits, Public, Steps
<1>7. QED
  BY <1>2, <1>3, <1>4, <1>5, <1>6, NextBySteps

\* What is left to do gets less with every step of a request.
LEMMA EffortStep ==
    ASSUME IInv, [Next]_vars, NEW s \in Requests,
           <<pc[s], rpc[s], tries[s]>>' # <<pc[s], rpc[s], tries[s]>>
    PROVE  Effort(s)' < Effort(s)
<1>1. TypeOK /\ MaxRetries \in Nat /\ tries[s] \in 0 .. MaxRetries - 1 /\ tries'[s] \in 0 .. MaxRetries - 1
  BY LimitAssumption, NextKeeps DEF IInv, TypeOK
<1>2. (\E q \in Sent : Enter(s, q)) \/ Dispatch(s) \/ Steps(s)
  BY <1>1, NextBySteps, StepIsPrivate
<1>3. ASSUME NEW q \in Sent, Enter(s, q) PROVE Effort(s)' < Effort(s)
  <2>1. pc[s] = "idle" /\ pc'[s] \in {"entered", "done"}
    BY <1>1, <1>3 DEF Enter, TypeOK
  <2>2. QED
    BY <1>1, <2>1 DEF Effort
<1>4. CASE Dispatch(s)
  <2>1. pc[s] = "entered"
    BY <1>4 DEF Dispatch
  <2>2. \/ pc'[s] = "done"
        \/ pc'[s] \in {"auth", "call"} /\ tries'[s] = 0
    BY <1>4, DispatchOutcome DEF Ends, Waits
  <2>3. QED
    BY <1>1, <2>1, <2>2 DEF Effort
<1>5. CASE Steps(s)
  <2>1. pc[s] \in {"auth", "call"}
    BY <1>5 DEF Steps
  <2>2. \/ pc'[s] = "done"
        \/ pc'[s] = "call" /\ tries'[s] = 0 /\ pc[s] = "auth"
        \/ pc'[s] = pc[s] /\ tries'[s] = tries[s] + 1
    BY <1>5, StepOutcome DEF Ends, Waits
  <2>3. QED
    BY <1>1, <2>1, <2>2 DEF Effort
<1>6. QED
  BY <1>2, <1>3, <1>4, <1>5

-----------------------------------------------------------------------------
(* Theorems                                                                 *)

\* Where a request is tells what it has done, in every reachable state.
THEOREM Invariance == Spec => []IInv
<1>1. QED
  BY InitEstablishes, NextKeeps, PTL DEF Spec

\* Throttle's slots are free or held by a running request, however requests end.
THEOREM SlotsAreAccounted == Spec => []SlotsAccounted
<1>1. IInv => SlotsAccounted
  BY DEF IInv
<1>2. QED
  BY <1>1, Invariance, PTL

\* Beyond the public routes an RPC speaks for the user whose credentials came
\* with the same request.
THEOREM CallersActForThemselves == Spec => []ActsForItsCaller
<1>1. IInv => ActsForItsCaller
  BY DEF IInv
<1>2. QED
  BY <1>1, Invariance, PTL

\* One pointer or two: user and request id reach the deletion they belong to.
THEOREM ContextArrives == Spec => []IdentityAndIdArrive
<1>1. IInv => IdentityAndIdArrive
  BY DEF IInv
<1>2. QED
  BY <1>1, Invariance, PTL

\* 200 for a deletion means that user-service confirmed it.
THEOREM DeletionsAreDone == Spec => []DeletedMeansDone
<1>1. IInv => DeletedMeansDone
  BY DEF IInv
<1>2. QED
  BY <1>1, Invariance, PTL

\* No order gets past the gateway: none of its RPCs is one of the order-service, and
\* every request to an order route that is let in is answered with its refusal.
THEOREM NoOrderGetsPast == Spec => []OrdersAreTurnedAway
<1>1. Init => OrdersAreTurnedAway
  BY DEF Init, OrdersAreTurnedAway
<1>2. QED
  BY <1>1, OrdersStep, InitEstablishes, NextKeeps, PTL DEF Spec

\* A request never starts over: its attempts are numbered beforehand.
THEOREM EffortIsBounded == Spec => NoRequestStartsOver
<1> DEFINE Less ==
    \A r \in Requests :
        <<pc[r], rpc[r], tries[r]>>' # <<pc[r], rpc[r], tries[r]>> => Effort(r)' < Effort(r)
<1>1. IInv /\ [Next]_vars => [Less]_vars
  BY EffortStep
<1>2. QED
  BY <1>1, Invariance, PTL DEF Spec, NoRequestStartsOver
=============================================================================
