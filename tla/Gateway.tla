------------------------------ MODULE Gateway ------------------------------
(***************************************************************************)
(* The request pipeline of the api-gateway: Throttle with its slots,       *)
(* RequestID and JWTAuth with the values they put into the context, the    *)
(* seven handlers, and Recoverer.  Every request runs in a goroutine of    *)
(* its own; its steps are the places where it waits (a slot, an RPC).      *)
(* What a middleware or handler does in between is an operator whose value *)
(* is an answer or the RPC it sends next.  RPCs go through service.Execute *)
(* (module Breaker has its details); the rate limiter is module            *)
(* RateLimiter, here it refuses whom it likes.                             *)
(***************************************************************************)
EXTENDS Naturals, FiniteSets

CONSTANTS
    Requests,       \* the HTTP requests; each names the id RequestID makes for it
    Users, RoleOf,  \* the accounts, user -> role
    Sent,           \* what clients send
    Limit,          \* slots (10 in the code)
    MaxRetries,     \* attempts of an RPC (3 in the code)
    Nobody, Nothing, NoId, NoHttp, NoRpc

Roles == {"admin", "dev", "guest"}
UserInfos == [user : Users, role : Roles]

\* The routes of the two groups, and those outside ("/", "/metrics").
UserRoutes == {"regUser", "logUser", "delUser", "extUserId"}
OrderRoutes == {"addOrder", "orderInfo", "delOrder"}
Routes == UserRoutes \cup OrderRoutes \cup {"page"}

\* bearer, sk: whose token and session key are sent, if anybody's; target: whose
\* id or token the path holds; body: what Bind and Validate will say of it.
HttpRequests ==
    [route : Routes, query : BOOLEAN, auth : {"none", "malformed", "bearer"},
     bearer : Users \cup {Nobody}, cookie : BOOLEAN, sk : Users \cup {Nobody},
     target : Users \cup {"me"}, body : {"ok", "garbled", "invalid"}]

Ops == {"RegUser", "LogUser", "ExtJWTData", "DelUser", "AddOrder", "OrderInfo", "DelOrder"}
Rpcs == [op : Ops, rq : Requests \cup {NoId, Nothing}, ctx : {"request", "background"},
         info : UserInfos \cup {Nothing}, token : Users \cup {Nobody, Nothing, "me"},
         target : Users \cup {Nothing}]

ASSUME RequestsAssumption == IsFiniteSet(Requests)
ASSUME RoleAssumption == RoleOf \in [Users -> Roles]
ASSUME SentAssumption == Sent \subseteq HttpRequests
ASSUME LimitAssumption == Limit \in Nat \ {0} /\ MaxRetries \in Nat \ {0}
ASSUME SentinelAssumption ==
    /\ Nobody \notin Users /\ "me" \notin Users
    /\ Nothing \notin Requests \cup Users \cup UserInfos
    /\ NoId \notin Requests /\ NoId # Nothing
    /\ NoHttp \notin HttpRequests /\ NoRpc \notin Rpcs
    /\ Requests \cap UserInfos = {}

VARIABLES
    sameKey,    \* UserKey and ReqKey are one pointer: both point to a zero-size struct
    up,         \* the backends answer
    tokens,     \* free slots of Throttle
    pc,         \* where a request is
    http,       \* what was sent
    context,    \* the values in the context of a request
    rpc,        \* the RPC a request waits for, or its last one
    tries,      \* failed attempts of that RPC
    acked,      \* history: the RPCs of a request that succeeded
    answer,     \* the status answered
    gone        \* the client has disconnected, and the request's context is cancelled

vars == <<sameKey, up, tokens, pc, http, context, rpc, tries, acked, answer, gone>>

Values == {Nothing} \cup Requests \cup UserInfos
Cells == {"id", "user"}
Holding == {"entered", "auth", "call"}

TypeOK ==
    /\ sameKey \in BOOLEAN /\ up \in BOOLEAN
    /\ tokens \in 0 .. Limit
    /\ pc \in [Requests -> {"idle", "done"} \cup Holding]
    /\ http \in [Requests -> Sent \cup {NoHttp}]
    /\ context \in [Requests -> [Cells -> Values]]
    /\ rpc \in [Requests -> Rpcs \cup {NoRpc}]
    /\ tries \in [Requests -> 0 .. MaxRetries - 1]
    /\ acked \in [Requests -> SUBSET Ops]
    /\ answer \in [Requests -> {"none", "200", "400", "401", "429", "500"}]
    /\ gone \in [Requests -> BOOLEAN]

Init ==
    /\ sameKey \in BOOLEAN /\ up = TRUE
    /\ tokens = Limit
    /\ pc = [r \in Requests |-> "idle"]
    /\ http = [r \in Requests |-> NoHttp]
    /\ context = [r \in Requests |-> [x \in Cells |-> Nothing]]
    /\ rpc = [r \in Requests |-> NoRpc]
    /\ tries = [r \in Requests |-> 0]
    /\ acked = [r \in Requests |-> {}]
    /\ answer = [r \in Requests |-> "none"]
    /\ gone = [r \in Requests |-> FALSE]

-----------------------------------------------------------------------------
(* Context values                                                           *)

ReqCell == "id"
UserCell == IF sameKey THEN "id" ELSE "user"
WithValue(c, cell, v) == [c EXCEPT ![cell] = v]

\* The request id, if that is what the key finds.
IdIn(c) == IF c[ReqCell] \in Requests THEN c[ReqCell] ELSE Nothing

\* The type assertion .(ck.UserInfo).
UserIn(c) == IF c[UserCell] \in UserInfos THEN c[UserCell] ELSE Nothing

\* Value("userInfo"), which nobody sets: the middleware uses another key.
UserInfoString(c) == Nothing

\* The header X-Request-ID, as RequestID overwrites it.
HeaderId(r) == r

\* Mutant: the id is put on top of the user.
AuthContextSwapped(c, rq, info) == WithValue(WithValue(c, UserCell, info), ReqCell, rq)

\* The context JWTAuth hands on.
AuthContext(c, rq, info) == WithValue(WithValue(c, ReqCell, rq), UserCell, info)

-----------------------------------------------------------------------------
(* What a middleware or a handler does until it waits: an answer or an RPC. *)

Answers(status) == [answer |-> status, rpc |-> NoRpc]
Sends(p) == [answer |-> "none", rpc |-> p]
Panics == Answers("500")    \* caught by Recoverer, below which Throttle's defer runs

OrElse(x, y) == IF x # Nothing THEN x ELSE y

Rpc(op, rq, ctx, info, target) ==
    [op |-> op, rq |-> rq, ctx |-> ctx, info |-> info, token |-> Nothing, target |-> target]

\* The validators skip unexported fields, so token and key go out as they came.
ExtJWTData(token, rq) ==
    Sends([op |-> "ExtJWTData", rq |-> rq, ctx |-> "background", info |-> Nothing,
           token |-> token, target |-> Nothing])

\* A URL with a query is not in the list.
isPublicRoute(q) == q.route \in {"regUser", "logUser"} /\ ~q.query

\* JWTAuth up to its RPC, for routes that are not public.
JWTAuth(r, q, c) ==
    IF q.auth # "bearer" \/ ~q.cookie THEN Answers("400")
    ELSE IF OrElse(IdIn(c), HeaderId(r)) = Nothing THEN Answers("500")
    ELSE ExtJWTData(q.bearer, OrElse(IdIn(c), HeaderId(r)))

\* Mutant: the RPC is not bound to the client's request.
regUserDetached(q, c) ==
    IF q.body # "ok" THEN Answers("400")
    ELSE Sends(Rpc("RegUser", OrElse(IdIn(c), NoId), "background", Nothing, Nothing))

\* Bind and Validate both answer 400.
regUser(q, c) ==
    IF q.body # "ok" THEN Answers("400")
    ELSE Sends(Rpc("RegUser", OrElse(IdIn(c), NoId), "request", Nothing, Nothing))

logUser(q, c) ==
    IF q.body # "ok" THEN Answers("400")
    ELSE Sends(Rpc("LogUser", OrElse(IdIn(c), NoId), "request", Nothing, Nothing))

\* Mutant: the requester is whom the path names.
delUserByPath(r, q, c) ==
    IF UserIn(c) = Nothing \/ q.target = "me" THEN Answers("401")
    ELSE Sends(Rpc("DelUser", r, "background", [user |-> q.target, role |-> RoleOf[q.target]],
                   q.target))

\* Mutant: who may not delete the other is turned away and nothing is written.
delUserSilent(r, q, c) ==
    IF UserIn(c) = Nothing THEN Answers("401")
    ELSE IF q.target # "me" /\ UserIn(c).role # "admin" THEN Answers("200")
    ELSE Sends(Rpc("DelUser", r, "background", UserIn(c), UserIn(c).user))

\* Without the cookie nothing is written, and net/http answers 200.
delUser(r, q, c) ==
    IF OrElse(IdIn(c), HeaderId(r)) = Nothing THEN Answers("500")
    ELSE IF UserIn(c) = Nothing THEN Answers("401")
    ELSE IF ~q.cookie THEN Answers("200")
    ELSE Sends(Rpc("DelUser", OrElse(IdIn(c), HeaderId(r)), "background", UserIn(c),
                   IF q.target = "me" THEN UserIn(c).user ELSE q.target))

\* The token of the path goes to ExtJWTData again.
extUserId(q, c) ==
    IF ~q.cookie THEN Answers("400") ELSE ExtJWTData(q.target, OrElse(IdIn(c), NoId))

\* Validate comes after the user, Bind before.
addOrder(q, c) ==
    IF IdIn(c) = Nothing THEN Panics
    ELSE IF q.body = "garbled" THEN Answers("400")
    ELSE IF UserIn(c) = Nothing THEN Answers("401")
    ELSE IF q.body = "invalid" THEN Answers("400")
    ELSE Sends(Rpc("AddOrder", IdIn(c), "request", UserIn(c), Nothing))

orderInfo(q, c) ==
    IF UserInfoString(c) = Nothing \/ IdIn(c) = Nothing THEN Panics
    ELSE Sends(Rpc("OrderInfo", IdIn(c), "request", UserInfoString(c), Nothing))

delOrder(q, c) ==
    IF UserInfoString(c) = Nothing \/ IdIn(c) = Nothing THEN Panics
    ELSE Sends(Rpc("DelOrder", IdIn(c), "background", UserInfoString(c), Nothing))

RegisterRoutes(r, q, c) ==
    CASE q.route = "regUser"   -> regUser(q, c)
      [] q.route = "logUser"   -> logUser(q, c)
      [] q.route = "delUser"   -> delUser(r, q, c)
      [] q.route = "extUserId" -> extUserId(q, c)
      [] q.route = "addOrder"  -> addOrder(q, c)
      [] q.route = "orderInfo" -> orderInfo(q, c)
      [] q.route = "delOrder"  -> delOrder(q, c)
      [] q.route = "page"      -> Answers("200")

-----------------------------------------------------------------------------
(* The steps of a request                                                   *)

Slots == <<tokens, gone, up, sameKey>>

\* Mutant: a handler that panics keeps its slot.
LeavePanicKeeps(r, status) ==
    /\ pc' = [pc EXCEPT ![r] = "done"]
    /\ answer' = [answer EXCEPT ![r] = status]
    /\ tokens' = IF status = "500" THEN tokens ELSE tokens + 1

\* The handler returns or panics, and Throttle's defer gives the slot back.
Leave(r, status) ==
    /\ pc' = [pc EXCEPT ![r] = "done"]
    /\ answer' = [answer EXCEPT ![r] = status]
    /\ tokens' = tokens + 1

\* What comes of the code that ran: an answer, or an RPC to wait for.
Continue(r, o, label) ==
    \/ /\ o.rpc = NoRpc
       /\ Leave(r, o.answer)
       /\ UNCHANGED <<rpc, tries>>
    \/ /\ o.rpc # NoRpc
       /\ pc' = [pc EXCEPT ![r] = label]
       /\ rpc' = [rpc EXCEPT ![r] = o.rpc]
       /\ tries' = [tries EXCEPT ![r] = 0]
       /\ UNCHANGED <<answer, tokens>>

\* RateLimit and Throttle: without a free slot the request is refused at once.
Enter(r, q) ==
    /\ pc[r] = "idle"
    /\ http' = [http EXCEPT ![r] = q]
    /\ \/ /\ tokens > 0
          /\ tokens' = tokens - 1
          /\ pc' = [pc EXCEPT ![r] = "entered"]
          /\ UNCHANGED answer
       \/ /\ pc' = [pc EXCEPT ![r] = "done"]
          /\ answer' = [answer EXCEPT ![r] = "429"]
          /\ UNCHANGED tokens
    /\ UNCHANGED <<context, rpc, tries, acked, gone, up, sameKey>>

\* RequestID in both groups, JWTAuth in the group of the users only.
Dispatch(r) ==
    /\ pc[r] = "entered"
    /\ LET q == http[r]
           c == IF q.route = "page" THEN context[r] ELSE WithValue(context[r], ReqCell, r)
       IN  /\ context' = [context EXCEPT ![r] = c]
           /\ IF q.route \in UserRoutes /\ ~isPublicRoute(q)
              THEN Continue(r, JWTAuth(r, q, c), "auth")
              ELSE Continue(r, RegisterRoutes(r, q, c), "call")
    /\ UNCHANGED <<http, acked, gone, up, sameKey>>

\* ExtJWTData confirms a token only with a key of the same user.
Confirmable(r) ==
    rpc[r].op = "ExtJWTData" =>
        rpc[r].token \in Users /\ http[r].cookie /\ rpc[r].token = http[r].sk

\* Execute returned a result.
Succeed(r) ==
    /\ Confirmable(r)
    /\ acked' = [acked EXCEPT ![r] = @ \cup {rpc[r].op}]
    /\ \/ /\ pc[r] = "auth"
          /\ LET info == [user |-> rpc[r].token, role |-> RoleOf[rpc[r].token]]
                 c == AuthContext(context[r], rpc[r].rq, info)
             IN  /\ context' = [context EXCEPT ![r] = c]
                 /\ Continue(r, RegisterRoutes(r, http[r], c), "call")
       \/ /\ pc[r] = "call"
          /\ Leave(r, "200")
          /\ UNCHANGED <<context, rpc, tries>>
    /\ UNCHANGED <<http, gone, up, sameKey>>

\* Execute returned an error; only extUserId makes a 400 of it.
Fail(r) ==
    /\ Leave(r, IF pc[r] = "call" /\ http[r].route = "extUserId" THEN "400" ELSE "500")
    /\ UNCHANGED <<http, context, rpc, tries, acked, gone, up, sameKey>>

\* Mutant: the last attempt is followed by the first.
RetryForever(r) ==
    /\ tries' = [tries EXCEPT ![r] = (@ + 1) % MaxRetries]
    /\ UNCHANGED <<sameKey, up, tokens, pc, http, context, rpc, acked, answer, gone>>

\* An attempt failed with a retryable code; after the last one Execute fails.
Retry(r) ==
    \/ /\ tries[r] + 1 < MaxRetries
       /\ tries' = [tries EXCEPT ![r] = @ + 1]
       /\ UNCHANGED <<sameKey, up, tokens, pc, http, context, rpc, acked, answer, gone>>
    \/ tries[r] + 1 = MaxRetries /\ Fail(r)

\* An attempt returns from a backend that answers.
Attempt(r) ==
    /\ pc[r] \in {"auth", "call"}
    /\ up
    /\ Succeed(r) \/ Fail(r) \/ Retry(r)

\* Nothing comes from the backend, but the connection breaks or the breaker refuses.
Break(r) ==
    /\ pc[r] \in {"auth", "call"}
    /\ ~up
    /\ Retry(r) \/ (tries[r] = 0 /\ Fail(r))

\* An RPC under the client's context ends with it, as Canceled, which is retried.
Cancel(r) ==
    /\ pc[r] \in {"auth", "call"}
    /\ rpc[r].ctx = "request" /\ gone[r]
    /\ Retry(r)

Disconnect(r) ==
    /\ pc[r] \in Holding /\ ~gone[r]
    /\ gone' = [gone EXCEPT ![r] = TRUE]
    /\ UNCHANGED <<sameKey, up, tokens, pc, http, context, rpc, tries, acked, answer>>

\* The backends stop answering, and answer again.
Toggle ==
    /\ up' = ~up
    /\ UNCHANGED <<sameKey, tokens, pc, http, context, rpc, tries, acked, answer, gone>>

Next ==
    \/ \E r \in Requests :
          \/ \E q \in Sent : Enter(r, q)
          \/ Dispatch(r) \/ Attempt(r) \/ Break(r) \/ Cancel(r) \/ Disconnect(r)
    \/ Toggle

Spec == Init /\ [][Next]_vars

\* Goroutines run, a cancelled attempt returns, and so does one to a backend
\* that answers.  Nothing is assumed of a backend that does not.
FairSpec ==
    /\ Spec
    /\ \A r \in Requests :
          WF_vars(Dispatch(r)) /\ WF_vars(Attempt(r)) /\ WF_vars(Cancel(r))

-----------------------------------------------------------------------------
(* Safety                                                                   *)

Holders == {r \in Requests : pc[r] \in Holding}

\* Every slot is free or held by a request that is still running: answers,
\* errors, panics, retries and disconnections all give it back, exactly once.
SlotsAccounted == tokens + Cardinality(Holders) = Limit

\* Beyond the public routes an RPC speaks for the user whose token and key came
\* with this very request, with that user's role; "me" is that user.
ActsForItsCaller ==
    \A r \in Requests : rpc[r] # NoRpc /\ rpc[r].op \notin {"RegUser", "LogUser", "ExtJWTData"} =>
        /\ rpc[r].info \in UserInfos
        /\ rpc[r].info.user = http[r].bearer /\ http[r].bearer = http[r].sk
        /\ rpc[r].info.role = RoleOf[http[r].bearer]
        /\ http[r].target = "me" => rpc[r].target = rpc[r].info.user

\* Whether or not the two keys are one pointer (ctxkey.go:6), an authenticated
\* deletion finds its user and goes out under its own request id, and no RPC
\* ever carries the id of another request.
IdentityAndIdArrive ==
    \A r \in Requests :
        /\ rpc[r] # NoRpc => rpc[r].rq \in {r, NoId}
        /\ http[r] # NoHttp /\ http[r].route = "delUser" =>
              /\ answer[r] # "401"
              /\ rpc[r] # NoRpc => rpc[r].rq = r

\* 200 for a deletion means that user-service confirmed it, although delUser has
\* a path that writes nothing (handler.go:175-182), which means 200 as well.
DeletedMeansDone ==
    \A r \in Requests : http[r] # NoHttp /\ http[r].route = "delUser" /\ answer[r] = "200" =>
        "DelUser" \in acked[r]

\* The inductive invariant: what a request has done by the time it is where it is.
Public == {"RegUser", "LogUser", "ExtJWTData"}

Progress(r) ==
    /\ pc[r] = "idle" <=> http[r] = NoHttp
    /\ pc[r] \in {"idle", "entered"} =>
          context[r] = [x \in Cells |-> Nothing] /\ rpc[r] = NoRpc /\ acked[r] = {}
    /\ pc[r] = "done" <=> answer[r] # "none"
    /\ pc[r] = "auth" =>
          /\ rpc[r] = ExtJWTData(http[r].bearer, r).rpc
          /\ http[r].route \in UserRoutes
          /\ http[r].cookie /\ context[r][ReqCell] = r
    /\ pc[r] = "call" =>
          rpc[r] # NoRpc /\ (http[r].route = "delUser" => rpc[r].op = "DelUser")

IInv ==
    /\ TypeOK
    /\ SlotsAccounted
    /\ \A r \in Requests : Progress(r)
    /\ ActsForItsCaller
    /\ IdentityAndIdArrive
    /\ DeletedMeansDone

\* With what a request to the order routes is turned away by its handler.
Refusal(q) ==
    CASE q.route # "addOrder"                       -> "500"
      [] q.route = "addOrder" /\ q.body = "garbled" -> "400"
      [] q.route = "addOrder" /\ q.body # "garbled" -> "401"

\* Nothing a client can send makes the gateway call the order-service, and a request to
\* the order routes that Throttle lets in gets no other answer than its refusal: 401 or
\* 400 from addOrder, because JWTAuth is not installed for the orders group
\* (routers.go:100), 500 from orderInfo and delOrder, which look for a value nobody sets
\* (orders/handler.go:104, 165).
OrdersAreTurnedAway ==
    \A r \in Requests :
        /\ rpc[r] # NoRpc => rpc[r].op \notin {"AddOrder", "OrderInfo", "DelOrder"}
        /\ http[r] # NoHttp /\ http[r].route \in OrderRoutes =>
              rpc[r] = NoRpc /\ answer[r] \in {"none", "429", Refusal(http[r])}

\* The steps a request still has in front of it, at most: its own two, and the
\* attempts of JWTAuth's RPC and of the handler's.
Effort(r) ==
    CASE pc[r] = "idle"    -> 2 * MaxRetries + 2
      [] pc[r] = "entered" -> 2 * MaxRetries + 1
      [] pc[r] = "auth"    -> 2 * MaxRetries - tries[r]
      [] pc[r] = "call"    -> MaxRetries - tries[r]
      [] pc[r] = "done"    -> 0

\* Whatever the backends answer and whoever leaves, no request starts over: every
\* attempt, retry and change of place brings it nearer to its end, so it sends at most
\* 2 * MaxRetries attempts and holds its slot for no more than them (service.go:75-91).
NoRequestStartsOver ==
    [][\A r \in Requests :
          <<pc[r], rpc[r], tries[r]>>' # <<pc[r], rpc[r], tries[r]>> => Effort(r)' < Effort(r)]_vars

-----------------------------------------------------------------------------
(* Liveness                                                                 *)

\* Slots come back once the backends answer again, whoever is still connected.
SlotsReturn ==
    <>[]up => \A r \in Requests : pc[r] \in Holding ~> pc[r] = "done"

\* The slot of a client that has left comes back even if the backend never
\* answers again -- for RPCs that run under the client's context.
CancelledReturns ==
    \A r \in Requests :
        pc[r] = "call" /\ gone[r] /\ http[r].route \in {"regUser", "logUser"} ~> pc[r] = "done"

-----------------------------------------------------------------------------
(* What the recorded requests say and the code does not do                  *)

\* api-gateway/order-service.json:30-33: a POST to /api/orders with a bearer token
\* and a valid body is answered with the id of the order.
AuthorisedOrderIsServed ==
    \A r \in Requests :
        http[r] # NoHttp /\ http[r].route = "addOrder" /\ http[r].auth = "bearer"
        /\ http[r].bearer \in Users /\ http[r].bearer = http[r].sk /\ http[r].cookie
            => answer[r] # "401"
=============================================================================
