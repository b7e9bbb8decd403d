# Formal model of 3l1

TLA+ models of the 3l1 services (`api-gateway`, `user-service`, `order-service`),
checked with TLC on small instances and, for the safety properties, proved with
TLAPS for every value of the constants. Paths below are relative to the
repository root; `main.go`, `db.go`, ... without a directory belong to the
service the section is about. `PROJECT.json` lists every run, mutant, theorem,
finding and hazard, and maps every definition to the lines it models.

    tlc -workers 2 -config MCUserService_accounts.cfg MCUserService.tla
    tlapm UserServiceProofs.tla

## 1. The system

    client --HTTP--> api-gateway --gRPC--> user-service  --> Postgres "users", Redis "session keys"
                          |      --gRPC--> order-service --> Postgres "orders"
                          +--> Redis "rate limit"

| component | state it keeps | operations | interacts through |
|---|---|---|---|
| user-service (`user-service/main.go`, `internal/db`, `internal/crypto`) | table `users`; Redis hashes of session keys (30 days); JWTs held by clients (15 min); a pool of 20 connections | `RegUser`, `LogUser`, `ExtJWTData`, `DelUser` | gRPC calls of the gateway; Postgres; Redis |
| order-service (`order-service/main.go`, `internal/db`) | table `orders`; a pool of 20 connections | `AddOrder`, `OrderInfo`, `DelOrder` | gRPC calls of the gateway; Postgres |
| gateway RPC wrapper (`api-gateway/internal/service`, `internal/cbreaker`) | one circuit breaker per backend (sony/gobreaker) | `Execute`: breaker around up to three attempts | every handler's RPC |
| gateway rate limiter (`api-gateway/internal/mdwr/rl.go`) | one Redis counter with a TTL per client address | INCR, EXPIRE, admit or 429 | Redis, shared by all requests |
| gateway pipeline (`api-gateway/internal/routers`, `mdwr`, `users`, `orders`) | context values of a request; ten throttle slots | RateLimit, CORS, Recoverer, Compress, Throttle, RequestID, JWTAuth, Metrics, handlers | middleware order, context values, panics |
| shutdown (`main.go` of each service, `internal/graceful`) | goroutines and a one-slot channel per step | stop the server, then close clients and stores, under a shared deadline | signals, contexts |
| generated code (`protos`), metrics, logs, deployment | none that the program reads back | marshalling, validation, counters | |

What is hard in each, and what makes it correct:

- **user-service.** grpc-go runs every call in its own goroutine; a call touches
  two stores that share no transaction. Registration stores the session *before*
  the row, deletion removes the session *before* it is authorised, login reads
  the row and makes the session later, the role is checked in one statement and
  the row deleted in another. Any step can fail, a write whose reply is lost may
  have been applied, `s.Stop()` cuts handlers off anywhere. Correct means: no
  reply vouches for an account that never existed, an id has one role wherever
  it is carried, a deleted account stays deleted, rows go only when authorised,
  a spent key confirms nobody, every call is answered.
- **order-service.** The same concurrency over one table. Correct means: an order
  is shown to its owner only, an acknowledged order is lost only to its owner's
  deletion, an acknowledged deletion holds, connections come back to the pool.
- **RPC wrapper.** All requests share a breaker whose counters are changed by
  calls that began long ago (three RPCs and six seconds of sleep). Correct means:
  late results do not count, no more than `MaxRequests` probes reach a backend
  that may be down, the breaker neither sticks nor opens without cause.
- **rate limiter.** INCR and EXPIRE are two commands with other requests, failures
  and restarts between them, and the Redis client sends a command again whose reply
  is lost. Correct means: no more than the limit pass in the life of a key, and
  every key is on its way to an expiry.
- **pipeline, shutdown.** Slots must come back on every path, panics included;
  the context values a handler reads must have been put there by a middleware of
  its route; a deadline races the work it limits.

The list of hazards with their lines, and the properties aimed at each, is in
`PROJECT.json` ("hazards"); where no property covers one, its note says why.

## 2. Modules

| module | role |
|---|---|
| `UserService` | the four handlers of user-service, clients, expiry, restart; all its properties |
| `UserServiceInv` | the inductive invariant of `UserService` |
| `AccountLedger` | what user-service promises: accounts opened once, closed at most once, credentials for opened accounts only |
| `UserServiceProofs` | theorems about `UserService`, and the refinement of `AccountLedger` |
| `OrderService` | the three handlers of order-service, properties, inductive invariant |
| `OrderBook` | what order-service promises: an id is used once, orders are shown to and cancelled by their user only, an acknowledged cancellation has taken effect |
| `OrderServiceProofs` | theorems about `OrderService`, and the refinement of `OrderBook` |
| `Breaker`, `BreakerProofs` | `service.Execute` and gobreaker; theorems |
| `Circuit` | what a circuit breaker promises; implemented by `Breaker` |
| `RateLimiter`, `RateLimiterProofs` | the rate-limit middleware over Redis; theorems |
| `FixedWindow` | what a rate limiter promises: requests are counted in windows, at every try, and pass if and only if there is room; implemented by `RateLimiter` |
| `Gateway`, `GatewayProofs` | the request pipeline: throttle slots, middlewares, context values, handlers; theorems |
| `Platform`, `PlatformProofs` | EXTENDS `UserService`: clients, the gateway's authentication and retries, lost and late messages over the service; theorems, among them that it implements `UserService!Spec` |
| `Shutdown`, `ShutdownProofs` | the three `main`s from the signal to their end, `graceful.Shutdown`, `ShutdownServices`; theorems |
| `MCUserService`, `MCOrderService`, `MCBreaker`, `MCRateLimiter`, `MCGateway`, `MCPlatform`, `MCShutdown` | instances for TLC; each `.cfg` is `<module>_<question>.cfg` |

How they compose: `Breaker` is the inside of `service.Execute`, which `Gateway` uses
as "an attempt succeeds, fails, is retried or refused"; `RateLimiter` is the first
middleware, which in `Gateway` refuses whom it likes; `UserService` receives in
`Platform` only what the gateway sends; `Shutdown` is what lies behind `Restart`.

Operators whose comment begins with `Mutant:` are plausible bugs. Nothing in the
models uses them; each property has one in `PROJECT.json` ("mutants") that breaks
it, which shows that the property depends on the line it is about.

## 3. How the models correspond to the code

**Grain.** One action is one access to a store (or one RPC attempt) together with
everything the handler does up to the next one: validation, comparison, early
return. Two accesses of a handler are two actions, and other calls come between
them. An access that can fail has three outcomes where the code can meet three:
applied and answered, applied and the reply lost, not applied.

### UserService

| action | code (`user-service/`) |
|---|---|
| `RegSession` | `RegUser` up to and including `NewSession`: validator, uuid, bcrypt, JWT, MULTI/EXEC of HSET and EXPIRE |
| `RegInsert` | `Repo.AddUser` and the translation of 23505 into "already exists" |
| `LogReceive`, `LogLookup`, `LogSession` | `LogUser`: validator; SELECT by user_name and `CheckPswd`; new session and token |
| `ExtParse`, `ExtValidate` | `ExtJWTData`: `ExtJWT`, which refuses an expired token; HGETALL and comparison |
| `DelSession` | `DelUser`: DEL of the session key |
| `DelBegin`, `DelCheck`, `DelExec` | `Repo.DelUser`: Beginx and the tests without a query; `getUserRole`; DELETE and COMMIT |
| `TokenExpires`, `SessionExpires` | the 15 minutes of a JWT, the 30 days of a key |
| `Restart` | `s.Stop()` or a crash: running calls are never answered, connections are dropped, stores stay |

State: `users` and `sessions` are the stores; `pc`, `req`, `who`, `result` are the
locals and the outcome of each handler; `leaked` are the transactions
`Repo.DelUser` leaves open at its early returns (no `Rollback`), so
`Held = leaked + running transactions` is what the pool has lost. `removed` is a
history variable: which rows were deleted.

Abstractions: uuid, session key and JWT that a call creates are fresh, so all
three are named by the call. A password hash matches exactly its password, a JWT
carries exactly the identity it was made for; tokens nobody issued do not occur.
`UserName` maps a profile to the column `user_name`: the code concatenates name
and e-mail, so the map need not be injective, and the proofs do not assume it is.
Clients send the tokens and keys of earlier replies; the requester of a deletion
is the identity `JWTAuth` established (`api-gateway/internal/mdwr/jwt.go`). The
model does not relate requester and key to *one* login: `ExtJWTData` checks that.

### OrderService

| action | code (`order-service/`) |
|---|---|
| `AddReceive`, `AddInsert` | `AddOrder`: validator; INSERT with status "processed" |
| `InfoSelect` | `OrderInfo`: SELECT by id and user_id |
| `DelBegin`, `DelCheck`, `DelExec` | `Repo.DelOrder`: Beginx; the branch for admins; DELETE by id and user_id, COMMIT, with the deferred `Rollback` |
| `Restart` | `s.Stop()` or a crash |

`DelCheck` only refuses. `getUserInfo` (`db.go:129-134`) scans two columns into a
struct whose fields are unexported; sqlx then takes the struct for a scalar and
fails for every row, so what the code does after it is never reached. Of an order,
owner, role and status are kept. Clients name orders by ids `AddOrder` returned.
`RoleOf` is a function: an account does not change its role, which is what
`OneRolePerAccount` shows for user-service.

### Breaker

`cb` is the breaker, with pure operators for gobreaker's steps: `NewGeneration`
(toNewGeneration), `Current` (currentState), `Admits`/`OnRequest`
(beforeRequest), `AfterRequest` with `OnSuccess`/`OnFailure` (afterRequest).
gobreaker is not in the repository: it is modelled from the settings of
`cb.go` and the library's contract, and marked external in the map. Callers are
goroutines of the gateway that call again and again: `Admit`, `Answer` (an
attempt returns), `Wake` (the pause after a retryable error is over), `Settle`
(the result reaches the breaker).

Two reductions. gobreaker numbers generations and compares a call's number only
with the current one; the model keeps the *set* `fresh` of calls of the current
generation, which needs no unbounded number. Counters are kept only where
gobreaker reads them: requests and successes when half-open, consecutive
failures when closed. `Tick` lets the interval of a closed or the timeout of an
open breaker pass; as in gobreaker, nobody notices before a call begins or ends.

### RateLimiter

| action | code (`api-gateway/internal/mdwr/rl.go`) |
|---|---|
| `Incr` | INCR is sent, applied and answered, and what is decided from its reply: first, over the limit, or admitted |
| `IncrIsRetried` | INCR is sent, the connection fails or the reply is late, and go-redis will send it again |
| `IncrUnseen` | Redis applies an INCR nobody waits for any more: at once, before or after its retry, or after the decision |
| `IncrFails` | INCR returns an error, after the last retry or without one, and the request passes uncounted |
| `Expire`, `ExpireIsRetried` | EXPIRE, whose error is ignored; its reply is lost and go-redis sends it again |
| `Elapse`, `RedisRestart`, `GatewayRestart` | the minute is over; Redis loses its data (it has no volume); the gateway stops before EXPIRE or between an INCR and its retry |

The client is made with go-redis's defaults (`rl.go:24-28`): up to three retries of a
command whose connection fails or whose reply is late, so `MaxSends` is 4 in the
program. go-redis is not in the repository; its contract is used here as far as it
changes what Redis counts. A retried INCR may count twice for one request, which can
limit a client within the limit and, if the lost INCR made the key, leaves the key
without an expiry. `unanswered` holds the INCRs, as pairs of request and number, that
were given up and that Redis may or may not still apply. `counted` (which INCRs the
present key has counted) and `orphans` (which keys lost their EXPIRE to a fault) are
history variables. `KeyOf` need not be injective: every IPv6 address is cut to `[`, and
those clients share a key.

user-service uses the same client. Its commands (MULTI/EXEC of HSET and EXPIRE, HGETALL,
DEL) may be sent again without a difference within one access, so `UserService` needs no
retries; an access whose last reply is lost is one of its failures.

### Gateway

A request waits in two places, for a slot (it does not: without one it is refused)
and for an RPC. Everything a middleware or handler does in between is an operator
of the same name (`JWTAuth`, `regUser`, `delUser`, `addOrder`, ...) whose value is an
answer or the RPC it sends; the actions put these into the right order.

| action | code (`api-gateway/`) |
|---|---|
| `Enter` | rate limit and `middleware.Throttle(10)` of `NewServer` (`routers.go:61-68`) |
| `Dispatch` | the chain of the route's group (`routers.go:86-125`): `RequestID`, for users `JWTAuth`, and the handler if neither answers |
| `Attempt`, `Break`, `Cancel` | an attempt inside `service.Execute` returns from the backend, from a broken connection or the breaker, or because the client left |
| `Disconnect`, `Toggle` | a client leaves; the backends fall silent and come back |

`context` holds what the middlewares put under `ReqKey` and `UserKey`. Both keys are
pointers to a zero-size struct (`ctxkey.go:6`), which Go may or may not make equal:
`sameKey` is chosen in `Init`. `query` tells whether the URL has a query, as
`isPublicRoute` compares the whole URL. The validators of `delUser` and of the
order handlers skip unexported fields, so they refuse nothing there. Panics end
in `Recoverer` as a 500. `SlotsAccounted`, `ActsForItsCaller`, ... are about
`tokens`, `rpc`, `http` and `acked` (a history variable).

### Platform

`form` is what a client sent, `current` the attempt the gateway waits for, `sent` the
request of an attempt on its way. An attempt is a call of `UserService`, so a retry
is another call; `Caller` says whose attempt a call may be.

| action | code |
|---|---|
| `Submit` | a client sends a request with the token and key of earlier replies |
| `Attempt`, `Refuse` | a turn of the loop of `rpc`, the client stub; the breaker refuses |
| `Succeed` | the reply of `ExtJWTData` becomes the `UserInfo` of the handler; the reply of the handler's RPC ends the request |
| `Fail`, `Lose` | an error of a handler (code Unknown, not retried); a lost connection or reply (retried up to `MaxRetries`) |
| `Deliver` | the server's method descriptor and handler start the service's handler, at once or long after the gateway gave up |
| `Continue`, `TokenExpires`, `SessionExpires` | as in `UserService` |
| `RestartService` | `Restart`, and requests not yet received are gone |

The gateway's handlers keep their order: `phase` is "auth" during `JWTAuth`, "call" in
the handler. `ExtJWTData` returns a renewed token that the gateway drops
(`users/handler.go:267-270`), so clients hold tokens of `RegUser` and `LogUser` only.
Request ids do not appear: the services do not read them. Orders do not appear either, since no order request gets to its RPC.

### Shutdown

`program` is one of the three `main`s, as the stages it stops in. `call[s]` is
`graceful.Shutdown` as its caller sees it, `stopper[s]` the goroutine that runs the
stop, `done[s]` the channel of capacity one between them. `StopReturns` may happen
at any time or never. `Send` and `Return` are the two ends of the channel, `Return`
also the deadline's side of the `select`; `CloseClient`, `GroupDone` and `ServicesEnd`
are `ShutdownServices` with its WaitGroup. `StageEnds` does not look at errors:
neither does `main`. `ServeFails` is the gateway's `log.Fatal` (`main.go:76-77`), in a
goroutine that may get to it before or after the signal.

## 4. Runs

All counters named in the table are bounds of the instance, not of the theorems.

| run | instance | what it shows |
|---|---|---|
| `accounts` | 4 calls, 2 profiles, roles admin and guest, pool of 2, no store failure (`MaxFaults = 0`), symmetric calls and profiles | one role per account, deletions final and authorised, spent keys confirm nobody, the pool neither overdrawn nor waited for in a circle |
| `logins` | 3 calls, 2 profiles with *one* user_name, 2 passwords, an invalid role, pool of 1, every failure and restart | the inductive invariant; logins are genuine; the ledger of accounts is implemented, so credentials are for registered accounts only |
| `platform` | 2 HTTP requests (a registration; any request after it), 4 attempts, 2 attempts per RPC, pool of 1, at most 2 faults, fairness | the gateway meets the service's assumptions, registrations open one account, reported deletions are real, removals are authenticated, requests and calls are answered unless abandoned transactions have used up the pool |
| `gateway` | 2 requests of 18 kinds, an admin and a guest, 1 slot, 2 attempts, backends that come and go, one context key or two, fairness | slots are accounted for and come back, identities and request ids arrive, deletions are not reported without being done |
| `shutdown` | the three programs as they are, stops that return, fail, are late or never end, fairness | stops are orderly, reports true, nobody blocks, the process ends |
| `orders` | 4 calls of an admin and a guest, pool of 2, failures and restarts with at most 2 calls that come to nothing, fairness | the book of orders is implemented (privacy, deletions that hold), acknowledged orders are kept, the pool is shared, the inductive invariant, every call is answered |
| `breaker` | 3 callers, 2 attempts, 2 probes, failure limit 1, replies ok, rejected, cancelled, outages, fairness | the circuit is implemented, counters match the running probes (in `IInv`), only the last probe closes, calls make a bounded number of attempts, the breaker recovers unless a probe hangs for ever |
| `limiter` | 3 requests of one address, limit 2, INCR sent up to twice, every failure and restart, fairness | the fixed window is implemented, keys are on their way to an expiry (in `IInv`), a limit ends |
| `refresh` | 2 calls | *violation*: an expired token with a live key is refused (finding 1) |
| `leak` | 4 calls, pool of 1, fairness | *violation*: a refused deletion starves another call for ever (finding 2) |
| `order_admin` | 2 calls, admin and guest | *violation*: an admin's deletion is refused (finding 3) |
| `gateway_orders` | 1 request | *violation*: an authorised order is answered 401 (finding 4) |

Why the bounds are enough to be interesting:

- *user-service.* The longest stories need four calls: two registrations, a
  login or validation, and a deletion running beside it; an admin's deletion
  needs two accounts. With all failures four calls are too many states, so
  `accounts` has four without failures, and `logins` has three
  with every failure; the proofs cover the safety properties at any size, failures
  included. `FewFaults` is the constraint that counts failed calls. A pool of 1 makes
  one leaked transaction fatal, a pool of 2 lets two transactions overlap.
- *order-service.* Four calls hold an order, its lookup, its deletion and a
  call of the other user. `FewFaults` counts errors, crashed calls and invalid orders:
  with three of them nothing is left of four calls that could go wrong.
- *breaker.* The code's 3 attempts, 5 probes and limit 5 become 2, 2 and 1: a
  retry, a probe that is not the last, and a failure that does not open all still
  happen, and a third caller can return from an earlier generation meanwhile.
- *limiter.* Limit 2 instead of 50, two sends instead of four: up to six INCRs of
  three requests, so two pass and one is refused, or fewer pass because retries
  were counted, in any order of their commands; the key can expire or be lost
  in between, and an INCR can reach the next key late. Every action touches one key
  only, except the restarts, so one address is enough; the proofs have any number.

- *platform.* One request of the client that has registered needs up to four attempts:
  authentication, the call, and a retry of one of them; with the one of the
  registration that is more calls than TLC can treat with all faults, so the instance
  has three for the second request and `FewFaults` (errors, lost messages, expiries
  at most 2). Lost replies, late deliveries, a restart in between and a leaked
  connection all happen. The second request may be any form (login, another
  registration, show, removal), with `MaxRetries` 2 instead of 3. Two accounts, and
  so an admin's removal, are covered by the proofs only.
- *gateway.* One slot for two requests: one is refused or comes after the other. The
  eighteen kinds take every branch of every middleware and handler that can be taken.
  Request, backend and client failures are not bounded.
- *shutdown.* Not an abstraction: two or three stops are what the programs have.

Deadlock checking is off where an instance has finitely many calls and may end;
`Breaker` never stops, and its runs check for deadlock.

## 5. Fairness and liveness

- `WF(Continue(c))`, `WF(Expire(r))`, per call: a goroutine that can run is run, and
  an access to a store that is under way returns, possibly with an error. For the
  breaker it is `WF(Resume(c))`: pauses end and results are settled, but nothing makes
  an attempt return, since `DelUser` and `ExtJWTData` are called with
  `context.Background()` (`users/handler.go:202`, `248`) and no deadline. Arrivals, failures and restarts have no
  fairness. Weak fairness suffices, and no fairness is assumed among calls
  waiting for a connection beyond it: `ConnFree` may turn false again, but
  every transaction ends and the calls of an instance are finite. With
  unboundedly many calls a waiter would also need database/sql's queue, which is
  first come first served.
- `WF(Tick)`, `WF(Elapse(k))`: time passes.
- `AnsweredUnlessLeaked`, `EveryOrderCallAnswered`: every call is answered or cut
  off by a restart; in user-service only as long as the pool is not used up.
- `Recovers`: *if* from some time on every RPC that returns succeeds (`Healthy`),
  and requests keep coming and not all callers hang (`Busy`), the breaker is closed
  for good, or one of its probes never returns (`Hangs`) and keeps it half-open. The
  exception is real, as no attempt has a deadline (finding 2 shows a backend that
  answers nothing); without it TLC refutes the property. The assumption about requests
  is needed: gobreaker looks at the clock only when a call begins or ends.
- `LimitEnds`: a key over its limit disappears, unless its EXPIRE was lost.

- `SlotsReturn`: if the backends answer for good from some time on, every slot comes
  back; `CancelledReturns`: that of a client that has left comes back even if they
  never do, for `regUser` and `logUser`, whose RPCs run under the client's context.
  (For `delUser` and `JWTAuth` it would be false: `context.Background()`.) Assumed:
  `WF` of `Dispatch`, of attempts to a backend that answers, and of cancelled attempts.
- `EveryRequestAnswered`: `WF` of delivering what was sent, of the handlers, of the
  gateway's loop and of taking a reply; and a connection whose other end is gone
  breaks some time (`LostForSure`), as TCP and gRPC see to. An instance has finitely many
  calls, so a request may lack one for a further attempt; `OutOfCalls` excludes that.
- `ExitsOnceSignalled`: goroutines run and the deadline passes; a stop need not return.

## 6. Findings

1. **Expired tokens are not refreshed** (`refresh`). `README.md:48-49` promises
   that an expired JWT with a valid session is reissued transparently;
   `ExtJWTData` returns on the parse error (`main.go:169`) before it
   looks at the session.
2. **Connections leak** (`leak`). `Repo.DelUser` returns early without `Rollback`
   (`postgres.go:140-157`); twenty refused deletions stop every Postgres call.
   order-service defers the `Rollback` in the same place.
3. **Admins cannot delete orders** (`order_admin`). The scan into unexported
   fields (`db.go:129-134`) fails for every order; `order-service/test.json:66-73`
   records an admin's deletion that succeeds.
4. **Nobody can place an order** (`gateway_orders`). `JWTAuth` is installed for the
   group of the users only (`routers.go:100`), so `addOrder` answers 401 to everybody
   and `orderInfo` and `delOrder` panic (`orders/handler.go:104`, `165`);
   `api-gateway/order-service.json:20-33` records an order that was accepted.

Seen in the models without a run of their own: name and e-mail are concatenated
without a separator (`user-service/main.go:105`), so ("a", "bc@x.y") and
("ab", "c@x.y") are one user to the UNIQUE constraint; every order has the status
"processed" (`db.go:80`), which is none of the documented three; `cb.go` sets no
`IsSuccessful`, so six wrong passwords in a row open the breaker for everybody; a
repeated registration whose first reply was lost is told "exists"
(`RegistrationIsOnce` says so); a repeated deletion succeeds for the owner, because
DEL of a missing key and DELETE of no row are no errors, but fails for an
admin, for whom `getUserRole` finds no row, and leaks a connection; `ShutdownServices`
returns nil also when a `Close` ran into the deadline. A token or key of a deleted
account is still confirmed, since `ExtJWTData` asks Redis only
(`HandedOutMeansRegistered` and `AccountLedger` therefore say "exists *or was deleted*"); a deletion
of an order that is not the caller's is acknowledged and does nothing; a failed
registration leaves a session in Redis, whose key nobody was given.

## 7. What is proved

The theorems hold for every value of the constants, under the named assumptions
of the modules: pools and limits are positive, `Callers` and `Requests` finite,
the sentinels (`NoUser`, ...) are none of the values they stand in for, the maps
(`UserName`, `RoleOf`, `KeyOf`) are functions of their domains. `Calls` may be
infinite in both services.

Each component has an inductive invariant `IInv`, which TLC checks as well, and a
theorem `Invariance == Spec => []IInv` (for `Platform`: `PInv`, `PlatformInvariance`)
with one lemma per action.

- **UserServiceProofs.** `IInv` (module `UserServiceInv`) says what each handler
  may rely on at each of its steps, and what stores and replies record. The
  properties are not inductive alone: that a reply vouches for a registered account
  depends on a `RegInsert` that has not run yet, so `AtRegInsert` carries "no
  row, nothing removed" from the session to the row. Interference is treated as
  in rely/guarantee: `RelyKeepsStep` shows once that what a handler relies on
  (nobody else changes its variables or opens its account, an opened account is at
  most deleted) survives the step of any other call. For `RemovalAuthorised`, the check
  and the DELETE are separate statements; it holds because a row never changes its
  role, so `AtDelExec` says "if the target is there, it may be removed".
  Theorems: `TypeCorrect`, `OneRole`, `RegisteredFirst`, `GenuineLogins`,
  `DeletionIsFinal`, `KeysMatchTokens`, and the action properties `SpentKeys` and
  `AuthorisedRemovals`. `PoolShared` is about the connection pool: it is never
  overdrawn, and a call in flight can go on (itself or another) unless every connection
  has leaked. It rests on two facts: a call that waits for a connection holds none
  (`Pooled` and the steps of a transaction are disjoint, `getUserRole` runs on `tx`), and
  `leaked` contains finished deletions only; cardinality then leaves a holder or room.
- **Refinement.** `Refinement == Spec => ImplementsLedger`: with
  `account <- users`, `closed <- removed` and `granted <- {who[c] : c in TokenIssued}`
  every step is an `Open`, a `Grant`, a `Close` or a stutter of `AccountLedger`.
  `RegInsert` opens the account and grants its credentials in one step, or
  opens it and loses the reply; expiries, sessions, failures and restarts stutter.
- **OrderServiceProofs.** `IInv` adds to the properties that a row is what its call
  inserted and that calls name acknowledged orders. `QuietStep` is shared by all
  steps that leave the table alone. Theorems: `OrderTypes`, `Privacy`,
  `OrdersKept`, `DeletionHolds`; `PoolShared`, here without an exception, thanks to the
  deferred `Rollback`; `AdminsNeverDelete`, which is finding 3 for every instance.
  `Refinement == Spec => ImplementsOrderBook`: the book is the table, an order is
  confirmed when its `AddOrder` said so, gone when it was confirmed and has no row,
  `shown` and `cancelled` are what replies said. An insert is `Place`, with the reply
  lost or not, a DELETE is `Cancel`, whether or not it finds a row.
- **BreakerProofs.** The pure operators are shown to keep a predicate `Sound` of a
  breaker and its running calls (`NewGenerationSound`, `CurrentSound`,
  `OnRequestSound`, `AfterRequestSound`), with cardinality facts for
  `requests = Cardinality(fresh) + successes`; the actions then follow from the
  operators they use. Theorems: `BreakerTypes` (which contains that no call makes
  more than `MaxRetries` attempts), `ProbesAreAccounted`, `OpenHasForgotten`,
  `ClosesWithLastProbe`. `Refinement == Spec => ImplementsCircuit` maps the circuit to
  `Current(cb)`, the breaker as the next call will find it: the circuit changes state
  when `Tick` makes the interval or timeout pass, the breaker when somebody looks, and
  looking is a stutter. `counting` is the set `fresh`, whose size gobreaker keeps as
  `requests - successes`. `CallsAreBounded == Spec => CallsWearOut`: `Effort`
  decreases with every step of a call, so that it makes at most `MaxRetries` attempts and
  its end waits for these to return and for nothing else.
- **RateLimiterProofs.** The counter equals the number of INCRs Redis has applied to the
  present key, retries included (`CountIncrements`, `IncrementCounts`: none is applied
  twice, which `CountedOnce` keeps true); `IncrementKeepsRate` shows that the reply of a
  further one lets a request pass only if that number leaves room, `SamePassedKeepsRate`
  that other steps add none. Theorems: `LimiterTypes`, `RateIsKept`, `ExpiryComes`.
  `Refinement == Spec => ImplementsWindow`: a request is decided with the INCR it is
  answered for, although the verdict comes after EXPIRE (`Decisions`); one that is
  retried is a `Repeat`, one that Redis applies unseen a `CountLate`; expiry and a
  restart of Redis begin new windows, EXPIRE stutters. That a request is counted once is
  *not* promised, as it is not true.
- **GatewayProofs.** `IInv` adds `Progress`: what a request has done by the time it is
  where it is (a request in `JWTAuth`'s RPC has its id in the context and asks about
  its own token; a deletion in its handler waits for `DelUser`). The lemmas about the
  handlers say what an operator may answer or send given such a context, for both
  values of `sameKey`. Theorems: `SlotsAreAccounted`, `CallersActForThemselves`,
  `ContextArrives`, `DeletionsAreDone`. `NoOrderGetsPast` is finding 4 for every
  instance: a request to the order routes sends no RPC,
  and its answer is 429 or the refusal of its handler (401, 400 for a garbled body, 500). `EffortIsBounded` is
  the safety half of `SlotsReturn`: `Effort` bounds what a request has in front of it,
  and each of its steps lowers it.
- **PlatformProofs.** What `UserService` assumes of its clients (`Credentials`,
  `Removals`) is not assumed here but follows from the gateway. The argument runs in
  a circle, which induction breaks: `PInv` relates forms, the context of a request and
  attempts to what the service has confirmed, and uses the service's own `IInv`; that
  the service takes only steps of `UserService!Next` follows from `PInv`, and with it
  `IInv` again. `Confirmed` is stable because finished calls do not change, so a
  deletion sent by a late attempt still carries an identity that was confirmed
  for this request. Theorems: `PlatformInvariance`, `PlatformRefinement`,
  `DeletionsAreReported`, `RemovalsAreAuthenticated`, `RegistrationsHappenOnce`. By
  `PlatformRefinement` the theorems of `UserServiceProofs` hold for the platform;
  `LedgerBehindGateway` draws that conclusion for the ledger of accounts.
  `AnswersBelong` (nobody gets the answer of somebody else's request) follows from
  `PInv`, which keeps `Confirmed` for a request that was answered, and from
  `TokensRead`: what `ExtParse` puts into `who` is the identity of the token. `RegistrationsHappenOnce` needs three more facts
  (`RInv`): the service answers "exists" only when the name is another call's
  (`Collisions`), the gateway only when the service did (`Relayed`), and an attempt that
  is not the current one was counted as lost (`GivenUp`). All attempts of a registration
  ask for one user_name, so the UNIQUE constraint keeps their rows apart.
- **ShutdownProofs.** For any set of programs, `Halves` relates the two ends of each
  channel and `Stages` the stages to their stops; that nobody blocks is the conjunct
  that the channel of a stop that has not sent is empty. Theorems: `StopsAreOrderly`,
  `Reports`, `NoSenderBlocks`; the safety half of `ExitsOnceSignalled`, namely that after
  the deadline no wait is for a stop (`DeadlineFreesMain`); and `EachStopRunsOnce`.

**Only model-checked:** everything that holds under fairness
(`AnsweredUnlessLeaked`, `EveryOrderCallAnswered`, `Recovers`,
`LimitEnds`, `SlotsReturn`, `CancelledReturns`, `EveryRequestAnswered`,
`ExitsOnceSignalled`), since TLAPS does not treat liveness of this kind. The violations are counterexamples of TLC. What `NamesDiffer`,
`KeysMatchTokens`, `OpenHasForgotten` and `ExpiryComes` prove follows from an `IInv`
that TLC checks, and has no run of its own. Nor have `HandedOutMeansRegistered`,
`OrdersArePrivate`, `AcknowledgedDeletion`, `ProbesAccounted` and `RateHolds`, which are
conjuncts of an `IInv` or follow from a refinement that runs check, and
`AdminsDeleteNothing`, `OrdersAreTurnedAway`, `NoRequestStartsOver`,
`AnswersAreOwn`, `DeadlineFrees` and `StopsRunOnce`, which are stated for their theorems.
They hold on the instances of section 4.

The abstract modules (`AccountLedger`, `OrderBook`, `Circuit`, `FixedWindow`) speak of no
handler, store or clock; they can be read first, as what each component promises.

## 8. Plan

Written, in this order: `UserService` with its ledger and proofs, `OrderService`,
`Breaker`, `RateLimiter`, `Shutdown`, `Gateway`, `Platform`. What would come next:

1. `OrderService` in `Platform`, once orders get past the gateway.
2. An abstract specification of what a client of the whole platform may observe, above
   `AccountLedger`, and one of `Shutdown`.
3. `Breaker` inside `Gateway`: which requests the breaker refuses is a free choice there.

## 9. Not modelled

- **Orders through the gateway**: no order request gets past its handler, so there
  is nothing to compose; `OrderService` is checked against clients of its own, as
  `order-service/test.json` calls it.
- **Generated protobuf and gRPC code**: the user-service stubs and server handlers are
  actions of `Platform`, the validators of requests guards of the handlers. Marshalling,
  reflection and the validators of replies, which nobody calls, are left out.
- **Requests during a shutdown**: `Shutdown` treats a stop as something that ends some
  time; what it does to handlers is `Restart` of the services.
- **Cryptography**: bcrypt and JWT are perfect and fresh; tokens nobody issued do
  not occur.
- **Metrics, logs, CORS, gzip, pprof, Prometheus, docker-compose**: nothing in the
  program reads them back. That Redis has no volume is used by `RedisRestart`.
- **Durations**: expiry and pauses are steps that happen at some time; no property
  depends on how long they take.
