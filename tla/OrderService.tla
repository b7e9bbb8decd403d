---------------------------- MODULE OrderService ----------------------------
(***************************************************************************)
(* The order-service of 3l1: the three gRPC handlers of                    *)
(* src/order-service/main.go over the Postgres table "orders".  As in      *)
(* UserService a handler is a sequence of store accesses that interleave   *)
(* with those of other calls, and an order is named by the call that       *)
(* created it (uuid.New() is fresh).                                       *)
(***************************************************************************)
EXTENDS Naturals, FiniteSets

CONSTANTS
    Calls,          \* the gRPC calls the service ever receives
    Users,          \* user ids
    RoleOf,         \* user -> the role of the account
    MaxOpenConns,   \* the size of the Postgres pool (20 in the code)
    NoOrder, NoReq

Roles == {"admin", "dev", "guest"}
Statuses == {"processed", "processing", "done", "cancelled"}
Rows == [user : Users, role : Roles, status : Statuses]

\* The gateway leaves user_role empty when it calls AddOrder; other clients
\* send the role of the account.
AddReqs == [op : {"add"}, user : Users, role : Roles \cup {""}]
InfoReqs == [op : {"info"}, user : Users, order : Calls]
DelReqs == [op : {"del"}, user : Users, role : Roles, order : Calls]
Requests == AddReqs \cup InfoReqs \cup DelReqs

ASSUME RoleAssumption == RoleOf \in [Users -> Roles]
ASSUME ConnsAssumption == MaxOpenConns \in Nat \ {0}
ASSUME SentinelAssumption == NoOrder \notin Rows /\ NoReq \notin Requests

VARIABLES
    orders,     \* table orders: id -> row or NoOrder
    pc,         \* where the handler of a call stands
    req,        \* the request of a call
    result,     \* how a call ended; "none" while it runs
    info        \* the row a call of OrderInfo replied with

vars == <<orders, pc, req, result, info>>

Waiting == {"insert", "select", "delBegin", "delCheck", "delExec"}

TypeOK ==
    /\ orders \in [Calls -> Rows \cup {NoOrder}]
    /\ pc \in [Calls -> {"idle", "done"} \cup Waiting]
    /\ req \in [Calls -> Requests \cup {NoReq}]
    /\ result \in [Calls -> {"none", "ok", "refused", "error", "lost"}]
    /\ info \in [Calls -> Rows \cup {NoOrder}]

Init ==
    /\ orders = [i \in Calls |-> NoOrder]
    /\ pc = [c \in Calls |-> "idle"]
    /\ req = [c \in Calls |-> NoReq]
    /\ result = [c \in Calls |-> "none"]
    /\ info = [c \in Calls |-> NoOrder]

-----------------------------------------------------------------------------
InFlight(c) == pc[c] \in Waiting

\* Mutant: no Rollback is deferred, a failed deletion keeps its connection.
HeldAfterFailure ==
    {c \in Calls : pc[c] \in {"delCheck", "delExec"}}
        \cup {c \in Calls : req[c] \in DelReqs /\ result[c] = "refused"}

\* DelOrder holds a connection from Beginx to Commit or the deferred Rollback.
Held == {c \in Calls : pc[c] \in {"delCheck", "delExec"}}
ConnFree == Cardinality(Held) < MaxOpenConns

\* Mutant: getUserInfo and the DELETE query the pool instead of their transaction.
PooledOwnQueries == {"insert", "select", "delBegin", "delCheck", "delExec"}

\* The steps that ask the pool for a connection; those of a transaction have one.
Pooled == {"insert", "select", "delBegin"}
Connected(c) == pc[c] \in Pooled => ConnFree

Goto(c, label) ==
    /\ pc' = [pc EXCEPT ![c] = label]
    /\ UNCHANGED result

Reply(c, r) ==
    /\ pc' = [pc EXCEPT ![c] = "done"]
    /\ result' = [result EXCEPT ![c] = r]

Receive(c, r, label) ==
    /\ pc[c] = "idle"
    /\ req' = [req EXCEPT ![c] = r]
    /\ Goto(c, label)
    /\ UNCHANGED <<orders, info>>

Refuse(c, r) ==
    /\ pc[c] = "idle"
    /\ req' = [req EXCEPT ![c] = r]
    /\ Reply(c, "refused")
    /\ UNCHANGED <<orders, info>>

-----------------------------------------------------------------------------
(* AddOrder *)

\* Mutant: the request is not validated.
AddReceiveUnvalidated(c, r) == Receive(c, r, "insert")

\* Validation: user_role must be one of the roles.
AddReceive(c, r) ==
    \/ r.role \in Roles /\ Receive(c, r, "insert")
    \/ r.role \notin Roles /\ Refuse(c, r)

\* Mutant: the error of the insert is swallowed.
AddInsertSwallowed(c) ==
    /\ pc[c] = "insert" /\ Connected(c)
    /\ orders' \in {orders, [orders EXCEPT ![c] = [user |-> req[c].user, role |-> req[c].role,
                                                   status |-> "processed"]]}
    /\ Reply(c, "ok")
    /\ UNCHANGED <<req, info>>

\* Repo.AddOrder: the row, with the status the code gives every order.
AddInsert(c) ==
    /\ pc[c] = "insert" /\ Connected(c)
    /\ \/ /\ orders' = [orders EXCEPT ![c] = [user |-> req[c].user, role |-> req[c].role,
                                              status |-> "processed"]]
          /\ \E r \in {"ok", "error"} : Reply(c, r)
       \/ UNCHANGED orders /\ Reply(c, "error")
    /\ UNCHANGED <<req, info>>

-----------------------------------------------------------------------------
(* OrderInfo *)

\* WHERE id = .. AND user_id = ..
Visible(u, i) == orders[i] # NoOrder /\ orders[i].user = u

InfoSelect(c) ==
    /\ pc[c] = "select" /\ Connected(c)
    /\ \/ /\ Visible(req[c].user, req[c].order)
          /\ info' = [info EXCEPT ![c] = orders[req[c].order]]
          /\ Reply(c, "ok")
       \/ ~Visible(req[c].user, req[c].order) /\ Reply(c, "refused") /\ UNCHANGED info
       \/ Reply(c, "error") /\ UNCHANGED info
    /\ UNCHANGED <<orders, req>>

-----------------------------------------------------------------------------
(* DelOrder *)

\* Beginx; a caller that is no admin goes straight to the DELETE.
DelBegin(c) ==
    /\ pc[c] = "delBegin" /\ Connected(c)
    /\ \/ req[c].role # "admin" /\ Goto(c, "delExec")
       \/ req[c].role = "admin" /\ Goto(c, "delCheck")
       \/ Reply(c, "error")
    /\ UNCHANGED <<orders, req, info>>

\* getUserInfo scans two columns into a struct without exported fields, which
\* sqlx refuses whatever the row: the comparison of roles and the DELETE that
\* follow are never reached, the deferred Rollback returns the connection.
DelCheck(c) ==
    /\ pc[c] = "delCheck" /\ Connected(c)
    /\ Reply(c, "refused")
    /\ UNCHANGED <<orders, req, info>>

\* Mutant: the DELETE asks for the id alone.
DeletedById(c, i) == req[c].order = i

\* Who gets here is no admin: DELETE .. WHERE id = .. AND user_id = ..
Deleted(c, i) == req[c].order = i /\ Visible(req[c].user, i)

\* DELETE and COMMIT: no row to delete is a success as well.
DelExec(c) ==
    /\ pc[c] = "delExec" /\ Connected(c)
    /\ \/ /\ orders' = [i \in Calls |-> IF Deleted(c, i) THEN NoOrder ELSE orders[i]]
          /\ \E r \in {"ok", "error"} : Reply(c, r)
       \/ UNCHANGED orders /\ Reply(c, "error")
    /\ UNCHANGED <<req, info>>

-----------------------------------------------------------------------------
\* The process ends without waiting for its handlers and comes back.
Restart ==
    /\ \E c \in Calls : InFlight(c)
    /\ pc' = [c \in Calls |-> IF InFlight(c) THEN "done" ELSE pc[c]]
    /\ result' = [c \in Calls |-> IF InFlight(c) THEN "lost" ELSE result[c]]
    /\ UNCHANGED <<orders, req, info>>

\* Clients name orders by the ids AddOrder returned, and send as user and role
\* the identity of an account.
Known == {c \in Calls : result[c] = "ok" /\ req[c] \in AddReqs}
AsAccount == {r \in AddReqs : r.role \in {RoleOf[r.user], ""}}
Lookups == [op : {"info"}, user : Users, order : Known]
Removals == {r \in [op : {"del"}, user : Users, role : Roles, order : Known] :
                r.role = RoleOf[r.user]}

Arrival(c) ==
    \/ \E r \in AsAccount : AddReceive(c, r)
    \/ \E r \in Lookups : Receive(c, r, "select")
    \/ \E r \in Removals : Receive(c, r, "delBegin")

Continue(c) == AddInsert(c) \/ InfoSelect(c) \/ DelBegin(c) \/ DelCheck(c) \/ DelExec(c)

Next == (\E c \in Calls : Arrival(c) \/ Continue(c)) \/ Restart

Spec == Init /\ [][Next]_vars

\* A goroutine that can run is run.
FairSpec == Spec /\ \A c \in Calls : WF_vars(Continue(c))

-----------------------------------------------------------------------------
(* Safety                                                                   *)

\* OrderInfo shows an order to the user who placed it and to nobody else.
OrdersArePrivate ==
    \A c \in Calls : info[c] # NoOrder => info[c].user = req[c].user

\* An order that was acknowledged is in the table unless its own user asked for
\* its deletion: no other call, crash or failure loses it.
AcknowledgedOrderIsKept ==
    \A i \in Known : orders[i] = NoOrder =>
        \E d \in Calls :
            /\ req[d] \in DelReqs
            /\ req[d].order = i /\ req[d].user = req[i].user
            /\ pc[d] = "done"

\* The pool is never overdrawn, and whatever failed before, the handlers are never
\* all waiting for a connection: one of them can go on.
Ready(c) == InFlight(c) /\ Connected(c)

PoolIsShared ==
    /\ Cardinality(Held) <= MaxOpenConns
    /\ (\E c \in Calls : InFlight(c)) => \E c \in Calls : Ready(c)

\* A deletion that is acknowledged leaves the caller without that order; the
\* same answer is given when the order was somebody else's and stays
\* (db.go:170 does not look at the number of rows).
AcknowledgedDeletion ==
    \A d \in Calls : req[d] \in DelReqs /\ result[d] = "ok" => ~Visible(req[d].user, req[d].order)

-----------------------------------------------------------------------------
(* The service implements the book of orders.                               *)

\* Ids are told by the replies of AddOrder, so only known orders can be cancelled.
Shown == {[to |-> req[c].user, id |-> req[c].order, details |-> info[c]] :
              c \in {d \in Calls : info[d] # NoOrder}}
Acknowledged == {[by |-> req[c].user, id |-> req[c].order] :
                    c \in {d \in Calls : req[d] \in DelReqs /\ result[d] = "ok"}}

Book == INSTANCE OrderBook WITH
    Ids <- Calls, Details <- Rows, NoDetails <- NoOrder,
    book <- orders, confirmed <- Known, gone <- {i \in Known : orders[i] = NoOrder},
    shown <- Shown, cancelled <- Acknowledged

\* Whatever the interleaving, the lost replies and the crashes, what clients are
\* told about their orders is what a single book of orders could have told them.
ImplementsOrderBook == Book!Spec

-----------------------------------------------------------------------------
(* The inductive invariant                                                  *)

\* What the handler of call c relies on at each of its steps.
AtStep(c) ==
    /\ pc[c] = "idle" => req[c] = NoReq
    /\ pc[c] = "insert" => req[c] \in AddReqs /\ req[c].role \in Roles /\ orders[c] = NoOrder
    /\ pc[c] = "select" => req[c] \in InfoReqs
    /\ pc[c] \in {"delBegin", "delCheck", "delExec"} => req[c] \in DelReqs
    /\ result[c] # "none" <=> pc[c] = "done"
    /\ info[c] # NoOrder => req[c] \in InfoReqs /\ result[c] = "ok"

\* A row is what the call that inserted it asked for.
Inserted(i) == orders[i] # NoOrder =>
    /\ pc[i] = "done" /\ req[i] \in AddReqs
    /\ orders[i].user = req[i].user

\* Clients only name orders whose AddOrder has returned.
NamesKnownOrder(c) == req[c] \in InfoReqs \cup DelReqs => req[c].order \in Known

IInv ==
    /\ TypeOK
    /\ \A c \in Calls : AtStep(c) /\ Inserted(c) /\ NamesKnownOrder(c)
    /\ OrdersArePrivate
    /\ AcknowledgedOrderIsKept
    /\ AcknowledgedDeletion

-----------------------------------------------------------------------------
(* Liveness                                                                 *)

\* Every call is answered or cut off by a restart: whatever happens to a
\* deletion, its connection comes back to the pool (db.go:148).
EveryOrderCallAnswered == \A c \in Calls : InFlight(c) ~> ~InFlight(c)

-----------------------------------------------------------------------------
(* What a comment and a recorded test say and the code does not do          *)

\* db.go:159-160: an admin is kept from the order of another admin ("Admin cannot
\* delete admin's order"), and from no other; order-service/test.json:66-73
\* records an admin's DelOrder that succeeds.
AdminMayDelete ==
    \A c \in Calls :
        req[c] \in DelReqs /\ req[c].role = "admin" /\ orders[req[c].order] # NoOrder
            /\ orders[req[c].order].role # "admin"
        => result[c] # "refused"

\* What it does instead: no DelOrder of an admin ever gets as far as its DELETE, not
\* even for an order of the admin's own.
AdminsDeleteNothing ==
    \A c \in Calls : req[c] \in DelReqs /\ req[c].role = "admin" =>
        pc[c] # "delExec" /\ result[c] # "ok"
=============================================================================
