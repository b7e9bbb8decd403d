------------------------ MODULE OrderServiceProofs ------------------------
(***************************************************************************)
(* Theorems about OrderService for every set of calls and users and every  *)
(* size of the pool.                                                       *)
(***************************************************************************)
EXTENDS OrderService, FiniteSetTheorems, TLAPS

\* A request is of one kind, and a missing request of none.
LEMMA Kinds ==
    /\ \A r \in AddReqs : r \notin InfoReqs \cup DelReqs
    /\ \A r \in InfoReqs : r \notin DelReqs
    /\ NoReq \notin AddReqs \cup InfoReqs \cup DelReqs
  BY SentinelAssumption DEF AddReqs, InfoReqs, DelReqs, Requests

\* The fields of a request by its kind.
LEMMA Fields ==
    /\ \A r \in AddReqs : r.user \in Users
    /\ \A r \in InfoReqs \cup DelReqs : r.user \in Users /\ r.order \in Calls
  BY DEF AddReqs, InfoReqs, DelReqs

\* The row an AddOrder inserts is a row, and no sentinel.
LEMMA NewRow ==
    ASSUME NEW r \in AddReqs, r.role \in Roles
    PROVE  LET row == [user |-> r.user, role |-> r.role, status |-> "processed"]
           IN  row \in Rows /\ row # NoOrder /\ row.user = r.user
  BY Fields, SentinelAssumption DEF Rows, Statuses

\* The client's requests are requests and name orders that exist or existed.
LEMMA ClientRequests ==
    /\ AsAccount \subseteq AddReqs
    /\ Lookups \subseteq InfoReqs /\ \A r \in Lookups : r.order \in Known
    /\ Removals \subseteq DelReqs /\ \A r \in Removals : r.order \in Known
<1>1. Known \subseteq Calls
  BY DEF Known
<1>2. QED
  BY <1>1 DEF AsAccount, Lookups, Removals, InfoReqs, DelReqs

LEMMA InitIInv == Init => IInv
  BY Kinds DEF Init, IInv, TypeOK, AtStep, Inserted, NamesKnownOrder, OrdersArePrivate,
     AcknowledgedOrderIsKept, AcknowledgedDeletion, Known

-----------------------------------------------------------------------------
(* A call that arrives changes nothing but its own request and outcome.     *)
LEMMA ArrivalStep ==
    ASSUME IInv, NEW c \in Calls, NEW r \in AddReqs \cup InfoReqs \cup DelReqs,
           r \in InfoReqs \cup DelReqs => r.order \in Known,
           pc[c] = "idle", req' = [req EXCEPT ![c] = r], UNCHANGED <<orders, info>>,
           \/ /\ pc' = [pc EXCEPT ![c] = "done"]
              /\ result' = [result EXCEPT ![c] = "refused"]
           \/ /\ UNCHANGED result
              /\ \/ r \in AddReqs /\ r.role \in Roles /\ pc' = [pc EXCEPT ![c] = "insert"]
                 \/ r \in InfoReqs /\ pc' = [pc EXCEPT ![c] = "select"]
                 \/ r \in DelReqs /\ pc' = [pc EXCEPT ![c] = "delBegin"]
    PROVE  IInv'
<1> USE DEF IInv
<1>1. req[c] = NoReq /\ result[c] = "none" /\ orders[c] = NoOrder /\ info[c] = NoOrder
  BY DEF AtStep, Inserted, TypeOK
<1>2. c \notin Known
  BY <1>1 DEF Known
<1>3. req'[c] = r /\ \A d \in Calls \ {c} : req'[d] = req[d] /\ pc'[d] = pc[d] /\ result'[d] = result[d]
  BY DEF TypeOK
<1>4. result'[c] \in {"none", "refused"} /\ pc'[c] \in {"done", "insert", "select", "delBegin"}
  BY <1>1 DEF TypeOK
<1>5. Known' = Known
  BY <1>2, <1>3, <1>4 DEF Known
<1>a. TypeOK'
  BY DEF TypeOK, Waiting, Requests
<1>b. \A d \in Calls : AtStep(d)'
  <2>1. AtStep(c)'
    BY <1>1, <1>3 DEF AtStep, TypeOK
  <2>2. \A d \in Calls \ {c} : AtStep(d)'
    BY <1>3 DEF AtStep
  <2>3. QED
    BY <2>1, <2>2
<1>c. \A d \in Calls : Inserted(d)' /\ NamesKnownOrder(d)'
  BY <1>1, <1>3, <1>5, Kinds DEF Inserted, NamesKnownOrder
<1>d. OrdersArePrivate'
  BY <1>1, <1>3 DEF OrdersArePrivate
<1>e. AcknowledgedOrderIsKept'
  BY <1>1, <1>2, <1>3, <1>5, Kinds DEF AcknowledgedOrderIsKept
<1>f. AcknowledgedDeletion'
  BY <1>3, <1>4 DEF AcknowledgedDeletion, Visible
<1>7. QED
  BY <1>a, <1>b, <1>c, <1>d, <1>e, <1>f

\* A request arrives in one of the three ways.
LEMMA ArrivalKeepsIInv ==
    ASSUME IInv, NEW c \in Calls, Arrival(c)
    PROVE  IInv'
<1>1. CASE \E r \in AsAccount : AddReceive(c, r)
  <2>1. PICK r \in AsAccount : AddReceive(c, r)
    BY <1>1
  <2>2. r \in AddReqs /\ r \notin InfoReqs \cup DelReqs
    BY ClientRequests, Kinds
  <2>3. QED
    BY <2>1, <2>2, ArrivalStep DEF AddReceive, Receive, Refuse, Goto, Reply
<1>2. CASE \E r \in Lookups : Receive(c, r, "select")
  BY <1>2, ClientRequests, Kinds, ArrivalStep DEF Receive, Goto
<1>3. CASE \E r \in Removals : Receive(c, r, "delBegin")
  BY <1>3, ClientRequests, Kinds, ArrivalStep DEF Receive, Goto
<1>4. QED
  BY <1>1, <1>2, <1>3 DEF Arrival

-----------------------------------------------------------------------------
(* The steps of a running handler.                                          *)

\* A step that leaves the table and the replies of OrderInfo alone, and ends
\* handlers or moves them along.
LEMMA QuietStep ==
    ASSUME IInv, UNCHANGED <<orders, req, info>>, TypeOK',
           \A d \in Calls :
               \/ pc'[d] = pc[d] /\ result'[d] = result[d]
               \/ /\ InFlight(d) /\ pc'[d] = "done"
                  /\ result'[d] \in {"refused", "error", "lost"}
               \/ /\ pc[d] = "delBegin" /\ pc'[d] \in {"delCheck", "delExec"}
                  /\ result'[d] = result[d]
    PROVE  IInv'
<1> USE DEF IInv
<1>1. \A d \in Calls : AtStep(d)'
  BY DEF AtStep, InFlight, Waiting
<1>2. Known' = Known
  BY DEF Known, AtStep, InFlight, Waiting
<1>3. \A d \in Calls : Inserted(d)' /\ NamesKnownOrder(d)'
  BY <1>2 DEF Inserted, NamesKnownOrder, InFlight, Waiting
<1>4. OrdersArePrivate'
  BY DEF OrdersArePrivate
<1>5. AcknowledgedOrderIsKept'
  BY <1>2 DEF AcknowledgedOrderIsKept, InFlight, Waiting
<1>6. AcknowledgedDeletion'
  BY DEF AcknowledgedDeletion, Visible
<1>7. QED
  BY <1>1, <1>3, <1>4, <1>5, <1>6

LEMMA AddInsertStep ==
    ASSUME IInv, NEW c \in Calls, AddInsert(c)
    PROVE  IInv'
<1> USE DEF IInv
<1> DEFINE row == [user |-> req[c].user, role |-> req[c].role, status |-> "processed"]
<1>1. pc[c] = "insert" /\ req[c] \in AddReqs /\ orders[c] = NoOrder /\ UNCHANGED <<req, info>>
  BY DEF AtStep, AddInsert
<1>2. row \in Rows /\ row # NoOrder /\ row.user = req[c].user
  BY <1>1, NewRow DEF AtStep
<1>3. \/ orders' = [orders EXCEPT ![c] = row] /\ result'[c] \in {"ok", "error"}
      \/ orders' = orders /\ result'[c] = "error"
  BY DEF AddInsert, Reply, TypeOK
<1>4. /\ pc'[c] = "done"
      /\ \A d \in Calls \ {c} : pc'[d] = pc[d] /\ result'[d] = result[d] /\ orders'[d] = orders[d]
  BY <1>3 DEF AddInsert, Reply, TypeOK
<1>5. orders'[c] \in {NoOrder, row} /\ (result'[c] = "ok" => orders'[c] = row)
  BY <1>1, <1>3 DEF TypeOK
<1>6. c \notin Known
  BY <1>1 DEF Known, AtStep
<1>7. Known \subseteq Known' /\ \A i \in Known' : i \in Known \/ i = c
  BY <1>1, <1>4, <1>6 DEF Known
<1>a. TypeOK'
  BY <1>1, <1>2 DEF TypeOK, AddInsert, Reply
<1>b. \A d \in Calls : AtStep(d)'
  BY <1>1, <1>3, <1>4 DEF AtStep
<1>c. \A d \in Calls : Inserted(d)' /\ NamesKnownOrder(d)'
  BY <1>1, <1>2, <1>4, <1>5, <1>7 DEF Inserted, NamesKnownOrder
<1>d. OrdersArePrivate'
  BY <1>1 DEF OrdersArePrivate
<1>e. AcknowledgedOrderIsKept'
  <2>1. ASSUME NEW i \in Known', orders'[i] = NoOrder
        PROVE  i \in Known /\ orders[i] = NoOrder
    <3>1. i # c
      BY <1>2, <1>5, <2>1 DEF Known
    <3>2. QED
      BY <1>4, <1>7, <2>1, <3>1 DEF Known
  <2>2. \A d \in Calls : req[d] \in DelReqs => d # c
    BY <1>1, Kinds
  <2>3. QED
    BY <1>1, <1>4, <2>1, <2>2 DEF AcknowledgedOrderIsKept
<1>f. AcknowledgedDeletion'
  <2>1. ASSUME NEW d \in Calls, req[d] \in DelReqs, result'[d] = "ok"
        PROVE  ~Visible(req[d].user, req[d].order)'
    <3>1. d # c /\ result[d] = "ok"
      BY <1>1, <1>4, <2>1, Kinds
    <3>2. req[d].order \in Known
      BY <2>1 DEF NamesKnownOrder
    <3>3. orders'[req[d].order] = orders[req[d].order]
      BY <1>4, <1>6, <3>2 DEF Known
    <3>4. QED
      BY <1>1, <2>1, <3>1, <3>3 DEF AcknowledgedDeletion, Visible
  <2>2. QED
    BY <1>1, <2>1 DEF AcknowledgedDeletion
<1>8. QED
  BY <1>a, <1>b, <1>c, <1>d, <1>e, <1>f

LEMMA InfoSelectStep ==
    ASSUME IInv, NEW c \in Calls, InfoSelect(c)
    PROVE  IInv'
<1> USE DEF IInv
<1>1. pc[c] = "select" /\ req[c] \in InfoReqs /\ UNCHANGED <<orders, req>>
  BY DEF AtStep, InfoSelect
<1>2. /\ pc'[c] = "done" /\ result'[c] \in {"ok", "refused", "error"}
      /\ \A d \in Calls \ {c} : pc'[d] = pc[d] /\ result'[d] = result[d] /\ info'[d] = info[d]
  BY DEF InfoSelect, Reply, TypeOK
<1>3. \/ info'[c] = info[c]
      \/ /\ info'[c] = orders[req[c].order] /\ Visible(req[c].user, req[c].order)
         /\ result'[c] = "ok"
  BY DEF InfoSelect, Reply, TypeOK
<1>4. Known' = Known
  BY <1>1, <1>2, Kinds DEF Known
<1>a. TypeOK'
  BY <1>1, Fields DEF TypeOK, InfoSelect, Reply
<1>b. \A d \in Calls : AtStep(d)'
  BY <1>1, <1>2, <1>3 DEF AtStep
<1>c. \A d \in Calls : Inserted(d)' /\ NamesKnownOrder(d)'
  BY <1>1, <1>2, <1>4 DEF Inserted, NamesKnownOrder
<1>d. OrdersArePrivate'
  BY <1>1, <1>2, <1>3 DEF OrdersArePrivate, Visible
<1>e. AcknowledgedOrderIsKept'
  BY <1>1, <1>2, <1>4 DEF AcknowledgedOrderIsKept
<1>f. AcknowledgedDeletion'
  BY <1>1, <1>2, Kinds DEF AcknowledgedDeletion, Visible
<1>5. QED
  BY <1>a, <1>b, <1>c, <1>d, <1>e, <1>f

\* Beginx and the failing look-up of an admin change no order.
LEMMA DelBeginStep ==
    ASSUME IInv, NEW c \in Calls, DelBegin(c) \/ DelCheck(c)
    PROVE  IInv'
<1>1. TypeOK'
  BY DEF IInv, TypeOK, DelBegin, DelCheck, Goto, Reply, Waiting
<1>2. \A d \in Calls :
         \/ pc'[d] = pc[d] /\ result'[d] = result[d]
         \/ InFlight(d) /\ pc'[d] = "done" /\ result'[d] \in {"refused", "error", "lost"}
         \/ pc[d] = "delBegin" /\ pc'[d] \in {"delCheck", "delExec"} /\ result'[d] = result[d]
  BY DEF IInv, TypeOK, DelBegin, DelCheck, Goto, Reply, InFlight, Waiting
<1>3. QED
  BY <1>1, <1>2, QuietStep DEF DelBegin, DelCheck

LEMMA DelExecStep ==
    ASSUME IInv, NEW c \in Calls, DelExec(c)
    PROVE  IInv'
<1> USE DEF IInv
<1>1. pc[c] = "delExec" /\ req[c] \in DelReqs /\ UNCHANGED <<req, info>>
  BY DEF AtStep, DelExec
<1>2. /\ pc'[c] = "done" /\ result'[c] \in {"ok", "error"}
      /\ \A d \in Calls \ {c} : pc'[d] = pc[d] /\ result'[d] = result[d]
  BY DEF DelExec, Reply, TypeOK
<1>3. \A i \in Calls : orders'[i] = orders[i] \/ (Deleted(c, i) /\ orders'[i] = NoOrder)
  BY DEF DelExec
<1>4. result'[c] = "ok" => \A i \in Calls : Deleted(c, i) => orders'[i] = NoOrder
  BY DEF DelExec, Reply, TypeOK
<1>5. Known' = Known
  BY <1>1, <1>2, Kinds DEF Known
<1>a. TypeOK'
  BY DEF TypeOK, DelExec, Reply
<1>b. \A d \in Calls : AtStep(d)'
  BY <1>1, <1>2, <1>3, Kinds DEF AtStep
<1>c. \A d \in Calls : Inserted(d)' /\ NamesKnownOrder(d)'
  BY <1>1, <1>2, <1>3, <1>5, Kinds DEF Inserted, NamesKnownOrder
<1>d. OrdersArePrivate'
  BY <1>1 DEF OrdersArePrivate
<1>e. AcknowledgedOrderIsKept'
  <2>1. ASSUME NEW i \in Known, Deleted(c, i)
        PROVE  req[c].order = i /\ req[c].user = req[i].user
    BY <2>1 DEF Deleted, Visible, Inserted, Known
  <2>2. ASSUME NEW i \in Known, orders'[i] = NoOrder
        PROVE  orders[i] = NoOrder \/ Deleted(c, i)
    BY <1>3, <2>2 DEF Known
  <2>3. QED
    BY <1>1, <1>2, <1>5, <2>1, <2>2 DEF AcknowledgedOrderIsKept
<1>f. AcknowledgedDeletion'
  <2>1. ASSUME NEW d \in Calls, req[d] \in DelReqs, result'[d] = "ok"
        PROVE  ~Visible(req[d].user, req[d].order)'
    <3>1. CASE d = c
      BY <1>1, <1>3, <1>4, <2>1, <3>1, Fields DEF Visible, Deleted
    <3>2. CASE d # c
      BY <1>1, <1>2, <1>3, <2>1, <3>2, Fields DEF AcknowledgedDeletion, Visible
    <3>3. QED
      BY <3>1, <3>2
  <2>2. QED
    BY <1>1, <2>1 DEF AcknowledgedDeletion
<1>6. QED
  BY <1>a, <1>b, <1>c, <1>d, <1>e, <1>f

LEMMA RestartStep == IInv /\ Restart => IInv'
<1> SUFFICES ASSUME IInv, Restart PROVE IInv'
  OBVIOUS
<1>1. TypeOK'
  BY DEF IInv, TypeOK, Restart
<1>2. \A d \in Calls :
         \/ pc'[d] = pc[d] /\ result'[d] = result[d]
         \/ InFlight(d) /\ pc'[d] = "done" /\ result'[d] \in {"refused", "error", "lost"}
         \/ pc[d] = "delBegin" /\ pc'[d] \in {"delCheck", "delExec"} /\ result'[d] = result[d]
  BY DEF IInv, TypeOK, Restart
<1>3. QED
  BY <1>1, <1>2, QuietStep DEF Restart

-----------------------------------------------------------------------------
(* The theorems                                                             *)

\* The inductive invariant holds in every reachable state.
THEOREM Invariance == Spec => []IInv
<1>1. Init => IInv
  BY InitIInv
<1>2. IInv /\ [Next]_vars => IInv'
  <2>1. ASSUME IInv, Next PROVE IInv'
    <3>1. ASSUME NEW c \in Calls, Arrival(c) PROVE IInv'
      BY <2>1, <3>1, ArrivalKeepsIInv
    <3>2. ASSUME NEW c \in Calls, Continue(c) PROVE IInv'
      BY <2>1, <3>2, AddInsertStep, InfoSelectStep, DelBeginStep, DelExecStep DEF Continue
    <3>3. QED
      BY <2>1, <3>1, <3>2, RestartStep DEF Next
  <2>2. ASSUME IInv, UNCHANGED vars PROVE IInv'
    BY <2>2 DEF vars, IInv, TypeOK, AtStep, Inserted, NamesKnownOrder, OrdersArePrivate,
       AcknowledgedOrderIsKept, AcknowledgedDeletion, Known, Visible
  <2>3. QED
    BY <2>1, <2>2
<1>3. QED
  BY <1>1, <1>2, PTL DEF Spec

\* The state keeps its types.
THEOREM OrderTypes == Spec => []TypeOK
<1>1. IInv => TypeOK
  BY DEF IInv
<1>2. QED
  BY <1>1, Invariance, PTL

\* OrderInfo (db.go:95) shows an order to the user who placed it only.
THEOREM Privacy == Spec => []OrdersArePrivate
<1>1. IInv => OrdersArePrivate
  BY DEF IInv
<1>2. QED
  BY <1>1, Invariance, PTL

\* An acknowledged order (main.go:84) is lost to its own user's deletion only.
THEOREM OrdersKept == Spec => []AcknowledgedOrderIsKept
<1>1. IInv => AcknowledgedOrderIsKept
  BY DEF IInv
<1>2. QED
  BY <1>1, Invariance, PTL

\* After an acknowledged deletion (main.go:129) the caller never has that order
\* again.
THEOREM DeletionHolds == Spec => []AcknowledgedDeletion
<1>1. IInv => AcknowledgedDeletion
  BY DEF IInv
<1>2. QED
  BY <1>1, Invariance, PTL

\* Whatever the calls: no admin's DelOrder succeeds (db.go:129-136).
THEOREM AdminsNeverDelete == Spec => []AdminsDeleteNothing
<1>1. Init => AdminsDeleteNothing
  BY DEF Init, AdminsDeleteNothing
<1>2. ASSUME IInv, AdminsDeleteNothing, [Next]_vars PROVE AdminsDeleteNothing'
  <2> USE DEF IInv, TypeOK, AdminsDeleteNothing
  <2>1. ASSUME NEW c \in Calls, Arrival(c) PROVE AdminsDeleteNothing'
    <3>1. /\ pc'[c] # "delExec" /\ result'[c] # "ok"
          /\ \A d \in Calls \ {c} : req'[d] = req[d] /\ pc'[d] = pc[d] /\ result'[d] = result[d]
      BY <1>2, <2>1 DEF Arrival, AddReceive, Receive, Refuse, Goto, Reply, AtStep
    <3>2. QED
      BY <1>2, <3>1
  <2>2. ASSUME NEW c \in Calls, AddInsert(c) \/ InfoSelect(c) PROVE AdminsDeleteNothing'
    <3>1. /\ req[c] \notin DelReqs /\ UNCHANGED req
          /\ \A d \in Calls \ {c} : pc'[d] = pc[d] /\ result'[d] = result[d]
      BY <1>2, <2>2, Kinds DEF AddInsert, InfoSelect, Reply, AtStep
    <3>2. QED
      BY <1>2, <3>1
  <2>3. ASSUME NEW c \in Calls, DelBegin(c) \/ DelCheck(c) \/ DelExec(c)
        PROVE  AdminsDeleteNothing'
    <3>1. /\ req[c] \in DelReqs /\ UNCHANGED req
          /\ req[c].role = "admin" => pc'[c] # "delExec" /\ result'[c] # "ok"
          /\ \A d \in Calls \ {c} : pc'[d] = pc[d] /\ result'[d] = result[d]
      BY <1>2, <2>3 DEF DelBegin, DelCheck, DelExec, Goto, Reply, AtStep
    <3>2. QED
      BY <1>2, <3>1
  <2>4. CASE Restart
    BY <1>2, <2>4 DEF Restart
  <2>5. CASE UNCHANGED vars
    BY <1>2, <2>5 DEF vars
  <2>6. QED
    BY <1>2, <2>1, <2>2, <2>3, <2>4, <2>5 DEF Next, Continue
<1>3. QED
  BY <1>1, <1>2, Invariance, PTL DEF Spec

-----------------------------------------------------------------------------
(* The connection pool.  Nothing is assumed about the number of calls: the  *)
(* set of connections in use is finite because it grows one by one.         *)

Overdraft == IsFiniteSet(Held) /\ Cardinality(Held) <= MaxOpenConns

LEMMA HeldShrinks ==
    ASSUME Overdraft, Held' \subseteq Held
    PROVE  Overdraft'
<1>1. IsFiniteSet(Held') /\ Cardinality(Held') <= Cardinality(Held)
  BY FS_Subset DEF Overdraft
<1>2. Cardinality(Held) \in Nat /\ Cardinality(Held') \in Nat
  BY <1>1, FS_CardinalityType DEF Overdraft
<1>3. QED
  BY <1>1, <1>2, ConnsAssumption DEF Overdraft

\* A deletion that takes a free connection leaves no more in use than there are.
LEMMA HeldGrows ==
    ASSUME Overdraft, ConnFree, NEW c, Held' \subseteq Held \cup {c}
    PROVE  Overdraft'
<1>1. /\ IsFiniteSet(Held \cup {c})
      /\ Cardinality(Held \cup {c}) \in {Cardinality(Held), Cardinality(Held) + 1}
  BY FS_AddElement DEF Overdraft
<1>2. IsFiniteSet(Held') /\ Cardinality(Held') <= Cardinality(Held \cup {c})
  BY <1>1, FS_Subset
<1>3. Cardinality(Held) \in Nat /\ Cardinality(Held') \in Nat
  BY <1>2, FS_CardinalityType DEF Overdraft
<1>4. QED
  BY <1>1, <1>2, <1>3, ConnsAssumption DEF Overdraft, ConnFree

\* Only Beginx takes a connection for longer than its own step.
LEMMA PoolStep == TypeOK /\ Overdraft /\ [Next]_vars => Overdraft'
<1> SUFFICES ASSUME TypeOK, Overdraft, [Next]_vars PROVE Overdraft'
  OBVIOUS
<1>1. ASSUME NEW c \in Calls, DelBegin(c) PROVE Overdraft'
  <2>1. ConnFree /\ Held' \subseteq Held \cup {c}
    BY <1>1 DEF TypeOK, DelBegin, Connected, Pooled, Goto, Reply, Held
  <2>2. QED
    BY <2>1, HeldGrows
<1>2. ASSUME NEW c \in Calls, Arrival(c) \/ (Continue(c) /\ ~DelBegin(c))
      PROVE  Overdraft'
  <2>1. /\ \A d \in Calls \ {c} : pc'[d] = pc[d]
        /\ pc'[c] \notin {"delCheck", "delExec"}
    BY <1>2 DEF TypeOK, Arrival, AddReceive, Receive, Refuse, Continue, AddInsert, InfoSelect,
                DelCheck, DelExec, Goto, Reply
  <2>2. QED
    BY <2>1, HeldShrinks DEF Held
<1>3. CASE Restart
  BY <1>3, HeldShrinks DEF Restart, Held
<1>4. CASE UNCHANGED vars
  BY <1>4, HeldShrinks DEF vars, Held
<1>5. QED
  BY <1>1, <1>2, <1>3, <1>4 DEF Next

\* The pool is never overdrawn, and some handler can always go on: a connection
\* that is in use is one of a deletion, and a deletion asks the pool only once.
THEOREM PoolShared == Spec => []PoolIsShared
<1>1. Init => Overdraft
  <2> SUFFICES ASSUME Init PROVE Overdraft
    OBVIOUS
  <2>1. Held = {}
    BY DEF Init, Held
  <2>2. QED
    BY <2>1, FS_EmptySet, ConnsAssumption DEF Overdraft
<1>2. Overdraft => PoolIsShared
  <2> SUFFICES ASSUME Overdraft, NEW c \in Calls, InFlight(c)
               PROVE  \E d \in Calls : Ready(d)
    BY DEF Overdraft, PoolIsShared
  <2>1. CASE ConnFree
    BY <2>1 DEF Ready, Connected
  <2>2. CASE ~ConnFree
    <3>1. Held # {}
      BY <2>2, FS_EmptySet, ConnsAssumption DEF ConnFree
    <3>2. PICK d \in Calls : pc[d] \in {"delCheck", "delExec"}
      BY <3>1 DEF Held
    <3>3. Ready(d)
      BY <3>2 DEF Ready, InFlight, Waiting, Connected, Pooled
    <3>4. QED
      BY <3>3
  <2>3. QED
    BY <2>1, <2>2
<1>3. QED
  BY <1>1, <1>2, PoolStep, OrderTypes, PTL DEF Spec

-----------------------------------------------------------------------------
(* The handlers implement the book of orders.                               *)

\* What a step for call c adds to what clients were told.
LEMMA ToldByStep ==
    ASSUME IInv, NEW c \in Calls, result[c] = "none",
           \A d \in Calls \ {c} :
               result'[d] = result[d] /\ req'[d] = req[d] /\ info'[d] = info[d]
    PROVE  /\ Known' = IF result'[c] = "ok" /\ req'[c] \in AddReqs
                         THEN Known \cup {c} ELSE Known
           /\ Shown' = IF info'[c] # NoOrder
                THEN Shown \cup {[to |-> req'[c].user, id |-> req'[c].order, details |-> info'[c]]}
                ELSE Shown
           /\ Acknowledged' = IF result'[c] = "ok" /\ req'[c] \in DelReqs
                THEN Acknowledged \cup {[by |-> req'[c].user, id |-> req'[c].order]}
                ELSE Acknowledged
<1>1. info[c] = NoOrder
  BY DEF IInv, AtStep
<1>2. Known' = IF result'[c] = "ok" /\ req'[c] \in AddReqs THEN Known \cup {c} ELSE Known
  BY DEF Known
<1>3. Shown' = IF info'[c] # NoOrder
                THEN Shown \cup {[to |-> req'[c].user, id |-> req'[c].order, details |-> info'[c]]}
                ELSE Shown
  BY <1>1 DEF Shown
<1>4. Acknowledged' = IF result'[c] = "ok" /\ req'[c] \in DelReqs
                THEN Acknowledged \cup {[by |-> req'[c].user, id |-> req'[c].order]}
                ELSE Acknowledged
  BY DEF Acknowledged
<1>5. QED
  BY <1>2, <1>3, <1>4

\* A step that answers nothing, or only says that something failed, is none of
\* the book's, as long as the table is left alone.
LEMMA SilentStep ==
    ASSUME IInv, UNCHANGED <<orders, info>>,
           \A d \in Calls :
               \/ result'[d] = result[d] /\ req'[d] = req[d]
               \/ result[d] = "none" /\ result'[d] # "ok"
    PROVE  UNCHANGED Book!pages
<1>1. Known' = Known
  BY DEF Known
<1>2. \A d \in Calls : info[d] # NoOrder => req'[d] = req[d]
  BY DEF IInv, AtStep
<1>3. Shown' = Shown
  BY <1>2 DEF Shown
<1>4. Acknowledged' = Acknowledged
  <2>1. \A d \in Calls : req'[d] \in DelReqs /\ result'[d] = "ok"
                      <=> req[d] \in DelReqs /\ result[d] = "ok"
    OBVIOUS
  <2>2. \A d \in Calls : result[d] = "ok" => req'[d] = req[d]
    OBVIOUS
  <2>3. QED
    BY <2>1, <2>2 DEF Acknowledged
<1>5. QED
  BY <1>1, <1>3, <1>4 DEF Book!pages

\* A committed insert places an order; its reply confirms it or is lost.
LEMMA AddInsertOfBook ==
    ASSUME IInv, NEW c \in Calls, AddInsert(c)
    PROVE  Book!Next \/ UNCHANGED Book!pages
<1> DEFINE row == [user |-> req[c].user, role |-> req[c].role, status |-> "processed"]
<1>1. /\ pc[c] = "insert" /\ result[c] = "none" /\ info[c] = NoOrder /\ orders[c] = NoOrder
      /\ req[c] \in AddReqs /\ row \in Rows /\ row # NoOrder /\ UNCHANGED <<req, info>>
  BY NewRow DEF IInv, AtStep, AddInsert
<1>2. \/ orders' = [orders EXCEPT ![c] = row] /\ result'[c] \in {"ok", "error"}
      \/ orders' = orders /\ result'[c] = "error"
  BY DEF IInv, AddInsert, Reply, TypeOK
<1>3. \A d \in Calls \ {c} : result'[d] = result[d]
  BY DEF IInv, AddInsert, Reply, TypeOK
<1>4. CASE orders' = orders /\ result'[c] = "error"
  BY <1>1, <1>3, <1>4, SilentStep
<1>5. CASE orders' = [orders EXCEPT ![c] = row] /\ result'[c] \in {"ok", "error"}
  <2>1. /\ Known' \in {Known, Known \cup {c}} /\ c \notin Known
        /\ Shown' = Shown /\ Acknowledged' = Acknowledged
    BY <1>1, <1>3, <1>5, ToldByStep, Kinds DEF Known
  <2>2. {i \in Known : orders[i] = NoOrder}' = {i \in Known : orders[i] = NoOrder}
    BY <1>1, <1>5, <2>1 DEF IInv, TypeOK, Known
  <2>3. Book!Place(c)
    BY <1>1, <1>5, <2>1, <2>2 DEF Book!Place, Book!Stands
  <2>4. QED
    BY <1>1, <2>3 DEF Book!Next
<1>6. QED
  BY <1>2, <1>4, <1>5

\* What OrderInfo selects is shown as it stands at that moment.
LEMMA InfoSelectOfBook ==
    ASSUME IInv, NEW c \in Calls, InfoSelect(c)
    PROVE  Book!Next \/ UNCHANGED Book!pages
<1> DEFINE u == req[c].user
           i == req[c].order
<1>1. /\ pc[c] = "select" /\ result[c] = "none" /\ req[c] \in InfoReqs
      /\ u \in Users /\ i \in Calls /\ UNCHANGED <<orders, req>>
  BY Fields DEF IInv, AtStep, InfoSelect
<1>2. /\ \/ info' = info /\ result'[c] # "ok"
         \/ info' = [info EXCEPT ![c] = orders[i]] /\ Visible(u, i)
      /\ \A d \in Calls \ {c} : result'[d] = result[d]
  BY DEF IInv, InfoSelect, Reply, TypeOK
<1>3. CASE info' = info /\ result'[c] # "ok"
  BY <1>1, <1>2, <1>3, SilentStep
<1>4. CASE info' = [info EXCEPT ![c] = orders[i]] /\ Visible(u, i)
  <2>1. info'[c] = orders[i] /\ orders[i] # NoOrder /\ \A d \in Calls \ {c} : info'[d] = info[d]
    BY <1>4 DEF IInv, TypeOK, Visible
  <2>2. /\ Known' = Known /\ Acknowledged' = Acknowledged
        /\ Shown' = Shown \cup {[to |-> u, id |-> i, details |-> orders[i]]}
    BY <1>1, <1>2, <2>1, ToldByStep, Kinds
  <2>3. Book!Show(i, u)
    BY <1>1, <1>4, <2>2 DEF Book!Show, Book!Of, Book!Stands, Visible
  <2>4. QED
    BY <1>1, <2>3 DEF Book!Next
<1>5. QED
  BY <1>2, <1>3, <1>4

\* A committed DELETE cancels the caller's order, and nobody else's.
LEMMA DelExecOfBook ==
    ASSUME IInv, NEW c \in Calls, DelExec(c)
    PROVE  Book!Next \/ UNCHANGED Book!pages
<1>0. /\ pc[c] = "delExec" /\ result[c] = "none" /\ info[c] = NoOrder /\ req[c] \in DelReqs
      /\ req[c].order \in Known /\ UNCHANGED <<req, info>>
  BY DEF IInv, AtStep, NamesKnownOrder, DelExec
<1>1. PICK i \in Calls, u \in Users : i = req[c].order /\ u = req[c].user
  BY <1>0, Fields
<1>2. /\ \/ orders' = [j \in Calls |-> IF Deleted(c, j) THEN NoOrder ELSE orders[j]]
         \/ orders' = orders /\ result'[c] = "error"
      /\ \A d \in Calls \ {c} : result'[d] = result[d]
  BY DEF IInv, DelExec, Reply, TypeOK
<1>3. Book!Cancel(i, u) => Book!Next
  BY DEF Book!Next
<1>4. CASE orders' = orders /\ result'[c] = "error"
  BY <1>0, <1>1, <1>2, <1>4, SilentStep
<1>5. CASE orders' = [j \in Calls |-> IF Deleted(c, j) THEN NoOrder ELSE orders[j]]
  <2>1. /\ Known' = Known /\ Shown' = Shown
        /\ Acknowledged' \in {Acknowledged, Acknowledged \cup {[by |-> u, id |-> i]}}
    BY <1>0, <1>1, <1>2, ToldByStep, Kinds
  <2>2. CASE Visible(u, i)
    <3>1. orders' = [orders EXCEPT ![i] = NoOrder]
      BY <1>0, <1>1, <1>5, <2>2 DEF IInv, TypeOK, Deleted
    <3>2. {j \in Known : orders[j] = NoOrder}'
             = {j \in Known : orders[j] = NoOrder} \cup {i}
      BY <1>0, <1>1, <2>1, <3>1 DEF IInv, TypeOK, Known
    <3>3. Book!Cancel(i, u)
      BY <1>0, <1>1, <2>1, <2>2, <3>1, <3>2 DEF Book!Cancel, Book!Of, Book!Stands, Visible
    <3>4. QED
      BY <1>3, <3>3
  <2>3. CASE ~Visible(u, i)
    <3>1. orders' = orders
      BY <1>1, <1>5, <2>3 DEF IInv, TypeOK, Deleted
    <3>2. Book!Cancel(i, u)
      BY <1>0, <1>1, <2>1, <2>3, <3>1 DEF Book!Cancel, Book!Of, Book!Stands, Visible
    <3>3. QED
      BY <1>3, <3>2
  <2>4. QED
    BY <2>2, <2>3
<1>6. QED
  BY <1>2, <1>4, <1>5

\* The other steps of a call and a restart say nothing to the book.
LEMMA OtherStepsOfBook ==
    ASSUME IInv, \/ Restart
                 \/ \E c \in Calls : Arrival(c) \/ DelBegin(c) \/ DelCheck(c)
    PROVE  UNCHANGED Book!pages
<1>1. CASE Restart
  BY <1>1, SilentStep DEF Restart, IInv, AtStep, InFlight, Waiting
<1>2. ASSUME NEW c \in Calls, Arrival(c) \/ DelBegin(c) \/ DelCheck(c)
      PROVE  UNCHANGED Book!pages
  <2>1. result[c] = "none" /\ result'[c] # "ok" /\ UNCHANGED <<orders, info>>
    BY <1>2 DEF Arrival, AddReceive, Receive, Refuse, DelBegin, DelCheck, Goto, Reply,
                IInv, AtStep, TypeOK
  <2>2. \A d \in Calls \ {c} : result'[d] = result[d] /\ req'[d] = req[d]
    BY <1>2 DEF Arrival, AddReceive, Receive, Refuse, DelBegin, DelCheck, Goto, Reply,
                IInv, TypeOK
  <2>3. QED
    BY <2>1, <2>2, SilentStep
<1>3. QED
  BY <1>1, <1>2

\* Every step of the service is one entry of the book of orders or none.
THEOREM Refinement == Spec => ImplementsOrderBook
<1>1. Init => Book!Init
  BY Kinds DEF Init, Book!Init, Known, Shown, Acknowledged
<1>2. IInv /\ [Next]_vars => [Book!Next]_(Book!pages)
  <2> SUFFICES ASSUME IInv, [Next]_vars
               PROVE  Book!Next \/ UNCHANGED Book!pages
    OBVIOUS
  <2>1. ASSUME NEW c \in Calls, Continue(c) PROVE Book!Next \/ UNCHANGED Book!pages
    BY <2>1, AddInsertOfBook, InfoSelectOfBook, DelExecOfBook, OtherStepsOfBook DEF Continue
  <2>2. CASE UNCHANGED vars
    BY <2>2 DEF vars, Book!pages, Known, Shown, Acknowledged
  <2>3. QED
    BY <2>1, <2>2, OtherStepsOfBook DEF Next
<1>3. QED
  BY <1>1, <1>2, Invariance, PTL DEF Spec, ImplementsOrderBook, Book!Spec
=============================================================================
