------------------------- MODULE UserServiceProofs -------------------------
(***************************************************************************)
(* Theorems about UserService for every set of calls, profiles, passwords  *)
(* and roles and every size of the pool.                                   *)
(***************************************************************************)
EXTENDS UserServiceInv, FiniteSetTheorems, TLAPS

\* A request is of one kind, and a missing request of none.
LEMMA Kinds ==
    /\ \A r \in RegReqs : r \notin LogReqs \cup ExtReqs \cup DelReqs
    /\ \A r \in LogReqs : r \notin ExtReqs \cup DelReqs
    /\ \A r \in ExtReqs : r \notin DelReqs
    /\ NoReq \notin RegReqs \cup LogReqs \cup ExtReqs \cup DelReqs
  BY SentinelAssumption DEF RegReqs, LogReqs, ExtReqs, DelReqs, Requests

\* The fields of a request by its kind.
LEMMA Fields ==
    /\ \A r \in RegReqs : r.profile \in Profiles /\ r.role \in RequestRoles /\ r.pswd \in Pswds
    /\ \A r \in LogReqs : r.profile \in Profiles /\ r.pswd \in Pswds
    /\ \A r \in ExtReqs : r.token \in Calls /\ r.sk \in Calls
    /\ \A r \in DelReqs :
          r.user \in Calls /\ r.role \in Roles /\ r.target \in Calls /\ r.sk \in Calls
  BY DEF RegReqs, LogReqs, ExtReqs, DelReqs

\* A sentinel is not a value.
LEMMA Sentinels ==
    /\ \A id \in Calls, role \in Roles :
          [id |-> id, role |-> role] \in Identities /\ [id |-> id, role |-> role] # NoOne
             /\ [id |-> id, role |-> role] # NoSession
    /\ \A d \in Identities : d.id \in Calls /\ d.role \in Roles /\ d # NoOne /\ d # NoSession
  BY SentinelAssumption DEF Identities

\* A call that arrives is nobody's registration yet: registrations, and the
\* roles they asked for, stay as they are.
LEMMA ArrivalKeepsRegistrations ==
    ASSUME TypeOK, Untouched, NEW c \in Calls, NEW r \in Requests, Arrive(c, r)
    PROVE  /\ req' = [req EXCEPT ![c] = r] /\ req'[c] = r
           /\ \A d \in Calls \ {c} : req'[d] = req[d]
           /\ \A i \in Calls : Registration(i) => i # c /\ Registration(i)'
           /\ \A d \in Identities : HasRole(d) => HasRole(d)'
<1>1. req[c] = NoReq
  BY DEF Untouched, Arrive
<1>2. req' = [req EXCEPT ![c] = r] /\ req'[c] = r /\ \A d \in Calls \ {c} : req'[d] = req[d]
  BY DEF TypeOK, Arrive
<1>3. \A i \in Calls : Registration(i) => i # c /\ req'[i] = req[i]
  BY <1>1, <1>2, Kinds DEF Registration
<1>4. \A i \in Calls : Registration(i) => i # c /\ Registration(i)'
  BY <1>3 DEF Registration
<1>5. \A d \in Identities : HasRole(d) => HasRole(d)'
  BY <1>3, <1>4, Sentinels DEF HasRole, Account
<1>6. QED
  BY <1>2, <1>4, <1>5

(***************************************************************************)
(* What the handler of call d relies on while other calls take steps: its  *)
(* own variables are its own, nobody else opens its account, and an opened   *)
(* account is at most deleted.                                             *)
(***************************************************************************)
Rely(d) ==
    /\ pc'[d] = pc[d] /\ req'[d] = req[d] /\ who'[d] = who[d]
    /\ Opened(d)' => Opened(d)
    /\ \A i \in Calls : Opened(i) => users'[i] \in {users[i], NoUser}

\* A handler that can rely on the others finds what its step needs.
LEMMA RelyKeepsStep ==
    ASSUME IInv, NEW d \in Calls, Rely(d)
    PROVE  AtStep(d)'
<1> USE DEF IInv
<1>1. AtStep(d)
  BY DEF Handlers
<1>2. AtRegInsert(d) => AtRegInsert(d)'
  BY DEF Rely, AtRegInsert, Registration
<1>3. req[d] \in DelReqs /\ AtDelExec(d) => AtDelExec(d)'
  BY Fields DEF Rely, AtDelExec, Removable, Deletions
<1>4. QED
  BY <1>1, <1>2, <1>3 DEF Rely, AtStep

\* A deletion past its first step has spent its key.
LEMMA RunningDeletion ==
    ASSUME IInv, NEW c \in Calls, InFlight(c), req[c] \in DelReqs
    PROVE  Spent(c)
  BY Kinds DEF IInv, InFlight, Waiting, Handlers, AtStep, AtRegInsert, Registration, Spent

\* A step that leaves the requests alone leaves the registrations alone.
LEMMA SameRequests ==
    ASSUME UNCHANGED req
    PROVE  /\ \A i \in Calls : Registration(i)' = Registration(i)
           /\ \A d \in Identities : HasRole(d)' = HasRole(d)
  BY DEF Registration, HasRole, Account

-----------------------------------------------------------------------------
(* The steps that receive a request.                                        *)

\* A call that arrives found nothing under its name.
LEMMA ArrivalIsFresh ==
    ASSUME IInv, NEW c \in Calls, NEW r \in Requests, Arrive(c, r)
    PROVE  /\ pc[c] = "idle" /\ result[c] = "none" /\ who[c] = NoOne
           /\ sessions[c] = NoSession /\ users[c] = NoUser /\ c \notin removed
  BY DEF IInv, Arrive, Untouched, Table, Opened, TypeOK, Results

LEMMA RegSessionStep ==
    ASSUME IInv, NEW c \in Calls, NEW r \in RegReqs, RegSession(c, r)
    PROVE  IInv'
<1> USE DEF IInv
<1>1. r \in Requests /\ Arrive(c, r)
  BY DEF Requests, RegSession
<1>2. /\ pc[c] = "idle" /\ result[c] = "none" /\ who[c] = NoOne
      /\ sessions[c] = NoSession /\ users[c] = NoUser /\ c \notin removed
  BY <1>1, ArrivalIsFresh
<1>3. \A d \in Calls \ {c} :
         /\ pc'[d] = pc[d] /\ who'[d] = who[d] /\ result'[d] = result[d]
         /\ sessions'[d] = sessions[d]
  BY DEF RegSession, Goto, Reply, NewSession, TypeOK
<1>4. \/ /\ pc'[c] = "done" /\ result'[c] \in {"refused", "error"}
         /\ \/ who'[c] = NoOne /\ sessions'[c] = NoSession
            \/ /\ r.role \in Roles /\ who'[c] = [id |-> c, role |-> r.role]
               /\ sessions'[c] \in {NoSession, who'[c]}
      \/ /\ pc'[c] = "regInsert" /\ result'[c] = "none" /\ r.role \in Roles
         /\ who'[c] = [id |-> c, role |-> r.role] /\ sessions'[c] = who'[c]
  BY <1>2 DEF RegSession, Goto, Reply, NewSession, TypeOK
<1>5. UNCHANGED <<users, expired, leaked, removed>> /\ \A i \in Calls : Opened(i)' = Opened(i)
  BY DEF RegSession, Opened
<1>6. /\ req'[c] = r /\ \A d \in Calls \ {c} : req'[d] = req[d]
      /\ \A i \in Calls : Registration(i) => i # c /\ Registration(i)'
      /\ \A d \in Identities : HasRole(d) => HasRole(d)'
  BY <1>1, ArrivalKeepsRegistrations
<1>a. TypeOK'
  BY <1>1, Sentinels DEF TypeOK, RegSession, Arrive, Goto, Reply, NewSession, Waiting, Results
<1>b. Untouched'
  BY <1>3, <1>4, <1>6 DEF Untouched
<1>c. Handlers'
  <2>1. AtStep(c)'
    BY <1>2, <1>4, <1>5, <1>6 DEF AtStep, AtRegInsert, Opened, Registration
  <2>2. \A d \in Calls \ {c} : Rely(d)
    BY <1>2, <1>3, <1>5, <1>6 DEF Rely
  <2>3. QED
    BY <2>1, <2>2, RelyKeepsStep DEF Handlers
<1>d. Table'
  BY <1>2, <1>3, <1>5, <1>6 DEF Table
<1>e. Known'
  BY <1>3, <1>4, <1>5, <1>6, Sentinels DEF Known, TypeOK, HasRole, Registration, Account
<1>f. Logins'
  BY <1>3, <1>4, <1>6, Kinds, Sentinels DEF Logins, Known, TypeOK, HasRole
<1>g. Replies'
  BY <1>2, <1>3, <1>4, <1>5, <1>6, Fields DEF Replies
<1>h. Deletions'
  BY <1>2, <1>3, <1>4, <1>5, <1>6, Kinds, Fields, Sentinels DEF Deletions, Spent, HasRole, Registration, Account
<1>i. UserNamesDiffer'
  BY <1>5 DEF UserNamesDiffer
<1>10. QED
  BY <1>a, <1>b, <1>c, <1>d, <1>e, <1>f, <1>g, <1>h, <1>i

LEMMA LogReceiveStep ==
    ASSUME IInv, NEW c \in Calls, NEW r \in LogReqs, LogReceive(c, r)
    PROVE  IInv'
<1> USE DEF IInv
<1>1. r \in Requests /\ Arrive(c, r)
  BY DEF Requests, LogReceive
<1>2. /\ pc[c] = "idle" /\ result[c] = "none" /\ who[c] = NoOne
      /\ sessions[c] = NoSession /\ users[c] = NoUser /\ c \notin removed
  BY <1>1, ArrivalIsFresh
<1>3. \A d \in Calls \ {c} : pc'[d] = pc[d] /\ result'[d] = result[d]
  BY DEF LogReceive, Goto, TypeOK
<1>4. pc'[c] = "logLookup" /\ result'[c] = "none"
  BY <1>2 DEF LogReceive, Goto, TypeOK
<1>5. /\ UNCHANGED <<users, sessions, who, expired, leaked, removed>>
      /\ \A i \in Calls : Opened(i)' = Opened(i)
  BY DEF LogReceive, stores, Opened
<1>6. /\ req'[c] = r /\ \A d \in Calls \ {c} : req'[d] = req[d]
      /\ \A i \in Calls : Registration(i) => i # c /\ Registration(i)'
      /\ \A d \in Identities : HasRole(d) => HasRole(d)'
  BY <1>1, ArrivalKeepsRegistrations
<1>a. TypeOK'
  BY <1>1 DEF TypeOK, LogReceive, Arrive, Goto, stores, Waiting, Results
<1>b. Untouched'
  BY <1>3, <1>4, <1>5, <1>6 DEF Untouched
<1>c. Handlers'
  <2>1. AtStep(c)'
    BY <1>2, <1>4, <1>5, <1>6 DEF AtStep
  <2>2. \A d \in Calls \ {c} : Rely(d)
    BY <1>2, <1>3, <1>5, <1>6 DEF Rely
  <2>3. QED
    BY <2>1, <2>2, RelyKeepsStep DEF Handlers
<1>d. Table'
  BY <1>2, <1>3, <1>5, <1>6 DEF Table
<1>e. Known'
  BY <1>2, <1>5, <1>6, Sentinels DEF Known, TypeOK, HasRole, Registration, Account
<1>f. Logins'
  BY <1>2, <1>5, <1>6, Sentinels DEF Logins, Known, TypeOK, HasRole
<1>g. Replies'
  BY <1>2, <1>3, <1>4, <1>5, <1>6, Fields DEF Replies
<1>h. Deletions'
  BY <1>2, <1>3, <1>5, <1>6, Kinds, Fields, Sentinels DEF Deletions, Spent, HasRole, Registration, Account
<1>i. UserNamesDiffer'
  BY <1>5 DEF UserNamesDiffer
<1>10. QED
  BY <1>a, <1>b, <1>c, <1>d, <1>e, <1>f, <1>g, <1>h, <1>i

\* A token presented to the service came with a reply: its identity is known.
LEMMA ExtParseStep ==
    ASSUME IInv, NEW c \in Calls, NEW r \in Credentials, ExtParse(c, r)
    PROVE  IInv'
<1> USE DEF IInv
<1>0. /\ r \in ExtReqs
      /\ who[r.token] \in Identities /\ HasRole(who[r.token]) /\ Opened(who[r.token].id)
  <2>1. r \in ExtReqs /\ r.token \in TokenIssued
    BY DEF Credentials, ExtReqs, TokenIssued, KeyIssued
  <2>2. who[r.token] # NoOne /\ (req[r.token] \in RegReqs => Opened(r.token))
    BY <2>1 DEF Replies, TokenIssued, KeyIssued
  <2>3. QED
    BY <2>1, <2>2, Fields DEF Known, TypeOK
<1>1. r \in Requests /\ Arrive(c, r)
  BY <1>0 DEF Requests, ExtParse
<1>2. /\ pc[c] = "idle" /\ result[c] = "none" /\ who[c] = NoOne
      /\ sessions[c] = NoSession /\ users[c] = NoUser /\ c \notin removed
  BY <1>1, ArrivalIsFresh
<1>3. \A d \in Calls \ {c} : pc'[d] = pc[d] /\ result'[d] = result[d] /\ who'[d] = who[d]
  BY DEF ExtParse, Goto, Reply, TypeOK
<1>4. \/ pc'[c] = "done" /\ result'[c] = "expired" /\ who'[c] = NoOne
      \/ pc'[c] = "extValidate" /\ result'[c] = "none" /\ who'[c] = who[r.token]
  BY <1>2 DEF ExtParse, Goto, Reply, TypeOK
<1>5. /\ UNCHANGED <<users, sessions, expired, leaked, removed>>
      /\ \A i \in Calls : Opened(i)' = Opened(i)
  BY DEF ExtParse, Opened
<1>6. /\ req'[c] = r /\ \A d \in Calls \ {c} : req'[d] = req[d]
      /\ \A i \in Calls : Registration(i) => i # c /\ Registration(i)'
      /\ \A d \in Identities : HasRole(d) => HasRole(d)'
  BY <1>1, ArrivalKeepsRegistrations
<1>a. TypeOK'
  BY <1>0, <1>1 DEF TypeOK, ExtParse, Arrive, Goto, Reply, Waiting, Results
<1>b. Untouched'
  BY <1>3, <1>4, <1>5, <1>6 DEF Untouched
<1>c. Handlers'
  <2>1. AtStep(c)'
    BY <1>0, <1>4, <1>6, Sentinels DEF AtStep
  <2>2. \A d \in Calls \ {c} : Rely(d)
    BY <1>2, <1>3, <1>5, <1>6 DEF Rely
  <2>3. QED
    BY <2>1, <2>2, RelyKeepsStep DEF Handlers
<1>d. Table'
  BY <1>2, <1>3, <1>5, <1>6 DEF Table
<1>e. Known'
  BY <1>0, <1>2, <1>3, <1>4, <1>5, <1>6, Kinds, Sentinels DEF Known, TypeOK, HasRole, Registration, Account
<1>f. Logins'
  BY <1>0, <1>3, <1>6, Kinds, Sentinels DEF Logins, Known, TypeOK, HasRole
<1>g. Replies'
  BY <1>2, <1>3, <1>4, <1>5, <1>6, Fields DEF Replies
<1>h. Deletions'
  BY <1>0, <1>2, <1>3, <1>5, <1>6, Kinds, Fields, Sentinels DEF Deletions, Spent, HasRole, Registration, Account
<1>i. UserNamesDiffer'
  BY <1>5 DEF UserNamesDiffer
<1>10. QED
  BY <1>a, <1>b, <1>c, <1>d, <1>e, <1>f, <1>g, <1>h, <1>i

\* A deletion names requester, target and key from replies to finished calls.
LEMMA DelSessionStep ==
    ASSUME IInv, NEW c \in Calls, NEW r \in Removals, DelSession(c, r)
    PROVE  IInv'
<1> USE DEF IInv
<1>0. /\ r \in DelReqs /\ pc[r.sk] = "done" /\ Opened(r.target)
      /\ HasRole([id |-> r.user, role |-> r.role])
  <2>1. PICK s \in KeyIssued, t \in KeyIssued :
            r = [op |-> "del", user |-> who[s].id, role |-> who[s].role,
                 target |-> who[t].id, sk |-> s]
    BY DEF Removals
  <2>2. \A k \in KeyIssued :
            /\ k \in Calls /\ pc[k] = "done" /\ who[k] \in Identities
            /\ HasRole(who[k]) /\ Opened(who[k].id)
    BY Kinds DEF KeyIssued, Replies, Untouched, Known, TypeOK
  <2>3. r \in DelReqs
    BY <2>1, <2>2, Sentinels DEF DelReqs
  <2>4. QED
    BY <2>1, <2>2, <2>3 DEF HasRole, Account
<1>1. r \in Requests /\ Arrive(c, r)
  BY <1>0 DEF Requests, DelSession
<1>2. /\ pc[c] = "idle" /\ result[c] = "none" /\ who[c] = NoOne
      /\ sessions[c] = NoSession /\ users[c] = NoUser /\ c \notin removed
  BY <1>1, ArrivalIsFresh
<1>3. \A d \in Calls \ {c} : pc'[d] = pc[d] /\ result'[d] = result[d]
  BY DEF DelSession, Goto, Reply, TypeOK
<1>4. /\ \A s \in Calls : sessions'[s] \in {sessions[s], NoSession}
      /\ \/ pc'[c] = "done" /\ result'[c] = "error"
         \/ pc'[c] = "delBegin" /\ result'[c] = "none" /\ sessions'[r.sk] = NoSession
  BY <1>0, <1>2, Fields DEF DelSession, Goto, Reply, TypeOK
<1>5. /\ UNCHANGED <<users, who, expired, leaked, removed>>
      /\ \A i \in Calls : Opened(i)' = Opened(i)
  BY DEF DelSession, Opened
<1>6. /\ req'[c] = r /\ \A d \in Calls \ {c} : req'[d] = req[d]
      /\ \A i \in Calls : Registration(i) => i # c /\ Registration(i)'
      /\ \A d \in Identities : HasRole(d) => HasRole(d)'
  BY <1>1, ArrivalKeepsRegistrations
<1>a. TypeOK'
  BY <1>0, <1>1, Fields DEF TypeOK, DelSession, Arrive, Goto, Reply, Waiting, Results
<1>b. Untouched'
  BY <1>2, <1>3, <1>4, <1>5, <1>6 DEF Untouched
<1>c. Handlers'
  <2>1. AtStep(c)'
    BY <1>0, <1>4, <1>6 DEF AtStep
  <2>2. \A d \in Calls \ {c} : Rely(d)
    BY <1>2, <1>3, <1>4, <1>5, <1>6 DEF Rely
  <2>3. QED
    BY <2>1, <2>2, RelyKeepsStep DEF Handlers
<1>d. Table'
  BY <1>2, <1>3, <1>5, <1>6 DEF Table
<1>e. Known'
  BY <1>2, <1>4, <1>5, <1>6, Sentinels DEF Known, TypeOK, HasRole, Registration, Account
<1>f. Logins'
  BY <1>0, <1>5, <1>6, Kinds, Sentinels DEF Logins, Known, TypeOK, HasRole
<1>g. Replies'
  BY <1>2, <1>3, <1>4, <1>5, <1>6, Fields DEF Replies
<1>h. Deletions'
  BY <1>0, <1>2, <1>3, <1>4, <1>5, <1>6, Fields, Sentinels DEF Deletions, Spent, HasRole, Registration, Account
<1>i. UserNamesDiffer'
  BY <1>5 DEF UserNamesDiffer
<1>10. QED
  BY <1>a, <1>b, <1>c, <1>d, <1>e, <1>f, <1>g, <1>h, <1>i

-----------------------------------------------------------------------------
(* The steps of a running handler.                                          *)

\* The row of an insert is a row.
LEMMA InsertedRow ==
    ASSUME TypeOK, NEW c \in Calls, Registration(c)
    PROVE  LET row == [user_name |-> UserName[req[c].profile],
                       role |-> req[c].role, pswd |-> req[c].pswd]
           IN  row \in Rows /\ row # NoUser
  BY Fields, UserNameAssumption, SentinelAssumption DEF Registration, Rows, Names

\* The id of an insert is fresh, so the insert opens an account and harms none.
LEMMA RegInsertStep ==
    ASSUME IInv, NEW c \in Calls, RegInsert(c)
    PROVE  IInv'
<1> USE DEF IInv
<1> DEFINE row == [user_name |-> UserName[req[c].profile],
                   role |-> req[c].role, pswd |-> req[c].pswd]
<1>1. /\ pc[c] = "regInsert" /\ result[c] = "none" /\ Registration(c) /\ ~Opened(c)
      /\ who[c] = [id |-> c, role |-> req[c].role] /\ who[c] # NoOne
  BY Fields, Sentinels DEF RegInsert, Handlers, AtStep, AtRegInsert, Untouched, Registration
<1>2. UNCHANGED <<sessions, req, who, expired, leaked, removed>>
  BY DEF RegInsert
<1>3. \A d \in Calls \ {c} : pc'[d] = pc[d] /\ result'[d] = result[d] /\ users'[d] = users[d]
  BY DEF RegInsert, InsertRow, Reply, TypeOK
<1>4. /\ pc'[c] = "done"
      /\ \/ users' = users /\ result'[c] \in {"exists", "error"}
         \/ users'[c] = row /\ ~Taken(row.user_name) /\ result'[c] \in {"ok", "error"}
  BY DEF RegInsert, InsertRow, Reply, TypeOK
<1>5. row \in Rows /\ row # NoUser
  BY <1>1, InsertedRow
<1>6. /\ \A d \in Calls \ {c} : Opened(d)' = Opened(d)
      /\ Opened(c)' <=> users'[c] = row
  BY <1>1, <1>2, <1>3, <1>4, <1>5 DEF Opened
<1>7. users' \in [Calls -> Rows \cup {NoUser}]
  BY <1>5 DEF RegInsert, InsertRow, TypeOK
<1>a. TypeOK'
  BY <1>2, <1>7 DEF TypeOK, RegInsert, Reply, Results
<1>b. Untouched'
  BY <1>1, <1>2, <1>3, <1>4 DEF Untouched
<1>c. Handlers'
  <2>1. AtStep(c)'
    BY <1>4 DEF AtStep
  <2>2. \A d \in Calls \ {c} : Rely(d)
    BY <1>1, <1>2, <1>3, <1>6 DEF Rely
  <2>3. QED
    BY <2>1, <2>2, RelyKeepsStep DEF Handlers
<1>d. Table'
  BY <1>1, <1>2, <1>3, <1>4, <1>6 DEF Table, Registration, Opened
<1>e. Known'
  BY <1>1, <1>2, <1>3, <1>6, Sentinels DEF Known, TypeOK, HasRole, Registration, Account
<1>f. Logins'
  BY <1>2 DEF Logins
<1>g. Replies'
  BY <1>1, <1>2, <1>3, <1>4, <1>6, Kinds DEF Replies, Registration
<1>h. Deletions'
  BY <1>1, <1>2, <1>3, <1>6, Fields, Kinds DEF Deletions, Spent, HasRole, Registration, Account
<1>i. UserNamesDiffer'
  BY <1>1, <1>3, <1>4 DEF UserNamesDiffer, Taken
<1>10. QED
  BY <1>a, <1>b, <1>c, <1>d, <1>e, <1>f, <1>g, <1>h, <1>i

\* The account that was looked up was open at that moment.
LEMMA LogLookupStep ==
    ASSUME IInv, NEW c \in Calls, LogLookup(c)
    PROVE  IInv'
<1> USE DEF IInv
<1>1. pc[c] = "logLookup" /\ result[c] = "none" /\ req[c] \in LogReqs /\ who[c] = NoOne
  BY DEF LogLookup, Handlers, AtStep, Untouched
<1>2. /\ UNCHANGED <<users, sessions, req, expired, leaked, removed>>
      /\ \A i \in Calls : Opened(i)' = Opened(i)
  BY DEF LogLookup, stores, Opened
<1>3. \A d \in Calls \ {c} : pc'[d] = pc[d] /\ result'[d] = result[d] /\ who'[d] = who[d]
  BY DEF LogLookup, Goto, Reply, TypeOK
<1>4. \/ pc'[c] = "done" /\ result'[c] \in {"refused", "error"} /\ who'[c] = NoOne
      \/ /\ pc'[c] = "logSession" /\ result'[c] = "none"
         /\ \E i \in Calls : Genuine(i, req[c]) /\ who'[c] = [id |-> i, role |-> users[i].role]
  BY <1>1 DEF LogLookup, Goto, Reply, TypeOK
<1>5. ASSUME NEW i \in Calls, Genuine(i, req[c])
      PROVE  /\ [id |-> i, role |-> users[i].role] \in Identities
             /\ HasRole([id |-> i, role |-> users[i].role]) /\ Opened(i)
             /\ UserName[req[i].profile] = UserName[req[c].profile] /\ req[i].pswd = req[c].pswd
  <2>1. Opened(i)
    BY <1>5 DEF Genuine, Opened
  <2>2. /\ Registration(i)
        /\ users[i] = [user_name |-> UserName[req[i].profile],
                       role |-> req[i].role, pswd |-> req[i].pswd]
    BY <1>5, <2>1 DEF Genuine, Table
  <2>3. /\ users[i].user_name = UserName[req[i].profile] /\ users[i].pswd = req[i].pswd
        /\ users[i].role = Account(i) /\ users[i].role \in Roles
    BY <2>2 DEF Registration, Account
  <2>4. HasRole([id |-> i, role |-> users[i].role])
    BY <2>2, <2>3 DEF HasRole
  <2>5. QED
    BY <1>5, <2>1, <2>3, <2>4, Sentinels DEF Genuine
<1>6. who'[c] = NoOne \/
         /\ who'[c] \in Identities /\ HasRole(who'[c]) /\ Opened(who'[c].id)
         /\ UserName[req[who'[c].id].profile] = UserName[req[c].profile]
         /\ req[who'[c].id].pswd = req[c].pswd
  <2>1. CASE who'[c] = NoOne
    BY <2>1
  <2>2. CASE \E i \in Calls :
            Genuine(i, req[c]) /\ who'[c] = [id |-> i, role |-> users[i].role]
    <3>1. PICK i \in Calls : Genuine(i, req[c]) /\ who'[c] = [id |-> i, role |-> users[i].role]
      BY <2>2
    <3>2. who'[c].id = i
      BY <3>1
    <3>3. QED
      BY <3>1, <3>2, <1>5
  <2>3. QED
    BY <1>4, <2>1, <2>2
<1>a. TypeOK'
  <2>1. who' \in [Calls -> Identities \cup {NoOne}]
    BY <1>4, <1>5, Sentinels DEF TypeOK, LogLookup
  <2>2. QED
    BY <1>2, <2>1 DEF TypeOK, LogLookup, Goto, Reply, Waiting, Results
<1>b. Untouched'
  BY <1>1, <1>2, <1>3, <1>4 DEF Untouched
<1>c. Handlers'
  <2>1. AtStep(c)'
    BY <1>1, <1>2, <1>4, Sentinels, <1>5 DEF AtStep
  <2>2. \A d \in Calls \ {c} : Rely(d)
    BY <1>2, <1>3 DEF Rely
  <2>3. QED
    BY <2>1, <2>2, RelyKeepsStep DEF Handlers
<1>d. Table'
  BY <1>1, <1>2, <1>3 DEF Table, Registration
<1>e. Known'
  BY <1>1, <1>2, <1>3, <1>6, Kinds, Sentinels DEF Known, TypeOK, HasRole, Registration, Account
<1>f. Logins'
  BY <1>2, <1>3, <1>6 DEF Logins
<1>g. Replies'
  BY <1>1, <1>2, <1>3, <1>4, Fields, Kinds DEF Replies
<1>h. Deletions'
  BY <1>1, <1>2, <1>3, Fields, Kinds DEF Deletions, Spent, HasRole, Registration, Account
<1>i. UserNamesDiffer'
  BY <1>2 DEF UserNamesDiffer
<1>10. QED
  BY <1>a, <1>b, <1>c, <1>d, <1>e, <1>f, <1>g, <1>h, <1>i

LEMMA LogSessionStep ==
    ASSUME IInv, NEW c \in Calls, LogSession(c)
    PROVE  IInv'
<1> USE DEF IInv
<1>1. /\ pc[c] = "logSession" /\ result[c] = "none" /\ req[c] \in LogReqs
      /\ who[c] # NoOne /\ who[c] \in Identities /\ HasRole(who[c])
  BY DEF LogSession, Handlers, AtStep, Untouched, Known, TypeOK
<1>2. /\ UNCHANGED <<users, req, who, expired, leaked, removed>>
      /\ \A i \in Calls : Opened(i)' = Opened(i)
  BY DEF LogSession, Opened
<1>3. \A d \in Calls \ {c} :
         pc'[d] = pc[d] /\ result'[d] = result[d] /\ sessions'[d] = sessions[d]
  BY DEF LogSession, NewSession, Reply, TypeOK
<1>4. /\ pc'[c] = "done" /\ result'[c] \in {"ok", "error"}
      /\ sessions'[c] \in {sessions[c], who[c]}
  BY DEF LogSession, NewSession, Reply, TypeOK
<1>a. TypeOK'
  BY <1>1, <1>2 DEF TypeOK, LogSession, NewSession, Reply, Results
<1>b. Untouched'
  BY <1>1, <1>2, <1>3, <1>4 DEF Untouched
<1>c. Handlers'
  <2>1. AtStep(c)'
    BY <1>4 DEF AtStep
  <2>2. \A d \in Calls \ {c} : Rely(d)
    BY <1>1, <1>2, <1>3 DEF Rely
  <2>3. QED
    BY <2>1, <2>2, RelyKeepsStep DEF Handlers
<1>d. Table'
  BY <1>1, <1>2, <1>3 DEF Table, Registration
<1>e. Known'
  BY <1>1, <1>2, <1>3, <1>4, Sentinels DEF Known, TypeOK, HasRole, Registration, Account
<1>f. Logins'
  BY <1>2 DEF Logins
<1>g. Replies'
  BY <1>1, <1>2, <1>3, <1>4, Kinds DEF Replies
<1>h. Deletions'
  BY <1>1, <1>2, <1>3, <1>4, Fields, Kinds DEF Deletions, Spent, HasRole, Registration, Account
<1>i. UserNamesDiffer'
  BY <1>2 DEF UserNamesDiffer
<1>10. QED
  BY <1>a, <1>b, <1>c, <1>d, <1>e, <1>f, <1>g, <1>h, <1>i

\* Steps that touch no store and no identity: only the call's own progress counts.
LEMMA QuietStep ==
    ASSUME IInv, NEW c \in Calls, InFlight(c), TypeOK',
           UNCHANGED <<users, sessions, removed, req, who>>,
           \A d \in Calls \ {c} : pc'[d] = pc[d] /\ result'[d] = result[d],
           pc'[c] # "idle", pc'[c] = "done" <=> result'[c] # "none",
           result'[c] = "ok" =>
               req[c] \in ExtReqs /\ who[c] # NoOne /\ who[req[c].sk] = who[c],
           AtStep(c)'
    PROVE  IInv'
<1> USE DEF IInv
<1>1. pc[c] # "idle" /\ pc[c] # "done"
  BY DEF InFlight, Waiting
<1>2. \A i \in Calls : Opened(i)' = Opened(i)
  BY DEF Opened
<1>b. Untouched'
  BY <1>1 DEF Untouched
<1>c. Handlers'
  <2>1. \A d \in Calls \ {c} : Rely(d)
    BY <1>2 DEF Rely
  <2>2. QED
    BY <2>1, RelyKeepsStep DEF Handlers
<1>d. Table'
  BY <1>1, <1>2 DEF Table, Registration
<1>e. Known'
  BY <1>2, Sentinels DEF Known, TypeOK, HasRole, Registration, Account
<1>f. Logins'
  BY DEF Logins
<1>g. Replies'
  BY <1>2, Kinds DEF Replies
<1>h. Deletions'
  BY <1>1, <1>2, Fields, RunningDeletion DEF Deletions, Spent, HasRole, Registration, Account
<1>i. UserNamesDiffer'
  BY DEF UserNamesDiffer
<1>10. QED
  BY <1>b, <1>c, <1>d, <1>e, <1>f, <1>g, <1>h, <1>i

LEMMA ExtValidateStep ==
    ASSUME IInv, NEW c \in Calls, ExtValidate(c)
    PROVE  IInv'
<1> USE DEF IInv
<1>1. pc[c] = "extValidate" /\ req[c] \in ExtReqs /\ who[c] # NoOne
  BY DEF ExtValidate, Handlers, AtStep
<1>2. UNCHANGED <<users, sessions, removed, req, who, expired, leaked>>
  BY DEF ExtValidate, stores
<1>3. /\ \A d \in Calls \ {c} : pc'[d] = pc[d] /\ result'[d] = result[d]
      /\ pc'[c] = "done" /\ result'[c] \in {"ok", "refused", "error"}
  BY DEF ExtValidate, Reply, TypeOK
<1>4. TypeOK'
  BY <1>2 DEF TypeOK, ExtValidate, Reply, Results
<1>5. AtStep(c)'
  BY <1>3 DEF AtStep
<1>6. result'[c] = "ok" => who[req[c].sk] = who[c]
  BY <1>1, <1>3, Fields, Sentinels DEF ExtValidate, Validate, Reply, Known, TypeOK
<1>7. QED
  BY <1>1, <1>2, <1>3, <1>4, <1>5, <1>6, QuietStep DEF InFlight, Waiting

LEMMA DelBeginStep ==
    ASSUME IInv, NEW c \in Calls, DelBegin(c)
    PROVE  IInv'
<1> USE DEF IInv
<1>1. pc[c] = "delBegin" /\ result[c] = "none" /\ req[c] \in DelReqs
  BY DEF DelBegin, Handlers, AtStep, Untouched
<1>2. UNCHANGED <<users, sessions, removed, req, who, expired>>
  BY DEF DelBegin, stores
<1>3. /\ \A d \in Calls \ {c} : pc'[d] = pc[d] /\ result'[d] = result[d]
      /\ \/ pc'[c] = "done" /\ result'[c] \in {"error", "refused"}
         \/ pc'[c] = "delExec" /\ result'[c] = "none" /\ req[c].user = req[c].target
         \/ pc'[c] = "delCheck" /\ result'[c] = "none" /\ req[c].role = "admin"
  BY <1>1 DEF DelBegin, Abandon, Goto, Reply, TypeOK
<1>4. TypeOK'
  BY <1>2 DEF TypeOK, DelBegin, Abandon, Goto, Reply, Waiting, Results
<1>5. AtStep(c)'
  BY <1>1, <1>2, <1>3 DEF AtStep, AtDelExec
<1>6. QED
  BY <1>1, <1>2, <1>3, <1>4, <1>5, QuietStep DEF InFlight, Waiting

LEMMA DelCheckStep ==
    ASSUME IInv, NEW c \in Calls, DelCheck(c)
    PROVE  IInv'
<1> USE DEF IInv
<1>1. pc[c] = "delCheck" /\ result[c] = "none" /\ req[c] \in DelReqs /\ req[c].role = "admin"
  BY DEF DelCheck, Handlers, AtStep, Untouched
<1>2. UNCHANGED <<users, sessions, removed, req, who, expired>>
  BY DEF DelCheck, stores
<1>3. /\ \A d \in Calls \ {c} : pc'[d] = pc[d] /\ result'[d] = result[d]
      /\ \/ pc'[c] = "done" /\ result'[c] \in {"error", "refused"}
         \/ pc'[c] = "delExec" /\ result'[c] = "none" /\ Removable(req[c].target)
  BY <1>1 DEF DelCheck, Abandon, Goto, Reply, TypeOK
<1>4. TypeOK'
  BY <1>2 DEF TypeOK, DelCheck, Abandon, Goto, Reply, Waiting, Results
<1>5. AtStep(c)'
  BY <1>1, <1>2, <1>3 DEF AtStep, AtDelExec, Removable
<1>6. QED
  BY <1>1, <1>2, <1>3, <1>4, <1>5, QuietStep DEF InFlight, Waiting

\* A row goes and its id is remembered: opened accounts stay opened.
LEMMA DelExecStep ==
    ASSUME IInv, NEW c \in Calls, DelExec(c)
    PROVE  IInv'
<1> USE DEF IInv
<1> DEFINE t == req[c].target
<1>1. pc[c] = "delExec" /\ result[c] = "none" /\ req[c] \in DelReqs /\ t \in Calls /\ Opened(t)
  BY Fields DEF DelExec, Handlers, AtStep, Untouched, Deletions
<1>2. UNCHANGED <<sessions, req, who, expired>>
  BY DEF DelExec
<1>3. \A d \in Calls \ {c} : pc'[d] = pc[d] /\ result'[d] = result[d]
  BY DEF DelExec, RemoveRow, Abandon, Reply, TypeOK
<1>4. /\ pc'[c] = "done"
      /\ \/ users' = users /\ removed' = removed /\ result'[c] = "error"
         \/ /\ users' = [users EXCEPT ![t] = NoUser] /\ removed' = removed \cup {t}
            /\ result'[c] \in {"ok", "error"}
  BY <1>1 DEF DelExec, RemoveRow, Abandon, Reply, TypeOK, Opened
<1>5. /\ \A i \in Calls : Opened(i)' = Opened(i)
      /\ \A i \in Calls : users'[i] \in {users[i], NoUser}
      /\ \A i \in removed : i \in removed'
  BY <1>1, <1>4 DEF Opened, TypeOK
<1>a. TypeOK'
  <2>1. users' \in [Calls -> Rows \cup {NoUser}] /\ removed' \subseteq Calls
    BY <1>1, <1>4 DEF TypeOK
  <2>2. QED
    BY <1>2, <2>1 DEF TypeOK, DelExec, RemoveRow, Abandon, Reply, Results
<1>b. Untouched'
  BY <1>1, <1>2, <1>3, <1>4 DEF Untouched
<1>c. Handlers'
  <2>1. AtStep(c)'
    BY <1>4 DEF AtStep
  <2>2. \A d \in Calls \ {c} : Rely(d)
    BY <1>2, <1>3, <1>5 DEF Rely
  <2>3. QED
    BY <2>1, <2>2, RelyKeepsStep DEF Handlers
<1>d. Table'
  BY <1>1, <1>2, <1>3, <1>4, <1>5 DEF Table, Registration, TypeOK
<1>e. Known'
  BY <1>2, <1>5, Sentinels DEF Known, TypeOK, HasRole, Registration, Account
<1>f. Logins'
  BY <1>2 DEF Logins
<1>g. Replies'
  BY <1>1, <1>2, <1>3, <1>4, <1>5, Kinds DEF Replies
<1>h. Deletions'
  BY <1>1, <1>2, <1>3, <1>5, Fields DEF Deletions, Spent, HasRole, Registration, Account
<1>i. UserNamesDiffer'
  BY <1>5 DEF UserNamesDiffer
<1>10. QED
  BY <1>a, <1>b, <1>c, <1>d, <1>e, <1>f, <1>g, <1>h, <1>i

-----------------------------------------------------------------------------
(* Time and crashes.                                                        *)

LEMMA SessionExpiresStep ==
    ASSUME IInv, NEW s \in Calls, SessionExpires(s)
    PROVE  IInv'
<1> USE DEF IInv
<1>1. /\ UNCHANGED <<users, pc, req, who, result, expired, leaked, removed>>
      /\ \A k \in Calls : sessions'[k] \in {sessions[k], NoSession}
      /\ \A i \in Calls : Opened(i)' = Opened(i)
  BY DEF SessionExpires, TypeOK, Opened
<1>a. TypeOK'
  BY DEF TypeOK, SessionExpires
<1>b. Untouched'
  BY <1>1 DEF Untouched
<1>c. Handlers'
  <2>1. \A d \in Calls : Rely(d)
    BY <1>1 DEF Rely
  <2>2. QED
    BY <2>1, RelyKeepsStep DEF Handlers
<1>d. Table'
  BY <1>1 DEF Table, Registration
<1>e. Known'
  BY <1>1, Sentinels DEF Known, TypeOK, HasRole, Registration, Account
<1>f. Logins'
  BY <1>1 DEF Logins
<1>g. Replies'
  BY <1>1 DEF Replies
<1>h. Deletions'
  BY <1>1, Fields DEF Deletions, Spent, HasRole, Registration, Account
<1>i. UserNamesDiffer'
  BY <1>1 DEF UserNamesDiffer
<1>10. QED
  BY <1>a, <1>b, <1>c, <1>d, <1>e, <1>f, <1>g, <1>h, <1>i

\* A restart ends what was running and touches neither store.
LEMMA RestartStep ==
    ASSUME IInv, Restart
    PROVE  IInv'
<1> USE DEF IInv
<1>1. /\ UNCHANGED <<users, sessions, removed, req, who, expired>>
      /\ \A i \in Calls : Opened(i)' = Opened(i)
  BY DEF Restart, stores, Opened
<1>2. \A d \in Calls :
         \/ pc'[d] = pc[d] /\ result'[d] = result[d] /\ ~InFlight(d)
         \/ pc[d] \in Waiting /\ pc'[d] = "done" /\ result'[d] = "lost"
  BY DEF Restart, InFlight
<1>a. TypeOK'
  BY <1>1 DEF TypeOK, Restart, Results
<1>b. Untouched'
  BY <1>1, <1>2 DEF Untouched, Waiting
<1>c. Handlers'
  <2>1. ASSUME NEW d \in Calls PROVE pc'[d] \in {"idle", "done"}
    BY <1>2 DEF TypeOK, InFlight
  <2>2. QED
    BY <2>1 DEF Handlers, AtStep
<1>d. Table'
  BY <1>1, <1>2 DEF Table, Registration
<1>e. Known'
  BY <1>1, Sentinels DEF Known, TypeOK, HasRole, Registration, Account
<1>f. Logins'
  BY <1>1 DEF Logins
<1>g. Replies'
  BY <1>1, <1>2 DEF Replies
<1>h. Deletions'
  BY <1>1, <1>2, Fields, RunningDeletion DEF InFlight, Deletions, Spent, HasRole, Registration, Account
<1>i. UserNamesDiffer'
  BY <1>1 DEF UserNamesDiffer
<1>10. QED
  BY <1>a, <1>b, <1>c, <1>d, <1>e, <1>f, <1>g, <1>h, <1>i

\* A token that expires, and no step at all, concern nothing in the invariant.
LEMMA ExpiryAndStutter ==
    ASSUME IInv, UNCHANGED <<users, sessions, removed, pc, req, who, result>>, TypeOK'
    PROVE  IInv'
<1> USE DEF IInv
<1>1. \A i \in Calls : Opened(i)' = Opened(i)
  BY DEF Opened
<1>2. \A d \in Calls : Rely(d)
  BY <1>1 DEF Rely
<1>3. Handlers'
  BY <1>2, RelyKeepsStep DEF Handlers
<1>4. Table' /\ Untouched' /\ Logins' /\ Replies' /\ UserNamesDiffer'
  BY <1>1 DEF Table, Registration, Untouched, Logins, Replies, UserNamesDiffer
<1>5. Known' /\ Deletions'
  BY <1>1, Sentinels, Fields DEF Known, Deletions, Spent, TypeOK, HasRole, Registration, Account
<1>6. QED
  BY <1>3, <1>4, <1>5

-----------------------------------------------------------------------------
(* The theorems.                                                            *)

\* A call of ExtJWTData becomes a success only in its own validation step.
LEMMA OkOnlyByValidation ==
    ASSUME IInv, [Next]_vars, NEW c \in Calls, req[c] \in ExtReqs,
           result'[c] = "ok", result[c] # "ok"
    PROVE  ExtValidate(c)
<1> USE DEF IInv
<1>1. pc[c] # "idle"
  BY Kinds DEF Untouched
<1>2. ASSUME NEW d \in Calls, d # c, Receive(d) \/ Continue(d) PROVE FALSE
  <2>1. CASE Receive(d)
    BY <1>2, <2>1 DEF Receive, RegSession, LogReceive, ExtParse, DelSession, Goto, Reply, TypeOK
  <2>2. CASE Continue(d)
    BY <1>2, <2>2 DEF Continue, RegInsert, LogLookup, LogSession, ExtValidate,
                      DelBegin, DelCheck, DelExec, Abandon, Goto, Reply, TypeOK
  <2>3. QED
    BY <1>2, <2>1, <2>2
<1>3. ~Receive(c)
  BY <1>1 DEF Receive, RegSession, LogReceive, ExtParse, DelSession, Arrive
<1>4. Continue(c) => ExtValidate(c)
  BY Kinds DEF Continue, RegInsert, LogLookup, LogSession, DelBegin, DelCheck, DelExec,
               Handlers, AtStep, AtRegInsert, Registration
<1>5. ~Environment
  BY DEF Environment, TokenExpires, SessionExpires, Restart, InFlight
<1>6. result' # result
  OBVIOUS
<1>7. QED
  BY <1>2, <1>3, <1>4, <1>5, <1>6 DEF Next, vars

\* Initially no call was received and both stores are empty.
LEMMA InitEstablishes == Init => IInv
<1> SUFFICES ASSUME Init PROVE IInv
  OBVIOUS
<1>1. TypeOK
  BY DEF Init, TypeOK
<1>2. \A c \in Calls : ~Opened(c) /\ pc[c] = "idle" /\ req[c] = NoReq
                      /\ who[c] = NoOne /\ result[c] = "none" /\ sessions[c] = NoSession
  BY DEF Init, Opened
<1>3. Handlers /\ Untouched
  BY <1>2 DEF Handlers, AtStep, Untouched
<1>4. Table /\ UserNamesDiffer
  BY <1>2 DEF Table, UserNamesDiffer, Opened
<1>5. Known /\ Logins /\ Replies /\ Deletions
  BY <1>2, Kinds DEF Known, Logins, Replies, Deletions
<1>6. QED
  BY <1>1, <1>3, <1>4, <1>5 DEF IInv

\* Every step of every call, of time and of the process keeps the invariant.
LEMMA NextKeeps == IInv /\ [Next]_vars => IInv'
<1> SUFFICES ASSUME IInv, [Next]_vars PROVE IInv'
  OBVIOUS
<1>1. ASSUME NEW c \in Calls, Receive(c) PROVE IInv'
  BY <1>1, RegSessionStep, LogReceiveStep, ExtParseStep, DelSessionStep DEF Receive
<1>2. ASSUME NEW c \in Calls, Continue(c) PROVE IInv'
  BY <1>2, RegInsertStep, LogLookupStep, LogSessionStep, ExtValidateStep,
     DelBeginStep, DelCheckStep, DelExecStep DEF Continue
<1>3. ASSUME NEW t \in Calls, TokenExpires(t) PROVE IInv'
  <2>1. TypeOK' /\ UNCHANGED <<users, sessions, removed, pc, req, who, result>>
    BY <1>3 DEF IInv, TypeOK, TokenExpires, stores
  <2>2. QED
    BY <2>1, ExpiryAndStutter
<1>4. CASE UNCHANGED vars
  <2>1. TypeOK' /\ UNCHANGED <<users, sessions, removed, pc, req, who, result>>
    BY <1>4 DEF IInv, TypeOK, vars
  <2>2. QED
    BY <2>1, ExpiryAndStutter
<1>5. QED
  BY <1>1, <1>2, <1>3, <1>4, SessionExpiresStep, RestartStep DEF Next, Environment

\* What every handler relies on at every step, and what the stores and replies
\* record, holds in every reachable state, however the calls interleave.
THEOREM Invariance == Spec => []IInv
<1>1. QED
  BY InitEstablishes, NextKeeps, PTL DEF Spec

\* The types of the state.
THEOREM TypeCorrect == Spec => []TypeOK
<1>1. IInv => TypeOK
  BY DEF IInv
<1>2. QED
  BY <1>1, Invariance, PTL

\* A row has the role its registration asked for.
LEMMA RowRole ==
    ASSUME IInv, NEW i \in Calls, users[i] # NoUser
    PROVE  users[i].role = Account(i)
<1>1. users[i] = [user_name |-> UserName[req[i].profile],
                  role |-> req[i].role, pswd |-> req[i].pswd]
  BY DEF IInv, Table
<1>2. QED
  BY <1>1 DEF Account

\* An id has the role it registered with in the table, under every session
\* key, in every token and in every request for a deletion.
THEOREM OneRole == Spec => []OneRolePerAccount
<1>1. IInv => OneRolePerAccount
  <2> SUFFICES ASSUME IInv PROVE OneRolePerAccount
    OBVIOUS
  <2>1. \A i \in Calls : users[i] # NoUser => users[i].role = Account(i)
    BY RowRole
  <2>2. \A c \in Calls : who[c] # NoOne => who[c].role = Account(who[c].id)
    BY DEF IInv, Known, HasRole
  <2>3. \A s \in Calls : sessions[s] # NoSession => sessions[s].role = Account(sessions[s].id)
    BY <2>2, Sentinels DEF IInv, Known, TypeOK
  <2>4. \A c \in Calls : req[c] \in DelReqs => req[c].role = Account(req[c].user)
    BY DEF IInv, Deletions, HasRole
  <2>5. QED
    BY <2>1, <2>2, <2>3, <2>4 DEF OneRolePerAccount
<1>2. QED
  BY <1>1, Invariance, PTL

\* No reply vouches for an account that was never created, although the
\* session of a registration is stored before its row.
THEOREM RegisteredFirst == Spec => []HandedOutMeansRegistered
<1>1. IInv => HandedOutMeansRegistered
  BY Kinds DEF IInv, HandedOutMeansRegistered, TokenIssued, KeyIssued, Replies, Known, Opened
<1>2. QED
  BY <1>1, Invariance, PTL

\* A key is handed out only to who knows the user_name and the password.
THEOREM GenuineLogins == Spec => []LoginIsGenuine
<1>1. IInv => LoginIsGenuine
  BY Kinds DEF IInv, LoginIsGenuine, KeyIssued, Replies, Known, Logins
<1>2. QED
  BY <1>1, Invariance, PTL

\* No two rows share a user_name: what the UNIQUE constraint promises, which
\* every insert relies on, however registrations race.
THEOREM NamesDiffer == Spec => []UserNamesDiffer
<1>1. IInv => UserNamesDiffer
  BY DEF IInv
<1>2. QED
  BY <1>1, Invariance, PTL

\* A deletion that was acknowledged is final.
THEOREM DeletionIsFinal == Spec => []DeletionAcknowledged
<1>1. IInv => DeletionAcknowledged
  BY Fields DEF IInv, DeletionAcknowledged, Replies, Table
<1>2. QED
  BY <1>1, Invariance, PTL

\* A token is confirmed only with a key made for the same identity.
THEOREM KeysMatchTokens == Spec => []KeyMatchesToken
<1>1. IInv => KeyMatchesToken
  BY DEF IInv, KeyMatchesToken, Replies
<1>2. QED
  BY <1>1, Invariance, PTL

\* The key of a deletion that passed its first step confirms nobody any more.
THEOREM SpentKeys == Spec => SpentKeyConfirmsNobody
<1> DEFINE Denied ==
    \A c, d \in Calls :
        Spent(d) /\ req[c] \in ExtReqs /\ req[c].sk = req[d].sk /\ result'[c] = "ok"
            => result[c] = "ok"
<1>1. ASSUME IInv, [Next]_vars PROVE Denied
  <2>1. SUFFICES ASSUME NEW c \in Calls, NEW d \in Calls, Spent(d), req[c] \in ExtReqs,
                        req[c].sk = req[d].sk, result'[c] = "ok", result[c] # "ok"
                 PROVE  FALSE
    OBVIOUS
  <2>2. sessions[req[c].sk] = NoSession
    BY <1>1, <2>1 DEF IInv, Deletions, Spent
  <2>3. ExtValidate(c)
    BY <1>1, <2>1, OkOnlyByValidation
  <2>4. who[c] \in Identities /\ sessions[req[c].sk] = who[c]
    BY <1>1, <2>1, <2>3 DEF IInv, TypeOK, ExtValidate, Validate, Reply, Handlers, AtStep
  <2>5. QED
    BY <2>2, <2>4, Sentinels
<1>2. IInv /\ [Next]_vars => [Denied]_vars
  BY <1>1
<1>3. QED
  BY <1>2, Invariance, PTL DEF Spec, SpentKeyConfirmsNobody

\* The step behind RemovalAuthorised: a row goes by an authorised deletion.
Allowed ==
    \A i \in Calls : users[i] # NoUser /\ users'[i] # users[i] =>
        \E c \in Calls : Authorised(c, i)

LEMMA RemovalStep == IInv /\ [Next]_vars => Allowed
<1>1. ASSUME IInv, NEW c \in Calls, DelExec(c) PROVE Allowed
  <2>1. SUFFICES ASSUME NEW i \in Calls, users[i] # NoUser, users'[i] # users[i]
                 PROVE  Authorised(c, i)
    BY DEF Allowed
  <2>2. pc[c] = "delExec" /\ AtDelExec(c) /\ req[c] \in DelReqs /\ req[c].role = Account(req[c].user)
    BY <1>1 DEF IInv, DelExec, Handlers, AtStep, Deletions, HasRole
  <2>3. req[c].target = i
    BY <1>1, <2>1 DEF IInv, TypeOK, DelExec, RemoveRow
  <2>4. QED
    BY <2>1, <2>2, <2>3 DEF Authorised, AtDelExec, Removable
<1>2. ASSUME IInv, NEW c \in Calls, RegInsert(c) PROVE Allowed
  <2>1. users[c] = NoUser
    BY <1>2 DEF IInv, RegInsert, Handlers, AtStep, AtRegInsert, Opened
  <2>2. QED
    BY <1>2, <2>1 DEF IInv, TypeOK, RegInsert, InsertRow, Allowed
<1>3. ASSUME NEW c \in Calls, Receive(c) PROVE UNCHANGED users
  BY <1>3 DEF Receive, RegSession, LogReceive, ExtParse, DelSession, stores
<1>4. ASSUME NEW c \in Calls, Continue(c), ~DelExec(c), ~RegInsert(c) PROVE UNCHANGED users
  BY <1>4 DEF Continue, LogLookup, LogSession, ExtValidate, DelBegin, DelCheck, stores
<1>5. ASSUME Environment PROVE UNCHANGED users
  BY <1>5 DEF Environment, TokenExpires, SessionExpires, Restart, stores
<1>6. QED
  BY <1>1, <1>2, <1>3, <1>4, <1>5 DEF Next, vars, Allowed


\* A row disappears only for its owner, or for an admin when it is no admin's,
\* although role check and DELETE are separate statements.
THEOREM AuthorisedRemovals == Spec => RemovalAuthorised
<1>1. IInv /\ [Next]_vars => [Allowed]_vars
  BY RemovalStep
<1>2. QED
  BY <1>1, Invariance, PTL DEF Spec, RemovalAuthorised, Allowed

-----------------------------------------------------------------------------
(* The connection pool.  Nothing is assumed about the number of calls: the  *)
(* set of connections in use is finite because it grows one by one.         *)

Overdraft == IsFiniteSet(Held) /\ Cardinality(Held) <= MaxOpenConns

\* What ended with an open transaction, and how.
Abandoned ==
    \A c \in leaked :
        /\ c \in Calls /\ pc[c] = "done" /\ req[c] \in DelReqs
        /\ result[c] \in {"refused", "error"}
        /\ result[c] = "refused" => req[c].user # req[c].target

\* At the check the requester is not the target.
OfOthers == \A c \in Calls : pc[c] = "delCheck" => req[c].user # req[c].target

PoolInv == Overdraft /\ Abandoned /\ OfOthers

InTransaction == {"delCheck", "delExec"}

LEMMA HeldShrinks ==
    ASSUME Overdraft, Held' \subseteq Held
    PROVE  Overdraft'
<1>1. IsFiniteSet(Held') /\ Cardinality(Held') <= Cardinality(Held)
  BY FS_Subset DEF Overdraft
<1>2. Cardinality(Held) \in Nat /\ Cardinality(Held') \in Nat
  BY <1>1, FS_CardinalityType DEF Overdraft
<1>3. QED
  BY <1>1, <1>2, ConnsAssumption DEF Overdraft

\* A call that takes a free connection leaves no more in use than there are.
LEMMA HeldGrows ==
    ASSUME Overdraft, ConnFree, NEW c, Held' \subseteq Held \cup {c}
    PROVE  Overdraft'
<1>1. /\ IsFiniteSet(Held \cup {c})
      /\ Cardinality(Held \cup {c}) \in {Cardinality(Held), Cardinality(Held) + 1}
  BY FS_AddElement DEF Overdraft
<1>2. IsFiniteSet(Held') /\ Cardinality(Held') <= Cardinality(Held \cup {c})
  BY <1>1, FS_Subset
<1>3. Cardinality(Held) \in Nat /\ Cardinality(Held') \in Nat
  BY <1>2, FS_CardinalityType DEF Overdraft
<1>4. QED
  BY <1>1, <1>2, <1>3, ConnsAssumption DEF Overdraft, ConnFree

\* Steps outside a transaction: the connections in use stay as they are.
LEMMA OutsideTransaction ==
    ASSUME IInv, PoolInv, NEW c \in Calls, pc[c] # "done", UNCHANGED leaked,
           pc[c] \notin InTransaction, pc'[c] \notin InTransaction,
           \A d \in Calls \ {c} :
               pc'[d] = pc[d] /\ req'[d] = req[d] /\ result'[d] = result[d]
    PROVE  PoolInv'
<1>1. Held' \subseteq Held
  BY DEF Held, InTransaction
<1>2. \A d \in leaked : d # c
  BY DEF PoolInv, Abandoned
<1>3. Abandoned' /\ OfOthers'
  BY <1>2 DEF PoolInv, Abandoned, OfOthers, InTransaction
<1>4. QED
  BY <1>1, <1>3, HeldShrinks DEF PoolInv

\* The steps of DelUser from Beginx on.
LEMMA TransactionStep ==
    ASSUME IInv, PoolInv, NEW c \in Calls, DelBegin(c) \/ DelCheck(c) \/ DelExec(c)
    PROVE  PoolInv'
<1> USE DEF IInv, TypeOK
<1>1. req[c] \in DelReqs /\ pc[c] \in {"delBegin", "delCheck", "delExec"} /\ UNCHANGED req
  BY DEF DelBegin, DelCheck, DelExec, Handlers, AtStep
<1>2. \A d \in Calls \ {c} : pc'[d] = pc[d] /\ result'[d] = result[d]
  BY DEF DelBegin, DelCheck, DelExec, Abandon, Goto, Reply
<1>3. \/ leaked' = leaked /\ pc'[c] # "delCheck"
      \/ leaked' = leaked /\ req[c].user # req[c].target
      \/ /\ leaked' = leaked \cup {c} /\ pc'[c] = "done" /\ result'[c] \in {"refused", "error"}
         /\ result'[c] = "refused" => req[c].user # req[c].target
  BY DEF DelBegin, DelCheck, DelExec, Abandon, Goto, Reply, PoolInv, OfOthers
<1>4. c \notin leaked
  BY <1>1 DEF PoolInv, Abandoned
<1>5. Abandoned' /\ OfOthers'
  BY <1>1, <1>2, <1>3, <1>4 DEF PoolInv, Abandoned, OfOthers
<1>6. Held' \subseteq Held \cup {c}
  BY <1>2, <1>3 DEF Held
<1>7. CASE DelBegin(c)
  BY <1>5, <1>6, <1>7, HeldGrows DEF DelBegin, Connected, Pooled, PoolInv
<1>8. CASE DelCheck(c) \/ DelExec(c)
  <2>1. c \in Held
    BY <1>8 DEF DelCheck, DelExec, Held
  <2>2. QED
    BY <1>5, <1>6, <2>1, HeldShrinks DEF PoolInv
<1>9. QED
  BY <1>7, <1>8

LEMMA PoolStep == IInv /\ PoolInv /\ [Next]_vars => PoolInv'
<1> SUFFICES ASSUME IInv, PoolInv, [Next]_vars PROVE PoolInv'
  OBVIOUS
<1>1. ASSUME NEW c \in Calls, Receive(c) PROVE PoolInv'
  <2>1. /\ pc[c] = "idle" /\ pc'[c] \notin InTransaction /\ UNCHANGED leaked
        /\ \A d \in Calls \ {c} :
              pc'[d] = pc[d] /\ req'[d] = req[d] /\ result'[d] = result[d]
    BY <1>1 DEF Receive, RegSession, LogReceive, ExtParse, DelSession, Arrive, Goto, Reply,
                IInv, TypeOK, InTransaction
  <2>2. QED
    BY <2>1, OutsideTransaction DEF InTransaction
<1>2. ASSUME NEW c \in Calls, RegInsert(c) \/ LogLookup(c) \/ LogSession(c) \/ ExtValidate(c)
      PROVE  PoolInv'
  <2>1. /\ pc[c] \in Waiting \ InTransaction /\ pc'[c] \notin InTransaction
        /\ UNCHANGED <<leaked, req>>
        /\ \A d \in Calls \ {c} : pc'[d] = pc[d] /\ result'[d] = result[d]
    BY <1>2 DEF RegInsert, LogLookup, LogSession, ExtValidate, Goto, Reply, IInv, TypeOK,
                Waiting, InTransaction
  <2>2. QED
    BY <2>1, OutsideTransaction DEF Waiting
<1>3. ASSUME UNCHANGED <<pc, req, result, leaked>> PROVE PoolInv'
  <2>1. Held' = Held /\ Abandoned' /\ OfOthers'
    BY <1>3 DEF Held, PoolInv, Abandoned, OfOthers
  <2>2. QED
    BY <2>1, HeldShrinks DEF PoolInv
<1>4. CASE Restart
  <2>1. leaked' = {} /\ \A c \in Calls : pc'[c] \in {"idle", "done"}
    BY <1>4 DEF Restart, InFlight, IInv, TypeOK
  <2>2. Held' = {} /\ Abandoned' /\ OfOthers'
    BY <2>1 DEF Held, Abandoned, OfOthers
  <2>3. QED
    BY <2>2, HeldShrinks DEF PoolInv
<1>5. QED
  BY <1>1, <1>2, <1>3, <1>4, TransactionStep
     DEF Next, Continue, Environment, TokenExpires, SessionExpires, vars

\* The pool is never overdrawn; only its abandoned connections can stop everybody, and
\* those are of deletions that failed or were refused.
THEOREM PoolShared == Spec => []PoolIsShared
<1>1. Init => PoolInv
  <2> SUFFICES ASSUME Init PROVE PoolInv
    OBVIOUS
  <2>1. Held = {} /\ leaked = {} /\ \A c \in Calls : pc[c] = "idle"
    BY DEF Init, Held
  <2>2. QED
    BY <2>1, FS_EmptySet, ConnsAssumption DEF PoolInv, Overdraft, Abandoned, OfOthers
<1>2. PoolInv => PoolIsShared
  <2> SUFFICES ASSUME PoolInv, NEW c \in Calls, InFlight(c), \A d \in Calls : ~Ready(d)
               PROVE  Cardinality(leaked) = MaxOpenConns
    BY DEF PoolInv, Overdraft, Abandoned, PoolIsShared
  <2>1. ~ConnFree /\ \A d \in Calls : pc[d] \notin InTransaction
    BY DEF Ready, InFlight, Connected, Pooled, Waiting, InTransaction
  <2>2. Held = leaked
    BY <2>1 DEF Held, InTransaction
  <2>3. Cardinality(Held) \in Nat
    BY FS_CardinalityType DEF PoolInv, Overdraft
  <2>4. QED
    BY <2>1, <2>2, <2>3, ConnsAssumption DEF ConnFree, PoolInv, Overdraft
<1>3. QED
  BY <1>1, <1>2, PoolStep, Invariance, PTL DEF Spec

-----------------------------------------------------------------------------
(* The handlers implement the ledger of accounts.                           *)

\* What a step for call c adds to the identities vouched for.
LEMMA GrantedByStep ==
    ASSUME TypeOK, NEW c \in Calls, result[c] = "none",
           \A d \in Calls \ {c} :
               result'[d] = result[d] /\ req'[d] = req[d] /\ who'[d] = who[d]
    PROVE  /\ result'[c] # "ok" \/ req'[c] \in DelReqs => Granted' = Granted
           /\ result'[c] = "ok" /\ req'[c] \in RegReqs \cup LogReqs \cup ExtReqs
                 => Granted' = Granted \cup {who'[c]}
<1>1. c \notin TokenIssued /\ TokenIssued \subseteq Calls
  BY DEF TokenIssued, KeyIssued
<1>2. result'[c] # "ok" \/ req'[c] \in DelReqs => TokenIssued' = TokenIssued
  BY <1>1, Kinds DEF TokenIssued, KeyIssued
<1>3. result'[c] = "ok" /\ req'[c] \in RegReqs \cup LogReqs \cup ExtReqs
         => TokenIssued' = TokenIssued \cup {c}
  BY <1>1 DEF TokenIssued, KeyIssued
<1>4. \A d \in TokenIssued : who'[d] = who[d]
  BY <1>1
<1>5. QED
  BY <1>1, <1>2, <1>3, <1>4 DEF Granted

\* Every identity vouched for has the role its account was registered with.
LEMMA GrantedHaveRoles ==
    ASSUME IInv
    PROVE  \A g \in Granted : g.role = Account(g.id)
  BY DEF IInv, Granted, TokenIssued, KeyIssued, Replies, Known, HasRole

\* A reply that vouches for a known identity is a grant of the ledger.
LEMMA GrantOfLedger ==
    ASSUME IInv, NEW d \in Identities, HasRole(d), Opened(d.id),
           Granted' = Granted \cup {d}, UNCHANGED <<users, removed>>
    PROVE  Ledger!Next
<1>1. d = [id |-> d.id, role |-> d.role] /\ d.id \in Calls /\ d.role \in Roles
  BY DEF Identities
<1>2. d.role = Account(d.id)
  BY DEF HasRole
<1>3. users[d.id] # NoUser => users[d.id].role = d.role
  BY <1>1, <1>2, RowRole
<1>4. Ledger!Grant(d.id, d.role)
  BY <1>1, <1>2, <1>3, GrantedHaveRoles DEF Ledger!Grant, Ledger!IsOpen, Opened
<1>5. d.role \in {e.role : e \in Rows}
  <2>1. Registration(d.id)
    BY DEF HasRole
  <2>2. PICK row \in Rows : row.role = req[d.id].role
    BY <1>1, <2>1, InsertedRow DEF IInv
  <2>3. QED
    BY <1>2, <2>2 DEF Account
<1>6. QED
  BY <1>1, <1>4, <1>5 DEF Ledger!Next

\* A committed insert opens an account; its reply grants it or is lost.
LEMMA RegInsertOfLedger ==
    ASSUME IInv, NEW c \in Calls, RegInsert(c)
    PROVE  Ledger!Next \/ UNCHANGED Ledger!ledger
<1> DEFINE row == [user_name |-> UserName[req[c].profile],
                   role |-> req[c].role, pswd |-> req[c].pswd]
<1>1. /\ result[c] = "none" /\ Registration(c) /\ users[c] = NoUser /\ c \notin removed
      /\ who[c] = [id |-> c, role |-> req[c].role]
  BY DEF IInv, RegInsert, Handlers, AtStep, AtRegInsert, Untouched, Opened
<1>2. UNCHANGED <<req, who, removed>> /\ \A d \in Calls \ {c} : result'[d] = result[d]
  BY DEF IInv, TypeOK, RegInsert, Reply
<1>3. \/ users' = users /\ result'[c] # "ok"
      \/ users' = [users EXCEPT ![c] = row] /\ ~Taken(row.user_name)
  BY DEF IInv, TypeOK, RegInsert, InsertRow, Reply
<1>4. row \in Rows /\ row.role = req[c].role
  BY <1>1, InsertedRow DEF IInv
<1>5. Granted' \in {Granted, Granted \cup {[id |-> c, role |-> row.role]}}
      /\ (result'[c] # "ok" => Granted' = Granted)
  BY <1>1, <1>2, <1>4, GrantedByStep DEF IInv, Registration
<1>6. CASE users' = users /\ result'[c] # "ok"
  BY <1>2, <1>5, <1>6 DEF Ledger!ledger
<1>7. CASE users' = [users EXCEPT ![c] = row] /\ ~Taken(row.user_name)
  <2>1. Ledger!Open(c, row)
    BY <1>1, <1>2, <1>5, <1>7 DEF Ledger!Open, Ledger!IsOpen, Taken
  <2>2. QED
    BY <1>4, <2>1 DEF Ledger!Next
<1>8. QED
  BY <1>3, <1>6, <1>7

\* A committed DELETE closes the account, unless it was closed before.
LEMMA DelExecOfLedger ==
    ASSUME IInv, NEW c \in Calls, DelExec(c)
    PROVE  Ledger!Next \/ UNCHANGED Ledger!ledger
<1> DEFINE t == req[c].target
<1>1. result[c] = "none" /\ req[c] \in DelReqs /\ t \in Calls
  BY Fields DEF IInv, DelExec, Handlers, AtStep, Untouched
<1>2. UNCHANGED <<req, who>> /\ \A d \in Calls \ {c} : result'[d] = result[d]
  BY DEF IInv, TypeOK, DelExec, RemoveRow, Abandon, Reply
<1>3. Granted' = Granted
  BY <1>1, <1>2, GrantedByStep DEF IInv
<1>4. \/ users' = users /\ removed' = removed
      \/ /\ users[t] # NoUser
         /\ users' = [users EXCEPT ![t] = NoUser] /\ removed' = removed \cup {t}
  BY <1>1 DEF IInv, TypeOK, DelExec, RemoveRow
<1>5. CASE users' = users /\ removed' = removed
  BY <1>3, <1>5 DEF Ledger!ledger
<1>6. CASE /\ users[t] # NoUser
           /\ users' = [users EXCEPT ![t] = NoUser] /\ removed' = removed \cup {t}
  <2>1. Ledger!Close(t)
    BY <1>3, <1>6 DEF Ledger!Close, Ledger!IsOpen
  <2>2. QED
    BY <1>1, <2>1 DEF Ledger!Next
<1>7. QED
  BY <1>4, <1>5, <1>6

\* A validated token or a login grants an account that was opened.
LEMMA AnswersOfLedger ==
    ASSUME IInv, NEW c \in Calls, LogSession(c) \/ ExtValidate(c)
    PROVE  Ledger!Next \/ UNCHANGED Ledger!ledger
<1>1. /\ result[c] = "none" /\ req[c] \in LogReqs \cup ExtReqs
      /\ who[c] \in Identities /\ HasRole(who[c]) /\ Opened(who[c].id)
  BY Kinds DEF IInv, LogSession, ExtValidate, Handlers, AtStep, Untouched, Known, TypeOK
<1>2. /\ UNCHANGED <<users, removed, req, who>>
      /\ \A d \in Calls \ {c} : result'[d] = result[d]
  BY DEF IInv, TypeOK, LogSession, ExtValidate, Reply, stores
<1>3. Granted' = Granted \/ Granted' = Granted \cup {who[c]}
  BY <1>1, <1>2, GrantedByStep DEF IInv
<1>4. CASE Granted' = Granted
  BY <1>2, <1>4 DEF Ledger!ledger
<1>5. CASE Granted' = Granted \cup {who[c]}
  BY <1>1, <1>2, <1>5, GrantOfLedger
<1>6. QED
  BY <1>3, <1>4, <1>5

\* No other step of a call says anything to the ledger.
LEMMA SilentSteps ==
    ASSUME IInv, NEW c \in Calls,
           \/ Receive(c) \/ LogLookup(c) \/ DelBegin(c) \/ DelCheck(c)
    PROVE  UNCHANGED Ledger!ledger
<1>1. UNCHANGED <<users, removed>>
  BY DEF Receive, RegSession, LogReceive, ExtParse, DelSession,
         LogLookup, DelBegin, DelCheck, stores
<1>2. result[c] = "none"
  BY DEF IInv, Untouched, Receive, RegSession, LogReceive, ExtParse, DelSession, Arrive,
         LogLookup, DelBegin, DelCheck
<1>3. \A d \in Calls \ {c} :
          result'[d] = result[d] /\ req'[d] = req[d] /\ who'[d] = who[d]
  <2>1. CASE Receive(c)
    BY <2>1 DEF IInv, TypeOK, Receive, RegSession, LogReceive, ExtParse, DelSession,
                Arrive, Goto, Reply
  <2>2. CASE LogLookup(c) \/ DelBegin(c) \/ DelCheck(c)
    BY <2>2 DEF IInv, TypeOK, LogLookup, DelBegin, DelCheck, Abandon, Goto, Reply
  <2>3. QED
    BY <2>1, <2>2
<1>4. result'[c] # "ok"
  <2>1. CASE Receive(c)
    BY <1>2, <2>1 DEF IInv, TypeOK, Receive, RegSession, LogReceive, ExtParse, DelSession,
                      Goto, Reply
  <2>2. CASE LogLookup(c) \/ DelBegin(c) \/ DelCheck(c)
    BY <1>2, <2>2 DEF IInv, TypeOK, LogLookup, DelBegin, DelCheck, Abandon, Goto, Reply
  <2>3. QED
    BY <2>1, <2>2
<1>5. Granted' = Granted
  BY <1>2, <1>3, <1>4, GrantedByStep DEF IInv
<1>6. QED
  BY <1>1, <1>5 DEF Ledger!ledger

\* Neither do time and crashes: what was vouched for is not taken back.
LEMMA EnvironmentIsSilent ==
    ASSUME IInv, Environment
    PROVE  UNCHANGED Ledger!ledger
<1>1. UNCHANGED <<users, removed, req, who>>
  BY DEF Environment, TokenExpires, SessionExpires, Restart, stores
<1>2. \A c \in Calls : result'[c] = "ok" <=> result[c] = "ok"
  BY DEF IInv, Untouched, Environment, TokenExpires, SessionExpires, Restart, InFlight, Waiting
<1>3. TokenIssued' = TokenIssued
  BY <1>1, <1>2 DEF TokenIssued, KeyIssued
<1>4. QED
  BY <1>1, <1>3 DEF Granted, Ledger!ledger

\* Every step of the service is one entry of the ledger or none.
THEOREM Refinement == Spec => ImplementsLedger
<1>1. Init => Ledger!Init
  BY DEF Init, Ledger!Init, Granted, TokenIssued, KeyIssued
<1>2. IInv /\ [Next]_vars => [Ledger!Next]_(Ledger!ledger)
  <2> SUFFICES ASSUME IInv, [Next]_vars
               PROVE  Ledger!Next \/ UNCHANGED Ledger!ledger
    OBVIOUS
  <2>1. ASSUME NEW c \in Calls, Receive(c) \/ Continue(c)
        PROVE  Ledger!Next \/ UNCHANGED Ledger!ledger
    BY <2>1, SilentSteps, RegInsertOfLedger, DelExecOfLedger, AnswersOfLedger DEF Continue
  <2>2. CASE UNCHANGED vars
    BY <2>2 DEF vars, Ledger!ledger, Granted, TokenIssued, KeyIssued
  <2>3. QED
    BY <2>1, <2>2, EnvironmentIsSilent DEF Next
<1>3. QED
  BY <1>1, <1>2, Invariance, PTL DEF Spec, ImplementsLedger, Ledger!Spec
=============================================================================
