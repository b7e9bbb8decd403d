---------------------------- MODULE UserService ----------------------------
(***************************************************************************)
(* The user-service of 3l1: the four gRPC handlers of                      *)
(* src/user-service/main.go over the Postgres table "users" and the Redis  *)
(* database of session keys.  grpc-go runs every call in a goroutine of    *)
(* its own, so a handler is a sequence of steps, one per access to a       *)
(* store, and the steps of different calls interleave freely.  A step may  *)
(* fail, and a write whose reply is lost may have been applied.            *)
(*                                                                         *)
(* uuid.New() and the JWT library produce values no other call produces:   *)
(* the user id, the session key and the token a call creates are all named *)
(* by the call itself.                                                     *)
(***************************************************************************)
EXTENDS Naturals, FiniteSets

CONSTANTS
    Calls,          \* the gRPC calls the service ever receives
    Profiles,       \* the pairs (name, email) that clients send
    UserName,       \* profile -> the column user_name, i.e. name+email
    Pswds,          \* passwords
    RequestRoles,   \* the roles that clients ask for, valid or not
    MaxOpenConns,   \* the size of the Postgres pool (20 in the code)
    NoUser, NoSession, NoOne, NoReq

\* The roles protoc-gen-validate accepts in RegReq and DelUserReq; a LogReq has none.
Roles == {"admin", "dev", "guest"}

Names == {UserName[p] : p \in Profiles}
Rows == [user_name : Names, role : Roles, pswd : Pswds]
Identities == [id : Calls, role : Roles]

RegReqs == [op : {"reg"}, profile : Profiles, role : RequestRoles, pswd : Pswds]
LogReqs == [op : {"log"}, profile : Profiles, pswd : Pswds]
ExtReqs == [op : {"ext"}, token : Calls, sk : Calls]
DelReqs == [op : {"del"}, user : Calls, role : Roles, target : Calls, sk : Calls]
Requests == RegReqs \cup LogReqs \cup ExtReqs \cup DelReqs

ASSUME UserNameAssumption == UserName \in [Profiles -> Names]
ASSUME ConnsAssumption == MaxOpenConns \in Nat \ {0}
ASSUME SentinelAssumption ==
    /\ NoUser \notin Rows
    /\ NoSession \notin Identities
    /\ NoOne \notin Identities
    /\ NoReq \notin Requests

VARIABLES
    users,      \* table users: id -> row or NoUser
    sessions,   \* Redis: session key -> identity or NoSession
    pc,         \* where the handler of a call stands
    req,        \* the request of a call
    who,        \* the identity a handler works for, and its token carries
    result,     \* how a call ended; "none" while it runs
    expired,    \* the tokens whose 15 minutes are over
    leaked,     \* the DelUser calls whose transaction nobody will close
    removed     \* history: the ids whose row was deleted

stores == <<users, sessions, removed>>
vars == <<users, sessions, pc, req, who, result, expired, leaked, removed>>

Waiting == {"regInsert", "logLookup", "logSession", "extValidate",
            "delBegin", "delCheck", "delExec"}
Results == {"ok", "refused", "exists", "expired", "error", "lost"}

TypeOK ==
    /\ users \in [Calls -> Rows \cup {NoUser}]
    /\ sessions \in [Calls -> Identities \cup {NoSession}]
    /\ pc \in [Calls -> {"idle", "done"} \cup Waiting]
    /\ req \in [Calls -> Requests \cup {NoReq}]
    /\ who \in [Calls -> Identities \cup {NoOne}]
    /\ result \in [Calls -> Results \cup {"none"}]
    /\ expired \subseteq Calls
    /\ leaked \subseteq Calls
    /\ removed \subseteq Calls

Init ==
    /\ users = [i \in Calls |-> NoUser]
    /\ sessions = [s \in Calls |-> NoSession]
    /\ pc = [c \in Calls |-> "idle"]
    /\ req = [c \in Calls |-> NoReq]
    /\ who = [c \in Calls |-> NoOne]
    /\ result = [c \in Calls |-> "none"]
    /\ expired = {}
    /\ leaked = {}
    /\ removed = {}

-----------------------------------------------------------------------------
(* Steps of a handler.                                                      *)

InFlight(c) == pc[c] \in Waiting
\* Mutant: a committed deletion keeps its connection.
HeldAfterCommit ==
    leaked \cup {c \in Calls : pc[c] \in {"delCheck", "delExec"}}
           \cup {c \in Calls : req[c] \in DelReqs /\ result[c] = "ok"}
Held == leaked \cup {c \in Calls : pc[c] \in {"delCheck", "delExec"}}

\* A connection that nobody holds; database/sql makes the caller wait for one.
ConnFree == Cardinality(Held) < MaxOpenConns

\* Mutant: getUserRole asks the pool, not the transaction it runs in.
PooledRoleQuery == {"regInsert", "logLookup", "delBegin", "delCheck"}

\* The steps that ask the pool for a connection; those of a transaction have one.
Pooled == {"regInsert", "logLookup", "delBegin"}
Connected(c) == pc[c] \in Pooled => ConnFree

Goto(c, label) ==
    /\ pc' = [pc EXCEPT ![c] = label]
    /\ UNCHANGED result

Reply(c, r) ==
    /\ pc' = [pc EXCEPT ![c] = "done"]
    /\ result' = [result EXCEPT ![c] = r]

Arrive(c, r) ==
    /\ pc[c] = "idle"
    /\ req' = [req EXCEPT ![c] = r]

\* RedisRepo.NewSession: HSET and EXPIRE in one MULTI/EXEC under a fresh key.
NewSession(c, identity) == sessions' = [sessions EXCEPT ![c] = identity]

\* RedisRepo.Validate: the hash under the key names this id and this role.
Validate(identity, sk) == sessions[sk] = identity

\* Mutant: user_name is not UNIQUE.
TakenNever(n) == FALSE

\* The UNIQUE constraint of users.user_name.
Taken(n) == \E i \in Calls : users[i] # NoUser /\ users[i].user_name = n

-----------------------------------------------------------------------------
(* RegUser *)

\* Mutant: no validation of the role.
RegSessionUnvalidated(c, r) ==
    /\ Arrive(c, r)
    /\ NewSession(c, [id |-> c, role |-> r.role])
    /\ who' = [who EXCEPT ![c] = [id |-> c, role |-> r.role]]
    /\ Goto(c, "regInsert")
    /\ UNCHANGED <<users, expired, leaked, removed>>

\* Validation, the new id, hash and token, then NewSession; the row comes later.
RegSession(c, r) ==
    /\ Arrive(c, r)
    /\ UNCHANGED <<users, expired, leaked, removed>>
    /\ LET identity == [id |-> c, role |-> r.role] IN
       \/ /\ r.role \notin Roles
          /\ Reply(c, "refused")
          /\ UNCHANGED <<sessions, who>>
       \/ /\ r.role \in Roles
          /\ who' = [who EXCEPT ![c] = identity]
          /\ \/ NewSession(c, identity) /\ Goto(c, "regInsert")
             \/ NewSession(c, identity) /\ Reply(c, "error")
             \/ UNCHANGED sessions /\ Reply(c, "error")

InsertRow(c) ==
    users' = [users EXCEPT ![c] = [user_name |-> UserName[req[c].profile],
                                   role |-> req[c].role, pswd |-> req[c].pswd]]

\* Mutant: the error of AddUser is swallowed.
RegInsertSwallowed(c) ==
    /\ pc[c] = "regInsert"
    /\ Connected(c)
    /\ \/ ~Taken(UserName[req[c].profile]) /\ InsertRow(c)
       \/ UNCHANGED users
    /\ Reply(c, "ok")
    /\ UNCHANGED <<sessions, req, who, expired, leaked, removed>>

\* Repo.AddUser, with 23505 (unique_violation) told apart from other errors.
RegInsert(c) ==
    /\ pc[c] = "regInsert"
    /\ Connected(c)
    /\ \/ /\ Taken(UserName[req[c].profile])
          /\ Reply(c, "exists")
          /\ UNCHANGED users
       \/ /\ ~Taken(UserName[req[c].profile])
          /\ InsertRow(c)
          /\ \E r \in {"ok", "error"} : Reply(c, r)
       \/ UNCHANGED users /\ Reply(c, "error")
    /\ UNCHANGED <<sessions, req, who, expired, leaked, removed>>

-----------------------------------------------------------------------------
(* LogUser *)

\* Validation looks at the format of the fields only.
LogReceive(c, r) ==
    /\ Arrive(c, r)
    /\ Goto(c, "logLookup")
    /\ UNCHANGED <<stores, who, expired, leaked>>

\* Mutant: CheckPswd is not called.
GenuineUnchecked(i, r) == users[i] # NoUser /\ users[i].user_name = UserName[r.profile]

\* Repo.LogUser selects the row by user_name, CheckPswd compares the hash.
Genuine(i, r) ==
    /\ users[i] # NoUser
    /\ users[i].user_name = UserName[r.profile]
    /\ users[i].pswd = r.pswd

\* Mutant: the role of the row is not scanned, everybody logs in as a guest.
LogLookupAsGuest(c) ==
    /\ pc[c] = "logLookup"
    /\ \E i \in Calls :
          /\ Genuine(i, req[c])
          /\ who' = [who EXCEPT ![c] = [id |-> i, role |-> "guest"]]
          /\ Goto(c, "logSession")
    /\ UNCHANGED <<stores, req, expired, leaked>>

LogLookup(c) ==
    /\ pc[c] = "logLookup"
    /\ Connected(c)
    /\ \/ \E i \in Calls :
            /\ Genuine(i, req[c])
            /\ who' = [who EXCEPT ![c] = [id |-> i, role |-> users[i].role]]
            /\ Goto(c, "logSession")
       \/ /\ ~\E i \in Calls : Genuine(i, req[c])
          /\ Reply(c, "refused") /\ UNCHANGED who
       \/ Reply(c, "error") /\ UNCHANGED who
    /\ UNCHANGED <<stores, req, expired, leaked>>

\* The session and the token for the identity that was read before.
LogSession(c) ==
    /\ pc[c] = "logSession"
    /\ \/ NewSession(c, who[c]) /\ (\E r \in {"ok", "error"} : Reply(c, r))
       \/ UNCHANGED sessions /\ Reply(c, "error")
    /\ UNCHANGED <<users, req, who, expired, leaked, removed>>

-----------------------------------------------------------------------------
(* ExtJWTData *)

\* crypto.ExtJWT: a token past its exp is an error whatever the session says.
ExtParse(c, r) ==
    /\ Arrive(c, r)
    /\ \/ /\ r.token \in expired
          /\ Reply(c, "expired") /\ UNCHANGED who
       \/ /\ r.token \notin expired
          /\ who' = [who EXCEPT ![c] = who[r.token]]
          /\ Goto(c, "extValidate")
    /\ UNCHANGED <<users, sessions, expired, leaked, removed>>

\* HGETALL and the comparison; on success a new token for the same identity.
ExtValidate(c) ==
    /\ pc[c] = "extValidate"
    /\ \/ Validate(who[c], req[c].sk) /\ Reply(c, "ok")
       \/ ~Validate(who[c], req[c].sk) /\ Reply(c, "refused")
       \/ Reply(c, "error")
    /\ UNCHANGED <<stores, req, who, expired, leaked>>

-----------------------------------------------------------------------------
(* DelUser *)

\* Mutant: a failing DEL of the key does not stop the deletion.
DelSessionUnchecked(c, r) ==
    /\ Arrive(c, r)
    /\ sessions' \in {sessions, [sessions EXCEPT ![r.sk] = NoSession]}
    /\ Goto(c, "delBegin")
    /\ UNCHANGED <<users, who, expired, leaked, removed>>

\* The session goes first, whatever becomes of the deletion.
DelSession(c, r) ==
    /\ Arrive(c, r)
    /\ \/ sessions' = [sessions EXCEPT ![r.sk] = NoSession]
          /\ (Goto(c, "delBegin") \/ Reply(c, "error"))
       \/ UNCHANGED sessions /\ Reply(c, "error")
    /\ UNCHANGED <<users, who, expired, leaked, removed>>

\* An early return of Repo.DelUser: no Rollback is deferred, the transaction
\* stays open and its connection never returns to the pool.
Abandon(c, r) ==
    /\ Reply(c, r)
    /\ leaked' = leaked \cup {c}

\* Beginx, and the part of the authorisation that needs no query.
DelBegin(c) ==
    /\ pc[c] = "delBegin"
    /\ Connected(c)
    /\ \/ Reply(c, "error") /\ UNCHANGED leaked
       \/ /\ req[c].user = req[c].target
          /\ Goto(c, "delExec") /\ UNCHANGED leaked
       \/ /\ req[c].user # req[c].target
          /\ IF req[c].role # "admin"
             THEN Abandon(c, "refused")
             ELSE Goto(c, "delCheck") /\ UNCHANGED leaked
    /\ UNCHANGED <<stores, req, who, expired>>

\* Mutant: an admin may remove whoever exists.
RemovableAnyone(i) == users[i] # NoUser

\* What an admin may remove: a user that exists and is no admin.
Removable(i) == users[i] # NoUser /\ users[i].role # "admin"

\* getUserRole inside the transaction.
DelCheck(c) ==
    /\ pc[c] = "delCheck"
    /\ Connected(c)
    /\ \/ /\ Removable(req[c].target)
          /\ Goto(c, "delExec") /\ UNCHANGED leaked
       \/ /\ ~Removable(req[c].target)
          /\ Abandon(c, "refused")
       \/ Abandon(c, "error")
    /\ UNCHANGED <<stores, req, who, expired>>

\* DELETE is a success with no row to delete as well.
RemoveRow(i) ==
    /\ users' = [users EXCEPT ![i] = NoUser]
    /\ removed' = IF users[i] # NoUser THEN removed \cup {i} ELSE removed

\* Mutant: the error of Commit is swallowed.
DelExecUncommitted(c) ==
    /\ pc[c] = "delExec"
    /\ RemoveRow(req[c].target) \/ UNCHANGED <<users, removed>>
    /\ Reply(c, "ok")
    /\ UNCHANGED <<sessions, req, who, expired, leaked>>

\* DELETE and COMMIT: a failed DELETE abandons the transaction, a failed
\* COMMIT closes it and may have been applied.
DelExec(c) ==
    /\ pc[c] = "delExec"
    /\ Connected(c)
    /\ \/ /\ RemoveRow(req[c].target)
          /\ \E r \in {"ok", "error"} : Reply(c, r)
          /\ UNCHANGED leaked
       \/ /\ Reply(c, "error")
          /\ UNCHANGED <<users, removed, leaked>>
       \/ Abandon(c, "error") /\ UNCHANGED <<users, removed>>
    /\ UNCHANGED <<sessions, req, who, expired>>

-----------------------------------------------------------------------------
(* Time and crashes *)

\* The calls whose reply carried a token, and those whose reply carried a key.
KeyIssued == {c \in Calls : result[c] = "ok" /\ req[c] \in RegReqs \cup LogReqs}
TokenIssued == KeyIssued \cup {c \in Calls : result[c] = "ok" /\ req[c] \in ExtReqs}

TokenExpires(t) ==
    /\ t \in TokenIssued \ expired
    /\ expired' = expired \cup {t}
    /\ UNCHANGED <<stores, pc, req, who, result, leaked>>

SessionExpires(s) ==
    /\ sessions[s] # NoSession
    /\ sessions' = [sessions EXCEPT ![s] = NoSession]
    /\ UNCHANGED <<users, pc, req, who, result, expired, leaked, removed>>

\* The process ends (s.Stop() does not wait for handlers either) and comes
\* back: running calls are never answered, Postgres drops the connections.
Restart ==
    /\ leaked # {} \/ \E c \in Calls : InFlight(c)
    /\ pc' = [c \in Calls |-> IF InFlight(c) THEN "done" ELSE pc[c]]
    /\ result' = [c \in Calls |-> IF InFlight(c) THEN "lost" ELSE result[c]]
    /\ leaked' = {}
    /\ UNCHANGED <<stores, req, who, expired>>

-----------------------------------------------------------------------------
(* What clients send: the gateway passes on the tokens and keys of earlier  *)
(* replies, and as the requester of a deletion the identity JWTAuth         *)
(* established for the session.                                             *)

Credentials == {[op |-> "ext", token |-> t, sk |-> s] : t \in TokenIssued, s \in KeyIssued}
Removals ==
    {[op |-> "del", user |-> who[s].id, role |-> who[s].role,
      target |-> who[t].id, sk |-> s] : s \in KeyIssued, t \in KeyIssued}

Receive(c) ==
    \/ \E r \in RegReqs : RegSession(c, r)
    \/ \E r \in LogReqs : LogReceive(c, r)
    \/ \E r \in Credentials : ExtParse(c, r)
    \/ \E r \in Removals : DelSession(c, r)

Continue(c) ==
    \/ RegInsert(c) \/ LogLookup(c) \/ LogSession(c) \/ ExtValidate(c)
    \/ DelBegin(c) \/ DelCheck(c) \/ DelExec(c)

Environment ==
    \/ \E t \in Calls : TokenExpires(t)
    \/ \E s \in Calls : SessionExpires(s)
    \/ Restart

Next == (\E c \in Calls : Receive(c) \/ Continue(c)) \/ Environment

Spec == Init /\ [][Next]_vars

\* A goroutine that can run is run: every handler keeps taking steps.
FairSpec == Spec /\ \A c \in Calls : WF_vars(Continue(c))

-----------------------------------------------------------------------------
(* Safety                                                                   *)

Account(i) == req[i].role       \* the role a registration asked for

\* An id has one role, the one it registered with, wherever the service keeps
\* or carries it: in the table, under a session key, in a token, in a running
\* handler, in the request of a deletion.  (The role travels from the table to
\* LogUser's session and token and back through ExtJWTData; nothing ever
\* looks it up again.)
OneRolePerAccount ==
    /\ \A i \in Calls : users[i] # NoUser => users[i].role = Account(i)
    /\ \A s \in Calls : sessions[s] # NoSession => sessions[s].role = Account(sessions[s].id)
    /\ \A c \in Calls : who[c] # NoOne => who[c].role = Account(who[c].id)
    /\ \A c \in Calls : req[c] \in DelReqs => req[c].role = Account(req[c].user)

\* The key RegUser stores before the row exists (main.go:100-105) is handed to
\* a client only once the row was committed, so every identity the service
\* vouches for belongs to an account that exists or was deleted.
HandedOutMeansRegistered ==
    \A c \in TokenIssued : users[who[c].id] # NoUser \/ who[c].id \in removed

\* A successful LogUser speaks for an account registered under the same
\* user_name with the same password, although the row may be deleted before
\* the session is made (main.go:127-136).
LoginIsGenuine ==
    \A c \in KeyIssued :
        LET i == who[c].id IN
        /\ UserName[req[i].profile] = UserName[req[c].profile]
        /\ req[i].pswd = req[c].pswd

\* Two rows never share a user_name.
UserNamesDiffer ==
    \A i, j \in Calls :
        users[i] # NoUser /\ users[j] # NoUser /\ users[i].user_name = users[j].user_name
            => i = j

\* DelUser answers success only when the account is gone, and it stays gone:
\* no insert still running brings the id back.
DeletionAcknowledged ==
    \A c \in Calls : req[c] \in DelReqs /\ result[c] = "ok" =>
        users[req[c].target] = NoUser /\ req[c].target \in removed

\* A token is confirmed only together with a key that was made for the same
\* identity, although who presents the pair is checked by Redis alone and the
\* key may be gone by the time of the reply (main.go:161-164).
KeyMatchesToken ==
    \A c \in Calls : req[c] \in ExtReqs /\ result[c] = "ok" => who[req[c].sk] = who[c]

\* The key that authorises a deletion is spent by it: once DelSession has been
\* applied no ExtJWTData call with that key is confirmed any more, not even one
\* that parsed its token before, and no session made meanwhile restores it.
Spent(d) ==
    /\ req[d] \in DelReqs
    /\ \/ pc[d] \in {"delBegin", "delCheck", "delExec"}
       \/ result[d] \in {"ok", "refused", "lost"}

SpentKeyConfirmsNobody ==
    [][\A c, d \in Calls :
          Spent(d) /\ req[c] \in ExtReqs /\ req[c].sk = req[d].sk /\ result'[c] = "ok"
              => result[c] = "ok"]_vars

\* The pool is never overdrawn, and while one connection is not abandoned the
\* handlers can not all wait for each other.  Only deletions abandon connections:
\* an owner's when Postgres fails, a refused one when it was of another account.
Ready(c) == InFlight(c) /\ Connected(c)

PoolIsShared ==
    /\ Cardinality(Held) <= MaxOpenConns
    /\ (\E c \in Calls : InFlight(c)) =>
          (\E c \in Calls : Ready(c)) \/ Cardinality(leaked) = MaxOpenConns
    /\ \A c \in leaked :
          /\ req[c] \in DelReqs /\ result[c] \in {"refused", "error"}
          /\ result[c] = "refused" => req[c].user # req[c].target

\* A row disappears only through a deletion its owner asked for, or an account
\* registered as admin against one that was not -- although the check
\* (postgres.go:142) and the DELETE (postgres.go:156) are separate statements
\* and the requester's own row is never looked up.
Authorised(c, i) ==
    /\ pc[c] = "delExec" /\ req[c].target = i
    /\ \/ req[c].user = i
       \/ Account(req[c].user) = "admin" /\ users[i].role # "admin"

RemovalAuthorised ==
    [][\A i \in Calls : users[i] # NoUser /\ users'[i] # users[i] =>
          \E c \in Calls : Authorised(c, i)]_vars

-----------------------------------------------------------------------------
(* Refinement                                                               *)

Granted == {who[c] : c \in TokenIssued}

Ledger == INSTANCE AccountLedger WITH
    Ids <- Calls, Details <- Rows, NoAccount <- NoUser,
    account <- users, closed <- removed, granted <- Granted

\* The handlers, interleaved, failing and cut off, implement the ledger of
\* accounts: every step is one entry of the ledger or changes nothing in it.
ImplementsLedger == Ledger!Spec

-----------------------------------------------------------------------------
(* Liveness                                                                 *)

\* A call is answered (or cut off by a restart) unless abandoned transactions
\* have used up the pool; connections in use always come back.
AnsweredUnlessLeaked ==
    \A c \in Calls :
        InFlight(c) ~> ~InFlight(c) \/ Cardinality(leaked) >= MaxOpenConns

-----------------------------------------------------------------------------
(* What the documentation says and the code does not do                     *)

\* README.md:48-49: "If JWT is expired, session key (cookie) is validated via
\* gRPC / Session and JWT are reissued transparently": an expired token is
\* refused only when its session is gone or is somebody else's.
ExpiredTokenRefreshed ==
    \A c \in Calls : result[c] = "expired" => sessions[req[c].sk] # who[req[c].token]

\* README.md:108 claims failure isolation: whatever fails in one call, another
\* one is still answered.
EveryCallAnswered == \A c \in Calls : InFlight(c) ~> ~InFlight(c)
=============================================================================
