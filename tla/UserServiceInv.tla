--------------------------- MODULE UserServiceInv ---------------------------
(***************************************************************************)
(* The inductive invariant of UserService: what each handler may rely on   *)
(* at each of its steps, and what each store and each reply records.       *)
(***************************************************************************)
EXTENDS UserService

Opened(i) == users[i] # NoUser \/ i \in removed

\* Call i is a registration that passed validation.
Registration(i) == req[i] \in RegReqs /\ req[i].role \in Roles

HasRole(identity) == Registration(identity.id) /\ identity.role = Account(identity.id)

\* Nothing carries the name of a call that was not received yet.
Untouched ==
    \A c \in Calls :
        /\ pc[c] = "done" <=> result[c] # "none"
        /\ pc[c] = "idle" => req[c] = NoReq /\ who[c] = NoOne /\ sessions[c] = NoSession

AtRegInsert(c) ==
    /\ Registration(c)
    /\ who[c] = [id |-> c, role |-> req[c].role]
    /\ ~Opened(c)

AtDelExec(c) ==
    \/ req[c].user = req[c].target
    \/ req[c].role = "admin" /\ (users[req[c].target] # NoUser => Removable(req[c].target))

AtStep(c) ==
    /\ pc[c] = "regInsert" => AtRegInsert(c)
    /\ pc[c] = "logLookup" => req[c] \in LogReqs /\ who[c] = NoOne
    /\ pc[c] = "logSession" => req[c] \in LogReqs /\ who[c] # NoOne
    /\ pc[c] = "extValidate" => req[c] \in ExtReqs /\ who[c] # NoOne
    /\ pc[c] \in {"delBegin", "delCheck", "delExec"} => req[c] \in DelReqs
    /\ pc[c] = "delCheck" => req[c].role = "admin"
    /\ pc[c] = "delExec" => AtDelExec(c)

Handlers == \A c \in Calls : AtStep(c)

\* A row is what its registration asked for; a deleted id was a registration.
Table ==
    \A i \in Calls :
        /\ Opened(i) => Registration(i) /\ pc[i] = "done" /\ who[i] # NoOne
        /\ users[i] # NoUser =>
              /\ i \notin removed
              /\ users[i] = [user_name |-> UserName[req[i].profile],
                             role |-> req[i].role, pswd |-> req[i].pswd]

\* Every identity in use has the role of its registration, and all but those
\* of registrations themselves were read from an account that was opened.
Known ==
    \A c \in Calls :
        /\ who[c] # NoOne => HasRole(who[c])
        /\ who[c] # NoOne /\ req[c] \in RegReqs => who[c].id = c
        /\ who[c] # NoOne /\ req[c] \notin RegReqs => Opened(who[c].id)
        /\ sessions[c] # NoSession => sessions[c] = who[c]

\* Who logs in knows the user_name and the password of the account.
Logins ==
    \A c \in Calls : req[c] \in LogReqs /\ who[c] # NoOne =>
        /\ UserName[req[who[c].id].profile] = UserName[req[c].profile]
        /\ req[who[c].id].pswd = req[c].pswd

\* What a successful reply stands for.
Replies ==
    \A c \in Calls : result[c] = "ok" =>
        /\ req[c] \in RegReqs => who[c] # NoOne /\ Opened(c)
        /\ req[c] \in LogReqs \cup ExtReqs => who[c] # NoOne
        /\ req[c] \in ExtReqs => who[req[c].sk] = who[c]
        /\ req[c] \in DelReqs => req[c].target \in removed

\* A deletion names a requester, a target and a key from earlier replies; the
\* key is gone once the deletion is under way.
Deletions ==
    \A c \in Calls : req[c] \in DelReqs =>
        /\ HasRole([id |-> req[c].user, role |-> req[c].role])
        /\ Opened(req[c].target)
        /\ pc[req[c].sk] = "done"
        /\ Spent(c) => sessions[req[c].sk] = NoSession

IInv ==
    /\ TypeOK
    /\ Untouched
    /\ Handlers
    /\ Table
    /\ Known
    /\ Logins
    /\ Replies
    /\ Deletions
    /\ UserNamesDiffer
=============================================================================
