--------------------------- MODULE AccountLedger ---------------------------
(***************************************************************************)
(* What the user-service promises, whatever its handlers and stores do in  *)
(* between: an account is opened once and closed at most once, no two open *)
(* accounts have the same user_name, and credentials are granted only for  *)
(* accounts that were opened, always with one and the same role.           *)
(***************************************************************************)
CONSTANTS
    Ids,        \* the ids of accounts
    Details,    \* what an account is opened with: records with a user_name and a role
    NoAccount

VARIABLES
    account,    \* id -> the details of an open account, or NoAccount
    closed,     \* the ids of closed accounts
    granted     \* the identities [id, role] that replies vouched for

ledger == <<account, closed, granted>>

IsOpen(i) == account[i] # NoAccount

Init ==
    /\ account = [i \in Ids |-> NoAccount]
    /\ closed = {}
    /\ granted = {}

\* The reply may be lost: credentials need not come with the account.
Open(i, d) ==
    /\ ~IsOpen(i) /\ i \notin closed
    /\ \A j \in Ids : IsOpen(j) => account[j].user_name # d.user_name
    /\ account' = [account EXCEPT ![i] = d]
    /\ granted' \in {granted, granted \cup {[id |-> i, role |-> d.role]}}
    /\ UNCHANGED closed

\* A login or a validated token may still answer for an account just closed,
\* but never with another role than the account has or was granted before.
Grant(i, r) ==
    /\ IsOpen(i) \/ i \in closed
    /\ IsOpen(i) => account[i].role = r
    /\ \A g \in granted : g.id = i => g.role = r
    /\ granted' = granted \cup {[id |-> i, role |-> r]}
    /\ UNCHANGED <<account, closed>>

Close(i) ==
    /\ IsOpen(i)
    /\ account' = [account EXCEPT ![i] = NoAccount]
    /\ closed' = closed \cup {i}
    /\ UNCHANGED granted

Next ==
    \E i \in Ids :
        \/ \E d \in Details : Open(i, d)
        \/ \E r \in {d.role : d \in Details} : Grant(i, r)
        \/ Close(i)

Spec == Init /\ [][Next]_ledger
=============================================================================
