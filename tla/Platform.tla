------------------------------ MODULE Platform ------------------------------
(***************************************************************************)
(* The api-gateway in front of the user-service: HTTP requests of clients, *)
(* the attempts of service.rpc, and the user-service of module UserService *)
(* that receives them.  An attempt the gateway has given up may still be   *)
(* on its way, wait for a connection, or be carried out; its reply is      *)
(* ignored.  The module takes nothing of what UserService assumes of its   *)
(* clients: which requests arrive follows from what the gateway does.      *)
(* (Orders do not appear: no order request gets past the gateway's         *)
(* handlers, see Gateway!AuthorisedOrderIsServed.)                         *)
(***************************************************************************)
EXTENDS UserService

CONSTANTS
    Https,      \* the HTTP requests
    Caller,     \* call -> the HTTP request it is an attempt for
    MaxRetries, \* attempts of an RPC (3 in the code)
    NoForm, NoCall

\* What clients send: token, sk and shown name the reply they come from.
ShowForms == [op : {"show"}, token : Calls, sk : Calls, shown : Calls]
DelForms == [op : {"remove"}, token : Calls, sk : Calls, target : Calls \cup {"me"}]
Forms == RegReqs \cup LogReqs \cup ShowForms \cup DelForms

ASSUME CallerAssumption == Caller \in [Calls -> Https] /\ MaxRetries \in Nat \ {0}
ASSUME GatewaySentinels == NoCall \notin Calls /\ NoForm \notin Forms /\ "me" \notin Calls

VARIABLES
    form,       \* what a client sent
    phase,      \* "auth" in JWTAuth, "call" in the handler
    current,    \* the attempt the gateway waits for, and in the end the last one
    tries,      \* lost attempts of the RPC
    vouched,    \* the ck.UserInfo in the context
    status,     \* how the gateway answered
    sent        \* the request of an attempt that was sent and not lost on its way

gateway == <<form, phase, current, tries, vouched, status, sent>>
platform == <<vars, gateway>>

PlatformTypeOK ==
    /\ form \in [Https -> Forms \cup {NoForm}]
    /\ phase \in [Https -> {"idle", "auth", "call", "done"}]
    /\ current \in [Https -> Calls \cup {NoCall}]
    /\ tries \in [Https -> 0 .. MaxRetries - 1]
    /\ vouched \in [Https -> Identities \cup {NoOne}]
    /\ status \in [Https -> {"none", "unavailable"} \cup Results]
    /\ sent \in [Calls -> Requests \cup {NoReq}]

PlatformInit ==
    /\ Init
    /\ form = [h \in Https |-> NoForm]
    /\ phase = [h \in Https |-> "idle"]
    /\ current = [h \in Https |-> NoCall]
    /\ tries = [h \in Https |-> 0]
    /\ vouched = [h \in Https |-> NoOne]
    /\ status = [h \in Https |-> "none"]
    /\ sent = [c \in Calls |-> NoReq]

-----------------------------------------------------------------------------
(* Clients: they have the tokens and keys of the answers to reg and log.  The *)
(* token ExtJWTData makes is not passed on (users/handler.go:267-270).        *)

Delivered ==
    {current[h] : h \in {g \in Https : status[g] = "ok" /\ form[g].op \in {"reg", "log"}}}

Shows == {[op |-> "show", token |-> t, sk |-> s, shown |-> u] : t, s, u \in Delivered}
Removes ==
    {[op |-> "remove", token |-> t, sk |-> s, target |-> i] :
        t \in Delivered, s \in Delivered, i \in {who[d].id : d \in Delivered} \cup {"me"}}

Submit(h, f) ==
    /\ phase[h] = "idle"
    /\ form' = [form EXCEPT ![h] = f]
    /\ phase' = [phase EXCEPT ![h] = IF f.op \in {"reg", "log"} THEN "call" ELSE "auth"]
    /\ UNCHANGED <<vars, current, tries, vouched, status, sent>>

-----------------------------------------------------------------------------
(* The gateway *)

\* Mutant: the role of the UserInfo is not used.
HandlerRequestAsAdmin(f, info) ==
    CASE f.op = "show"   -> [op |-> "ext", token |-> f.shown, sk |-> f.sk]
      [] f.op = "remove" -> [op |-> "del", user |-> info.id, role |-> "admin",
                             target |-> IF f.target = "me" THEN info.id ELSE f.target,
                             sk |-> f.sk]
      [] OTHER           -> f

\* The request the handler makes of the form and the UserInfo in the context.
HandlerRequest(f, info) ==
    CASE f.op = "show"   -> [op |-> "ext", token |-> f.shown, sk |-> f.sk]
      [] f.op = "remove" -> [op |-> "del", user |-> info.id, role |-> info.role,
                             target |-> IF f.target = "me" THEN info.id ELSE f.target,
                             sk |-> f.sk]
      [] OTHER           -> f

Outgoing(h) ==
    IF phase[h] = "auth"
    THEN [op |-> "ext", token |-> form[h].token, sk |-> form[h].sk]
    ELSE HandlerRequest(form[h], vouched[h])

Running(h) == phase[h] \in {"auth", "call"}

\* One turn of the loop of rpc: the client stub sends the request.
Attempt(h, c) ==
    /\ Running(h) /\ current[h] = NoCall
    /\ Caller[c] = h /\ sent[c] = NoReq
    /\ current' = [current EXCEPT ![h] = c]
    /\ sent' = [sent EXCEPT ![c] = Outgoing(h)]
    /\ UNCHANGED <<vars, form, phase, tries, vouched, status>>

Finish(h, s) ==
    /\ phase' = [phase EXCEPT ![h] = "done"]
    /\ status' = [status EXCEPT ![h] = s]

\* The breaker lets no attempt pass.
Refuse(h) ==
    /\ Running(h) /\ current[h] = NoCall /\ tries[h] = 0
    /\ Finish(h, "unavailable")
    /\ UNCHANGED <<vars, form, current, tries, vouched, sent>>

Replied(h) == Running(h) /\ current[h] # NoCall /\ pc[current[h]] = "done"

\* JWTAuth keeps what ExtJWTData says of the token.
Vouch(h) == vouched' = [vouched EXCEPT ![h] = who[current[h]]]

\* The reply of JWTAuth's RPC lets the handler run, the one of the handler ends it.
Succeed(h) ==
    /\ Replied(h) /\ result[current[h]] = "ok"
    /\ \/ /\ phase[h] = "auth"
          /\ Vouch(h)
          /\ phase' = [phase EXCEPT ![h] = "call"]
          /\ current' = [current EXCEPT ![h] = NoCall]
          /\ tries' = [tries EXCEPT ![h] = 0]
          /\ UNCHANGED status
       \/ /\ phase[h] = "call"
          /\ Finish(h, "ok")
          /\ UNCHANGED <<current, tries, vouched>>
    /\ UNCHANGED <<vars, form, sent>>

\* Mutant: delUser does not look at the error of its RPC.
FailUnchecked(h) ==
    /\ Replied(h) /\ result[current[h]] \in Results \ {"ok", "lost"}
    /\ Finish(h, IF phase[h] = "call" /\ form[h] \in DelForms THEN "ok" ELSE result[current[h]])
    /\ UNCHANGED <<vars, form, current, tries, vouched, sent>>

\* Mutant: without an answer JWTAuth believes the token.
FailOpen(h) ==
    /\ Replied(h) /\ result[current[h]] \in Results \ {"ok", "lost"}
    /\ IF phase[h] = "auth"
       THEN /\ vouched' = [vouched EXCEPT ![h] = who[form[h].token]]
            /\ phase' = [phase EXCEPT ![h] = "call"]
            /\ current' = [current EXCEPT ![h] = NoCall]
            /\ UNCHANGED status
       ELSE Finish(h, result[current[h]]) /\ UNCHANGED <<vouched, current>>
    /\ UNCHANGED <<vars, form, tries, sent>>

\* The handlers' errors are no grpc statuses: they arrive as Unknown, and
\* shouldRetry says no.
Fail(h) ==
    /\ Replied(h) /\ result[current[h]] \in Results \ {"ok", "lost"}
    /\ Finish(h, result[current[h]])
    /\ UNCHANGED <<vars, form, current, tries, vouched, sent>>

\* Mutant: the gateway goes on waiting for the reply that is lost.
LoseDeaf(h) == FALSE /\ UNCHANGED platform

\* The connection breaks, or the client leaves, before the reply: Unavailable or
\* Canceled, and rpc tries again.  What becomes of the attempt is not known.
Lose(h) ==
    /\ Running(h) /\ current[h] # NoCall
    /\ \/ /\ tries[h] + 1 < MaxRetries
          /\ tries' = [tries EXCEPT ![h] = @ + 1]
          /\ current' = [current EXCEPT ![h] = NoCall]
          /\ UNCHANGED <<phase, status>>
       \/ /\ tries[h] + 1 = MaxRetries
          /\ Finish(h, "unavailable")
          /\ UNCHANGED <<tries, current>>
    /\ UNCHANGED <<vars, form, vouched, sent>>

-----------------------------------------------------------------------------
(* The server stubs and the service *)

\* The handler that the method descriptor names starts with the decoded request.
Dispatch(c, r) ==
    \/ r \in RegReqs /\ RegSession(c, r)
    \/ r \in LogReqs /\ LogReceive(c, r)
    \/ r \in ExtReqs /\ ExtParse(c, r)
    \/ r \in DelReqs /\ DelSession(c, r)

Deliver(c) ==
    /\ sent[c] # NoReq
    /\ Dispatch(c, sent[c])
    /\ UNCHANGED gateway

\* Requests on their way to the process that ends are lost with it.
RestartService ==
    /\ Restart
    /\ sent' = [c \in Calls |-> IF pc[c] = "idle" THEN NoReq ELSE sent[c]]
    /\ UNCHANGED <<form, phase, current, tries, vouched, status>>

Gateway(h) ==
    \/ \E f \in RegReqs \cup LogReqs \cup Shows \cup Removes : Submit(h, f)
    \/ \E c \in Calls : Attempt(h, c)
    \/ Refuse(h) \/ Succeed(h) \/ Fail(h) \/ Lose(h)

PlatformNext ==
    \/ \E h \in Https : Gateway(h)
    \/ \E c \in Calls : Deliver(c) \/ (Continue(c) /\ UNCHANGED gateway)
    \/ \E t \in Calls : (TokenExpires(t) \/ SessionExpires(t)) /\ UNCHANGED gateway
    \/ RestartService

PlatformSpec == PlatformInit /\ [][PlatformNext]_platform

\* Requests arrive, handlers run, the gateway's loop goes on, replies are taken,
\* and a connection whose other end is gone breaks.
LostForSure(h) ==
    current[h] # NoCall /\ (sent[current[h]] = NoReq \/ result[current[h]] = "lost")

PlatformFairSpec ==
    /\ PlatformSpec
    /\ \A c \in Calls : WF_platform(Deliver(c)) /\ WF_platform(Continue(c) /\ UNCHANGED gateway)
    /\ \A h \in Https :
          /\ WF_platform(\E c \in Calls : Attempt(h, c))
          /\ WF_platform(Succeed(h) \/ Fail(h) \/ (LostForSure(h) /\ Lose(h)))

-----------------------------------------------------------------------------
(* Properties                                                               *)

\* Every request that reaches the service is one UserService assumes: tokens and
\* keys of replies clients did get, and as the requester of a deletion the owner
\* of the session key it comes with, with the owner's role -- although the gateway
\* looks at the identity before the call (JWTAuth) and repeats calls on its own.
ImplementsService == Spec

\* However often rpc repeats it, a registration opens one account at a time; the
\* one whose token and key the client holds was opened; "exists" means that
\* somebody else has had the name, or an attempt of the request itself whose reply was
\* lost (service.go:78-90).
RegistrationIsOnce ==
    \A h \in Https : form[h] \in RegReqs =>
        LET own == {c \in Calls : Caller[c] = h} IN
        /\ \A c, d \in own : users[c] # NoUser /\ users[d] # NoUser => c = d
        /\ status[h] = "ok" => users[current[h]] # NoUser \/ current[h] \in removed
        /\ status[h] = "exists" =>
              \E d \in Calls \ {current[h]} :
                  /\ users[d] # NoUser \/ d \in removed
                  /\ UserName[req[d].profile] = UserName[form[h].profile]
                  /\ d \in own => tries[h] > 0

\* A client is told 200 for a deletion only when the account is gone for good,
\* also when the attempt that was answered found nothing left to delete.
DeletionReported ==
    \A h \in Https : form[h] \in DelForms /\ status[h] = "ok" =>
        LET i == req[current[h]].target IN
        /\ users[i] = NoUser /\ i \in removed
        /\ i = IF form[h].target = "me" THEN who[form[h].sk].id ELSE form[h].target

\* A row disappears only on behalf of an HTTP request for which the service itself
\* confirmed token and key together, and for the identity it confirmed -- whichever
\* attempt does it, and however late.
Confirmed(h, info) ==
    \E a \in Calls :
        /\ Caller[a] = h /\ req[a] \in ExtReqs /\ result[a] = "ok"
        /\ req[a].token = form[h].token /\ req[a].sk = form[h].sk
        /\ who[a] = info

RemovalAuthenticated ==
    [][\A i \in Calls : users[i] # NoUser /\ users'[i] # users[i] =>
          \E c \in Calls :
              /\ Authorised(c, i)
              /\ form[Caller[c]] \in DelForms /\ form[Caller[c]].target \in {i, "me"}
              /\ Confirmed(Caller[c], [id |-> req[c].user, role |-> req[c].role])]_platform

\* Nobody gets the answer of somebody else, whatever attempts of other requests are
\* under way: a registration is answered for the account it opened with the role it
\* asked for, a login for an account of that user_name and password, and a client is
\* shown the account that JWTAuth let in -- the owner of the token shown, of the token
\* and of the session key it came with, all three.
AnswersAreOwn ==
    \A h \in Https : status[h] = "ok" =>
        LET answer == who[current[h]] IN
        /\ form[h] \in RegReqs => answer = [id |-> current[h], role |-> form[h].role]
        /\ form[h] \in LogReqs =>
              /\ users[answer.id] # NoUser \/ answer.id \in removed
              /\ UserName[req[answer.id].profile] = UserName[form[h].profile]
              /\ req[answer.id].pswd = form[h].pswd
        /\ form[h] \in ShowForms =>
              /\ answer = vouched[h]
              /\ \A c \in {form[h].token, form[h].sk, form[h].shown} : who[c] = answer

\* The inductive invariant: what a request knows by the time it is where it is.
Sendable == RegReqs \cup LogReqs \cup Credentials \cup Removals

FormKnown(h) ==
    form[h] # NoForm =>
        \/ form[h] \in RegReqs \cup LogReqs
        \/ form[h] \in ShowForms /\ {form[h].token, form[h].sk, form[h].shown} \subseteq KeyIssued
        \/ /\ form[h] \in DelForms /\ {form[h].token, form[h].sk} \subseteq KeyIssued
           /\ form[h].target \in {who[t].id : t \in KeyIssued} \cup {"me"}

Pipeline(h) ==
    /\ phase[h] = "idle" <=> form[h] = NoForm
    /\ phase[h] = "idle" => current[h] = NoCall
    /\ phase[h] # "done" => status[h] = "none"
    /\ phase[h] = "auth" => form[h] \in ShowForms \cup DelForms
    /\ phase[h] = "call" /\ form[h] \in ShowForms \cup DelForms =>
          vouched[h] = who[form[h].sk] /\ Confirmed(h, vouched[h])
    /\ current[h] # NoCall => Caller[current[h]] = h
    /\ Running(h) /\ current[h] # NoCall => sent[current[h]] \in {NoReq, Outgoing(h)}
    /\ status[h] = "ok" =>
          /\ current[h] # NoCall /\ result[current[h]] = "ok"
          /\ req[current[h]] = HandlerRequest(form[h], vouched[h])
          /\ form[h] \in ShowForms \cup DelForms =>
                vouched[h] = who[form[h].sk] /\ Confirmed(h, vouched[h])

\* What an attempt carries, on its way and in the service.
Sending(c) ==
    /\ sent[c] # NoReq => sent[c] \in Sendable
    /\ sent[c] \in RegReqs => form[Caller[c]] = sent[c]
    /\ sent[c] \in DelReqs =>
          /\ form[Caller[c]] \in DelForms /\ form[Caller[c]].target \in {sent[c].target, "me"}
          /\ Confirmed(Caller[c], [id |-> sent[c].user, role |-> sent[c].role])
    /\ pc[c] # "idle" => sent[c] = req[c] /\ sent[c] # NoReq

PInv ==
    /\ PlatformTypeOK
    /\ \A h \in Https : FormKnown(h) /\ Pipeline(h)
    /\ \A c \in Calls : Sending(c)

\* Every client is answered, whatever is lost and restarted on the way, as long as
\* abandoned transactions have not used up the pool.  (An instance that has no
\* call left for another attempt can not show it.)
OutOfCalls(h) == current[h] = NoCall /\ \A c \in Calls : Caller[c] = h => sent[c] # NoReq

EveryRequestAnswered ==
    \A h \in Https :
        Running(h) ~> \/ phase[h] = "done" \/ OutOfCalls(h)
                      \/ Cardinality(leaked) >= MaxOpenConns
=============================================================================
