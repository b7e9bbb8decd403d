--------------------------- MODULE PlatformProofs ---------------------------
(***************************************************************************)
(* Theorems about Platform for every set of HTTP requests, calls and       *)
(* users, any assignment of calls to requests and any number of attempts.  *)
(* PInv says what a request may rely on; it is inductive together with the *)
(* invariant IInv of UserService.                                          *)
(***************************************************************************)
EXTENDS Platform, UserServiceProofs

\* The op of a request tells its kind.
LEMMA OpOfRequest ==
    /\ \A r \in RegReqs : r.op = "reg"
    /\ \A r \in LogReqs : r.op = "log"
    /\ \A r \in ExtReqs : r.op = "ext"
    /\ \A r \in DelReqs : r.op = "del"
    /\ \A f \in ShowForms : f.op = "show" /\ f.token \in Calls /\ f.sk \in Calls /\ f.shown \in Calls
    /\ \A f \in DelForms :
          f.op = "remove" /\ f.token \in Calls /\ f.sk \in Calls /\ f.target \in Calls \cup {"me"}
    /\ \A f \in Forms : f # NoForm
  BY GatewaySentinels DEF RegReqs, LogReqs, ExtReqs, DelReqs, ShowForms, DelForms

-----------------------------------------------------------------------------
(* What a step of the service leaves as it is.                              *)

\* Calls keep their request, and ended ones their identity and result.
Settled ==
    \A c \in Calls :
        /\ pc[c] # "idle" => pc'[c] # "idle" /\ req'[c] = req[c]
        /\ pc[c] = "done" => pc'[c] = "done" /\ who'[c] = who[c] /\ result'[c] = result[c]

\* Only the call that takes a step changes.
Private(c) ==
    \A d \in Calls \ {c} :
        pc'[d] = pc[d] /\ req'[d] = req[d] /\ who'[d] = who[d] /\ result'[d] = result[d]

LEMMA ReceiveIsPrivate ==
    ASSUME IInv, NEW c \in Calls, Receive(c)
    PROVE  Private(c) /\ pc[c] = "idle" /\ pc'[c] # "idle"
<1> USE DEF IInv, TypeOK, Private, Arrive, Goto, Reply
<1>1. ASSUME NEW r \in RegReqs, RegSession(c, r) PROVE Private(c) /\ pc[c] = "idle" /\ pc'[c] # "idle"
  BY <1>1 DEF RegSession
<1>2. ASSUME NEW r \in LogReqs, LogReceive(c, r) PROVE Private(c) /\ pc[c] = "idle" /\ pc'[c] # "idle"
  BY <1>2 DEF LogReceive
<1>3. ASSUME NEW r \in Credentials, ExtParse(c, r) PROVE Private(c) /\ pc[c] = "idle" /\ pc'[c] # "idle"
  BY <1>3 DEF ExtParse
<1>4. ASSUME NEW r \in Removals, DelSession(c, r) PROVE Private(c) /\ pc[c] = "idle" /\ pc'[c] # "idle"
  BY <1>4 DEF DelSession
<1>5. QED
  BY <1>1, <1>2, <1>3, <1>4 DEF Receive

LEMMA ContinueIsPrivate ==
    ASSUME IInv, NEW c \in Calls, Continue(c)
    PROVE  Private(c) /\ pc[c] \in Waiting /\ pc'[c] # "idle" /\ UNCHANGED req
<1> USE DEF IInv, TypeOK, Private, Goto, Reply, Abandon, Waiting
<1>1. CASE RegInsert(c)
  BY <1>1 DEF RegInsert
<1>2. CASE LogLookup(c)
  BY <1>2 DEF LogLookup
<1>3. CASE LogSession(c)
  BY <1>3 DEF LogSession
<1>4. CASE ExtValidate(c)
  BY <1>4 DEF ExtValidate
<1>5. CASE DelBegin(c)
  BY <1>5 DEF DelBegin
<1>6. CASE DelCheck(c)
  BY <1>6 DEF DelCheck
<1>7. CASE DelExec(c)
  BY <1>7 DEF DelExec
<1>8. QED
  BY <1>1, <1>2, <1>3, <1>4, <1>5, <1>6, <1>7 DEF Continue

\* No step of the service touches what has settled.
LEMMA SettledStep == IInv /\ [Next]_vars => Settled
<1> SUFFICES ASSUME IInv, [Next]_vars PROVE Settled
  OBVIOUS
<1>1. ASSUME NEW c \in Calls, Receive(c) PROVE Settled
  BY <1>1, ReceiveIsPrivate DEF Private, Settled
<1>2. ASSUME NEW c \in Calls, Continue(c) PROVE Settled
  BY <1>2, ContinueIsPrivate DEF Private, Settled, Waiting
<1>3. ASSUME NEW t \in Calls, TokenExpires(t) \/ SessionExpires(t) PROVE Settled
  BY <1>3 DEF TokenExpires, SessionExpires, Settled
<1>4. ASSUME Restart PROVE Settled
  BY <1>4 DEF Restart, Settled, InFlight, Waiting, IInv, TypeOK
<1>5. CASE UNCHANGED vars
  BY <1>5 DEF vars, Settled
<1>6. QED
  BY <1>1, <1>2, <1>3, <1>4, <1>5 DEF Next, Environment

\* Replies once given stay good.
LEMMA IssuedIsSettled ==
    ASSUME IInv
    PROVE  /\ KeyIssued \subseteq TokenIssued /\ TokenIssued \subseteq Calls
           /\ \A c \in Calls : result[c] = "ok" => pc[c] = "done"
           /\ \A c \in TokenIssued : pc[c] = "done" /\ result[c] = "ok"
           /\ \A c \in KeyIssued : who[c] \in Identities
<1>1. \A c \in Calls : result[c] = "ok" => pc[c] = "done"
  BY DEF IInv, Untouched
<1>2. \A c \in KeyIssued : who[c] \in Identities
  BY DEF IInv, TypeOK, KeyIssued, Replies
<1>3. QED
  BY <1>1, <1>2 DEF KeyIssued, TokenIssued

LEMMA SettledKeeps ==
    ASSUME IInv, Settled
    PROVE  /\ KeyIssued \subseteq KeyIssued' /\ TokenIssued \subseteq TokenIssued'
           /\ \A c \in KeyIssued : who'[c] = who[c]
           /\ Sendable \subseteq Sendable'
<1>1. /\ KeyIssued \subseteq KeyIssued' /\ TokenIssued \subseteq TokenIssued'
      /\ \A c \in KeyIssued : who'[c] = who[c]
  BY IssuedIsSettled DEF Settled, KeyIssued, TokenIssued
<1>2. Credentials \subseteq Credentials'
  BY <1>1 DEF Credentials
<1>3. Removals \subseteq Removals'
  BY <1>1 DEF Removals
<1>4. QED
  BY <1>1, <1>2, <1>3 DEF Sendable

LEMMA ConfirmedKeeps ==
    ASSUME IInv, Settled, NEW a \in Calls, result[a] = "ok"
    PROVE  result'[a] = "ok" /\ req'[a] = req[a] /\ who'[a] = who[a]
  BY IssuedIsSettled DEF Settled

-----------------------------------------------------------------------------
(* The requests that reach the service                                      *)

\* What a handler sends is something UserService expects.
LEMMA OutgoingIsSendable ==
    ASSUME IInv, PInv, NEW h \in Https, Running(h)
    PROVE  Outgoing(h) \in Sendable
<1>1. form[h] # NoForm /\ FormKnown(h) /\ Pipeline(h) /\ form[h] \in Forms
  BY DEF PInv, PlatformTypeOK, Running, Pipeline
<1>2. CASE phase[h] = "auth"
  BY <1>1, <1>2, OpOfRequest, IssuedIsSettled, Kinds
     DEF FormKnown, Pipeline, Outgoing, Sendable, Credentials, RegReqs, LogReqs
<1>3. CASE phase[h] = "call" /\ form[h] \in RegReqs \cup LogReqs
  BY <1>3, OpOfRequest DEF Outgoing, HandlerRequest, Sendable
<1>4. CASE phase[h] = "call" /\ form[h] \in ShowForms
  BY <1>1, <1>4, OpOfRequest, IssuedIsSettled DEF FormKnown, Outgoing, HandlerRequest, Sendable, Credentials
<1>5. CASE phase[h] = "call" /\ form[h] \in DelForms
  <2>1. /\ form[h].sk \in KeyIssued /\ vouched[h] = who[form[h].sk]
        /\ form[h].target \in {who[t].id : t \in KeyIssued} \cup {"me"}
        /\ form[h].op = "remove"
    BY <1>1, <1>5, OpOfRequest DEF FormKnown, Pipeline
  <2>2. PICK t \in KeyIssued :
          (IF form[h].target = "me" THEN vouched[h].id ELSE form[h].target) = who[t].id
    BY <2>1
  <2>3. Outgoing(h) = [op |-> "del", user |-> who[form[h].sk].id, role |-> who[form[h].sk].role,
                       target |-> who[t].id, sk |-> form[h].sk]
    BY <1>5, <2>1, <2>2 DEF Outgoing, HandlerRequest
  <2>4. QED
    BY <2>1, <2>3 DEF Sendable, Removals
<1>6. QED
  BY <1>1, <1>2, <1>3, <1>4, <1>5 DEF Forms, Running

\* So every delivery is a step of UserService.
LEMMA DeliverIsReceive ==
    ASSUME PInv, NEW c \in Calls, Deliver(c)
    PROVE  Receive(c)
<1>1. sent[c] \in Sendable
  BY DEF PInv, Sending, Deliver
<1>2. /\ sent[c] \in ExtReqs => sent[c] \in Credentials
      /\ sent[c] \in DelReqs => sent[c] \in Removals
  BY <1>1, OpOfRequest DEF Sendable, Credentials, Removals
<1>3. QED
  BY <1>2 DEF Deliver, Dispatch, Receive

LEMMA NextRefines == PInv /\ [PlatformNext]_platform => [Next]_vars
<1> SUFFICES ASSUME PInv, [PlatformNext]_platform PROVE [Next]_vars
  OBVIOUS
<1>1. ASSUME NEW h \in Https, Gateway(h) PROVE UNCHANGED vars
  BY <1>1 DEF Gateway, Submit, Attempt, Refuse, Succeed, Fail, Lose
<1>2. ASSUME NEW c \in Calls, Deliver(c) PROVE Next
  BY <1>2, DeliverIsReceive DEF Next
<1>3. CASE UNCHANGED platform
  BY <1>3 DEF platform
<1>4. QED
  BY <1>1, <1>2, <1>3 DEF PlatformNext, Next, Environment, RestartService

-----------------------------------------------------------------------------
(* PInv is inductive: steps of the service                                  *)

LEMMA ServiceKeeps ==
    ASSUME IInv, PInv, Settled, UNCHANGED <<form, phase, current, tries, vouched, status>>,
           sent' \in [Calls -> Requests \cup {NoReq}],
           \A c \in Calls : sent'[c] \in {sent[c], NoReq},
           \A c \in Calls : pc'[c] # "idle" => sent'[c] = req'[c] /\ sent'[c] # NoReq
    PROVE  PInv'
<1>1. PlatformTypeOK'
  BY DEF PInv, PlatformTypeOK
<1>2. ASSUME NEW h \in Https PROVE FormKnown(h)'
  <2>1. FormKnown(h)
    BY DEF PInv
  <2>2. {who[t].id : t \in KeyIssued} \subseteq {who[t].id : t \in KeyIssued}'
    BY SettledKeeps
  <2>3. QED
    BY <2>1, <2>2, SettledKeeps DEF FormKnown
<1>3. ASSUME NEW h \in Https PROVE Pipeline(h)'
  <2>1. Pipeline(h) /\ FormKnown(h) /\ current[h] \in Calls \cup {NoCall}
    BY DEF PInv, PlatformTypeOK
  <2>2. form[h] \in ShowForms \cup DelForms =>
            form[h].sk \in KeyIssued /\ who'[form[h].sk] = who[form[h].sk]
    <3>1. form[h] \in ShowForms \cup DelForms => form[h] \notin RegReqs \cup LogReqs \cup {NoForm}
      BY OpOfRequest DEF Forms
    <3>2. form[h] \in ShowForms \cup DelForms => form[h].sk \in KeyIssued
      BY <2>1, <3>1 DEF FormKnown
    <3>3. QED
      BY <3>2, SettledKeeps
  <2>3. Confirmed(h, vouched[h]) => Confirmed(h, vouched[h])'
    BY ConfirmedKeeps DEF Confirmed
  <2>4. Outgoing(h)' = Outgoing(h) /\ (Running(h)' <=> Running(h))
    BY DEF Outgoing, Running
  <2>5. status[h] = "ok" =>
            result'[current[h]] = "ok" /\ req'[current[h]] = HandlerRequest(form[h], vouched[h])
    BY <2>1, IssuedIsSettled DEF Pipeline, Settled
  <2>6. QED
    BY <2>1, <2>2, <2>3, <2>4, <2>5 DEF Pipeline
<1>4. ASSUME NEW c \in Calls PROVE Sending(c)'
  <2>1. Sending(c) /\ Caller[c] \in Https
    BY CallerAssumption DEF PInv
  <2>2. sent'[c] = sent[c] \/ sent'[c] = NoReq
    OBVIOUS
  <2>3. sent'[c] \in DelReqs =>
            Confirmed(Caller[c], [id |-> sent[c].user, role |-> sent[c].role])'
    <3> SUFFICES ASSUME sent'[c] \in DelReqs
                 PROVE Confirmed(Caller[c], [id |-> sent[c].user, role |-> sent[c].role])'
      OBVIOUS
    <3>1. sent'[c] = sent[c]
      BY <2>2, Kinds
    <3>2. PICK a \in Calls :
              /\ Caller[a] = Caller[c] /\ req[a] \in ExtReqs /\ result[a] = "ok"
              /\ req[a].token = form[Caller[c]].token /\ req[a].sk = form[Caller[c]].sk
              /\ who[a] = [id |-> sent[c].user, role |-> sent[c].role]
      BY <2>1, <3>1 DEF Sending, Confirmed
    <3>3. result'[a] = "ok" /\ req'[a] = req[a] /\ who'[a] = who[a]
      BY <3>2, ConfirmedKeeps
    <3>4. QED
      BY <3>1, <3>2, <3>3 DEF Confirmed
  <2>4. sent'[c] # NoReq => sent'[c] \in Sendable'
    BY <2>1, <2>2, SettledKeeps DEF Sending
  <2>5. QED
    BY <2>1, <2>2, <2>3, <2>4, Kinds DEF Sending
<1>5. QED
  BY <1>1, <1>2, <1>3, <1>4 DEF PInv

LEMMA DeliverStep ==
    ASSUME IInv, PInv, NEW c \in Calls, Deliver(c)
    PROVE  PInv'
<1>1. Receive(c) /\ UNCHANGED gateway
  BY DeliverIsReceive DEF Deliver
<1>2. req'[c] = sent[c]
  BY DEF Deliver, Dispatch, RegSession, LogReceive, ExtParse, DelSession, Arrive, IInv, TypeOK
<1>3. \A d \in Calls : pc'[d] # "idle" => sent'[d] = req'[d] /\ sent'[d] # NoReq
  BY <1>1, <1>2, ReceiveIsPrivate DEF Private, PInv, Sending, gateway, Deliver
<1>4. Settled
  BY <1>1, SettledStep DEF Next
<1>5. QED
  BY <1>1, <1>3, <1>4, ServiceKeeps DEF gateway, PInv, PlatformTypeOK

LEMMA HandlerAndExpiryStep ==
    ASSUME IInv, PInv, UNCHANGED gateway,
           \/ \E c \in Calls : Continue(c)
           \/ \E t \in Calls : TokenExpires(t) \/ SessionExpires(t)
    PROVE  PInv'
<1>1. [Next]_vars
  BY DEF Next, Environment
<1>2. \A d \in Calls : req'[d] = req[d] /\ (pc'[d] # "idle" => pc[d] # "idle")
  BY ContinueIsPrivate DEF Private, Waiting, TokenExpires, SessionExpires
<1>3. QED
  BY <1>1, <1>2, SettledStep, ServiceKeeps DEF gateway, PInv, PlatformTypeOK, Sending

LEMMA RestartServiceStep ==
    ASSUME IInv, PInv, RestartService
    PROVE  PInv'
<1>1. /\ [Next]_vars /\ UNCHANGED req
      /\ sent' = [c \in Calls |-> IF pc[c] = "idle" THEN NoReq ELSE sent[c]]
      /\ UNCHANGED <<form, phase, current, tries, vouched, status>>
  BY DEF RestartService, Restart, Next, Environment
<1>2. \A c \in Calls : pc'[c] # "idle" => pc[c] # "idle"
  BY DEF RestartService, Restart, IInv, TypeOK, InFlight, Waiting
<1>3. sent' \in [Calls -> Requests \cup {NoReq}]
  BY <1>1 DEF PInv, PlatformTypeOK
<1>4. QED
  BY <1>1, <1>2, <1>3, SettledStep, ServiceKeeps DEF PInv, Sending

-----------------------------------------------------------------------------
(* PInv is inductive: steps of the gateway                                  *)

\* A step for request h leaves the others alone.
LEMMA ByRequest ==
    ASSUME PInv, UNCHANGED vars, NEW h \in Https, PlatformTypeOK',
           \A g \in Https \ {h} :
               /\ form'[g] = form[g] /\ phase'[g] = phase[g] /\ current'[g] = current[g]
               /\ vouched'[g] = vouched[g] /\ status'[g] = status[g],
           \A c \in Calls : Caller[c] # h => sent'[c] = sent[c],
           FormKnown(h)', Pipeline(h)', \A c \in Calls : Caller[c] = h => Sending(c)'
    PROVE  PInv'
<1>1. UNCHANGED <<users, sessions, removed, pc, req, who, result, expired, leaked>>
  BY DEF vars
<1>2. /\ KeyIssued' = KeyIssued /\ Sendable' = Sendable
  BY <1>1 DEF KeyIssued, TokenIssued, Sendable, Credentials, Removals
<1>3. ASSUME NEW g \in Https \ {h} PROVE FormKnown(g)' /\ Pipeline(g)'
  <2>1. FormKnown(g) /\ Pipeline(g) /\ current[g] \in Calls \cup {NoCall}
    BY DEF PInv, PlatformTypeOK
  <2>2. FormKnown(g)'
    BY <1>1, <1>2, <2>1 DEF FormKnown
  <2>3. /\ Outgoing(g)' = Outgoing(g) /\ (Running(g)' <=> Running(g))
        /\ Confirmed(g, vouched[g]) => Confirmed(g, vouched[g])'
    BY <1>1 DEF Outgoing, Running, Confirmed
  <2>4. current[g] # NoCall => sent'[current[g]] = sent[current[g]]
    BY <2>1 DEF Pipeline
  <2>5. Pipeline(g)'
    BY <1>1, <2>1, <2>3, <2>4 DEF Pipeline
  <2>6. QED
    BY <2>2, <2>5
<1>4. ASSUME NEW c \in Calls, Caller[c] # h PROVE Sending(c)'
  <2>1. Sending(c) /\ Caller[c] \in Https \ {h} /\ sent'[c] = sent[c]
    BY <1>4, CallerAssumption DEF PInv
  <2>2. form'[Caller[c]] = form[Caller[c]]
    BY <2>1
  <2>3. QED
    BY <1>1, <1>2, <2>1, <2>2 DEF Sending, Confirmed
<1>5. QED
  BY <1>3, <1>4 DEF PInv

\* Nothing was sent for a request that was not submitted.
LEMMA SubmitStep ==
    ASSUME IInv, PInv, NEW h \in Https, NEW f \in RegReqs \cup LogReqs \cup Shows \cup Removes,
           Submit(h, f)
    PROVE  PInv'
<1>1. PlatformTypeOK /\ Pipeline(h) /\ form[h] = NoForm /\ status[h] = "none" /\ current[h] = NoCall
  BY DEF PInv, Submit, Pipeline
<1>2. UNCHANGED <<users, sessions, removed, pc, req, who, result, expired, leaked>>
  BY DEF Submit, vars
<1>3. Delivered \subseteq KeyIssued /\ Delivered \subseteq Calls
  <2>1. SUFFICES ASSUME NEW g \in Https, status[g] = "ok", form[g].op \in {"reg", "log"}
                 PROVE  current[g] \in KeyIssued /\ current[g] \in Calls
    BY DEF Delivered
  <2>2. /\ current[g] \in Calls /\ result[current[g]] = "ok"
        /\ req[current[g]] = HandlerRequest(form[g], vouched[g])
        /\ form[g] # NoForm /\ form[g] \in Forms
    BY <2>1 DEF PInv, Pipeline, PlatformTypeOK
  <2>3. form[g] \in RegReqs \cup LogReqs
    BY <2>1, <2>2, OpOfRequest DEF Forms
  <2>4. QED
    BY <2>1, <2>2, <2>3 DEF HandlerRequest, KeyIssued
<1>4. \/ f \in RegReqs \cup LogReqs
      \/ f \in ShowForms /\ {f.token, f.sk, f.shown} \subseteq KeyIssued
      \/ /\ f \in DelForms /\ {f.token, f.sk} \subseteq KeyIssued
         /\ f.target \in {who[t].id : t \in KeyIssued} \cup {"me"}
  <2>1. CASE f \in Shows
    BY <1>3, <2>1 DEF Shows, ShowForms
  <2>2. CASE f \in Removes
    <3>1. PICK t \in Delivered, s \in Delivered, i \in {who[d].id : d \in Delivered} \cup {"me"} :
              f = [op |-> "remove", token |-> t, sk |-> s, target |-> i]
      BY <2>2 DEF Removes
    <3>2. \A d \in Delivered : who[d].id \in Calls
      BY <1>3, IssuedIsSettled, Sentinels
    <3>3. QED
      BY <1>3, <3>1, <3>2 DEF DelForms
  <2>3. QED
    BY <2>1, <2>2
<1>5. f \in Forms /\ f # NoForm
  BY <1>4, OpOfRequest DEF Forms
<1>6. /\ form' = [form EXCEPT ![h] = f] /\ form'[h] = f
      /\ phase'[h] = (IF f.op \in {"reg", "log"} THEN "call" ELSE "auth")
      /\ UNCHANGED <<current, tries, vouched, status, sent>>
  BY <1>1 DEF Submit, PlatformTypeOK
<1>7. PlatformTypeOK'
  BY <1>1, <1>5 DEF PlatformTypeOK, Submit
<1>8. FormKnown(h)'
  BY <1>2, <1>4, <1>6 DEF FormKnown, KeyIssued
<1>9. Pipeline(h)'
  <2>1. phase'[h] = "auth" => f \in ShowForms \cup DelForms
    BY <1>5, <1>6, OpOfRequest DEF Forms
  <2>2. phase'[h] = "call" => f \notin ShowForms \cup DelForms
    BY <1>6, OpOfRequest
  <2>3. QED
    BY <1>1, <1>5, <1>6, <2>1, <2>2 DEF Pipeline
<1>10. ASSUME NEW c \in Calls, Caller[c] = h PROVE Sending(c)'
  <2>1. Sending(c)
    BY DEF PInv
  <2>2. NoForm \notin RegReqs /\ NoForm \notin DelForms
    BY OpOfRequest DEF Forms
  <2>3. sent[c] \notin RegReqs /\ sent[c] \notin DelReqs
    BY <1>1, <1>10, <2>1, <2>2 DEF Sending
  <2>4. Sendable' = Sendable
    BY <1>2 DEF Sendable, Credentials, Removals, TokenIssued, KeyIssued
  <2>5. QED
    BY <1>2, <1>6, <2>1, <2>3, <2>4 DEF Sending
<1>11. QED
  BY <1>1, <1>7, <1>8, <1>9, <1>10, ByRequest DEF Submit, PlatformTypeOK

LEMMA AttemptStep ==
    ASSUME IInv, PInv, NEW h \in Https, NEW c \in Calls, Attempt(h, c)
    PROVE  PInv'
<1> DEFINE r == Outgoing(h)
<1>1. /\ PlatformTypeOK /\ Pipeline(h) /\ FormKnown(h) /\ form[h] \in Forms
      /\ Running(h) /\ current[h] = NoCall /\ Caller[c] = h /\ sent[c] = NoReq
  BY DEF PInv, Attempt, Pipeline, Running, PlatformTypeOK
<1>2. /\ UNCHANGED <<users, sessions, removed, pc, req, who, result, expired, leaked>>
      /\ UNCHANGED <<form, phase, tries, vouched, status>>
      /\ current' = [current EXCEPT ![h] = c] /\ sent' = [sent EXCEPT ![c] = r]
  BY DEF Attempt, vars
<1>3. r \in Sendable /\ r \in Requests
  <2>1. r \in Sendable
    BY <1>1, OutgoingIsSendable
  <2>2. Sendable \subseteq Requests
    <3>1. Credentials \subseteq ExtReqs
      BY IssuedIsSettled DEF Credentials, ExtReqs
    <3>2. Removals \subseteq DelReqs
      BY IssuedIsSettled, Sentinels DEF Removals, DelReqs
    <3>3. QED
      BY <3>1, <3>2 DEF Sendable, Requests
  <2>3. QED
    BY <2>1, <2>2
<1>4. sent'[c] = r /\ r # NoReq /\ current'[h] = c /\ c # NoCall
  BY <1>1, <1>2, <1>3, SentinelAssumption, GatewaySentinels DEF PlatformTypeOK
<1>5. PlatformTypeOK'
  BY <1>1, <1>2, <1>3 DEF PlatformTypeOK
<1>6. FormKnown(h)'
  BY <1>1, <1>2 DEF FormKnown, KeyIssued
<1>7. Pipeline(h)'
  <2>1. Outgoing(h)' = Outgoing(h) /\ (Confirmed(h, vouched[h]) => Confirmed(h, vouched[h])')
    BY <1>2 DEF Outgoing, Confirmed
  <2>2. status[h] # "ok"
    BY <1>1 DEF Pipeline, Running
  <2>3. QED
    BY <1>1, <1>2, <1>4, <2>1, <2>2 DEF Pipeline, Running
<1>8. r \in RegReqs => form[h] = r
  <2>1. CASE phase[h] = "auth"
    BY <2>1, OpOfRequest DEF Outgoing
  <2>2. CASE phase[h] = "call" /\ form[h].op \in {"show", "remove"}
    BY <2>2, OpOfRequest DEF Outgoing, HandlerRequest
  <2>3. CASE phase[h] = "call" /\ form[h].op \notin {"show", "remove"}
    BY <2>3 DEF Outgoing, HandlerRequest
  <2>4. QED
    BY <1>1, <2>1, <2>2, <2>3 DEF Running
<1>9. r \in DelReqs =>
          /\ form[h] \in DelForms /\ form[h].target \in {r.target, "me"}
          /\ [id |-> r.user, role |-> r.role] = vouched[h] /\ Confirmed(h, vouched[h])
  <2> SUFFICES ASSUME r \in DelReqs
               PROVE  /\ form[h] \in DelForms /\ form[h].target \in {r.target, "me"}
                      /\ [id |-> r.user, role |-> r.role] = vouched[h] /\ Confirmed(h, vouched[h])
    OBVIOUS
  <2>1. phase[h] = "call"
    BY <1>1, OpOfRequest DEF Outgoing, Running
  <2>2. form[h] \in DelForms
    BY <1>1, <2>1, OpOfRequest DEF Outgoing, HandlerRequest, Forms
  <2>3. r = [op |-> "del", user |-> vouched[h].id, role |-> vouched[h].role,
             target |-> IF form[h].target = "me" THEN vouched[h].id ELSE form[h].target,
             sk |-> form[h].sk]
    BY <2>1, <2>2, OpOfRequest DEF Outgoing, HandlerRequest
  <2>4. form[h] \notin RegReqs \cup LogReqs \cup ShowForms \cup {NoForm}
    BY <2>2, OpOfRequest DEF Forms
  <2>5. form[h].sk \in KeyIssued /\ vouched[h] = who[form[h].sk]
    BY <1>1, <2>1, <2>2, <2>4 DEF FormKnown, Pipeline
  <2>6. vouched[h] \in Identities
    BY <2>5, IssuedIsSettled
  <2>7. QED
    BY <1>1, <2>1, <2>2, <2>3, <2>6 DEF Pipeline, Identities
<1>10. ASSUME NEW d \in Calls, Caller[d] = h PROVE Sending(d)'
  <2>1. Sending(d) /\ Sending(c)
    BY DEF PInv
  <2>2. Sendable' = Sendable
    BY <1>2 DEF Sendable, Credentials, Removals, TokenIssued, KeyIssued
  <2>3. CASE d # c
    <3>1. sent'[d] = sent[d]
      BY <1>1, <1>2, <2>3 DEF PlatformTypeOK
    <3>2. QED
      BY <1>2, <2>1, <2>2, <3>1 DEF Sending, Confirmed
  <2>4. CASE d = c
    <3>1. pc[c] = "idle"
      BY <1>1, <2>1 DEF Sending
    <3> HIDE DEF r
    <3>2. QED
      BY <1>1, <1>2, <1>3, <1>4, <1>8, <1>9, <2>2, <2>4, <3>1 DEF Sending, Confirmed
  <2>5. QED
    BY <2>3, <2>4
<1>11. QED
  BY <1>1, <1>2, <1>5, <1>6, <1>7, <1>10, ByRequest DEF PlatformTypeOK, vars

\* The steps that send nothing and change no form.
LEMMA WaitingKeeps ==
    ASSUME PInv, NEW h \in Https, UNCHANGED <<vars, form, sent>>
    PROVE  FormKnown(h)' /\ \A c \in Calls : Sending(c)'
<1>1. UNCHANGED <<users, sessions, removed, pc, req, who, result, expired, leaked>>
  BY DEF vars
<1>2. QED
  BY <1>1 DEF PInv, FormKnown, Sending, Sendable, Credentials, Removals, TokenIssued, KeyIssued,
              Confirmed

\* The steps with which request h ends without success, and the retries.
LEMMA FailureStep ==
    ASSUME PInv, NEW h \in Https, Refuse(h) \/ Fail(h) \/ Lose(h)
    PROVE  PInv'
<1>1. PlatformTypeOK /\ Pipeline(h) /\ Running(h)
  BY DEF PInv, Refuse, Fail, Lose, Replied
<1>2. UNCHANGED <<vars, form, vouched, sent>>
  BY DEF Refuse, Fail, Lose
<1>3. UNCHANGED <<users, sessions, removed, pc, req, who, result, expired, leaked>>
  BY <1>2 DEF vars
<1>4. \/ /\ phase'[h] = "done" /\ status'[h] # "ok" /\ current' = current
      \/ /\ phase'[h] = phase[h] /\ status'[h] = status[h] /\ current'[h] = NoCall
  BY <1>1 DEF Refuse, Fail, Lose, Finish, PlatformTypeOK
<1>5. PlatformTypeOK'
  BY <1>1, CallerAssumption DEF Refuse, Fail, Lose, Finish, PlatformTypeOK
<1>6. Pipeline(h)'
  <2>1. Confirmed(h, vouched[h]) => Confirmed(h, vouched[h])'
    BY <1>2, <1>3 DEF Confirmed
  <2>2. form[h] # NoForm /\ status[h] = "none"
    BY <1>1 DEF Pipeline, Running
  <2>3. QED
    BY <1>1, <1>2, <1>3, <1>4, <2>1, <2>2 DEF Pipeline, Running
<1>7. \A g \in Https \ {h} :
          /\ form'[g] = form[g] /\ phase'[g] = phase[g] /\ current'[g] = current[g]
          /\ vouched'[g] = vouched[g] /\ status'[g] = status[g]
  BY <1>1, <1>2 DEF Refuse, Fail, Lose, Finish, PlatformTypeOK
<1>8. QED
  BY <1>2, <1>5, <1>6, <1>7, WaitingKeeps, ByRequest

\* The service answered: what JWTAuth or the client gets is what the call was for.
LEMMA SucceedStep ==
    ASSUME IInv, PInv, NEW h \in Https, Succeed(h)
    PROVE  PInv'
<1> DEFINE c == current[h]
<1>1. /\ PlatformTypeOK /\ Pipeline(h) /\ FormKnown(h) /\ Running(h) /\ c \in Calls
      /\ pc[c] = "done" /\ result[c] = "ok" /\ Caller[c] = h /\ form[h] \in Forms
  <2>1. PlatformTypeOK /\ Pipeline(h) /\ FormKnown(h)
    BY DEF PInv
  <2>2. Running(h) /\ c # NoCall /\ pc[c] = "done" /\ result[c] = "ok"
    BY DEF Succeed, Replied
  <2>3. c \in Calls /\ Caller[c] = h
    BY <2>1, <2>2 DEF PlatformTypeOK, Pipeline
  <2>4. form[h] \in Forms
    BY <2>1, <2>2 DEF PlatformTypeOK, Pipeline, Running
  <2>5. QED
    BY <2>1, <2>2, <2>3, <2>4
<1>2. /\ UNCHANGED <<users, sessions, removed, pc, req, who, result, expired, leaked>>
      /\ UNCHANGED <<vars, form, sent>>
  BY DEF Succeed, vars
<1>3. sent[c] = Outgoing(h) /\ req[c] = Outgoing(h)
  <2>1. Sending(c) /\ c # NoCall
    BY <1>1, GatewaySentinels DEF PInv
  <2>2. QED
    BY <1>1, <2>1 DEF Sending, Pipeline
<1>4. FormKnown(h)' /\ \A d \in Calls : Sending(d)'
  BY <1>2, WaitingKeeps
<1>5. form[h] \in DelForms => form[h] \notin RegReqs \cup LogReqs \cup ShowForms \cup {NoForm}
  BY OpOfRequest DEF Forms
<1>6. CASE phase[h] = "auth"
  <2>1. req[c] = [op |-> "ext", token |-> form[h].token, sk |-> form[h].sk]
    BY <1>3, <1>6 DEF Outgoing
  <2>2. form[h].token \in Calls /\ form[h].sk \in Calls
    BY <1>1, <1>6, OpOfRequest DEF Pipeline
  <2>3. req[c] \in ExtReqs
    BY <2>1, <2>2 DEF ExtReqs
  <2>4. who[c] = who[form[h].sk] /\ who[c] # NoOne /\ who[c] \in Identities
    BY <1>1, <2>1, <2>3 DEF IInv, Replies, TypeOK
  <2>5. /\ vouched' = [vouched EXCEPT ![h] = who[c]] /\ phase' = [phase EXCEPT ![h] = "call"]
        /\ current' = [current EXCEPT ![h] = NoCall] /\ tries' = [tries EXCEPT ![h] = 0]
        /\ UNCHANGED status
    BY <1>6 DEF Succeed, Vouch
  <2>6. PlatformTypeOK'
    BY <1>1, <1>2, <2>4, <2>5, CallerAssumption DEF PlatformTypeOK
  <2>7. Confirmed(h, who[c])
    BY <1>1, <2>1, <2>3 DEF Confirmed
  <2>8. phase'[h] = "call" /\ vouched'[h] = who[c] /\ current'[h] = NoCall
    BY <1>1, <2>5 DEF PlatformTypeOK
  <2>9. Confirmed(h, vouched[h])'
    BY <1>1, <1>2, <2>1, <2>3, <2>8 DEF Confirmed
  <2>10. Pipeline(h)'
    BY <1>1, <1>2, <1>6, <2>4, <2>5, <2>8, <2>9 DEF Pipeline
  <2>11. QED
    BY <1>1, <1>2, <1>4, <2>5, <2>6, <2>10, ByRequest DEF PlatformTypeOK
<1>7. CASE phase[h] = "call"
  <2>1. /\ phase' = [phase EXCEPT ![h] = "done"] /\ status' = [status EXCEPT ![h] = "ok"]
        /\ UNCHANGED <<current, tries, vouched>>
    BY <1>7 DEF Succeed, Finish
  <2>2. PlatformTypeOK'
    BY <1>1, <1>2, <2>1 DEF PlatformTypeOK, Results
  <2>3. phase'[h] = "done" /\ status'[h] = "ok"
    BY <1>1, <2>1 DEF PlatformTypeOK
  <2>4. req[c] = HandlerRequest(form[h], vouched[h])
    BY <1>3, <1>7 DEF Outgoing
  <2>5. Pipeline(h)'
    <3>1. Confirmed(h, vouched[h]) => Confirmed(h, vouched[h])'
      BY <1>2, <2>1 DEF Confirmed
    <3>2. QED
      BY <1>1, <1>2, <1>7, <2>1, <2>3, <2>4, <3>1, GatewaySentinels DEF Pipeline, Running
  <2>6. QED
    BY <1>1, <1>2, <1>4, <2>1, <2>2, <2>5, ByRequest DEF PlatformTypeOK
<1>8. QED
  BY <1>1, <1>6, <1>7 DEF Running

LEMMA PlatformInitEstablishes == PlatformInit => IInv /\ PInv
<1> SUFFICES ASSUME PlatformInit PROVE PInv
  BY InitEstablishes DEF PlatformInit
<1>1. PlatformTypeOK
  BY CallerAssumption DEF PlatformInit, PlatformTypeOK
<1>2. NoReq \notin RegReqs \cup DelReqs
  BY Kinds
<1>3. QED
  BY <1>1, <1>2 DEF PlatformInit, Init, PInv, FormKnown, Pipeline, Sending, Running

LEMMA PlatformNextKeeps == IInv /\ PInv /\ [PlatformNext]_platform => IInv' /\ PInv'
<1> SUFFICES ASSUME IInv, PInv, [PlatformNext]_platform PROVE IInv' /\ PInv'
  OBVIOUS
<1>1. IInv'
  BY NextRefines, NextKeeps
<1>2. ASSUME NEW h \in Https, Gateway(h) PROVE PInv'
  BY <1>2, SubmitStep, AttemptStep, FailureStep, SucceedStep DEF Gateway
<1>3. CASE UNCHANGED platform
  <2>1. UNCHANGED <<form, phase, current, tries, vouched, status, sent>> /\ UNCHANGED vars
    BY <1>3 DEF platform, gateway
  <2>2. Settled /\ UNCHANGED <<pc, req>>
    BY <2>1, SettledStep DEF vars
  <2>3. QED
    <3>1. \A c \in Calls : pc'[c] # "idle" => sent'[c] = req'[c] /\ sent'[c] # NoReq
      BY <2>1, <2>2 DEF PInv, Sending
    <3>2. sent' \in [Calls -> Requests \cup {NoReq}]
      BY <2>1 DEF PInv, PlatformTypeOK
    <3>3. QED
      BY <1>1, <2>1, <2>2, <3>1, <3>2, ServiceKeeps
<1>4. QED
  BY <1>1, <1>2, <1>3, DeliverStep, HandlerAndExpiryStep, RestartServiceStep DEF PlatformNext

-----------------------------------------------------------------------------
(* Registrations: three facts that PInv does not need.                      *)

\* Somebody else has had the name that registration c asks for.
NameHeld(c) ==
    /\ req[c] \in RegReqs
    /\ \E d \in Calls \ {c} : Opened(d) /\ UserName[req[d].profile] = UserName[req[c].profile]

\* The service says "exists" only of such a name,
Collisions == \A c \in Calls : result[c] = "exists" => NameHeld(c)

\* the gateway only when the service did,
Relayed(h) == status[h] = "exists" => current[h] # NoCall /\ result[current[h]] = "exists"

\* and attempts other than the current one are those rpc gave up.
GivenUp(h) ==
    \A c \in Calls : Caller[c] = h /\ sent[c] # NoReq =>
        /\ phase[h] # "idle"
        /\ form[h] \in RegReqs /\ c # current[h] => tries[h] > 0

RInv == Collisions /\ \A h \in Https : Relayed(h) /\ GivenUp(h)

\* An account that was opened stays one.
LEMMA OpenedStays ==
    ASSUME IInv, [Next]_vars, NEW i \in Calls, Opened(i)
    PROVE  Opened(i)'
<1> USE DEF IInv, TypeOK, Opened
<1>1. ASSUME NEW c \in Calls, Receive(c) PROVE UNCHANGED <<users, removed>>
  BY <1>1 DEF Receive, RegSession, LogReceive, ExtParse, DelSession, stores
<1>2. ASSUME NEW c \in Calls, Continue(c), ~DelExec(c), ~RegInsert(c)
      PROVE  UNCHANGED <<users, removed>>
  BY <1>2 DEF Continue, LogLookup, LogSession, ExtValidate, DelBegin, DelCheck, stores
<1>3. ASSUME NEW c \in Calls, RegInsert(c) PROVE Opened(i)'
  <2>1. i # c
    BY <1>3 DEF RegInsert, Handlers, AtStep, AtRegInsert
  <2>2. QED
    BY <1>3, <2>1 DEF RegInsert, InsertRow
<1>4. ASSUME NEW c \in Calls, DelExec(c) PROVE Opened(i)'
  BY <1>4 DEF DelExec, RemoveRow
<1>5. ASSUME Environment PROVE UNCHANGED <<users, removed>>
  BY <1>5 DEF Environment, TokenExpires, SessionExpires, Restart, stores
<1>6. QED
  BY <1>1, <1>2, <1>3, <1>4, <1>5 DEF Next, vars

\* "exists" is the answer of an insert that met the UNIQUE constraint.
LEMMA NewCollision ==
    ASSUME IInv, [Next]_vars, NEW c \in Calls, result'[c] = "exists", result[c] # "exists"
    PROVE  RegInsert(c) /\ Taken(UserName[req[c].profile])
<1> USE DEF IInv, TypeOK
<1>1. ASSUME NEW d \in Calls, Receive(d) PROVE FALSE
  BY <1>1 DEF Receive, RegSession, LogReceive, ExtParse, DelSession, Goto, Reply
<1>2. ASSUME NEW d \in Calls, Continue(d), ~RegInsert(d) PROVE FALSE
  BY <1>2 DEF Continue, LogLookup, LogSession, ExtValidate, DelBegin, DelCheck, DelExec,
              Abandon, Goto, Reply
<1>3. ASSUME NEW d \in Calls, RegInsert(d) PROVE d = c /\ Taken(UserName[req[c].profile])
  BY <1>3 DEF RegInsert, Reply
<1>4. ~Environment
  BY DEF Environment, TokenExpires, SessionExpires, Restart
<1>5. result' # result
  OBVIOUS
<1>6. QED
  BY <1>1, <1>2, <1>3, <1>4, <1>5 DEF Next, vars

LEMMA CollisionsStep == IInv /\ Collisions /\ [Next]_vars => Collisions'
<1> SUFFICES ASSUME IInv, Collisions, [Next]_vars, NEW c \in Calls, result'[c] = "exists"
             PROVE  NameHeld(c)'
  BY DEF Collisions
<1>1. Settled /\ \A d \in Calls : Opened(d) => pc[d] = "done" /\ Opened(d)'
  BY SettledStep, OpenedStays DEF IInv, Table
<1>2. NameHeld(c) /\ pc[c] # "idle"
  <2>1. CASE result[c] = "exists"
    BY <2>1 DEF Collisions, IInv, Untouched
  <2>2. CASE result[c] # "exists"
    <3>1. pc[c] = "regInsert" /\ AtRegInsert(c) /\ Taken(UserName[req[c].profile])
      BY <2>2, NewCollision DEF RegInsert, IInv, Handlers, AtStep
    <3>2. PICK d \in Calls : users[d] # NoUser /\ users[d].user_name = UserName[req[c].profile]
      BY <3>1 DEF Taken
    <3>3. users[d].user_name = UserName[req[d].profile]
      <4>1. users[d] = [user_name |-> UserName[req[d].profile],
                        role |-> req[d].role, pswd |-> req[d].pswd]
        BY <3>2 DEF IInv, Table
      <4>2. QED
        BY <4>1
    <3>4. QED
      BY <3>1, <3>2, <3>3 DEF NameHeld, AtRegInsert, Registration, Opened
  <2>3. QED
    BY <2>1, <2>2
<1>3. QED
  BY <1>1, <1>2 DEF NameHeld, Settled

\* No step makes the gateway say "exists" on its own or forget that it tried again.
LEMMA RelayedAndGivenUp ==
    ASSUME IInv, PInv, RInv, NEW h \in Https, [PlatformNext]_platform
    PROVE  Relayed(h)' /\ GivenUp(h)'
<1>1. Relayed(h) /\ GivenUp(h) /\ Pipeline(h) /\ PlatformTypeOK
  BY DEF RInv, PInv
<1>2. Settled
  BY NextRefines, SettledStep
<1>3. status[h] = "exists" => result'[current[h]] = "exists"
  BY <1>1, <1>2 DEF Relayed, Settled, IInv, Untouched, PlatformTypeOK
<1>4. ASSUME UNCHANGED <<form, phase, current, tries, vouched, status>>,
             \A c \in Calls : sent'[c] \in {sent[c], NoReq}
      PROVE  Relayed(h)' /\ GivenUp(h)'
  BY <1>1, <1>3, <1>4 DEF Relayed, GivenUp
<1>5. ASSUME NEW g \in Https, Gateway(g) PROVE Relayed(h)' /\ GivenUp(h)'
  <2>1. UNCHANGED result
    BY <1>5 DEF Gateway, Submit, Attempt, Refuse, Succeed, Fail, Lose, vars
  <2>2. ASSUME NEW f \in RegReqs \cup LogReqs \cup Shows \cup Removes, Submit(g, f)
        PROVE  Relayed(h)' /\ GivenUp(h)'
    <3>1. Relayed(h)'
      BY <1>1, <2>1, <2>2 DEF Relayed, Submit
    <3>2. /\ phase[g] = "idle" /\ UNCHANGED <<current, tries, sent>>
          /\ form' = [form EXCEPT ![g] = f]
          /\ phase' = [phase EXCEPT ![g] = IF f.op \in {"reg", "log"} THEN "call" ELSE "auth"]
      BY <2>2 DEF Submit
    <3>3. GivenUp(h)'
      <4>1. CASE g = h
        <5>1. \A c \in Calls : Caller[c] = h => sent[c] = NoReq
          BY <1>1, <3>2, <4>1 DEF GivenUp
        <5>2. QED
          BY <3>2, <5>1 DEF GivenUp
      <4>2. CASE g # h
        <5>1. phase'[h] = phase[h] /\ form'[h] = form[h]
          BY <1>1, <3>2, <4>2 DEF PlatformTypeOK
        <5>2. QED
          BY <1>1, <3>2, <5>1 DEF GivenUp
      <4>3. QED
        BY <4>1, <4>2
    <3>4. QED
      BY <3>1, <3>3
  <2>3. ASSUME NEW c \in Calls, Attempt(g, c) PROVE Relayed(h)' /\ GivenUp(h)'
    <3>1. /\ Caller[c] = g /\ Running(g) /\ current[g] = NoCall
          /\ current' = [current EXCEPT ![g] = c]
          /\ \A d \in Calls \ {c} : sent'[d] = sent[d]
          /\ UNCHANGED <<form, phase, tries, status>>
      BY <1>1, <2>3 DEF Attempt, PlatformTypeOK
    <3>2. CASE g = h
      <4>1. status[h] = "none" /\ current'[h] = c /\ phase[h] # "idle"
        BY <1>1, <3>1, <3>2 DEF Pipeline, Running, PlatformTypeOK
      <4>2. QED
        BY <1>1, <3>1, <3>2, <4>1, GatewaySentinels DEF Relayed, GivenUp
    <3>3. CASE g # h
      <4>1. current'[h] = current[h] /\ \A d \in Calls : Caller[d] = h => sent'[d] = sent[d]
        BY <1>1, <3>1, <3>3 DEF PlatformTypeOK
      <4>2. QED
        BY <1>1, <2>1, <3>1, <4>1 DEF Relayed, GivenUp
    <3>4. QED
      BY <3>2, <3>3
  <2>4. ASSUME Refuse(g) \/ Fail(g) \/ Lose(g) \/ Succeed(g) PROVE Relayed(h)' /\ GivenUp(h)'
    <3>1. UNCHANGED <<form, sent>>
      BY <2>4 DEF Refuse, Fail, Lose, Succeed
    <3>2. CASE g # h
      <4>1. phase'[h] = phase[h] /\ current'[h] = current[h] /\ tries'[h] = tries[h]
            /\ status'[h] = status[h]
        BY <1>1, <2>4, <3>2 DEF Refuse, Fail, Lose, Succeed, Finish, PlatformTypeOK
      <4>2. QED
        BY <1>1, <2>1, <3>1, <4>1 DEF Relayed, GivenUp
    <3>3. CASE g = h
      <4>1. Running(h) /\ status[h] = "none" /\ tries[h] \in Nat
        BY <1>1, <2>4, <3>3, CallerAssumption
           DEF Refuse, Fail, Lose, Succeed, Replied, Pipeline, Running, PlatformTypeOK
      <4>2. phase'[h] # "idle"
        BY <1>1, <2>4, <3>3, <4>1
           DEF Refuse, Fail, Lose, Succeed, Finish, Running, PlatformTypeOK
      <4>3. Relayed(h)'
        BY <1>1, <2>1, <2>4, <3>3, <4>1
           DEF Refuse, Fail, Lose, Succeed, Replied, Finish, Relayed, PlatformTypeOK
      <4>4. \/ current'[h] = current[h] /\ tries'[h] = tries[h]
            \/ tries'[h] > 0
            \/ phase[h] = "auth"
        BY <1>1, <2>4, <3>3, <4>1
           DEF Refuse, Fail, Lose, Succeed, Finish, PlatformTypeOK, Running
      <4>5. phase[h] = "auth" => form[h] \notin RegReqs
        BY <1>1, OpOfRequest DEF Pipeline
      <4>6. GivenUp(h)'
        BY <1>1, <3>1, <4>1, <4>2, <4>4, <4>5 DEF GivenUp
      <4>7. QED
        BY <4>3, <4>6
    <3>4. QED
      BY <3>2, <3>3
  <2>5. QED
    BY <1>5, <2>2, <2>3, <2>4 DEF Gateway
<1>6. ASSUME NEW c \in Calls, Deliver(c) \/ (Continue(c) /\ UNCHANGED gateway)
      PROVE  Relayed(h)' /\ GivenUp(h)'
  BY <1>4, <1>6 DEF Deliver, gateway
<1>7. ASSUME NEW t \in Calls, (TokenExpires(t) \/ SessionExpires(t)) /\ UNCHANGED gateway
      PROVE  Relayed(h)' /\ GivenUp(h)'
  BY <1>4, <1>7 DEF gateway
<1>8. CASE RestartService
  BY <1>4, <1>8 DEF RestartService
<1>9. CASE UNCHANGED platform
  BY <1>4, <1>9 DEF platform, gateway
<1>10. QED
  BY <1>5, <1>6, <1>7, <1>8, <1>9 DEF PlatformNext

LEMMA RegistrationNextKeeps == IInv /\ PInv /\ RInv /\ [PlatformNext]_platform => RInv'
  BY NextRefines, CollisionsStep, RelayedAndGivenUp DEF RInv

LEMMA RegistrationInitEstablishes == PlatformInit => RInv
  BY DEF PlatformInit, Init, RInv, Collisions, Relayed, GivenUp

-----------------------------------------------------------------------------
(* Whose answer a client gets                                               *)

\* What ExtJWTData says of a token is what the reply that issued it said.
TokenRead(c) ==
    req[c] \in ExtReqs /\ who[c] # NoOne =>
        pc[req[c].token] = "done" /\ who[c] = who[req[c].token]

TokensRead == \A c \in Calls : TokenRead(c)

LEMMA TokensReadStep == IInv /\ TokensRead /\ [Next]_vars => TokensRead'
<1> SUFFICES ASSUME IInv, TokensRead, [Next]_vars, NEW c \in Calls PROVE TokenRead(c)'
  BY DEF TokensRead
<1> USE DEF IInv, TypeOK
<1>1. TokenRead(c) /\ Settled
  BY SettledStep DEF TokensRead
<1>2. ASSUME req'[c] = req[c], who'[c] = who[c] PROVE TokenRead(c)'
  BY <1>1, <1>2, Fields DEF TokenRead, Settled
<1>3. ASSUME NEW d \in Calls, Receive(d) PROVE TokenRead(c)'
  <2>1. Private(d) /\ pc[d] = "idle" /\ who[d] = NoOne
    BY <1>3, ReceiveIsPrivate DEF Untouched
  <2>2. CASE d # c
    BY <1>2, <2>1, <2>2 DEF Private
  <2>3. CASE d = c
    <3>1. ASSUME NEW r \in Credentials, ExtParse(c, r) PROVE TokenRead(c)'
      <4>1. r.token \in Calls /\ pc[r.token] = "done" /\ req'[c] = r
        BY <3>1, IssuedIsSettled DEF Credentials, ExtParse, Arrive
      <4>2. pc'[r.token] = "done" /\ who'[r.token] = who[r.token]
        BY <1>1, <4>1 DEF Settled
      <4>3. who'[c] \in {NoOne, who[r.token]}
        BY <2>1, <2>3, <3>1 DEF ExtParse
      <4>4. QED
        BY <4>1, <4>2, <4>3 DEF TokenRead
    <3>2. ASSUME NEW r \in RegReqs \cup LogReqs \cup Removals,
                 RegSession(c, r) \/ LogReceive(c, r) \/ DelSession(c, r), req'[c] \in ExtReqs
          PROVE  who'[c] = NoOne
      <4>1. req'[c] = r /\ r \in ExtReqs
        BY <3>2 DEF RegSession, LogReceive, DelSession, Arrive
      <4>2. r \in Removals
        BY <3>2, <4>1, Kinds
      <4>3. QED
        BY <4>1, <4>2, OpOfRequest DEF Removals
    <3>3. QED
      BY <1>3, <2>3, <3>1, <3>2 DEF Receive, TokenRead
  <2>4. QED
    BY <2>2, <2>3
<1>4. ASSUME NEW d \in Calls, Continue(d) PROVE TokenRead(c)'
  <2>1. UNCHANGED req
    BY <1>4, ContinueIsPrivate
  <2>2. CASE LogLookup(d)
    <3>1. d = c => req[c] \notin ExtReqs
      BY <2>2, Kinds DEF LogLookup, Handlers, AtStep
    <3>2. d # c => who'[c] = who[c]
      BY <1>4, ContinueIsPrivate DEF Private
    <3>3. QED
      BY <1>2, <2>1, <3>1, <3>2 DEF TokenRead
  <2>3. CASE ~LogLookup(d)
    <3>1. UNCHANGED who
      BY <1>4, <2>3 DEF Continue, RegInsert, LogSession, ExtValidate, DelBegin, DelCheck, DelExec
    <3>2. QED
      BY <1>2, <2>1, <3>1
  <2>4. QED
    BY <2>2, <2>3
<1>5. CASE Environment \/ UNCHANGED vars
  BY <1>2, <1>5 DEF Environment, TokenExpires, SessionExpires, Restart, vars
<1>6. QED
  BY <1>3, <1>4, <1>5 DEF Next

LEMMA OwnAnswers == IInv /\ PInv /\ TokensRead => AnswersAreOwn
<1> SUFFICES ASSUME IInv, PInv, TokensRead, NEW h \in Https, status[h] = "ok"
             PROVE
               LET answer == who[current[h]] IN
               /\ form[h] \in RegReqs => answer = [id |-> current[h], role |-> form[h].role]
               /\ form[h] \in LogReqs =>
                     /\ Opened(answer.id)
                     /\ UserName[req[answer.id].profile] = UserName[form[h].profile]
                     /\ req[answer.id].pswd = form[h].pswd
               /\ form[h] \in ShowForms =>
                     /\ answer = vouched[h]
                     /\ \A c \in {form[h].token, form[h].sk, form[h].shown} : who[c] = answer
  BY DEF AnswersAreOwn, Opened
<1> DEFINE c == current[h]
<1>1. /\ c \in Calls /\ result[c] = "ok" /\ req[c] = HandlerRequest(form[h], vouched[h])
      /\ form[h] \in ShowForms => vouched[h] = who[form[h].sk] /\ Confirmed(h, vouched[h])
  BY DEF PInv, Pipeline, PlatformTypeOK
<1>2. form[h] \in RegReqs \cup LogReqs => req[c] = form[h]
  BY <1>1, OpOfRequest DEF HandlerRequest
<1>3. ASSUME form[h] \in RegReqs PROVE who[c] = [id |-> c, role |-> form[h].role]
  <2>1. who[c] \in Identities /\ who[c].id = c /\ who[c].role = req[c].role
    BY <1>1, <1>2, <1>3 DEF IInv, TypeOK, Replies, Known, HasRole, Account
  <2>2. QED
    BY <1>2, <1>3, <2>1 DEF Identities
<1>4. ASSUME form[h] \in LogReqs
      PROVE  /\ Opened(who[c].id)
             /\ UserName[req[who[c].id].profile] = UserName[form[h].profile]
             /\ req[who[c].id].pswd = form[h].pswd
  BY <1>1, <1>2, <1>4, Kinds DEF IInv, Replies, Known, Logins
<1>5. ASSUME form[h] \in ShowForms
      PROVE  /\ who[c] = vouched[h]
             /\ \A t \in {form[h].token, form[h].sk, form[h].shown} : who[t] = who[c]
  <2>1. /\ req[c] \in ExtReqs /\ req[c].sk = form[h].sk /\ req[c].token = form[h].shown
        /\ form[h].token \in Calls
    BY <1>1, <1>5, OpOfRequest DEF HandlerRequest, ExtReqs
  <2>2. who[c] # NoOne /\ who[c] = who[form[h].sk] /\ who[c] = who[form[h].shown]
    BY <1>1, <2>1 DEF IInv, Replies, TokensRead, TokenRead
  <2>3. PICK a \in Calls :
            /\ req[a] \in ExtReqs /\ result[a] = "ok"
            /\ req[a].token = form[h].token /\ who[a] = vouched[h]
    BY <1>1, <1>5 DEF Confirmed
  <2>4. who[a] = who[form[h].token]
    BY <2>3 DEF IInv, Replies, TokensRead, TokenRead
  <2>5. QED
    BY <1>1, <1>5, <2>2, <2>3, <2>4
<1>6. QED
  BY <1>3, <1>4, <1>5

-----------------------------------------------------------------------------
(* Theorems                                                                 *)

\* What a request may rely on, whatever is lost, repeated or late.
THEOREM PlatformInvariance == PlatformSpec => []PInv
<1>1. QED
  BY PlatformInitEstablishes, PlatformNextKeeps, PTL DEF PlatformSpec

\* The gateway and the network keep what UserService assumes of its clients, so every
\* theorem about UserService holds behind the gateway.
THEOREM PlatformRefinement == PlatformSpec => ImplementsService
<1>1. PlatformInit => Init
  BY DEF PlatformInit
<1>2. QED
  BY <1>1, PlatformInitEstablishes, PlatformNextKeeps, NextRefines, PTL
     DEF PlatformSpec, Spec, ImplementsService

\* 200 for a deletion means that the account is gone for good.
THEOREM DeletionsAreReported == PlatformSpec => []DeletionReported
<1>1. IInv /\ PInv => DeletionReported
  <2> SUFFICES ASSUME IInv, PInv, NEW h \in Https, form[h] \in DelForms, status[h] = "ok"
               PROVE  LET i == req[current[h]].target IN
                      /\ users[i] = NoUser /\ i \in removed
                      /\ i = IF form[h].target = "me" THEN who[form[h].sk].id ELSE form[h].target
    BY DEF DeletionReported
  <2> DEFINE c == current[h]
  <2>1. /\ c \in Calls /\ result[c] = "ok" /\ vouched[h] = who[form[h].sk]
        /\ req[c] = HandlerRequest(form[h], vouched[h])
    BY DEF PInv, Pipeline, PlatformTypeOK
  <2>2. req[c].op = "del"
        /\ req[c].target = IF form[h].target = "me" THEN vouched[h].id ELSE form[h].target
    BY <2>1, OpOfRequest DEF HandlerRequest
  <2>3. req[c] \in DelReqs
    <3>1. pc[c] # "idle"
      BY <2>1, IssuedIsSettled
    <3>2. req[c] \in Requests
      BY <2>1, <3>1 DEF PInv, Sending, PlatformTypeOK
    <3>3. QED
      BY <2>2, <3>2, OpOfRequest DEF Requests
  <2>4. users[req[c].target] = NoUser /\ req[c].target \in removed
    BY <2>1, <2>3, Fields DEF IInv, Replies, Table
  <2>5. QED
    BY <2>1, <2>2, <2>4
<1>2. QED
  BY <1>1, PlatformInitEstablishes, PlatformNextKeeps, PTL DEF PlatformSpec

\* Rows disappear only for identities the service confirmed for the request.
THEOREM RemovalsAreAuthenticated == PlatformSpec => RemovalAuthenticated
<1> DEFINE Authenticated ==
    \A i \in Calls : users[i] # NoUser /\ users'[i] # users[i] =>
        \E c \in Calls :
            /\ Authorised(c, i)
            /\ form[Caller[c]] \in DelForms /\ form[Caller[c]].target \in {i, "me"}
            /\ Confirmed(Caller[c], [id |-> req[c].user, role |-> req[c].role])
<1>1. ASSUME IInv, PInv, [PlatformNext]_platform PROVE Authenticated
  <2>1. SUFFICES ASSUME NEW i \in Calls, users[i] # NoUser, users'[i] # users[i],
                        NEW c \in Calls, Authorised(c, i)
                 PROVE  /\ form[Caller[c]] \in DelForms /\ form[Caller[c]].target \in {i, "me"}
                        /\ Confirmed(Caller[c], [id |-> req[c].user, role |-> req[c].role])
    BY <1>1, NextRefines, RemovalStep DEF Allowed
  <2>2. pc[c] = "delExec" /\ req[c].target = i /\ req[c] \in DelReqs
    BY <1>1, <2>1 DEF Authorised, IInv, Handlers, AtStep
  <2>3. sent[c] = req[c]
    BY <1>1, <2>2 DEF PInv, Sending
  <2>4. QED
    BY <1>1, <2>2, <2>3 DEF PInv, Sending
<1>2. IInv /\ PInv /\ [PlatformNext]_platform => [Authenticated]_platform
  BY <1>1
<1>3. QED
  BY <1>2, PlatformInitEstablishes, PlatformNextKeeps, PTL DEF PlatformSpec, RemovalAuthenticated

\* Whatever the gateway repeats or gives up, what it does to the accounts is what the
\* ledger of accounts allows.
THEOREM LedgerBehindGateway == PlatformSpec => ImplementsLedger
  BY PlatformRefinement, Refinement, PTL DEF ImplementsService

\* Nobody gets somebody else's answer, and nobody is shown an account that JWTAuth did
\* not let in with the same key.
THEOREM AnswersBelong == PlatformSpec => []AnswersAreOwn
<1>1. PlatformInit => TokensRead
  BY DEF PlatformInit, Init, TokensRead, TokenRead
<1>2. IInv /\ PInv /\ TokensRead /\ [PlatformNext]_platform => TokensRead'
  BY NextRefines, TokensReadStep
<1>3. QED
  BY <1>1, <1>2, OwnAnswers, PlatformInitEstablishes, PlatformNextKeeps, PTL DEF PlatformSpec

\* However often it is repeated, a registration opens one account at a time, a client
\* told "ok" holds the key of one that was opened, and "exists" is true: of somebody
\* else's account, or of a lost attempt's.
THEOREM RegistrationsHappenOnce == PlatformSpec => []RegistrationIsOnce
<1>1. ASSUME IInv, PInv, RInv PROVE RegistrationIsOnce
  <2> SUFFICES ASSUME NEW h \in Https, form[h] \in RegReqs
               PROVE
                 /\ \A c, d \in Calls : Caller[c] = h /\ Caller[d] = h
                       /\ users[c] # NoUser /\ users[d] # NoUser => c = d
                 /\ status[h] = "ok" => users[current[h]] # NoUser \/ current[h] \in removed
                 /\ status[h] = "exists" =>
                       \E d \in Calls \ {current[h]} :
                           /\ users[d] # NoUser \/ d \in removed
                           /\ UserName[req[d].profile] = UserName[form[h].profile]
                           /\ Caller[d] = h => tries[h] > 0
    BY DEF RegistrationIsOnce
  <2>1. /\ Pipeline(h) /\ Relayed(h) /\ GivenUp(h) /\ PlatformTypeOK
        /\ \A c \in Calls : Sending(c)
    BY <1>1 DEF PInv, RInv
  <2>2. \A c \in Calls : Opened(c) => pc[c] = "done" /\ req[c] \in RegReqs
    BY <1>1 DEF IInv, Table, Registration
  <2>3. ASSUME NEW c \in Calls, Caller[c] = h, pc[c] = "done", req[c] \in RegReqs
        PROVE  form[h] = req[c]
    BY <2>1, <2>3 DEF Sending
  <2>4. ASSUME NEW c \in Calls, NEW d \in Calls, Caller[c] = h, Caller[d] = h,
               users[c] # NoUser, users[d] # NoUser
        PROVE  c = d
    <3>1. req[c] = req[d]
      BY <2>2, <2>3, <2>4 DEF Opened
    <3>2. users[c] = users[d]
      BY <1>1, <2>4, <3>1 DEF IInv, Table
    <3>3. QED
      BY <1>1, <2>4, <3>2 DEF IInv, UserNamesDiffer
  <2>5. ASSUME status[h] = "ok" PROVE Opened(current[h])
    <3>1. /\ current[h] \in Calls /\ result[current[h]] = "ok"
          /\ req[current[h]] = HandlerRequest(form[h], vouched[h])
      BY <2>1, <2>5 DEF Pipeline, PlatformTypeOK
    <3>2. HandlerRequest(form[h], vouched[h]) = form[h]
      BY OpOfRequest DEF HandlerRequest
    <3>3. QED
      BY <1>1, <3>1, <3>2 DEF IInv, Replies
  <2>6. ASSUME status[h] = "exists"
        PROVE  \E d \in Calls \ {current[h]} :
                   /\ Opened(d) /\ UserName[req[d].profile] = UserName[form[h].profile]
                   /\ Caller[d] = h => tries[h] > 0
    <3> DEFINE c == current[h]
    <3>1. c \in Calls /\ result[c] = "exists" /\ Caller[c] = h
      BY <2>1, <2>6 DEF Relayed, Pipeline, PlatformTypeOK
    <3>2. NameHeld(c) /\ pc[c] = "done"
      BY <1>1, <3>1 DEF RInv, Collisions, IInv, Untouched
    <3>3. form[h] = req[c]
      BY <2>3, <3>1, <3>2 DEF NameHeld
    <3>4. PICK d \in Calls \ {c} :
              Opened(d) /\ UserName[req[d].profile] = UserName[req[c].profile]
      BY <3>2 DEF NameHeld
    <3>5. Caller[d] = h => tries[h] > 0
      BY <2>1, <2>2, <3>4 DEF Sending, GivenUp
    <3>6. QED
      BY <3>3, <3>4, <3>5
  <2>7. QED
    BY <2>4, <2>5, <2>6 DEF Opened
<1>2. PlatformInit => IInv /\ PInv /\ RInv
  BY PlatformInitEstablishes, RegistrationInitEstablishes
<1>3. IInv /\ PInv /\ RInv /\ [PlatformNext]_platform => (IInv /\ PInv /\ RInv)'
  BY PlatformNextKeeps, RegistrationNextKeeps
<1>4. QED
  BY <1>1, <1>2, <1>3, PTL DEF PlatformSpec
=============================================================================
