-------------------------- MODULE HcmExchange_proofs --------------------------
(***************************************************************************)
(* What the client of the HCM returns and throws, and that its applyLeave  *)
(* implements HcmClient, for any number of calls, balances and retries and *)
(* any arguments.                                                          *)
(***************************************************************************)
EXTENDS HcmExchange, TLAPS

(* The properties speak of calls that have ended.  They are inductive      *)
(* together with what holds of the answer on its way: it says what was     *)
(* true of a state the call has seen, and it is the answer to the last     *)
(* attempt, of which nothing is left on the wire.                          *)
ServiceOrders ==
  [op : {"getBalance"}, balance : Balances]
    \cup [op : {"validate"}, balance : Balances, days : Days]
    \cup [op : {"apply"}, request : Requests, balance : Balances,
          days : Days \cup {-d : d \in Days}]
    \cup [op : {"fullSync"}, corpus : [HcmRows -> Nat]]

MethodPhases == {"off", "sending", "waiting", "reading", "ok", "failed"}

IsMethod(k) ==
  /\ k \in [phase : MethodPhases, attempt : 0..(MaxRetries + 1),
             order : {k.order}, reply : {k.reply}, result : {k.result},
             error : {k.error}]
  /\ k.phase = "off" => k = Unused
  /\ k.phase # "off" => k.order \in ServiceOrders
  /\ k.phase = "sending" => k.attempt <= MaxRetries
  /\ k.phase \in {"off", "sending", "ok", "failed"} => k.reply = NoReply
  /\ k.phase = "reading" => k.reply # NoReply

Covered(o, h) == o.balance \in HcmRows /\ h[o.balance] >= o.days

(* An answer with status 200 and a body is true of one of the states S.    *)
TrueOf(o, body, S) ==
  /\ o.op = "getBalance" => \E h \in S : h[o.balance] = body.balance
  /\ o.op = "validate" => \E h \in S : body.valid = Covered(o, h)
  /\ o.op = "apply" =>
       IF body.success
         THEN \E h, i \in S : /\ Covered(o, h)
                              /\ i[o.balance] = h[o.balance] - o.days
         ELSE \E h \in S : ~ Covered(o, h)
  /\ o.op = "fullSync" => o.corpus \in S

(* An error status is one the endpoint gives.                              *)
ErrorOf(o, status) ==
  /\ status \in {400, 404, 500, 504}
  /\ status = 404 => o.op = "getBalance"
  /\ status = 400 => o.op = "validate" /\ o.balance \notin Known
  /\ status \in {500, 504} => o.op = "getBalance"

ReplyOK(o, reply, S) ==
  \/ reply.status = 200 /\ TrueOf(o, reply.body, S)
  \/ ErrorOf(o, reply.status)

ResultOK(k, S) ==
  /\ TrueOf(k.order, k.result, S)
  /\ k.order.op = "apply" => k.result.success

Refusal(o, S) ==
  \/ o.op = "validate" /\ o.balance \notin Known
  \/ o.op = "apply" /\ \E h \in S : ~ Covered(o, h)

ErrorOK(k, S) ==
  /\ k.attempt <= MaxRetries => k.error \in {400, 404}
  /\ k.error = 404 => k.order.op = "getBalance"
  /\ k.error = 400 => Refusal(k.order, S)

MethodOK(k, S) ==
  /\ IsMethod(k)
  /\ k.reply # NoReply => k.reply.status # 0 /\ ReplyOK(k.order, k.reply, S)
  /\ k.phase = "ok" => ResultOK(k, S)
  /\ k.phase = "failed" => ErrorOK(k, S)

(* While it waits it sees the HCM.                                         *)
Watches(c) == client[c].phase \in {"waiting", "reading"} => hcm \in seen[c]

MessageOK(m) ==
  /\ m = [call |-> m.call, attempt |-> m.attempt, order |-> m.order]
  /\ m.call \in Calls
  /\ m.attempt \in 1..client[m.call].attempt
  /\ m.order = client[m.call].order /\ m.order \in ServiceOrders
  /\ client[m.call].reply # NoReply => m.attempt # client[m.call].attempt

ExchangeInv ==
  /\ hcm \in [HcmRows -> Nat]
  /\ served \in [Calls -> Nat]
  /\ \A c \in Calls : client[c].phase = "off" => served[c] = 0
  /\ seen = [c \in Calls |-> seen[c]]
  /\ \A c \in Calls : seen[c] \subseteq [HcmRows -> Nat]
  /\ client = [c \in Calls |-> client[c]]
  /\ \A c \in Calls : MethodOK(client[c], seen[c]) /\ Watches(c)
  /\ \A m \in wire : MessageOK(m)

-----------------------------------------------------------------------------
LEMMA OrderFacts ==
  ASSUME NEW o \in ServiceOrders
  PROVE  /\ o # <<>>
         /\ o.op \in {"getBalance", "validate", "apply", "fullSync"}
         /\ o.op = "apply" =>
              /\ o = [op |-> "apply", request |-> o.request,
                      balance |-> o.balance, days |-> o.days]
              /\ o.request \in Requests /\ o.balance \in Balances
              /\ o.days \in Days \cup {-d : d \in Days}
              /\ o.days \in Int /\ o.days # 0
         /\ o.op = "fullSync" => o.corpus \in [HcmRows -> Nat]
<1>1. Days \subseteq Nat \ {0}
  BY ExchangeAssumption DEF ExchangeAssumption
<1>2. CASE o \in [op : {"getBalance"}, balance : Balances]
  BY <1>2
<1>3. CASE o \in [op : {"validate"}, balance : Balances, days : Days]
  BY <1>3
<1>4. CASE o \in [op : {"apply"}, request : Requests, balance : Balances,
                  days : Days \cup {-d : d \in Days}]
  <2>1. /\ o = [op |-> "apply", request |-> o.request,
                balance |-> o.balance, days |-> o.days]
        /\ o.request \in Requests /\ o.balance \in Balances
        /\ o.days \in Days \cup {-d : d \in Days}
    BY <1>4
  <2>2. o.days \in Int /\ o.days # 0
    BY <1>1, <2>1
  <2>3. o # <<>>
    <3>1. "op" \in DOMAIN o
      BY <1>4
    <3>2. "op" \notin DOMAIN <<>>
      OBVIOUS
    <3> QED
      BY <3>1, <3>2
  <2> QED
    BY <2>1, <2>2, <2>3
<1>5. CASE o \in [op : {"fullSync"}, corpus : [HcmRows -> Nat]]
  <2>1. o.op = "fullSync" /\ o.corpus \in [HcmRows -> Nat]
    BY <1>5
  <2>2. o # <<>>
    <3>1. "op" \in DOMAIN o
      BY <1>5
    <3>2. "op" \notin DOMAIN <<>>
      OBVIOUS
    <3> QED
      BY <3>1, <3>2
  <2> QED
    BY <2>1, <2>2
<1> QED
  BY <1>2, <1>3, <1>4, <1>5 DEF ServiceOrders

LEMMA ArgumentsAreOrders ==
  ASSUME NEW o \in Arguments
  PROVE  o \in ServiceOrders
  BY ExchangeAssumption DEF ExchangeAssumption, IsOrder, ServiceOrders

(* What was true of a state the call has seen stays true of one it has     *)
(* seen.                                                                   *)
LEMMA SeenGrows ==
  ASSUME NEW k, NEW S, NEW T, S \subseteq T, MethodOK(k, S)
  PROVE  MethodOK(k, T)
<1>1. ASSUME NEW o, NEW body, TrueOf(o, body, S) PROVE TrueOf(o, body, T)
  BY <1>1 DEF TrueOf
<1>2. ReplyOK(k.order, k.reply, S) => ReplyOK(k.order, k.reply, T)
  BY <1>1 DEF ReplyOK
<1>3. ResultOK(k, S) => ResultOK(k, T)
  BY <1>1 DEF ResultOK
<1>4. ErrorOK(k, S) => ErrorOK(k, T)
  BY DEF ErrorOK, Refusal
<1> QED
  BY <1>2, <1>3, <1>4 DEF MethodOK

LEMMA FailedOK ==
  ASSUME NEW c, NEW S, MethodOK(client[c], S), NEW status \in Nat,
         client[c].phase \in {"waiting", "reading"},
         \/ status = 0
         \/ ErrorOf(client[c].order, status)
         \/ status = 400 /\ Refusal(client[c].order, S)
  PROVE  /\ MethodOK(Failed(c, status), S)
         /\ Failed(c, status).phase =
              IF IsRetryable(status) /\ client[c].attempt <= MaxRetries
                THEN "sending" ELSE "failed"
         /\ Failed(c, status).order = client[c].order
         /\ Failed(c, status).attempt = client[c].attempt
         /\ Failed(c, status).reply = NoReply
         /\ Failed(c, status).phase = "failed" =>
              Failed(c, status).error = status
<1> DEFINE k == client[c]
<1>0. MaxRetries \in Nat
  BY ExchangeAssumption DEF ExchangeAssumption
<1>1. IsMethod(k)
  BY DEF MethodOK
<1>2. CASE IsRetryable(status) /\ k.attempt <= MaxRetries
  <2> DEFINE e == [k EXCEPT !.phase = "sending", !.reply = NoReply]
  <2>1. Failed(c, status) = e
    BY <1>2 DEF Failed
  <2>2. e \in [phase : {"sending"}, attempt : {k.attempt}, order : {k.order},
             reply : {NoReply}, result : {k.result}, error : {k.error}]
    BY <1>1 DEF IsMethod
  <2> HIDE DEF e
  <2>3. IsMethod(e)
    BY <1>1, <1>2, <2>2 DEF IsMethod, MethodPhases
  <2>4. MethodOK(e, S)
    BY <2>2, <2>3 DEF MethodOK
  <2> QED
    BY <1>2, <2>1, <2>2, <2>4
<1>3. CASE ~ (IsRetryable(status) /\ k.attempt <= MaxRetries)
  <2> DEFINE e == [k EXCEPT !.phase = "failed", !.reply = NoReply,
                            !.error = status]
  <2>1. Failed(c, status) = e
    BY <1>3 DEF Failed
  <2>2. e \in [phase : {"failed"}, attempt : {k.attempt}, order : {k.order},
             reply : {NoReply}, result : {k.result}, error : {status}]
    BY <1>1 DEF IsMethod
  <2> HIDE DEF e
  <2>3. IsMethod(e)
    BY <1>1, <2>2 DEF IsMethod, MethodPhases
  <2>4. ErrorOK(e, S)
    <3>1. k.attempt <= MaxRetries => status \in {400, 404}
      BY <1>3 DEF IsRetryable, ErrorOf
    <3>2. /\ status = 404 => k.order.op = "getBalance"
          /\ status = 400 => Refusal(k.order, S)
      BY DEF ErrorOf, Refusal
    <3> QED
      BY <2>2, <3>1, <3>2 DEF ErrorOK
  <2>5. MethodOK(e, S)
    BY <2>2, <2>3, <2>4 DEF MethodOK
  <2> QED
    BY <1>3, <2>1, <2>2, <2>5
<1> QED
  BY <1>2, <1>3

-----------------------------------------------------------------------------
LEMMA ExchangeInitInv == ExchangeInit => ExchangeInv
<1> SUFFICES ASSUME ExchangeInit PROVE ExchangeInv
  OBVIOUS
<1>0. MaxRetries \in Nat /\ HcmTotals \subseteq Nat
  BY ExchangeAssumption DEF ExchangeAssumption
<1>1. \A c \in Calls : client[c] = Unused
  BY DEF ExchangeInit
<1>2. IsMethod(Unused)
  BY <1>0 DEF IsMethod, MethodPhases, Unused
<1>3. \A S : MethodOK(Unused, S)
  BY <1>2 DEF MethodOK, Unused
<1>4. \A c \in Calls : Watches(c)
  BY <1>1 DEF Watches, Unused
<1> QED
  BY <1>0, <1>1, <1>3, <1>4 DEF ExchangeInit, ExchangeInv

OthersStay(c) ==
  /\ client' = [d \in Calls |-> client'[d]]
  /\ \A d \in Calls : d # c => client'[d] = client[d]

LEMMA ChangesOne ==
  ASSUME ExchangeInv, NEW c \in Calls, NEW k,
         client' = [client EXCEPT ![c] = k]
  PROVE  client'[c] = k /\ OthersStay(c)
  BY DEF ExchangeInv, OthersStay

(* One call moves, and nothing is sent.                                    *)
LEMMA OneMoves ==
  ASSUME ExchangeInv, NEW c \in Calls, NEW k,
         client'[c] = k, OthersStay(c),
         UNCHANGED <<hcm, wire, served, seen>>,
         MethodOK(k, seen[c]), k.phase # "off",
         k.phase \in {"waiting", "reading"} =>
           client[c].phase \in {"waiting", "reading"},
         client[c].attempt = 0 \/ k.order = client[c].order,
         k.attempt = client[c].attempt,
         k.reply # NoReply => client[c].reply # NoReply
  PROVE  ExchangeInv'
<1>1. client'[c] = k /\ \A d \in Calls : d # c => client'[d] = client[d]
  BY DEF OthersStay
<1>2. ASSUME NEW d \in Calls
      PROVE  MethodOK(client[d], seen[d])' /\ Watches(d)'
  BY <1>1 DEF ExchangeInv, Watches
<1>3. ASSUME NEW m \in wire' PROVE MessageOK(m)'
  <2>1. MessageOK(m)
    BY <1>3 DEF ExchangeInv
  <2>2. CASE m.call = c
    BY <1>1, <2>1, <2>2 DEF MessageOK
  <2>3. CASE m.call # c
    BY <1>1, <2>1, <2>3 DEF MessageOK
  <2> QED
    BY <2>2, <2>3
<1>4. \A d \in Calls : client'[d].phase = "off" => served'[d] = 0
  BY <1>1 DEF ExchangeInv
<1> QED
  BY <1>2, <1>3, <1>4 DEF ExchangeInv, OthersStay

LEMMA CallStep ==
  ASSUME ExchangeInv, NEW c \in Calls, NEW o \in Arguments, Call(c, o)
  PROVE  ExchangeInv'
<1>0. MaxRetries \in Nat /\ o \in ServiceOrders
  BY ExchangeAssumption, ArgumentsAreOrders DEF ExchangeAssumption
<1>1. client[c] = Unused /\ UNCHANGED <<hcm, wire, served, seen>>
  BY DEF Call
<1>2. OthersStay(c)
  BY DEF Call, ExchangeInv, OthersStay
<1>3. PICK k : k = client'[c]
  OBVIOUS
<1>4. k \in [phase : {"sending"}, attempt : {0}, order : {o},
           reply : {NoReply}, result : {NoBody}, error : {0}]
  <2>1. k = [client[c] EXCEPT !.phase = "sending", !.order = o]
    BY <1>3 DEF Call, ExchangeInv
  <2>2. k = [Unused EXCEPT !.phase = "sending", !.order = o]
    BY <1>1, <2>1
  <2> QED
    BY <2>2 DEF Unused
<1>5. MethodOK(k, seen[c])
  BY <1>0, <1>4 DEF MethodOK, IsMethod, MethodPhases
<1>6. client[c].attempt = 0
  BY <1>1 DEF Unused
<1> QED
  BY <1>1, <1>2, <1>3, <1>4, <1>5, <1>6, OneMoves

LEMMA FailStep ==
  ASSUME ExchangeInv, NEW c \in Calls, NEW status \in Nat,
         client' = [client EXCEPT ![c] = Failed(c, status)],
         UNCHANGED <<hcm, wire, served, seen>>,
         client[c].phase \in {"waiting", "reading"},
         \/ status = 0
         \/ ErrorOf(client[c].order, status)
         \/ status = 400 /\ Refusal(client[c].order, seen[c])
  PROVE  ExchangeInv'
<1>1. MethodOK(client[c], seen[c])
  BY DEF ExchangeInv
<1>2. PICK k : k = Failed(c, status)
  OBVIOUS
<1>3. /\ MethodOK(k, seen[c]) /\ k.phase \in {"sending", "failed"}
      /\ k.order = client[c].order /\ k.attempt = client[c].attempt
      /\ k.reply = NoReply
  <2>1. MethodOK(Failed(c, status), seen[c])
    BY <1>1, FailedOK
  <2>2. /\ Failed(c, status).phase \in {"sending", "failed"}
        /\ Failed(c, status).order = client[c].order
        /\ Failed(c, status).attempt = client[c].attempt
        /\ Failed(c, status).reply = NoReply
    BY <1>1, FailedOK
  <2> QED
    BY <1>2, <2>1, <2>2
<1>4. client' = [client EXCEPT ![c] = k]
  BY <1>2
<1>5. client'[c] = k /\ OthersStay(c)
  BY <1>4, ChangesOne
<1> QED
  BY <1>3, <1>5, OneMoves

LEMMA StatusStep ==
  ASSUME ExchangeInv, NEW c \in Calls, StatusArrives(c)
  PROVE  ExchangeInv'
<1> DEFINE k0 == client[c]
           k == [k0 EXCEPT !.phase = "reading"]
<1>1. MethodOK(k0, seen[c]) /\ IsMethod(k0)
  BY DEF ExchangeInv, MethodOK
<1>2. client' = [client EXCEPT ![c] = k] /\ k0.phase = "waiting"
      /\ k0.reply # NoReply
  BY DEF StatusArrives
<1>3. k \in [phase : {"reading"}, attempt : {k0.attempt}, order : {k0.order},
           reply : {k0.reply}, result : {k0.result}, error : {k0.error}]
  BY <1>1 DEF IsMethod
<1> HIDE DEF k
<1>4. IsMethod(k)
  BY <1>1, <1>2, <1>3 DEF IsMethod, MethodPhases
<1>5. MethodOK(k, seen[c])
  BY <1>1, <1>2, <1>3, <1>4 DEF MethodOK
<1>6. UNCHANGED <<hcm, wire, served, seen>>
  BY DEF StatusArrives
<1>7. client'[c] = k /\ OthersStay(c)
  BY <1>2, ChangesOne
<1> QED
  BY <1>2, <1>3, <1>5, <1>6, <1>7, OneMoves

(* What an accepted answer says is true, and one that is not accepted is   *)
(* an error the method has earned.                                         *)
LEMMA BodyStep ==
  ASSUME ExchangeInv, NEW c \in Calls, BodyArrives(c)
  PROVE  ExchangeInv'
<1> DEFINE k0 == client[c]
           reply == client[c].reply
<1>1. MethodOK(k0, seen[c]) /\ IsMethod(k0)
  BY DEF ExchangeInv, MethodOK
<1>2. /\ k0.phase = "reading" /\ UNCHANGED <<hcm, wire, served, seen>>
      /\ k0.reply # NoReply
      /\ k0.order \in ServiceOrders
  BY <1>1 DEF BodyArrives, IsMethod
<1>3. ReplyOK(k0.order, reply, seen[c])
  BY <1>1, <1>2 DEF MethodOK
<1>4. CASE Accepted(k0.order, reply)
  <2> DEFINE k == [k0 EXCEPT !.phase = "ok", !.result = reply.body,
                             !.reply = NoReply]
  <2>1. client' = [client EXCEPT ![c] = k]
    BY <1>4 DEF BodyArrives
  <2>2. k \in [phase : {"ok"}, attempt : {k0.attempt}, order : {k0.order},
             reply : {NoReply}, result : {reply.body}, error : {k0.error}]
    BY <1>1 DEF IsMethod
  <2> HIDE DEF k
  <2>3. IsMethod(k)
    BY <1>1, <1>2, <2>2 DEF IsMethod, MethodPhases
  <2>4. reply.status = 200 /\ (k0.order.op = "apply" => reply.body.success)
    BY <1>4 DEF Accepted
  <2>5. TrueOf(k0.order, reply.body, seen[c])
    BY <1>3, <2>4 DEF ReplyOK, ErrorOf
  <2>6. ResultOK(k, seen[c])
    BY <2>2, <2>4, <2>5 DEF ResultOK
  <2>7. MethodOK(k, seen[c])
    BY <2>2, <2>3, <2>6 DEF MethodOK
  <2>8. client'[c] = k /\ OthersStay(c)
    BY <2>1, ChangesOne
  <2> QED
    BY <1>2, <2>2, <2>7, <2>8, OneMoves
<1>5. CASE ~ Accepted(k0.order, reply)
  <2> DEFINE status == IF reply.status = 200 THEN 400 ELSE reply.status
  <2>1. client' = [client EXCEPT ![c] = Failed(c, status)]
    BY <1>5 DEF BodyArrives
  <2>2. CASE reply.status = 200
    <3>1. k0.order.op = "apply" /\ ~ reply.body.success
      BY <1>5, <2>2 DEF Accepted
    <3>2. TrueOf(k0.order, reply.body, seen[c])
      BY <1>3, <2>2 DEF ReplyOK, ErrorOf
    <3>3. Refusal(k0.order, seen[c])
      BY <3>1, <3>2 DEF TrueOf, Refusal
    <3>4. client' = [client EXCEPT ![c] = Failed(c, 400)]
      BY <2>1, <2>2
    <3>5. 400 \in Nat /\ client[c].phase \in {"waiting", "reading"}
      BY <1>2
    <3>6. 400 = 400 /\ Refusal(client[c].order, seen[c])
      BY <3>3
    <3> HIDE DEF k0, reply
    <3> QED
      BY <1>2, <3>4, <3>5, <3>6, FailStep, ZenonT(60)
  <2>3. CASE reply.status # 200
    <3>1. ErrorOf(k0.order, reply.status)
      BY <1>3, <2>3 DEF ReplyOK
    <3>2. reply.status \in Nat
      BY <3>1 DEF ErrorOf
    <3> QED
      BY <1>2, <2>1, <2>3, <3>1, <3>2, FailStep
  <2> QED
    BY <2>2, <2>3
<1> QED
  BY <1>4, <1>5
-----------------------------------------------------------------------------
LEMMA SendStep ==
  ASSUME ExchangeInv, NEW c \in Calls, Send(c)
  PROVE  ExchangeInv'
<1>0. MaxRetries \in Nat
  BY ExchangeAssumption DEF ExchangeAssumption
<1>1. MethodOK(client[c], seen[c]) /\ IsMethod(client[c])
  BY DEF ExchangeInv, MethodOK
<1>2. /\ client[c].phase = "sending" /\ client[c].attempt <= MaxRetries
      /\ client[c].attempt \in Nat
      /\ client[c].reply = NoReply /\ client[c].order \in ServiceOrders
  BY <1>1 DEF Send, IsMethod
<1>3. PICK k : k = client'[c]
  OBVIOUS
<1>4. k \in [phase : {"waiting"}, attempt : {client[c].attempt + 1},
             order : {client[c].order}, reply : {NoReply},
             result : {client[c].result}, error : {client[c].error}]
  <2>1. k = [client[c] EXCEPT !.phase = "waiting", !.attempt = @ + 1]
    BY <1>3 DEF Send, ExchangeInv
  <2>2. PICK k0 : k0 = client[c]
    OBVIOUS
  <2>3. k0 \in [phase : {"sending"}, attempt : {client[c].attempt},
                order : {client[c].order}, reply : {NoReply},
                result : {client[c].result}, error : {client[c].error}]
    BY <1>1, <1>2, <2>2 DEF IsMethod
  <2> QED
    BY <2>1, <2>2, <2>3
<1>5. MethodOK(k, {hcm})
  BY <1>0, <1>2, <1>4 DEF MethodOK, IsMethod, MethodPhases
<1>6. OthersStay(c)
  BY DEF Send, ExchangeInv, OthersStay
<1>7. /\ seen' = [d \in Calls |-> seen'[d]] /\ seen'[c] = {hcm}
      /\ \A d \in Calls : d # c => seen'[d] = seen[d]
      /\ hcm' = hcm /\ served' = served
  BY DEF Send, ExchangeInv
<1>8. ASSUME NEW d \in Calls
      PROVE  MethodOK(client[d], seen[d])' /\ Watches(d)'
  <2>1. CASE d = c
    BY <1>3, <1>4, <1>5, <1>7, <2>1 DEF Watches
  <2>2. CASE d # c
    BY <1>6, <1>7, <2>2 DEF OthersStay, ExchangeInv, Watches
  <2> QED
    BY <2>1, <2>2
<1>9. ASSUME NEW m \in wire' PROVE MessageOK(m)'
  <2>1. CASE m \in wire
    <3>1. MessageOK(m)
      BY <2>1 DEF ExchangeInv
    <3>2. CASE m.call = c
      BY <1>2, <1>3, <1>4, <3>1, <3>2 DEF MessageOK
    <3>3. CASE m.call # c
      BY <1>6, <3>1, <3>3 DEF MessageOK, OthersStay
    <3> QED
      BY <3>2, <3>3
  <2>2. CASE m = [call |-> c, attempt |-> client[c].attempt + 1,
                  order |-> client[c].order]
    BY <1>2, <1>3, <1>4, <2>2 DEF MessageOK
  <2> QED
    BY <1>9, <2>1, <2>2 DEF Send
<1>10. \A d \in Calls : client'[d].phase = "off" => served'[d] = 0
  BY <1>3, <1>4, <1>6, <1>7 DEF ExchangeInv, OthersStay
<1> QED
  BY <1>6, <1>7, <1>8, <1>9, <1>10 DEF ExchangeInv, OthersStay

LEMMA HcmAfterType ==
  ASSUME hcm \in [HcmRows -> Nat], NEW o \in ServiceOrders
  PROVE  HcmAfter(o) \in [HcmRows -> Nat]
<1>1. CASE o.op = "apply" /\ Enough(o.balance, o.days)
  <2>1. o.balance \in HcmRows /\ o.days \in Int /\ hcm[o.balance] >= o.days
    BY <1>1, OrderFacts DEF Enough
  <2>2. HcmAfter(o) = [hcm EXCEPT ![o.balance] = @ - o.days]
    BY <1>1 DEF HcmAfter
  <2>3. hcm[o.balance] - o.days \in Nat
    BY <2>1
  <2> QED
    BY <2>2, <2>3
<1>2. CASE o.op = "fullSync"
  BY <1>2, OrderFacts DEF HcmAfter
<1>3. CASE o.op # "fullSync" /\ ~ (o.op = "apply" /\ Enough(o.balance, o.days))
  BY <1>3 DEF HcmAfter
<1> QED
  BY <1>1, <1>2, <1>3

(* What the HCM answers is true of the state it finds, or leaves.          *)
LEMMA AnswersAreTrueThen ==
  ASSUME hcm \in [HcmRows -> Nat], NEW o \in ServiceOrders,
         NEW S, hcm \in S, HcmAfter(o) \in S
  PROVE  /\ HcmReply(o).status # 0
         /\ ReplyOK(o, HcmReply(o), S)
<1>1. CASE o.op = "getBalance"
  <2>1. HcmReply(o) = BalanceReply(o)
    BY <1>1 DEF HcmReply
  <2>2. CASE mode = "TIMEOUT"
    BY <1>1, <2>1, <2>2 DEF BalanceReply, Error, ReplyOK, ErrorOf
  <2>3. CASE mode # "TIMEOUT" /\ mode = "NETWORK_ERROR"
    BY <1>1, <2>1, <2>3 DEF BalanceReply, Error, ReplyOK, ErrorOf
  <2>4. CASE /\ mode # "TIMEOUT" /\ mode # "NETWORK_ERROR"
             /\ mode = "NOT_FOUND" \/ o.balance \notin HcmRows
    BY <1>1, <2>1, <2>4 DEF BalanceReply, Error, ReplyOK, ErrorOf
  <2>5. CASE ~ (\/ mode = "TIMEOUT" \/ mode = "NETWORK_ERROR"
                \/ mode = "NOT_FOUND" \/ o.balance \notin HcmRows)
    <3>1. HcmReply(o) = Ok([balance |-> hcm[o.balance]])
      BY <2>1, <2>5 DEF BalanceReply
    <3> QED
      BY <1>1, <3>1 DEF Ok, ReplyOK, TrueOf
  <2> QED
    BY <2>2, <2>3, <2>4, <2>5
<1>2. CASE o.op = "validate"
  <2>1. HcmReply(o) = ValidateReply(o)
    BY <1>2 DEF HcmReply
  <2>2. CASE o.balance \notin Known
    BY <1>2, <2>1, <2>2 DEF ValidateReply, Error, ReplyOK, ErrorOf
  <2>3. CASE o.balance \in Known
    <3>1. HcmReply(o) = Ok([valid |-> Enough(o.balance, o.days)])
      BY <2>1, <2>3 DEF ValidateReply
    <3>2. PICK x : x = Enough(o.balance, o.days)
      OBVIOUS
    <3>3. PICK body : body = [valid |-> x]
      OBVIOUS
    <3>4. body.valid = x
      BY <3>3
    <3>5. HcmReply(o) = [status |-> 200, body |-> body]
      BY <3>1, <3>2, <3>3, Zenon DEF Ok
    <3>6. HcmReply(o).status = 200 /\ HcmReply(o).body = body
      BY <3>5
    <3>7. body.valid = Covered(o, hcm)
      BY <3>2, <3>4, Zenon DEF Enough, Covered
    <3>8. TrueOf(o, body, S)
      BY <1>2, <3>7 DEF TrueOf
    <3> QED
      BY <3>6, <3>8 DEF ReplyOK
  <2> QED
    BY <2>2, <2>3
<1>3. CASE o.op = "apply"
  <2>1. HcmReply(o) = Ok([success |-> Enough(o.balance, o.days)])
    BY <1>3 DEF HcmReply, ApplyReply
  <2>2. PICK x : x = Enough(o.balance, o.days)
    OBVIOUS
  <2>3. PICK body : body = [success |-> x]
    OBVIOUS
  <2>4. body.success = x
    BY <2>3
  <2>5. HcmReply(o) = [status |-> 200, body |-> body]
    BY <2>1, <2>2, <2>3, Zenon DEF Ok
  <2>6. HcmReply(o).status = 200 /\ HcmReply(o).body = body
    BY <2>5
  <2>7. body.success = Covered(o, hcm)
    BY <2>2, <2>4, Zenon DEF Enough, Covered
  <2>8. TrueOf(o, body, S)
    <3>1. CASE Covered(o, hcm)
      <4>1. HcmAfter(o) = [hcm EXCEPT ![o.balance] = @ - o.days]
        BY <1>3, <3>1 DEF HcmAfter, Enough, Covered
      <4>2. HcmAfter(o)[o.balance] = hcm[o.balance] - o.days
        BY <3>1, <4>1 DEF Covered
      <4> QED
        BY <1>3, <2>7, <3>1, <4>2 DEF TrueOf
    <3>2. CASE ~ Covered(o, hcm)
      BY <1>3, <2>7, <3>2 DEF TrueOf
    <3> QED
      BY <3>1, <3>2
  <2> QED
    BY <2>6, <2>8 DEF ReplyOK
<1>4. CASE o.op = "fullSync"
  <2>1. HcmReply(o) = Ok([success |-> TRUE]) /\ HcmAfter(o) = o.corpus
    BY <1>4 DEF HcmReply, HcmAfter
  <2> QED
    BY <1>4, <2>1 DEF Ok, ReplyOK, TrueOf
<1> QED
  BY <1>1, <1>2, <1>3, <1>4, OrderFacts

LEMMA ServeStep ==
  ASSUME ExchangeInv, NEW m \in wire, Serve(m)
  PROVE  ExchangeInv'
<1> DEFINE c == m.call
           o == m.order
           answered == client[c].phase = "waiting"
                         /\ client[c].attempt = m.attempt
<1>1. /\ MessageOK(m) /\ c \in Calls /\ o \in ServiceOrders
      /\ o = client[c].order
  BY DEF ExchangeInv, MessageOK
<1>2. hcm' = HcmAfter(o) /\ hcm' \in [HcmRows -> Nat]
  BY <1>1, HcmAfterType DEF ExchangeInv, Serve
<1>3. served' \in [Calls -> Nat]
  BY <1>1 DEF Serve, ExchangeInv
<1>4. /\ seen' = [d \in Calls |-> seen'[d]]
      /\ \A d \in Calls : seen[d] \subseteq seen'[d]
      /\ \A d \in Calls : hcm \in seen[d] => hcm' \in seen'[d]
  BY DEF Serve, Watch
<1>5. /\ client' = [d \in Calls |-> client'[d]]
      /\ \A d \in Calls : d # c \/ ~ answered => client'[d] = client[d]
      /\ answered => client'[c] = [client[c] EXCEPT !.reply = HcmReply(o)]
  BY <1>1 DEF Serve, ExchangeInv
<1>9. \A d \in Calls : seen'[d] \subseteq [HcmRows -> Nat]
  BY <1>2 DEF Serve, Watch, ExchangeInv
<1>10. ASSUME NEW d \in Calls, client'[d].phase = "off"
       PROVE  served'[d] = 0
  <2>1. client[c].phase # "off"
    BY <1>1 DEF ExchangeInv, MethodOK, IsMethod, MessageOK, Unused
  <2>2. CASE d = c /\ answered
    <3>1. client'[c].phase = client[c].phase
      <4>1. PICK k0 : k0 = client[c]
        OBVIOUS
      <4>2. IsMethod(k0) /\ client'[c] = [k0 EXCEPT !.reply = HcmReply(o)]
        BY <1>1, <1>5, <2>2, <4>1 DEF ExchangeInv, MethodOK
      <4>3. client'[c].phase = k0.phase
        BY <4>2 DEF IsMethod
      <4> QED
        BY <4>1, <4>3
    <3> QED
      BY <1>10, <2>1, <2>2, <3>1
  <2>3. CASE d # c \/ ~ answered
    <3>1. client[d].phase = "off" /\ d # c
      BY <1>5, <1>10, <2>1, <2>3
    <3>2. served'[d] = served[d]
      BY <3>1 DEF Serve, ExchangeInv
    <3> QED
      BY <3>1, <3>2 DEF ExchangeInv
  <2> QED
    BY <2>2, <2>3
<1>6. ASSUME NEW d \in Calls, client'[d] = client[d]
      PROVE  MethodOK(client[d], seen[d])' /\ Watches(d)'
  <2>1. MethodOK(client[d], seen'[d])
    BY <1>4, SeenGrows DEF ExchangeInv
  <2> QED
    BY <1>4, <1>6, <2>1 DEF ExchangeInv, Watches
<1>7. CASE answered
  <2>1. MethodOK(client[c], seen'[c]) /\ IsMethod(client[c])
    BY <1>1, <1>4, SeenGrows DEF ExchangeInv, MethodOK
  <2>2. PICK k : k = client'[c]
    OBVIOUS
  <2>3. PICK reply : reply = HcmReply(o)
    OBVIOUS
  <2>4. k \in [phase : {"waiting"}, attempt : {client[c].attempt},
               order : {o}, reply : {reply}, result : {client[c].result},
               error : {client[c].error}]
    <3>1. PICK k0 : k0 = client[c]
      OBVIOUS
    <3>2. k0 \in [phase : {"waiting"}, attempt : {client[c].attempt},
                  order : {o}, reply : {k0.reply},
                  result : {client[c].result}, error : {client[c].error}]
      BY <1>1, <1>7, <2>1, <3>1 DEF IsMethod
    <3>3. k = [k0 EXCEPT !.reply = reply]
      BY <1>5, <1>7, <2>2, <2>3, <3>1
    <3> QED
      BY <3>2, <3>3
  <2>5. hcm \in seen'[c] /\ hcm' \in seen'[c]
    BY <1>1, <1>4, <1>7 DEF ExchangeInv, Watches
  <2>6. ReplyOK(o, reply, seen'[c]) /\ reply.status # 0
    BY <1>1, <1>2, <2>3, <2>5, AnswersAreTrueThen DEF ExchangeInv
  <2>7. IsMethod(k)
    BY <1>1, <2>1, <2>4 DEF IsMethod, MethodPhases
  <2>8. MethodOK(k, seen'[c])
    BY <2>4, <2>6, <2>7 DEF MethodOK
  <2>9. ASSUME NEW d \in Calls
        PROVE  MethodOK(client[d], seen[d])' /\ Watches(d)'
    <3>1. CASE d = c
      BY <2>2, <2>5, <2>8, <3>1 DEF Watches
    <3> QED
      BY <1>5, <1>6, <3>1
  <2>10. ASSUME NEW n \in wire' PROVE MessageOK(n)'
    <3>1. n \in wire /\ n # m /\ MessageOK(n) /\ MessageOK(m)
      BY <2>10, <1>1 DEF Serve, ExchangeInv
    <3>2. CASE n.call = c
      <4>1. n.attempt # m.attempt
        BY <3>1, <3>2 DEF MessageOK
      <4> QED
        BY <1>1, <1>7, <2>2, <2>4, <3>1, <3>2, <4>1 DEF MessageOK
    <3>3. CASE n.call # c
      BY <1>5, <3>1, <3>3 DEF MessageOK
    <3> QED
      BY <3>2, <3>3
  <2> QED
    BY <1>2, <1>3, <1>4, <1>5, <1>9, <1>10, <2>9, <2>10
       DEF ExchangeInv
<1>8. CASE ~ answered
  <2>1. client' = client
    BY <1>8 DEF Serve
  <2>2. ASSUME NEW n \in wire' PROVE MessageOK(n)'
    BY <2>1, <2>2 DEF Serve, ExchangeInv, MessageOK
  <2> QED
    BY <1>2, <1>3, <1>4, <1>5, <1>6, <1>8, <1>9, <1>10, <2>2
       DEF ExchangeInv
<1> QED
  BY <1>7, <1>8

LEMMA ExchangeStep == ExchangeInv /\ [ExchangeNext]_exchangeVars => ExchangeInv'
<1> SUFFICES ASSUME ExchangeInv, [ExchangeNext]_exchangeVars
             PROVE  ExchangeInv'
  OBVIOUS
<1>1. ASSUME NEW c \in Calls, Moves(c) PROVE ExchangeInv'
  <2>1. CASE TimerFires(c) \/ ConnectionBreaks(c)
    BY <2>1, FailStep DEF TimerFires, ConnectionBreaks
  <2> QED
    BY <1>1, <2>1, SendStep, StatusStep, BodyStep DEF Moves
<1>2. ASSUME NEW f \in Modes, SetFailureMode(f) PROVE ExchangeInv'
  BY <1>2 DEF SetFailureMode, ExchangeInv, MessageOK, Watches
<1>3. CASE UNCHANGED exchangeVars
  BY <1>3 DEF exchangeVars, ExchangeInv, MessageOK, Watches
<1> QED
  BY <1>1, <1>2, <1>3, CallStep, ServeStep DEF ExchangeNext

LEMMA ExchangeInvariant == ExchangeSpec => []ExchangeInv
<1> QED
  BY ExchangeInitInv, ExchangeStep, PTL DEF ExchangeSpec

(* Whatever a method returns was true at one moment since the attempt that *)
(* brought it was sent, for any arguments, retries, failures and other     *)
(* clients of the HCM.                                                     *)
THEOREM ResultsTrue == ExchangeSpec => []ResultsAreTrue
<1>1. ExchangeInv => ResultsAreTrue
  <2> SUFFICES ASSUME ExchangeInv, NEW c \in Calls, client[c].phase = "ok"
               PROVE  LET o == client[c].order
                          result == client[c].result
                          Then(b, days, h) == b \in HcmRows /\ h[b] >= days
                      IN  CASE o.op = "getBalance" ->
                                 \E h \in seen[c] : h[o.balance] = result.balance
                            [] o.op = "validate" ->
                                 \E h \in seen[c] :
                                   result.valid = Then(o.balance, o.days, h)
                            [] o.op = "apply" ->
                                 \E h, i \in seen[c] :
                                   Then(o.balance, o.days, h)
                                     /\ i[o.balance] = h[o.balance] - o.days
                            [] OTHER -> o.corpus \in seen[c]
    BY DEF ResultsAreTrue
  <2> DEFINE o == client[c].order
  <2>1. /\ TrueOf(o, client[c].result, seen[c]) /\ o \in ServiceOrders
        /\ o.op = "apply" => client[c].result.success
    BY DEF ExchangeInv, MethodOK, IsMethod, ResultOK
  <2>2. o.op \in {"getBalance", "validate", "apply", "fullSync"}
    BY <2>1, OrderFacts
  <2>3. CASE o.op = "getBalance"
    BY <2>1, <2>3 DEF TrueOf
  <2>4. CASE o.op = "validate"
    BY <2>1, <2>4 DEF TrueOf, Covered
  <2>5. CASE o.op = "apply"
    BY <2>1, <2>5 DEF TrueOf, Covered
  <2>6. CASE o.op = "fullSync"
    BY <2>1, <2>6 DEF TrueOf
  <2> QED
    BY <2>2, <2>3, <2>4, <2>5, <2>6
<1> QED
  BY <1>1, ExchangeInvariant, PTL

(* A method that throws made all its attempts, or was refused for a reason *)
(* no retry could mend, for any number of retries.                         *)
THEOREM ErrorsEarned == ExchangeSpec => []ErrorsAreEarned
<1>1. ExchangeInv => ErrorsAreEarned
  <2> SUFFICES ASSUME ExchangeInv, NEW c \in Calls,
                      client[c].phase = "failed"
               PROVE  /\ client[c].attempt <= MaxRetries + 1
                      /\ client[c].attempt <= MaxRetries =>
                           client[c].error \in {400, 404}
                      /\ client[c].error = 404 =>
                           client[c].order.op = "getBalance"
                      /\ client[c].error = 400 =>
                           Refusal(client[c].order, seen[c])
    <3>1. ASSUME ExchangeInv, NEW c \in Calls, NEW o, o = client[c].order,
                 MethodOK(client[c], seen[c]), client[c].phase = "failed",
                 Refusal(o, seen[c])
          PROVE  \/ o.op = "validate" /\ o.balance \notin Known
                 \/ o.op = "apply" /\ \E h \in seen[c] :
                      o.balance \notin HcmRows \/ h[o.balance] < o.days
      <4>1. /\ o \in ServiceOrders
            /\ seen[c] \subseteq [HcmRows -> Nat]
        BY <3>1 DEF MethodOK, IsMethod, ExchangeInv
      <4>2. o.op = "apply" => o.days \in Int
        BY <4>1, OrderFacts
      <4>3. ASSUME o.op = "apply", NEW h \in seen[c], ~ Covered(o, h)
            PROVE  o.balance \notin HcmRows \/ h[o.balance] < o.days
        <5>1. o.balance \in HcmRows => h[o.balance] \in Nat
          BY <4>1
        <5> QED
          BY <4>2, <4>3, <5>1 DEF Covered
      <4> QED
        BY <3>1, <4>3 DEF Refusal
    <3> QED
      BY <3>1 DEF ErrorsAreEarned, ExchangeInv
  <2> QED
    BY DEF ExchangeInv, MethodOK, IsMethod, ErrorOK
<1> QED
  BY <1>1, ExchangeInvariant, PTL

-----------------------------------------------------------------------------
(* HcmClient. *)

(* What HcmClient sees of a call.                                          *)
IsApply(k) == k.order # <<>> /\ k.order.op = "apply"

AnswerOf(k) ==
  IF k.phase = "ok" THEN "success"
  ELSE IF k.phase = "failed" /\ k.error = 400 THEN "refused"
  ELSE IF k.reply = NoReply THEN "none"
  ELSE IF k.reply.body.success THEN "success"
  ELSE "refused"

OffCall == [phase |-> "off", attempt |-> 0, answer |-> "none", order |-> <<>>]

Abstracted(k) ==
  IF ~ IsApply(k) THEN OffCall
  ELSE [phase |-> IF k.phase = "reading" THEN "waiting" ELSE k.phase,
        attempt |-> k.attempt, answer |-> AnswerOf(k),
        order |-> Plain(k.order)]

LEMMA AbstractIs == AbstractClient = [c \in Calls |-> Abstracted(client[c])]
  BY DEF AbstractClient, Abstracted, IsApply, Applies, AnswerOf, OffCall

LEMMA AbstractChanges ==
  ASSUME NEW c \in Calls, OthersStay(c)
  PROVE  AbstractClient' = [AbstractClient EXCEPT ![c] = Abstracted(client'[c])]
<1>1. AbstractClient' = [d \in Calls |-> Abstracted(client'[d])]
  BY DEF AbstractClient, Abstracted, IsApply, Applies, AnswerOf, OffCall
<1>2. \A d \in Calls : d # c => Abstracted(client'[d]) = Abstracted(client[d])
  BY DEF OthersStay
<1> QED
  BY <1>1, <1>2, AbstractIs

(* From what a step makes of what HcmClient sees of a call to the step     *)
(* that HcmClient takes.                                                   *)
LEMMA AsAttemptFails ==
  ASSUME NEW c \in Calls, NEW a, NEW w, NEW o, NEW phase,
         AbstractClient[c] =
           [phase |-> "waiting", attempt |-> a, answer |-> w, order |-> o],
         AbstractClient' = [AbstractClient EXCEPT ![c] =
           [phase |-> phase, attempt |-> a, answer |-> "none", order |-> o]],
         phase = IF a < MaxRetries + 1 THEN "sending" ELSE "failed",
         UNCHANGED hcm, AbstractWire' = AbstractWire,
         AbstractServed' = AbstractServed
  PROVE  Client!AttemptFails(c)
<1>1. PICK f : f = AbstractClient
  OBVIOUS
<1>2. PICK g : g = AbstractClient'
  OBVIOUS
<1>3. PICK r : r = f[c]
  OBVIOUS
<1>4. f = [d \in Calls |-> f[d]]
  BY <1>1, AbstractIs
<1>5. r \in [phase : {"waiting"}, attempt : {a}, answer : {w}, order : {o}]
  BY <1>1, <1>3
<1>6. [f EXCEPT ![c].phase = phase, ![c].answer = "none"] = [f EXCEPT ![c] = [r EXCEPT !.phase = phase, !.answer = "none"]]
  BY <1>3, <1>4
<1>7. [r EXCEPT !.phase = phase, !.answer = "none"]
        \in [phase : {phase}, attempt : {a}, answer : {"none"}, order : {o}]
  BY <1>5
<1>8. [r EXCEPT !.phase = phase, !.answer = "none"]
        = [phase |-> phase, attempt |-> a, answer |-> "none", order |-> o]
  <2>1. PICK h : h = [r EXCEPT !.phase = phase, !.answer = "none"]
    OBVIOUS
  <2>2. h \in [phase : {phase}, attempt : {a}, answer : {"none"}, order : {o}]
    BY <1>7, <2>1
  <2>3. h = [phase |-> phase, attempt |-> a, answer |-> "none", order |-> o]
    BY <2>2
  <2> QED
    BY <2>1, <2>3
<1>9. g = [f EXCEPT ![c].phase = phase, ![c].answer = "none"]
  BY <1>1, <1>2, <1>6, <1>8
<1> QED
  BY <1>1, <1>2, <1>3, <1>5, <1>9 DEF Client!AttemptFails

LEMMA AsReceiveAnswer ==
  ASSUME NEW c \in Calls, NEW a, NEW w, NEW o, NEW phase,
         AbstractClient[c] =
           [phase |-> "waiting", attempt |-> a, answer |-> w, order |-> o],
         AbstractClient' = [AbstractClient EXCEPT ![c] =
           [phase |-> phase, attempt |-> a, answer |-> w, order |-> o]],
         w \in {"success", "refused"},
         phase = IF w = "success" THEN "ok" ELSE "failed",
         UNCHANGED hcm, AbstractWire' = AbstractWire,
         AbstractServed' = AbstractServed
  PROVE  Client!ReceiveAnswer(c)
<1>1. PICK f : f = AbstractClient
  OBVIOUS
<1>2. PICK g : g = AbstractClient'
  OBVIOUS
<1>3. PICK r : r = f[c]
  OBVIOUS
<1>4. f = [d \in Calls |-> f[d]]
  BY <1>1, AbstractIs
<1>5. r \in [phase : {"waiting"}, attempt : {a}, answer : {w}, order : {o}]
  BY <1>1, <1>3
<1>6. [f EXCEPT ![c].phase = phase] = [f EXCEPT ![c] = [r EXCEPT !.phase = phase]]
  BY <1>3, <1>4
<1>7. [r EXCEPT !.phase = phase]
        \in [phase : {phase}, attempt : {a}, answer : {w}, order : {o}]
  BY <1>5
<1>8. [r EXCEPT !.phase = phase]
        = [phase |-> phase, attempt |-> a, answer |-> w, order |-> o]
  <2>1. PICK h : h = [r EXCEPT !.phase = phase]
    OBVIOUS
  <2>2. h \in [phase : {phase}, attempt : {a}, answer : {w}, order : {o}]
    BY <1>7, <2>1
  <2>3. h = [phase |-> phase, attempt |-> a, answer |-> w, order |-> o]
    BY <2>2
  <2> QED
    BY <2>1, <2>3
<1>9. g = [f EXCEPT ![c].phase = phase]
  BY <1>1, <1>2, <1>6, <1>8
<1> QED
  BY <1>1, <1>2, <1>3, <1>5, <1>9 DEF Client!ReceiveAnswer

LEMMA AsSendAttempt ==
  ASSUME NEW c \in Calls, NEW a, NEW w, NEW o,
         AbstractClient[c] =
           [phase |-> "sending", attempt |-> a, answer |-> w, order |-> o],
         AbstractClient' = [AbstractClient EXCEPT ![c] =
           [phase |-> "waiting", attempt |-> a + 1, answer |-> "none", order |-> o]],
         a < MaxRetries + 1, UNCHANGED hcm, AbstractServed' = AbstractServed,
         AbstractWire' = AbstractWire
           \cup {[call |-> c, attempt |-> a + 1, order |-> o]}
  PROVE  Client!SendAttempt(c)
<1>1. PICK f : f = AbstractClient
  OBVIOUS
<1>2. PICK g : g = AbstractClient'
  OBVIOUS
<1>3. PICK r : r = f[c]
  OBVIOUS
<1>4. f = [d \in Calls |-> f[d]]
  BY <1>1, AbstractIs
<1>5. r \in [phase : {"sending"}, attempt : {a}, answer : {w}, order : {o}]
  BY <1>1, <1>3
<1>6. [f EXCEPT ![c].phase = "waiting", ![c].attempt = @ + 1, ![c].answer = "none"]
        = [f EXCEPT ![c] = [r EXCEPT !.phase = "waiting", !.attempt = @ + 1, !.answer = "none"]]
  BY <1>3, <1>4
<1>7. PICK h : h = [r EXCEPT !.phase = "waiting", !.attempt = @ + 1, !.answer = "none"]
  OBVIOUS
<1>8. h \in [phase : {"waiting"}, attempt : {a + 1}, answer : {"none"}, order : {o}]
  BY <1>5, <1>7
<1>9. h = [phase |-> "waiting", attempt |-> a + 1, answer |-> "none", order |-> o]
  BY <1>8
<1>10. g = [f EXCEPT ![c].phase = "waiting", ![c].attempt = @ + 1, ![c].answer = "none"]
  BY <1>1, <1>2, <1>6, <1>7, <1>9
<1> QED
  BY <1>1, <1>2, <1>3, <1>5, <1>10 DEF Client!SendAttempt

LEMMA PlainOrders ==
  ASSUME NEW o \in ServiceOrders, o.op = "apply"
  PROVE  /\ Plain(o) \in Client!Orders
         /\ Plain(o).balance = o.balance /\ Plain(o).days = o.days
  BY OrderFacts DEF Plain, Client!Orders

(* What is on the wire for HcmClient.                                      *)
PlainMessage(m) ==
  [call |-> m.call, attempt |-> m.attempt, order |-> Plain(m.order)]

LEMMA WireIs ==
  ASSUME NEW W, \A m \in W : m = [call |-> m.call, attempt |-> m.attempt,
                                  order |-> m.order]
  PROVE  {[m EXCEPT !.order = Plain(m.order)] :
            m \in {w \in W : w.order.op = "apply"}}
           = {PlainMessage(m) : m \in {w \in W : w.order.op = "apply"}}
<1>1. ASSUME NEW m \in W
      PROVE  [m EXCEPT !.order = Plain(m.order)] = PlainMessage(m)
  BY <1>1 DEF PlainMessage
<1> QED
  BY <1>1

LEMMA SameMessage ==
  ASSUME NEW m, NEW n, MessageOK(m), MessageOK(n),
         m.order.op = "apply", n.order.op = "apply",
         PlainMessage(m) = PlainMessage(n)
  PROVE  m = n
<1>1. m.call = n.call /\ m.attempt = n.attempt
  BY DEF PlainMessage
<1>2. m.order = n.order
  BY <1>1 DEF MessageOK
<1> QED
  BY <1>1, <1>2 DEF MessageOK

(* A step of a call of applyLeave that sends nothing.                      *)
Stays == /\ UNCHANGED <<hcm, wire>>
         /\ AbstractServed' = AbstractServed

LEMMA WireStays == UNCHANGED wire => AbstractWire' = AbstractWire
  BY DEF AbstractWire

LEMMA ServedStays ==
  ASSUME ExchangeInv, NEW c \in Calls, OthersStay(c), UNCHANGED served,
         \/ client[c] = Unused
         \/ client'[c].order = client[c].order
  PROVE  AbstractServed' = AbstractServed
<1>1. ASSUME NEW d \in Calls
      PROVE  (IF Applies(d) THEN served[d] ELSE 0)'
               = (IF Applies(d) THEN served[d] ELSE 0)
  <2>1. CASE d # c \/ client'[c].order = client[c].order
    BY <2>1 DEF OthersStay, Applies
  <2>2. CASE client[c] = Unused /\ d = c
    <3>1. served[c] = 0
      BY <2>2 DEF ExchangeInv, Unused
    <3> QED
      BY <2>2, <3>1
  <2> QED
    BY <2>1, <2>2
<1> QED
  BY <1>1 DEF AbstractServed

(* A call that is not one of applyLeave is nothing to HcmClient.           *)
LEMMA OtherMethods ==
  ASSUME NEW c \in Calls, OthersStay(c),
         ~ IsApply(client[c]), ~ IsApply(client'[c])
  PROVE  AbstractClient' = AbstractClient
<1>1. Abstracted(client'[c]) = Abstracted(client[c])
  BY DEF Abstracted
<1>2. AbstractClient' = [AbstractClient EXCEPT ![c] = Abstracted(client[c])]
  BY <1>1, AbstractChanges
<1> QED
  BY <1>2, AbstractIs

LEMMA CallRefines ==
  ASSUME ExchangeInv, NEW c \in Calls, NEW o \in Arguments, Call(c, o)
  PROVE  Client!HcmNext \/ UNCHANGED Client!hcmVars
<1>1. /\ o \in ServiceOrders /\ client[c] = Unused /\ OthersStay(c)
      /\ UNCHANGED <<hcm, wire, served>>
  BY ArgumentsAreOrders DEF Call, ExchangeInv, OthersStay
<1>2. PICK k : k = client'[c]
  OBVIOUS
<1>3. k \in [phase : {"sending"}, attempt : {0}, order : {o},
             reply : {NoReply}, result : {NoBody}, error : {0}]
  <2>1. k = [client[c] EXCEPT !.phase = "sending", !.order = o]
    BY <1>2 DEF Call, ExchangeInv
  <2>2. k = [Unused EXCEPT !.phase = "sending", !.order = o]
    BY <1>1, <2>1
  <2> QED
    BY <2>2 DEF Unused
<1>4. AbstractWire' = AbstractWire /\ AbstractServed' = AbstractServed
  BY <1>1, WireStays, ServedStays
<1>5. ~ IsApply(client[c])
  BY <1>1 DEF IsApply, Unused
<1>6. CASE o.op = "apply"
  <2>1. Abstracted(k) = [phase |-> "sending", attempt |-> 0,
                         answer |-> "none", order |-> Plain(o)]
    BY <1>1, <1>3, <1>6, OrderFacts DEF Abstracted, IsApply, AnswerOf
  <2>2. AbstractClient' = [AbstractClient EXCEPT ![c] =
           [phase |-> "sending", attempt |-> 0,
            answer |-> "none", order |-> Plain(o)]]
    BY <1>1, <1>2, <2>1, AbstractChanges
  <2>3. AbstractClient[c] = OffCall
    BY <1>5, AbstractIs DEF Abstracted
  <2>4. Client!ApplyLeave(c, Plain(o))
    BY <1>1, <1>4, <2>2, <2>3 DEF Client!ApplyLeave, OffCall
  <2>5. Plain(o) \in Client!Orders
    BY <1>1, <1>6, PlainOrders
  <2> QED
    BY <2>4, <2>5 DEF Client!HcmNext
<1>7. CASE o.op # "apply"
  <2>1. ~ IsApply(client'[c])
    BY <1>2, <1>3, <1>7 DEF IsApply
  <2>2. AbstractClient' = AbstractClient
    BY <1>1, <1>5, <2>1, OtherMethods
  <2> QED
    BY <1>1, <1>4, <2>2 DEF Client!hcmVars
<1> QED
  BY <1>6, <1>7

(* What HcmClient sees of a call of applyLeave, phase by phase.            *)
LEMMA SendingIs ==
  ASSUME NEW k, IsMethod(k), IsApply(k), k.phase = "sending"
  PROVE  Abstracted(k) = [phase |-> "sending", attempt |-> k.attempt,
                          answer |-> "none", order |-> Plain(k.order)]
  BY DEF Abstracted, AnswerOf, IsMethod

LEMMA WaitingIs ==
  ASSUME NEW k, IsApply(k), k.phase \in {"waiting", "reading"}
  PROVE  Abstracted(k) = [phase |-> "waiting", attempt |-> k.attempt,
                          answer |-> AnswerOf(k), order |-> Plain(k.order)]
  BY DEF Abstracted

LEMMA FailRefines ==
  ASSUME ExchangeInv, NEW c \in Calls, NEW status \in {0, 400},
         client' = [client EXCEPT ![c] = Failed(c, status)],
         UNCHANGED <<hcm, wire, served>>,
         client[c].phase \in {"waiting", "reading"},
         status = 400 =>
           /\ Refusal(client[c].order, seen[c])
           /\ IsApply(client[c]) => AnswerOf(client[c]) = "refused"
  PROVE  Client!HcmNext \/ UNCHANGED Client!hcmVars
<1>0. MaxRetries \in Nat
  BY ExchangeAssumption DEF ExchangeAssumption
<1>1. MethodOK(client[c], seen[c]) /\ IsMethod(client[c])
  BY DEF ExchangeInv, MethodOK
<1>2. PICK k : k = Failed(c, status)
  OBVIOUS
<1>3. /\ IsMethod(k)
      /\ k.phase = IF IsRetryable(status) /\ client[c].attempt <= MaxRetries
                     THEN "sending" ELSE "failed"
      /\ k.order = client[c].order /\ k.attempt = client[c].attempt
      /\ k.reply = NoReply
      /\ k.phase = "failed" => k.error = status
  <2>1. MethodOK(Failed(c, status), seen[c])
    BY <1>1, FailedOK
  <2>2. /\ Failed(c, status).phase =
             IF IsRetryable(status) /\ client[c].attempt <= MaxRetries
               THEN "sending" ELSE "failed"
        /\ Failed(c, status).order = client[c].order
        /\ Failed(c, status).attempt = client[c].attempt
        /\ Failed(c, status).reply = NoReply
        /\ Failed(c, status).phase = "failed" =>
             Failed(c, status).error = status
    BY <1>1, FailedOK
  <2> QED
    BY <1>2, <2>1, <2>2 DEF MethodOK
<1>4. client'[c] = k /\ OthersStay(c)
  <2>1. client' = [client EXCEPT ![c] = k]
    BY <1>2
  <2> QED
    BY <2>1 DEF ExchangeInv, OthersStay
<1>5. AbstractWire' = AbstractWire /\ AbstractServed' = AbstractServed
  BY <1>3, <1>4, WireStays, ServedStays
<1>6. CASE ~ IsApply(client[c])
  <2>1. ~ IsApply(client'[c])
    BY <1>3, <1>4, <1>6 DEF IsApply
  <2>2. AbstractClient' = AbstractClient
    BY <1>4, <1>6, <2>1, OtherMethods
  <2> QED
    BY <1>5, <2>2 DEF Client!hcmVars
<1>7. CASE IsApply(client[c])
  <2> DEFINE a == client[c].attempt
             o == Plain(client[c].order)
  <2>1. /\ AbstractClient = [d \in Calls |-> AbstractClient[d]]
        /\ AbstractClient[c] = [phase |-> "waiting", attempt |-> a,
                                answer |-> AnswerOf(client[c]), order |-> o]
    BY <1>7, WaitingIs, AbstractIs
  <2>2. AbstractClient' = [AbstractClient EXCEPT ![c] = Abstracted(k)]
    BY <1>4, AbstractChanges
  <2>3. IsApply(k)
    BY <1>3, <1>7 DEF IsApply
  <2>4. CASE status = 0
    <3> DEFINE phase == IF a < MaxRetries + 1 THEN "sending" ELSE "failed"
    <3>1. a < MaxRetries + 1 <=> a <= MaxRetries
      BY <1>0, <1>1 DEF IsMethod
    <3>2. k.phase = phase
      BY <1>3, <2>4, <3>1 DEF IsRetryable
    <3>3. Abstracted(k) = [phase |-> phase, attempt |-> a,
                           answer |-> "none", order |-> o]
      BY <1>3, <2>3, <2>4, <3>2 DEF Abstracted, AnswerOf
    <3>4. Client!AttemptFails(c)
      BY <1>5, <2>1, <2>2, <3>3, AsAttemptFails
    <3> QED
      BY <3>4 DEF Client!HcmNext, Client!HcmStep
  <2>5. CASE status = 400
    <3>1. k.phase = "failed" /\ k.error = 400
      BY <1>3, <2>5 DEF IsRetryable
    <3>2. Abstracted(k) = [phase |-> "failed", attempt |-> a,
                           answer |-> "refused", order |-> o]
      BY <1>3, <2>3, <3>1 DEF Abstracted, AnswerOf
    <3>3. AnswerOf(client[c]) = "refused"
      BY <1>7, <2>5
    <3>4. Client!ReceiveAnswer(c)
      BY <1>5, <2>1, <2>2, <3>2, <3>3, AsReceiveAnswer
    <3> QED
      BY <3>4 DEF Client!HcmNext, Client!HcmStep
  <2> QED
    BY <2>4, <2>5
<1> QED
  BY <1>6, <1>7

LEMMA SendRefines ==
  ASSUME ExchangeInv, NEW c \in Calls, Send(c)
  PROVE  Client!HcmNext \/ UNCHANGED Client!hcmVars
<1>0. MaxRetries \in Nat
  BY ExchangeAssumption DEF ExchangeAssumption
<1>1. IsMethod(client[c])
  BY DEF ExchangeInv, MethodOK
<1>2. /\ client[c].phase = "sending" /\ client[c].attempt <= MaxRetries
      /\ client[c].attempt \in Nat
      /\ client[c].reply = NoReply /\ client[c].order \in ServiceOrders
  BY <1>1 DEF Send, IsMethod
<1>3. PICK k : k = client'[c]
  OBVIOUS
<1>4. k \in [phase : {"waiting"}, attempt : {client[c].attempt + 1},
             order : {client[c].order}, reply : {NoReply},
             result : {client[c].result}, error : {client[c].error}]
  <2>1. k = [client[c] EXCEPT !.phase = "waiting", !.attempt = @ + 1]
    BY <1>3 DEF Send, ExchangeInv
  <2>2. PICK k0 : k0 = client[c]
    OBVIOUS
  <2>3. k0 \in [phase : {"sending"}, attempt : {client[c].attempt},
                order : {client[c].order}, reply : {NoReply},
                result : {client[c].result}, error : {client[c].error}]
    BY <1>1, <1>2, <2>2 DEF IsMethod
  <2> QED
    BY <2>1, <2>2, <2>3
<1>5. /\ OthersStay(c) /\ UNCHANGED <<hcm, served>>
      /\ wire' = wire \cup {[call |-> c, attempt |-> client[c].attempt + 1,
                             order |-> client[c].order]}
  BY DEF Send, ExchangeInv, OthersStay
<1>6. AbstractServed' = AbstractServed
  BY <1>3, <1>4, <1>5, ServedStays
<1>7. CASE client[c].order.op # "apply"
  <2>1. ~ IsApply(client[c]) /\ ~ IsApply(client'[c])
    BY <1>3, <1>4, <1>7 DEF IsApply
  <2>2. AbstractClient' = AbstractClient
    BY <1>5, <2>1, OtherMethods
  <2>3. {w \in wire' : w.order.op = "apply"}
          = {w \in wire : w.order.op = "apply"}
    BY <1>5, <1>7
  <2>4. AbstractWire' = AbstractWire
    BY <2>3 DEF AbstractWire
  <2> QED
    BY <1>5, <1>6, <2>2, <2>4 DEF Client!hcmVars
<1>8. CASE client[c].order.op = "apply"
  <2> DEFINE a == client[c].attempt
             o == Plain(client[c].order)
             sent == [call |-> c, attempt |-> a + 1, order |-> client[c].order]
  <2>1. IsApply(client[c]) /\ IsApply(k)
    BY <1>2, <1>4, <1>8, OrderFacts DEF IsApply
  <2>2. AbstractClient[c] = [phase |-> "sending", attempt |-> a,
                             answer |-> "none", order |-> o]
    BY <1>1, <1>2, <2>1, SendingIs, AbstractIs
  <2>3. Abstracted(k) = [phase |-> "waiting", attempt |-> a + 1,
                         answer |-> "none", order |-> o]
    BY <1>4, <2>1 DEF Abstracted, AnswerOf
  <2>4. AbstractClient' = [AbstractClient EXCEPT ![c] =
           [phase |-> "waiting", attempt |-> a + 1,
            answer |-> "none", order |-> o]]
    BY <1>3, <1>5, <2>3, AbstractChanges
  <2>5. \A m \in wire' : m = [call |-> m.call, attempt |-> m.attempt,
                              order |-> m.order]
    BY <1>5 DEF ExchangeInv, MessageOK
  <2>6. {w \in wire' : w.order.op = "apply"}
          = {w \in wire : w.order.op = "apply"} \cup {sent}
    BY <1>5, <1>8
  <2>7. PlainMessage(sent) = [call |-> c, attempt |-> a + 1, order |-> o]
    BY DEF PlainMessage
  <2>8. /\ AbstractWire' =
             {PlainMessage(m) : m \in {w \in wire' : w.order.op = "apply"}}
        /\ AbstractWire =
             {PlainMessage(m) : m \in {w \in wire : w.order.op = "apply"}}
    <3>1. \A m \in wire : m = [call |-> m.call, attempt |-> m.attempt,
                               order |-> m.order]
      BY DEF ExchangeInv, MessageOK
    <3> QED
      BY <2>5, <3>1, WireIs DEF AbstractWire
  <2>9. AbstractWire' = AbstractWire
           \cup {[call |-> c, attempt |-> a + 1, order |-> o]}
    BY <2>6, <2>7, <2>8
  <2>10. a < MaxRetries + 1
    BY <1>0, <1>2
  <2>11. Client!SendAttempt(c)
    BY <1>5, <1>6, <2>2, <2>4, <2>9, <2>10, AsSendAttempt
  <2> QED
    BY <2>11 DEF Client!HcmNext, Client!HcmStep
<1> QED
  BY <1>7, <1>8

(* For HcmClient a call that reads a body still waits for the answer.      *)
LEMMA StatusRefines ==
  ASSUME ExchangeInv, NEW c \in Calls, StatusArrives(c)
  PROVE  UNCHANGED Client!hcmVars
<1>1. IsMethod(client[c])
  BY DEF ExchangeInv, MethodOK
<1>2. /\ client[c].phase = "waiting" /\ OthersStay(c)
      /\ UNCHANGED <<hcm, wire, served>>
  BY DEF StatusArrives, ExchangeInv, OthersStay
<1>3. PICK k : k = client'[c]
  OBVIOUS
<1>4. k \in [phase : {"reading"}, attempt : {client[c].attempt},
             order : {client[c].order}, reply : {client[c].reply},
             result : {client[c].result}, error : {client[c].error}]
  <2>1. k = [client[c] EXCEPT !.phase = "reading"]
    BY <1>3 DEF StatusArrives, ExchangeInv
  <2> QED
    BY <1>1, <2>1 DEF IsMethod
<1>5. AbstractWire' = AbstractWire /\ AbstractServed' = AbstractServed
  BY <1>2, <1>3, <1>4, WireStays, ServedStays
<1>6. AnswerOf(k) = AnswerOf(client[c])
  BY <1>2, <1>4 DEF AnswerOf
<1>7. Abstracted(k) = Abstracted(client[c])
  BY <1>2, <1>4, <1>6 DEF Abstracted, IsApply
<1>8. AbstractClient' = [AbstractClient EXCEPT ![c] = Abstracted(client[c])]
  BY <1>2, <1>3, <1>7, AbstractChanges
<1>9. AbstractClient' = AbstractClient
  BY <1>8, AbstractIs
<1> QED
  BY <1>2, <1>5, <1>9 DEF Client!hcmVars

LEMMA BodyRefines ==
  ASSUME ExchangeInv, NEW c \in Calls, BodyArrives(c)
  PROVE  Client!HcmNext \/ UNCHANGED Client!hcmVars
<1> DEFINE reply == client[c].reply
<1>1. MethodOK(client[c], seen[c]) /\ IsMethod(client[c])
  BY DEF ExchangeInv, MethodOK
<1>2. /\ client[c].phase = "reading" /\ UNCHANGED <<hcm, wire, served>>
      /\ client[c].reply # NoReply /\ client[c].order \in ServiceOrders
  BY <1>1 DEF BodyArrives, IsMethod
<1>3. ReplyOK(client[c].order, reply, seen[c])
  BY <1>1, <1>2 DEF MethodOK
<1>4. IsApply(client[c]) => reply.status = 200
  BY <1>3 DEF ReplyOK, ErrorOf, IsApply
<1>5. CASE Accepted(client[c].order, reply)
  <2>1. PICK k : k = client'[c]
    OBVIOUS
  <2>2. k \in [phase : {"ok"}, attempt : {client[c].attempt},
               order : {client[c].order}, reply : {NoReply},
               result : {reply.body}, error : {client[c].error}]
    <3>1. k = [client[c] EXCEPT !.phase = "ok", !.result = reply.body,
                                !.reply = NoReply]
      BY <1>5, <2>1 DEF BodyArrives, ExchangeInv
    <3> QED
      BY <1>1, <3>1 DEF IsMethod
  <2>3. OthersStay(c)
    BY DEF BodyArrives, ExchangeInv, OthersStay
  <2>4. AbstractWire' = AbstractWire /\ AbstractServed' = AbstractServed
    BY <1>2, <2>1, <2>2, <2>3, WireStays, ServedStays
  <2>5. CASE ~ IsApply(client[c])
    <3>1. ~ IsApply(client'[c])
      BY <2>1, <2>2, <2>5 DEF IsApply
    <3>2. AbstractClient' = AbstractClient
      BY <2>3, <2>5, <3>1, OtherMethods
    <3> QED
      BY <1>2, <2>4, <3>2 DEF Client!hcmVars
  <2>6. CASE IsApply(client[c])
    <3> DEFINE a == client[c].attempt
               o == Plain(client[c].order)
    <3>1. AnswerOf(client[c]) = "success"
      BY <1>2, <1>5, <2>6 DEF AnswerOf, Accepted, IsApply
    <3>2. AbstractClient[c] = [phase |-> "waiting", attempt |-> a,
                               answer |-> "success", order |-> o]
      BY <1>2, <2>6, <3>1, WaitingIs, AbstractIs
    <3>3. IsApply(k)
      BY <2>2, <2>6 DEF IsApply
    <3>4. Abstracted(k) = [phase |-> "ok", attempt |-> a,
                           answer |-> "success", order |-> o]
      BY <2>2, <3>3 DEF Abstracted, AnswerOf
    <3>5. AbstractClient' = [AbstractClient EXCEPT ![c] =
             [phase |-> "ok", attempt |-> a,
              answer |-> "success", order |-> o]]
      BY <2>1, <2>3, <3>4, AbstractChanges
    <3>6. Client!ReceiveAnswer(c)
      BY <1>2, <2>4, <3>2, <3>5, AsReceiveAnswer
    <3> QED
      BY <3>6 DEF Client!HcmNext, Client!HcmStep
  <2> QED
    BY <2>5, <2>6
<1>6. CASE ~ Accepted(client[c].order, reply)
  <2>1. client' = [client EXCEPT ![c] =
           Failed(c, IF reply.status = 200 THEN 400 ELSE reply.status)]
    BY <1>6 DEF BodyArrives
  <2>2. CASE reply.status = 200
    <3>1. client[c].order.op = "apply" /\ ~ reply.body.success
      BY <1>6, <2>2 DEF Accepted
    <3>2. TrueOf(client[c].order, reply.body, seen[c])
      BY <1>3, <2>2 DEF ReplyOK, ErrorOf
    <3>3. Refusal(client[c].order, seen[c])
      BY <3>1, <3>2 DEF TrueOf, Refusal
    <3>4. AnswerOf(client[c]) = "refused"
      BY <1>2, <3>1 DEF AnswerOf
    <3>5. client' = [client EXCEPT ![c] = Failed(c, 400)]
      BY <2>1, <2>2
    <3> QED
      BY <1>2, <3>3, <3>4, <3>5, FailRefines
  <2>3. CASE reply.status # 200
    <3>1. ErrorOf(client[c].order, reply.status) /\ ~ IsApply(client[c])
      BY <1>3, <1>4, <2>3 DEF ReplyOK
    <3>2. reply.status \in Nat
      BY <3>1 DEF ErrorOf
    <3>3. client' = [client EXCEPT ![c] = Failed(c, reply.status)]
      BY <2>1, <2>3
    <3>4. OthersStay(c) /\ client'[c] = Failed(c, reply.status)
      BY <3>3 DEF ExchangeInv, OthersStay
    <3>5. Failed(c, reply.status).order = client[c].order
      BY <1>1, <1>2, <3>1, <3>2, FailedOK
    <3>6. AbstractWire' = AbstractWire /\ AbstractServed' = AbstractServed
      BY <1>2, <3>4, <3>5, WireStays, ServedStays
    <3>7. AbstractClient' = AbstractClient
      BY <3>1, <3>4, <3>5, OtherMethods DEF IsApply
    <3> QED
      BY <1>2, <3>6, <3>7 DEF Client!hcmVars
  <2> QED
    BY <2>2, <2>3
<1> QED
  BY <1>5, <1>6

(* An answer that arrives, as HcmClient sees it.                           *)
LEMMA AnsweredRefines ==
  ASSUME ExchangeInv, NEW m \in wire, Serve(m), m.order.op = "apply",
         NEW answer, NEW body,
         HcmReply(m.order) = [status |-> 200, body |-> body],
         answer = IF body.success THEN "success" ELSE "refused"
  PROVE  AbstractClient' = Client!Answered(PlainMessage(m), answer)
<1> DEFINE c == m.call
           a == client[c].attempt
           o == Plain(client[c].order)
<1>1. /\ MessageOK(m) /\ c \in Calls /\ IsMethod(client[c])
      /\ IsApply(client[c])
  BY OrderFacts DEF ExchangeInv, MessageOK, MethodOK, IsApply
<1>2. PlainMessage(m).call = c /\ PlainMessage(m).attempt = m.attempt
  BY DEF PlainMessage
<1>3. AbstractClient[c].phase = "waiting" /\ AbstractClient[c].attempt = m.attempt
        <=> client[c].phase = "waiting" /\ a = m.attempt
  <2>1. /\ AbstractClient[c].phase = IF client[c].phase = "reading"
                                       THEN "waiting" ELSE client[c].phase
        /\ AbstractClient[c].attempt = a
    BY <1>1, AbstractIs DEF Abstracted
  <2>2. client[c].phase = "reading" => a # m.attempt
    BY <1>1 DEF IsMethod, MessageOK
  <2> QED
    BY <2>1, <2>2
<1>4. CASE client[c].phase = "waiting" /\ a = m.attempt
  <2>1. PICK reply : reply = HcmReply(m.order)
    OBVIOUS
  <2>2. reply.status = 200 /\ reply.body = body /\ reply # NoReply
    BY <2>1 DEF NoReply
  <2>3. PICK k : k = client'[c]
    OBVIOUS
  <2>4. k \in [phase : {"waiting"}, attempt : {a}, order : {client[c].order},
               reply : {reply}, result : {client[c].result},
               error : {client[c].error}]
    <3>1. PICK k0 : k0 = client[c]
      OBVIOUS
    <3>2. k0 \in [phase : {"waiting"}, attempt : {a},
                  order : {client[c].order}, reply : {k0.reply},
                  result : {client[c].result}, error : {client[c].error}]
      BY <1>1, <1>4, <3>1 DEF IsMethod
    <3>3. k = [k0 EXCEPT !.reply = reply]
      BY <1>1, <1>4, <2>1, <2>3, <3>1 DEF Serve, ExchangeInv
    <3> QED
      BY <3>2, <3>3
  <2>5. OthersStay(c)
    BY <1>1 DEF Serve, ExchangeInv, OthersStay
  <2>6. IsApply(k)
    BY <1>1, <2>4 DEF IsApply
  <2>7. AnswerOf(k) = answer
    BY <2>2, <2>4 DEF AnswerOf
  <2>8. Abstracted(k) = [phase |-> "waiting", attempt |-> a,
                         answer |-> answer, order |-> o]
    BY <2>4, <2>6, <2>7, WaitingIs
  <2>9. AbstractClient[c] = [phase |-> "waiting", attempt |-> a,
                             answer |-> AnswerOf(client[c]), order |-> o]
    BY <1>1, <1>4, WaitingIs, AbstractIs
  <2>10. AbstractClient' = [AbstractClient EXCEPT ![c] =
            [phase |-> "waiting", attempt |-> a,
             answer |-> answer, order |-> o]]
    BY <1>1, <2>3, <2>5, <2>8, AbstractChanges
  <2>11. AbstractClient' = [AbstractClient EXCEPT ![c].answer = answer]
    <3>1. PICK f : f = AbstractClient
      OBVIOUS
    <3>2. PICK g : g = AbstractClient'
      OBVIOUS
    <3>3. PICK r : r = f[c]
      OBVIOUS
    <3>4. f = [d \in Calls |-> f[d]]
      BY <3>1, AbstractIs
    <3>5. r \in [phase : {"waiting"}, attempt : {a},
                 answer : {AnswerOf(client[c])}, order : {o}]
      BY <2>9, <3>1, <3>3
    <3>6. [f EXCEPT ![c].answer = answer]
            = [f EXCEPT ![c] = [r EXCEPT !.answer = answer]]
      BY <1>1, <3>3, <3>4
    <3>7. PICK h : h = [r EXCEPT !.answer = answer]
      OBVIOUS
    <3>8. h \in [phase : {"waiting"}, attempt : {a}, answer : {answer},
                 order : {o}]
      BY <3>5, <3>7
    <3>9. h = [phase |-> "waiting", attempt |-> a, answer |-> answer,
               order |-> o]
      BY <3>8
    <3>10. g = [f EXCEPT ![c].answer = answer]
      BY <2>10, <3>1, <3>2, <3>6, <3>7, <3>9
    <3> QED
      BY <3>1, <3>2, <3>10
  <2> QED
    BY <1>2, <1>3, <1>4, <2>11 DEF Client!Answered
<1>5. CASE ~ (client[c].phase = "waiting" /\ a = m.attempt)
  <2>1. client' = client
    BY <1>5 DEF Serve
  <2>2. AbstractClient' = AbstractClient
    BY <2>1 DEF AbstractClient, Applies
  <2> QED
    BY <1>2, <1>3, <1>5, <2>2 DEF Client!Answered
<1> QED
  BY <1>4, <1>5

LEMMA ServeKeepsOrders ==
  ASSUME ExchangeInv, NEW m \in wire, Serve(m), NEW d \in Calls
  PROVE  client'[d].order = client[d].order
<1>1. m.call \in Calls
  BY DEF ExchangeInv, MessageOK
<1>2. CASE client'[d] = client[d]
  BY <1>2
<1>3. CASE client'[d] # client[d]
  <2>1. PICK k0 : k0 = client[d]
    OBVIOUS
  <2>2. IsMethod(k0)
    BY <2>1 DEF ExchangeInv, MethodOK
  <2>3. client'[d] = [k0 EXCEPT !.reply = HcmReply(m.order)]
    BY <1>1, <1>3, <2>1 DEF Serve, ExchangeInv
  <2>4. client'[d].order = k0.order
    BY <2>2, <2>3 DEF IsMethod
  <2> QED
    BY <2>1, <2>4
<1> QED
  BY <1>2, <1>3

LEMMA ServeRefines ==
  ASSUME ExchangeInv, NEW m \in wire, Serve(m)
  PROVE  \/ Client!HcmNext \/ SyncServed
         \/ UNCHANGED Client!hcmVars
<1> DEFINE c == m.call
           o == m.order
           n == PlainMessage(m)
<1>1. /\ MessageOK(m) /\ c \in Calls /\ o \in ServiceOrders
      /\ o = client[c].order
  BY DEF ExchangeInv, MessageOK
<1>2. wire' = wire \ {m} /\ hcm' = HcmAfter(o)
  BY DEF Serve
<1>3. \A d \in Calls : Applies(d)' = Applies(d)
  BY ServeKeepsOrders DEF Applies
<1>4. CASE o.op = "fullSync"
  BY <1>4 DEF SyncServed
<1>5. CASE o.op \in {"getBalance", "validate"}
  <2>1. hcm' = hcm /\ served' = served
    BY <1>2, <1>5 DEF HcmAfter, Serve
  <2>2. {w \in wire' : w.order.op = "apply"}
          = {w \in wire : w.order.op = "apply"}
    BY <1>2, <1>5
  <2>3. AbstractWire' = AbstractWire
    BY <2>2 DEF AbstractWire
  <2>4. AbstractServed' = AbstractServed
    BY <1>3, <2>1 DEF AbstractServed
  <2>5. ~ IsApply(client[c]) /\ ~ IsApply(client'[c])
    BY <1>1, <1>5, ServeKeepsOrders DEF IsApply
  <2>6. OthersStay(c)
    BY DEF Serve, ExchangeInv, OthersStay
  <2>7. AbstractClient' = AbstractClient
    BY <1>1, <2>5, <2>6, OtherMethods
  <2> QED
    BY <2>1, <2>3, <2>4, <2>7 DEF Client!hcmVars
<1>6. CASE o.op = "apply"
  <2>1. /\ Plain(o).balance = o.balance /\ Plain(o).days = o.days
        /\ o.days \in Int /\ o.days # 0
    BY <1>1, <1>6, PlainOrders, OrderFacts
  <2>2. n.order.balance = o.balance /\ n.order.days = o.days /\ n.call = c
    BY <2>1 DEF PlainMessage
  <2>3. Client!Covers(n.order) <=> Enough(o.balance, o.days)
    BY <2>2 DEF Client!Covers, Enough
  <2>4. \A w \in wire : MessageOK(w)
    BY DEF ExchangeInv
  <2>5. \A w \in wire : w = [call |-> w.call, attempt |-> w.attempt,
                             order |-> w.order]
    BY <2>4 DEF MessageOK
  <2>6. /\ AbstractWire' =
             {PlainMessage(w) : w \in {v \in wire' : v.order.op = "apply"}}
        /\ AbstractWire =
             {PlainMessage(w) : w \in {v \in wire : v.order.op = "apply"}}
    BY <1>2, <2>5, WireIs DEF AbstractWire
  <2>7. n \in AbstractWire
    BY <1>6, <2>6
  <2>8. \A w \in wire : w.order.op = "apply" /\ PlainMessage(w) = n => w = m
    BY <1>1, <1>6, <2>4, SameMessage
  <2>9. AbstractWire' = AbstractWire \ {n}
    BY <1>2, <1>6, <2>6, <2>8
  <2>10. Applies(c)
    BY <1>1, <1>6, OrderFacts DEF Applies
  <2>11. PICK x : x = Enough(o.balance, o.days)
    OBVIOUS
  <2>12. PICK body : body = [success |-> x]
    OBVIOUS
  <2>13. body.success = x
    BY <2>12
  <2>14. HcmReply(o) = [status |-> 200, body |-> body]
    <3>1. HcmReply(o) = Ok([success |-> Enough(o.balance, o.days)])
      BY <1>6 DEF HcmReply, ApplyReply
    <3> QED
      BY <2>11, <2>12, <3>1, Zenon DEF Ok
  <2>15. CASE Enough(o.balance, o.days)
    <3>1. hcm' = [hcm EXCEPT ![o.balance] = @ - o.days]
      BY <1>2, <1>6, <2>15 DEF HcmAfter
    <3>2. hcm' # hcm
      <4>1. o.balance \in HcmRows /\ hcm[o.balance] \in Nat
        BY <2>15 DEF Enough, ExchangeInv
      <4>2. hcm'[o.balance] = hcm[o.balance] - o.days
        BY <3>1, <4>1 DEF ExchangeInv
      <4> QED
        BY <2>1, <4>1, <4>2
    <3>3. served' = [served EXCEPT ![c] = @ + 1]
      BY <3>2 DEF Serve
    <3>4. AbstractServed' = [AbstractServed EXCEPT ![c] = @ + 1]
      <4>1. AbstractServed' = [d \in Calls |->
                                IF Applies(d) THEN served'[d] ELSE 0]
        BY <1>3 DEF AbstractServed
      <4>2. /\ served'[c] = served[c] + 1
            /\ \A d \in Calls : d # c => served'[d] = served[d]
        BY <1>1, <3>3 DEF ExchangeInv
      <4> QED
        BY <1>1, <2>10, <4>1, <4>2 DEF AbstractServed
    <3>5. "success" = IF body.success THEN "success" ELSE "refused"
      BY <2>11, <2>13, <2>15, Zenon
    <3>6. AbstractClient' = Client!Answered(n, "success")
      BY <1>6, <2>14, <3>5, AnsweredRefines
    <3>7. Client!HcmApplies(n)
      BY <2>2, <2>3, <2>7, <2>9, <2>15, <3>1, <3>4, <3>6
         DEF Client!HcmApplies
    <3> QED
      BY <2>7, <3>7 DEF Client!HcmNext, Client!HcmStep
  <2>16. CASE ~ Enough(o.balance, o.days)
    <3>1. hcm' = hcm /\ served' = served
      BY <1>2, <1>6, <2>16 DEF HcmAfter, Serve
    <3>2. AbstractServed' = AbstractServed
      BY <1>3, <3>1 DEF AbstractServed
    <3>3. "refused" = IF body.success THEN "success" ELSE "refused"
      BY <2>11, <2>13, <2>16, Zenon
    <3>4. AbstractClient' = Client!Answered(n, "refused")
      BY <1>6, <2>14, <3>3, AnsweredRefines
    <3>5. Client!HcmRefuses(n)
      BY <2>3, <2>7, <2>9, <2>16, <3>1, <3>2, <3>4 DEF Client!HcmRefuses
    <3> QED
      BY <2>7, <3>5 DEF Client!HcmNext, Client!HcmStep
  <2> QED
    BY <2>15, <2>16
<1> QED
  BY <1>1, <1>4, <1>5, <1>6, OrderFacts

LEMMA InitRefines == ExchangeInit => Client!HcmInit
<1> SUFFICES ASSUME ExchangeInit PROVE Client!HcmInit
  OBVIOUS
<1>1. \A c \in Calls : ~ Applies(c)
  BY DEF ExchangeInit, Unused, Applies
<1> QED
  BY <1>1 DEF ExchangeInit, Client!HcmInit, Client!Idle, AbstractClient,
              AbstractWire, AbstractServed

LEMMA StepRefines ==
  ASSUME ExchangeInv, [ExchangeNext]_exchangeVars
  PROVE  [Client!HcmNext \/ SyncServed]_(Client!hcmVars)
<1>1. ASSUME NEW c \in Calls, Moves(c)
      PROVE  Client!HcmNext \/ UNCHANGED Client!hcmVars
  <2>1. CASE TimerFires(c) \/ ConnectionBreaks(c)
    BY <2>1, FailRefines DEF TimerFires, ConnectionBreaks
  <2> QED
    BY <1>1, <2>1, SendRefines, StatusRefines, BodyRefines DEF Moves
<1>2. ASSUME UNCHANGED <<hcm, wire, client, served>>
      PROVE  UNCHANGED Client!hcmVars
  BY <1>2 DEF Client!hcmVars, AbstractClient, AbstractWire, AbstractServed,
              Applies
<1>3. ASSUME NEW f \in Modes, SetFailureMode(f)
      PROVE  UNCHANGED Client!hcmVars
  BY <1>2, <1>3 DEF SetFailureMode
<1>4. CASE UNCHANGED exchangeVars
  BY <1>2, <1>4 DEF exchangeVars
<1> QED
  BY <1>1, <1>3, <1>4, CallRefines, ServeRefines DEF ExchangeNext

(* The four methods on the wire, restricted to the calls of applyLeave,    *)
(* are the client that the handlers are modelled with: an answer in two    *)
(* parts, statuses and failure modes add nothing that HcmClient could not  *)
(* do.  Only another client's fullSync changes the rows besides.           *)
THEOREM ImplementsClient == ExchangeSpec => ImplementsHcmClient
<1>1. ExchangeInv /\ [ExchangeNext]_exchangeVars
        => [Client!HcmNext \/ SyncServed]_(Client!hcmVars)
  BY StepRefines
<1> QED
  BY <1>1, InitRefines, ExchangeInvariant, PTL
     DEF ExchangeSpec, ImplementsHcmClient
=============================================================================
