---------------------------- MODULE HcmExchange ----------------------------
(***************************************************************************)
(* The four methods of the HCM client on the wire, and the endpoints of    *)
(* the mock HCM that serve them.                                           *)
(*                                                                         *)
(* HcmClient knows of applyLeave alone, and of its answers no more than    *)
(* that they arrive or not.  Here an answer has a status and a body that   *)
(* arrive one after the other: fetchWithTimeout disarms its timer at the   *)
(* status, so that what ends the wait for a body is the network's doing.   *)
(* For applyLeave this implements HcmClient.                               *)
(***************************************************************************)
EXTENDS Integers, FiniteSets

CONSTANTS
  Calls, Requests, Balances, HcmRows, HcmTotals, Days,  \* as in HcmClient
  MaxRetries,   \* HCM_MAX_RETRIES
  Known,        \* balances whose employee, location and leave type exist
  Arguments     \* what the methods are called with

NoBody == [nothing |-> TRUE]

IsOrder(o) ==
  \/ o \in [op : {"getBalance"}, balance : Balances]
  \/ o \in [op : {"validate"}, balance : Balances, days : Days]
  \/ o \in [op : {"apply"}, request : Requests, balance : Balances,
            days : Days \cup {-d : d \in Days}]
  \/ o \in [op : {"fullSync"}, corpus : [HcmRows -> Nat]]

ASSUME ExchangeAssumption ==
  /\ HcmTotals \subseteq Nat /\ Days \subseteq Nat \ {0}
  /\ MaxRetries \in Nat
  /\ HcmRows \subseteq Known /\ Known \subseteq Balances
  /\ \A o \in Arguments : IsOrder(o)

VARIABLES
  hcm,      \* hcm[b]: mockHcmDataStore.balances
  mode,     \* mockHcmDataStore.failureMode
  wire,     \* requests sent and not yet served
  client,   \* client[c]: the one method call c makes
  served,   \* history: how many attempts of c changed a balance
  seen      \* history: the contents of hcm since the last attempt of c

exchangeVars == <<hcm, mode, wire, client, served, seen>>

Modes == {"none", "TIMEOUT", "NOT_FOUND", "NETWORK_ERROR"}

(* reply: status and body of the answer on its way; result: the body that  *)
(* was returned; error: the status that was thrown, 0 for none.            *)
NoReply == [status |-> 0, body |-> NoBody]

Unused == [phase |-> "off", attempt |-> 0, order |-> <<>>,
           reply |-> NoReply, result |-> NoBody, error |-> 0]

ExchangeInit ==
  /\ hcm \in [HcmRows -> HcmTotals]
  /\ mode = "none"
  /\ wire = {}
  /\ client = [c \in Calls |-> Unused]
  /\ served = [c \in Calls |-> 0]
  /\ seen = [c \in Calls |-> {}]

(* While a call waits it sees the HCM change. *)
Watch == seen' = [c \in Calls |-> IF seen[c] = {} THEN {}
                                                   ELSE seen[c] \cup {hcm'}]

-----------------------------------------------------------------------------
(* The client. *)

Call(c, order) ==
  /\ client[c] = Unused
  /\ client' = [client EXCEPT ![c].phase = "sending", ![c].order = order]
  /\ UNCHANGED <<hcm, mode, wire, served, seen>>

(* fetch, with the timer armed. *)
Send(c) ==
  /\ client[c].phase = "sending"
  /\ client' = [client EXCEPT ![c].phase = "waiting", ![c].attempt = @ + 1]
  /\ wire' = wire \cup {[call |-> c, attempt |-> client[c].attempt + 1,
                         order |-> client[c].order]}
  /\ seen' = [seen EXCEPT ![c] = {hcm}]
  /\ UNCHANGED <<hcm, mode, served>>

\* Mutant: an internal server error is final.
IsRetryableFinal500(status) == status = 0 \/ status > 500 \/ status = 429

(* An error without a status is one of the network. *)
IsRetryable(status) == status = 0 \/ status >= 500 \/ status = 429

\* Mutant: what arrived of the last attempt is kept for the next.
FailedKeeping(c, status) ==
  IF IsRetryable(status) /\ client[c].attempt <= MaxRetries
    THEN [client[c] EXCEPT !.phase = "sending"]
    ELSE [client[c] EXCEPT !.phase = "failed", !.reply = NoReply,
                           !.error = status]

\* Mutant: retries are not counted.
FailedUncounted(c, status) ==
  IF IsRetryable(status)
    THEN [client[c] EXCEPT !.phase = "sending", !.reply = NoReply,
                           !.attempt = @ - 1]
    ELSE [client[c] EXCEPT !.phase = "failed", !.reply = NoReply,
                           !.error = status]

(* retryWithBackoff catches an error of an attempt. *)
Failed(c, status) ==
  IF IsRetryable(status) /\ client[c].attempt <= MaxRetries
    THEN [client[c] EXCEPT !.phase = "sending", !.reply = NoReply]
    ELSE [client[c] EXCEPT !.phase = "failed", !.reply = NoReply,
                           !.error = status]

(* The timer aborts the fetch. *)
TimerFires(c) ==
  /\ client[c].phase = "waiting"
  /\ client' = [client EXCEPT ![c] = Failed(c, 0)]
  /\ UNCHANGED <<hcm, mode, wire, served, seen>>

(* fetch resolves, clearTimeout. *)
StatusArrives(c) ==
  /\ client[c].phase = "waiting" /\ client[c].reply # NoReply
  /\ client' = [client EXCEPT ![c].phase = "reading"]
  /\ UNCHANGED <<hcm, mode, wire, served, seen>>

\* Mutant: success is not tested.
AcceptedAny(order, reply) == reply.status = 200

(* Only applyLeave looks at the body of an answer that is ok. *)
Accepted(order, reply) ==
  reply.status = 200 /\ (order.op = "apply" => reply.body.success)

(* response.json() resolves. *)
BodyArrives(c) ==
  LET reply == client[c].reply
  IN  /\ client[c].phase = "reading"
      /\ client' = [client EXCEPT ![c] =
           IF Accepted(client[c].order, reply)
             THEN [client[c] EXCEPT !.phase = "ok", !.result = reply.body,
                                    !.reply = NoReply]
             ELSE Failed(c, IF reply.status = 200 THEN 400
                                                  ELSE reply.status)]
      /\ UNCHANGED <<hcm, mode, wire, served, seen>>

(* The connection breaks, or undici gives up waiting: an error without a   *)
(* status even when the status had arrived.                                *)
ConnectionBreaks(c) ==
  /\ client[c].phase \in {"waiting", "reading"}
  /\ client' = [client EXCEPT ![c] = Failed(c, 0)]
  /\ UNCHANGED <<hcm, mode, wire, served, seen>>

-----------------------------------------------------------------------------
(* The mock HCM. *)

Error(status) == [status |-> status, body |-> NoBody]
Ok(body) == [status |-> 200, body |-> body]

Enough(b, days) == b \in HcmRows /\ hcm[b] >= days

(* The failure modes concern this endpoint only. *)
BalanceReply(o) ==
  IF mode = "TIMEOUT" THEN Error(504)
  ELSE IF mode = "NETWORK_ERROR" THEN Error(500)
  ELSE IF mode = "NOT_FOUND" \/ o.balance \notin HcmRows THEN Error(404)
  ELSE Ok([balance |-> hcm[o.balance]])

ValidateReply(o) ==
  IF o.balance \notin Known THEN Error(400)
  ELSE Ok([valid |-> Enough(o.balance, o.days)])

ApplyReply(o) == Ok([success |-> Enough(o.balance, o.days)])

HcmReply(o) ==
  CASE o.op = "getBalance" -> BalanceReply(o)
    [] o.op = "validate" -> ValidateReply(o)
    [] o.op = "apply" -> ApplyReply(o)
    [] o.op = "fullSync" -> Ok([success |-> TRUE])

HcmAfter(o) ==
  CASE o.op = "apply" /\ Enough(o.balance, o.days) ->
         [hcm EXCEPT ![o.balance] = @ - o.days]
    [] o.op = "fullSync" -> o.corpus
    [] OTHER -> hcm

(* Only the attempt the client waits for can be answered. *)
Serve(m) ==
  /\ m \in wire
  /\ wire' = wire \ {m}
  /\ hcm' = HcmAfter(m.order)
  /\ served' = IF hcm' = hcm THEN served
               ELSE [served EXCEPT ![m.call] = @ + 1]
  /\ client' = IF client[m.call].phase = "waiting"
                    /\ client[m.call].attempt = m.attempt
                 THEN [client EXCEPT ![m.call].reply = HcmReply(m.order)]
                 ELSE client
  /\ Watch
  /\ UNCHANGED mode

(* set-failure-mode and clear-failure-mode *)
SetFailureMode(f) ==
  /\ mode # f
  /\ mode' = f
  /\ UNCHANGED <<hcm, wire, client, served, seen>>

-----------------------------------------------------------------------------
Moves(c) ==
  \/ Send(c) \/ TimerFires(c)
  \/ StatusArrives(c) \/ BodyArrives(c) \/ ConnectionBreaks(c)

ExchangeNext ==
  \/ \E c \in Calls : Moves(c) \/ \E o \in Arguments : Call(c, o)
  \/ \E m \in wire : Serve(m)
  \/ \E f \in Modes : SetFailureMode(f)

ExchangeSpec == ExchangeInit /\ [][ExchangeNext]_exchangeVars

(* The event loop and the timer move an attempt that waits for a status;   *)
(* undici's own bodyTimeout ends one that waits for a body.                *)
FairExchangeSpec ==
  ExchangeSpec /\ \A c \in Calls : WF_exchangeVars(Moves(c))

-----------------------------------------------------------------------------
(* A result is true of one moment since the attempt that brought it was    *)
(* sent: the balance was that high, the days were or were not covered.     *)
(* Never is it the answer to an attempt that was given up.                 *)
ResultsAreTrue ==
  \A c \in Calls : client[c].phase = "ok" =>
    LET o == client[c].order
        result == client[c].result
        Then(b, days, h) == b \in HcmRows /\ h[b] >= days
    IN  CASE o.op = "getBalance" ->
               \E h \in seen[c] : h[o.balance] = result.balance
          [] o.op = "validate" ->
               \E h \in seen[c] : result.valid = Then(o.balance, o.days, h)
          [] o.op = "apply" ->
               \E h, i \in seen[c] : Then(o.balance, o.days, h)
                                       /\ i[o.balance] = h[o.balance] - o.days
          [] OTHER -> o.corpus \in seen[c]

(* A method gives up early only for what no retry could mend: it made all  *)
(* its attempts, or the HCM refused it, because it does not know the       *)
(* balance or, for applyLeave, because at some moment since the last       *)
(* attempt was sent the days were not covered.                             *)
ErrorsAreEarned ==
  \A c \in Calls : client[c].phase = "failed" =>
    /\ client[c].attempt <= MaxRetries + 1
    /\ client[c].attempt <= MaxRetries => client[c].error \in {400, 404}
    /\ client[c].error = 404 => client[c].order.op = "getBalance"
    /\ client[c].error = 400 =>
         LET o == client[c].order
         IN  \/ o.op = "validate" /\ o.balance \notin Known
             \/ o.op = "apply" /\ \E h \in seen[c] :
                  o.balance \notin HcmRows \/ h[o.balance] < o.days

(* Every call ends, whatever the HCM and the network do. *)
EveryMethodEnds ==
  \A c \in Calls :
    client[c].phase # "off" ~> client[c].phase \in {"ok", "failed"}

-----------------------------------------------------------------------------
(* HcmClient, seen in here: the calls of applyLeave, for which waiting for *)
(* a body is still waiting.                                                *)
Applies(c) == client[c].order # <<>> /\ client[c].order.op = "apply"

Plain(o) == [request |-> o.request, balance |-> o.balance, days |-> o.days]

AbstractClient ==
  [c \in Calls |->
    IF ~ Applies(c) THEN [phase |-> "off", attempt |-> 0, answer |-> "none",
                          order |-> <<>>]
    ELSE [phase |-> IF client[c].phase = "reading" THEN "waiting"
                                                   ELSE client[c].phase,
          attempt |-> client[c].attempt,
          answer |-> IF client[c].phase = "ok" THEN "success"
                     ELSE IF client[c].phase = "failed" /\ client[c].error = 400
                       THEN "refused"
                     ELSE IF client[c].reply = NoReply THEN "none"
                     ELSE IF client[c].reply.body.success THEN "success"
                     ELSE "refused",
          order |-> Plain(client[c].order)]]

AbstractWire ==
  {[m EXCEPT !.order = Plain(m.order)] :
     m \in {w \in wire : w.order.op = "apply"}}

AbstractServed == [c \in Calls |-> IF Applies(c) THEN served[c] ELSE 0]

Client == INSTANCE HcmClient
  WITH MaxAttempts <- MaxRetries + 1, client <- AbstractClient,
       wire <- AbstractWire, served <- AbstractServed

(* A fullSync that is served replaces the rows, which HcmClient leaves to  *)
(* the HCM's side.                                                         *)
SyncServed == \E m \in wire : m.order.op = "fullSync" /\ Serve(m)

ImplementsHcmClient ==
  Client!HcmInit /\ [][Client!HcmNext \/ SyncServed]_(Client!hcmVars)
=============================================================================
