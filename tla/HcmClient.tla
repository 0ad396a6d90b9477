----------------------------- MODULE HcmClient -----------------------------
(***************************************************************************)
(* HcmClient.applyLeave and the HCM endpoint it calls.                     *)
(*                                                                         *)
(* applyLeave sends POST /hcm/apply-leave and waits.  An attempt that      *)
(* times out, loses its connection or is answered 5xx is retried           *)
(* (retryWithBackoff), at most MaxAttempts attempts in all; an answer      *)
(* success:false is turned into a status 400 error, which is final.        *)
(*                                                                         *)
(* Aborting a fetch does not recall the request: what an abandoned attempt *)
(* asked for may still be applied, and the HCM has no memory of the        *)
(* requestId it is sent, so each attempt that reaches it is applied again. *)
(* A message that is never served is a message that was lost.              *)
(***************************************************************************)
EXTENDS Integers, FiniteSets

CONSTANTS
  Calls,        \* invocations of a handler, each may call applyLeave once
  Requests,     \* ids of time-off requests
  Balances,     \* ids of the rows of the balances table
  HcmRows,      \* the balances the HCM has a row for
  HcmTotals,    \* what a row may hold before the service first uses it
  Days,         \* lengths a request may have, in half days
  MaxAttempts   \* HCM_MAX_RETRIES + 1

ASSUME HcmAssumption ==
  /\ HcmTotals \subseteq Nat
  /\ Days \subseteq Nat \ {0}
  /\ MaxAttempts \in Nat \ {0}

VARIABLES
  hcm,      \* hcm[b]: what the HCM has left of balance b
  wire,     \* apply-leave requests that have been sent and not yet served
  client,   \* client[c]: the applyLeave call made by c
  served    \* history: how many attempts of c the HCM has applied

hcmVars == <<hcm, wire, client, served>>

(* The body of an apply-leave request.  Cancelling an approved request     *)
(* sends its days with a minus sign.                                       *)
Orders == [request : Requests, balance : Balances,
           days : Days \cup {-d : d \in Days}]

Phases == {"off", "sending", "waiting", "ok", "failed"}
Answers == {"none", "success", "refused"}

Idle == [phase |-> "off", attempt |-> 0, answer |-> "none", order |-> <<>>]

Clients ==
  [phase : Phases, attempt : 0..MaxAttempts, answer : Answers,
   order : Orders \cup {<<>>}]

Messages == [call : Calls, attempt : 1..MaxAttempts, order : Orders]

HcmInit ==
  /\ hcm \in [HcmRows -> HcmTotals]
  /\ wire = {}
  /\ client = [c \in Calls |-> Idle]
  /\ served = [c \in Calls |-> 0]

-----------------------------------------------------------------------------
(* The client. *)

(* A handler calls applyLeave. *)
ApplyLeave(c, order) ==
  /\ client[c].phase = "off" /\ client[c].attempt = 0
  /\ client' = [client EXCEPT ![c] =
                 [phase |-> "sending", attempt |-> 0,
                  answer |-> "none", order |-> order]]
  /\ UNCHANGED <<hcm, wire, served>>

(* fetch of the next attempt. *)
SendAttempt(c) ==
  /\ client[c].phase = "sending"
  /\ client[c].attempt < MaxAttempts
  /\ client' = [client EXCEPT ![c].phase = "waiting",
                              ![c].attempt = @ + 1, ![c].answer = "none"]
  /\ wire' = wire \cup {[call |-> c, attempt |-> client[c].attempt + 1,
                         order |-> client[c].order]}
  /\ UNCHANGED <<hcm, served>>

\* Mutant: success:false taken for success.
ReceiveAnyAnswer(c) ==
  /\ client[c].phase = "waiting"
  /\ client[c].answer # "none"
  /\ client' = [client EXCEPT ![c].phase = "ok"]
  /\ UNCHANGED <<hcm, wire, served>>

(* The answer arrives in time.  success:false is not retried. *)
ReceiveAnswer(c) ==
  /\ client[c].phase = "waiting"
  /\ client[c].answer # "none"
  /\ client' = [client EXCEPT ![c].phase =
                 IF client[c].answer = "success" THEN "ok" ELSE "failed"]
  /\ UNCHANGED <<hcm, wire, served>>

\* Mutant: the number of attempts is not tested.
AttemptFailsForGood(c) ==
  /\ client[c].phase = "waiting"
  /\ client' = [client EXCEPT ![c].phase = "sending", ![c].answer = "none"]
  /\ UNCHANGED <<hcm, wire, served>>

(* Timeout, network error, 5xx or 429, whatever became of the attempt:     *)
(* retry while attempts are left.                                          *)
AttemptFails(c) ==
  /\ client[c].phase = "waiting"
  /\ client' = [client EXCEPT
                 ![c].phase = IF client[c].attempt < MaxAttempts
                              THEN "sending" ELSE "failed",
                 ![c].answer = "none"]
  /\ UNCHANGED <<hcm, wire, served>>

-----------------------------------------------------------------------------
(* The HCM.  Only the attempt the client is waiting for gets an answer to  *)
(* it; the answer to an abandoned attempt goes nowhere.                    *)

Covers(order) ==
  order.balance \in HcmRows /\ hcm[order.balance] >= order.days

Answered(m, answer) ==
  IF client[m.call].phase = "waiting" /\ client[m.call].attempt = m.attempt
    THEN [client EXCEPT ![m.call].answer = answer]
    ELSE client

HcmApplies(m) ==
  /\ m \in wire
  /\ Covers(m.order)
  /\ hcm' = [hcm EXCEPT ![m.order.balance] = @ - m.order.days]
  /\ served' = [served EXCEPT ![m.call] = @ + 1]
  /\ client' = Answered(m, "success")
  /\ wire' = wire \ {m}

HcmRefuses(m) ==
  /\ m \in wire
  /\ ~ Covers(m.order)
  /\ client' = Answered(m, "refused")
  /\ wire' = wire \ {m}
  /\ UNCHANGED <<hcm, served>>

-----------------------------------------------------------------------------
HcmStep ==
  \/ \E c \in Calls : SendAttempt(c) \/ ReceiveAnswer(c) \/ AttemptFails(c)
  \/ \E m \in wire : HcmApplies(m) \/ HcmRefuses(m)

(* The process dies: the calls in flight are forgotten, the messages they  *)
(* sent are not.                                                           *)
ForgetClients ==
  /\ client' = [c \in Calls |->
                 IF client[c].phase \in {"sending", "waiting"}
                   THEN [client[c] EXCEPT !.phase = "off"] ELSE client[c]]
  /\ UNCHANGED <<hcm, wire, served>>

HcmNext ==
  \/ \E c \in Calls, o \in Orders : ApplyLeave(c, o)
  \/ HcmStep
  \/ ForgetClients

HcmSpec == HcmInit /\ [][HcmNext]_hcmVars

-----------------------------------------------------------------------------
HcmTypeOK ==
  /\ hcm \in [HcmRows -> Nat]
  /\ wire \subseteq Messages
  /\ client \in [Calls -> Clients]
  /\ \A c \in Calls : client[c].phase # "off" => client[c].order \in Orders
  /\ served \in [Calls -> Nat]

(* An applyLeave call that ended well was applied; every attempt is        *)
(* applied at most once, so a call costs at most MaxAttempts times its     *)
(* days; and an attempt that was applied had been asked for by a handler.  *)
(* (There is no lower bound for a call that ended badly: its attempts may  *)
(* have been applied, or may still be.)                                    *)
OnWire(c) == {m \in wire : m.call = c}

AnswersAreTrue ==
  \A c \in Calls :
    /\ client[c].phase = "ok" => served[c] > 0
    /\ served[c] + Cardinality(OnWire(c)) <= client[c].attempt
    /\ \A m \in OnWire(c) : m.order = client[c].order
=============================================================================
