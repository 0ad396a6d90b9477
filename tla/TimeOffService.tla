--------------------------- MODULE TimeOffService ---------------------------
(***************************************************************************)
(* The five command handlers of the time-off service, the tables they      *)
(* share and the HCM they call, as many handlers running at once as there  *)
(* are calls.                                                              *)
(*                                                                         *)
(* A handler is cut where it awaits: its reads before the transaction, the *)
(* attempts of an HCM call, the transaction, the SYNC_FAILED update.  The  *)
(* transaction is ONE step, which commits with all its writes or aborts    *)
(* with none: the database is SQLite, every transaction has a connection   *)
(* of its own and starts by reading, and of two transactions that have     *)
(* both read only one can commit its writes, the other one gets            *)
(* SQLITE_BUSY (TransactionAborts).  What a handler read before that step  *)
(* may be stale in it.                                                     *)
(***************************************************************************)
EXTENDS BalanceLedger, HcmClient, Sequences

CONSTANTS
  Keys,          \* idempotency keys
  NoKey,         \* a create command without a key, or with a blank one
  NoRequest,     \* a call that has no request (yet)
  Commands,      \* the create commands clients send
  InitialDays,   \* what a balance row may hold at the start
  EmployeeLeave  \* the (employee, leave type) a balance belongs to

ASSUME ServiceAssumption ==
  /\ NoKey \notin Keys
  /\ NoRequest \notin Requests
  /\ InitialDays \subseteq Nat
  /\ Commands \subseteq [balance : Balances, from : Nat, to : Nat,
                         days : Days, key : Keys \cup {NoKey}]

VARIABLES
  balances,   \* table balances
  requests,   \* table timeOffRequests: a function on the ids it has a row for
  idemKeys,   \* table idempotencyKeys: a function on the keys it has a row for
  outbox,     \* table outboxEvents, in order of creation
  audit,      \* table auditLogs, in order of creation
  calls       \* the handlers' local state and the replies they have given

tables == <<balances, requests, idemKeys, outbox, audit>>
vars == <<tables, calls, hcmVars>>

Statuses == {"PENDING", "APPROVED", "REJECTED", "CANCELLED", "SYNC_FAILED"}
Live == {"PENDING", "APPROVED"}

RequestRow == [status : Statuses, cmd : Commands]
KeyRow == [status : {"PENDING", "COMPLETED"},
           response : Requests \cup {NoRequest}]

System == "System"

(* Ids of requests are uuids. *)
ASSUME RequestIds == System \notin Requests

RequestEvents == {"TIME_OFF_REQUESTED", "TIME_OFF_APPROVED",
                  "TIME_OFF_REJECTED", "TIME_OFF_CANCELLED"}
SystemEvents == {"BALANCE_SYNCED", "BALANCE_DRIFT_DETECTED"}

Events == [type : RequestEvents, aggregate : Requests]
            \cup [type : SystemEvents, aggregate : {System}]
AuditRows == [entity : Requests, old : Statuses \cup {"NONE"}, new : Statuses]
               \cup [entity : {System}, old : {"NONE"}, new : {"SYNC"}]

Event(type, aggregate) == [type |-> type, aggregate |-> aggregate]
AuditRow(entity, old, new) == [entity |-> entity, old |-> old, new |-> new]

-----------------------------------------------------------------------------
(* A call is one invocation of a handler: what it was asked to do (op and  *)
(* cmd, request or corpus), where it is (pc) and what it answered (reply). *)

Operations == {"none", "create", "approve", "reject", "cancel", "sync"}
Places == {"idle", "balance", "apply", "tx", "mark", "done"}
Replies == {"none", "OK", "CACHED", "NOT_FOUND", "INVALID_STATE",
            "INSUFFICIENT_BALANCE", "CONCURRENT_MODIFICATION",
            "UNIQUE_VIOLATION", "INVALID_RESERVATION", "HCM_ERROR",
            "DB_ERROR", "CRASHED"}

(* A posted corpus: totals for some of the HCM's rows. *)
IsCorpus(f) == DOMAIN f \subseteq HcmRows /\ f \in [DOMAIN f -> Nat]
NoCorpus == [b \in {} |-> 0]

NewCall == [op |-> "none", pc |-> "idle", cmd |-> <<>>,
            request |-> NoRequest, corpus |-> NoCorpus, reply |-> "none"]

IsCall(call) ==
  /\ IsCorpus(call.corpus)
  /\ call \in [op : Operations, pc : Places, cmd : Commands \cup {<<>>},
               request : Requests \cup {NoRequest},
               corpus : {call.corpus}, reply : Replies]

Running(c) == calls[c].pc \notin {"idle", "done"}

At(c, op, pc) == calls[c].op = op /\ calls[c].pc = pc

GoTo(c, pc) == calls' = [calls EXCEPT ![c].pc = pc]

Reply(c, code) ==
  calls' = [calls EXCEPT ![c].pc = "done", ![c].reply = code]

Init ==
  /\ HcmInit
  /\ balances \in [Balances -> {NewBalance(d) : d \in InitialDays}]
  /\ requests = [r \in {} |-> <<>>]
  /\ idemKeys = [k \in {} |-> <<>>]
  /\ outbox = <<>>
  /\ audit = <<>>
  /\ calls = [c \in Calls |-> NewCall]

-----------------------------------------------------------------------------
(* What the handlers' statements do to the tables. *)

(* A handler that takes a request id reads the row first, and answers at   *)
(* once when there is none or its status is not one it acts on.            *)
StartRefusal(r, allowed) ==
  IF r \notin DOMAIN requests THEN "NOT_FOUND"
  ELSE IF requests[r].status \notin allowed THEN "INVALID_STATE"
  ELSE "none"

Begin(c, op, r, allowed, pc) ==
  LET refusal == StartRefusal(r, allowed)
  IN  calls' = [calls EXCEPT ![c] =
                 [NewCall EXCEPT !.op = op, !.request = r,
                                 !.pc = IF refusal = "none" THEN pc
                                                            ELSE "done",
                                 !.reply = refusal]]

SetBalance(b, row) == balances' = [balances EXCEPT ![b] = row]

\* Mutant: SetStatus without WHERE id.
SetStatusOfAll(r, status) ==
  requests' = [x \in DOMAIN requests |-> [requests[x] EXCEPT !.status = status]]

SetStatus(r, status) == requests' = [requests EXCEPT ![r].status = status]

\* Mutant: Publish without the audit row.
PublishUnaudited(type, r, old, new) ==
  /\ outbox' = Append(outbox, Event(type, r))
  /\ UNCHANGED audit

(* createEvent and log, at the end of every transaction. *)
Publish(type, r, old, new) ==
  /\ outbox' = Append(outbox, Event(type, r))
  /\ audit' = Append(audit, AuditRow(r, old, new))

(* storeRequest and, later in the same transaction, markCompleted. *)
StoreKey(keys, k) ==
  [x \in DOMAIN keys \cup {k} |->
     IF x = k THEN [status |-> "PENDING", response |-> NoRequest]
              ELSE keys[x]]

CompleteKey(keys, k, r) ==
  [keys EXCEPT ![k] = [status |-> "COMPLETED", response |-> r]]

(* The transaction of c does not commit: SQLITE_BUSY, a lost connection, a *)
(* foreign key violated by the approver's id, a blank key in the UNIQUE    *)
(* column of another request.  Everything it wrote is rolled back.         *)
TransactionAborts(c) ==
  /\ calls[c].pc = "tx"
  /\ Reply(c, "DB_ERROR")
  /\ UNCHANGED <<tables, hcmVars>>

-----------------------------------------------------------------------------
(* CreateTimeOffRequestHandler *)

(* Step 1: a key that is on record ends the call. *)
CreateFindsKey(c, cmd) ==
  /\ calls[c].pc = "idle"
  /\ cmd.key \in DOMAIN idemKeys
  /\ LET found == idemKeys[cmd.key]
         cached == found.status = "COMPLETED"
     IN  calls' = [calls EXCEPT ![c] =
                    [NewCall EXCEPT
                      !.op = "create", !.cmd = cmd, !.pc = "done",
                      !.request = IF cached THEN found.response
                                            ELSE NoRequest,
                      !.reply = IF cached THEN "CACHED"
                                ELSE "CONCURRENT_MODIFICATION"]]
  /\ UNCHANGED <<tables, hcmVars>>

CreateStarts(c, cmd) ==
  /\ calls[c].pc = "idle"
  /\ cmd.key \notin DOMAIN idemKeys
  /\ calls' = [calls EXCEPT ![c] = [NewCall EXCEPT !.op = "create",
                                      !.cmd = cmd, !.pc = "balance"]]
  /\ UNCHANGED <<tables, hcmVars>>

(* Steps 2 to 4.  Every outcome of the HCM validation, its own refusal     *)
(* included, is caught and ignored, so that call is only a delay here.     *)
CreateChecksBalance(c) ==
  /\ At(c, "create", "balance")
  /\ LET cmd == calls[c].cmd
     IN  IF balances[cmd.balance].available < cmd.days
           THEN Reply(c, "INSUFFICIENT_BALANCE")
           ELSE GoTo(c, "tx")
  /\ UNCHANGED <<tables, hcmVars>>

\* Mutant: findOverlapping that looks at PENDING only.
OverlappingPending(cmd) ==
  {r \in DOMAIN requests :
     /\ requests[r].status = "PENDING"
     /\ EmployeeLeave[requests[r].cmd.balance] = EmployeeLeave[cmd.balance]
     /\ requests[r].cmd.from <= cmd.to
     /\ requests[r].cmd.to >= cmd.from}

\* Mutant: findOverlapping within one location.
OverlappingHere(cmd) ==
  {r \in DOMAIN requests :
     /\ requests[r].status \in Live
     /\ requests[r].cmd.balance = cmd.balance
     /\ requests[r].cmd.from <= cmd.to
     /\ requests[r].cmd.to >= cmd.from}

(* findOverlapping: same employee and leave type, at whatever location. *)
Overlapping(cmd) ==
  {r \in DOMAIN requests :
     /\ requests[r].status \in Live
     /\ EmployeeLeave[requests[r].cmd.balance] = EmployeeLeave[cmd.balance]
     /\ requests[r].cmd.from <= cmd.to
     /\ requests[r].cmd.to >= cmd.from}

\* Mutant: CreateRefusal without UNIQUE (key).
CreateRefusalKeyIgnored(cmd) ==
  LET row == balances[cmd.balance]
  IN  IF Overlapping(cmd) # {} THEN "INVALID_STATE"
      ELSE IF ~ CanReserve(row, cmd.days, row.version)
        THEN "INSUFFICIENT_BALANCE"
      ELSE "none"

CreateRefusal(cmd) ==
  LET row == balances[cmd.balance]
  IN  IF Overlapping(cmd) # {} THEN "INVALID_STATE"
      ELSE IF cmd.key \in DOMAIN idemKeys THEN "UNIQUE_VIOLATION"
      ELSE IF ~ CanReserve(row, cmd.days, row.version)
        THEN "INSUFFICIENT_BALANCE"
      ELSE "none"

CreateIsRefused(c) ==
  /\ At(c, "create", "tx")
  /\ CreateRefusal(calls[c].cmd) # "none"
  /\ Reply(c, CreateRefusal(calls[c].cmd))
  /\ UNCHANGED <<tables, hcmVars>>

(* The transaction.  r is the uuid of the new row. *)
CreateCommits(c, r) ==
  LET cmd == calls[c].cmd
  IN  /\ At(c, "create", "tx")
      /\ CreateRefusal(cmd) = "none"
      /\ r \notin DOMAIN requests
      /\ idemKeys' =
           IF cmd.key = NoKey THEN idemKeys
           ELSE CompleteKey(StoreKey(idemKeys, cmd.key), cmd.key, r)
      /\ SetBalance(cmd.balance, Reserve(balances[cmd.balance], cmd.days))
      /\ requests' = [x \in DOMAIN requests \cup {r} |->
                        IF x = r THEN [status |-> "PENDING", cmd |-> cmd]
                                 ELSE requests[x]]
      /\ Publish("TIME_OFF_REQUESTED", r, "NONE", "PENDING")
      /\ calls' = [calls EXCEPT ![c].pc = "done", ![c].reply = "OK",
                                ![c].request = r]
      /\ UNCHANGED hcmVars

-----------------------------------------------------------------------------
(* ApproveTimeOffRequestHandler *)

ApproveStarts(c, r) ==
  /\ calls[c].pc = "idle"
  /\ Begin(c, "approve", r, {"PENDING"}, "balance")
  /\ UNCHANGED <<tables, hcmVars>>

(* Step 2 revalidates the balance, step 3 calls applyLeave. *)
ApproveRefusesBalance(c) ==
  LET cmd == requests[calls[c].request].cmd
  IN  /\ At(c, "approve", "balance")
      /\ balances[cmd.balance].reserved < cmd.days
      /\ Reply(c, "INVALID_STATE")
      /\ UNCHANGED <<tables, hcmVars>>

ApproveCallsHcm(c) ==
  LET r == calls[c].request
      cmd == requests[r].cmd
  IN  /\ At(c, "approve", "balance")
      /\ balances[cmd.balance].reserved >= cmd.days
      /\ ApplyLeave(c, [request |-> r, balance |-> cmd.balance,
                        days |-> cmd.days])
      /\ GoTo(c, "apply")
      /\ UNCHANGED tables

\* Mutant: ApproveHearsFromHcm that goes on after an error.
ApproveIgnoresHcm(c) ==
  /\ At(c, "approve", "apply")
  /\ client[c].phase \in {"ok", "failed"}
  /\ GoTo(c, "tx")
  /\ UNCHANGED <<tables, hcmVars>>

ApproveHearsFromHcm(c) ==
  /\ At(c, "approve", "apply")
  /\ \/ client[c].phase = "ok" /\ GoTo(c, "tx")
     \/ client[c].phase = "failed" /\ GoTo(c, "mark")
  /\ UNCHANGED <<tables, hcmVars>>

(* The catch block: updateStatus outside any transaction, whatever the     *)
(* status has become since step 1, and the HCM's error is thrown.  The     *)
(* update itself may fail.                                                 *)
ApproveMarksSyncFailed(c) ==
  /\ At(c, "approve", "mark")
  /\ SetStatus(calls[c].request, "SYNC_FAILED")
  /\ Reply(c, "HCM_ERROR")
  /\ UNCHANGED <<balances, idemKeys, outbox, audit, hcmVars>>

ApproveMarkFails(c) ==
  /\ At(c, "approve", "mark")
  /\ Reply(c, "DB_ERROR")
  /\ UNCHANGED <<tables, hcmVars>>

\* Mutant: ApproveRefusal that trusts the status read earlier.
ApproveRefusalStale(r) ==
  LET row == balances[requests[r].cmd.balance]
  IN  IF ~ CanConsume(row, requests[r].cmd.days, row.version)
        THEN "INSUFFICIENT_BALANCE"
      ELSE "none"

ApproveRefusal(r) ==
  LET row == balances[requests[r].cmd.balance]
  IN  IF requests[r].status # "PENDING" THEN "CONCURRENT_MODIFICATION"
      ELSE IF ~ CanConsume(row, requests[r].cmd.days, row.version)
        THEN "INSUFFICIENT_BALANCE"
      ELSE "none"

ApproveIsRefused(c) ==
  /\ At(c, "approve", "tx")
  /\ ApproveRefusal(calls[c].request) # "none"
  /\ Reply(c, ApproveRefusal(calls[c].request))
  /\ UNCHANGED <<tables, hcmVars>>

ApproveCommits(c) ==
  LET r == calls[c].request
      cmd == requests[r].cmd
  IN  /\ At(c, "approve", "tx")
      /\ ApproveRefusal(r) = "none"
      /\ SetStatus(r, "APPROVED")
      /\ SetBalance(cmd.balance,
                    ConsumeReserved(balances[cmd.balance], cmd.days))
      /\ Publish("TIME_OFF_APPROVED", r, "PENDING", "APPROVED")
      /\ Reply(c, "OK")
      /\ UNCHANGED <<idemKeys, hcmVars>>

-----------------------------------------------------------------------------
(* RejectTimeOffRequestHandler *)

RejectStarts(c, r) ==
  /\ calls[c].pc = "idle"
  /\ Begin(c, "reject", r, {"PENDING"}, "tx")
  /\ UNCHANGED <<tables, hcmVars>>

\* Mutant: RejectRefusal that trusts the status read earlier.
RejectRefusalStale(r) ==
  LET row == balances[requests[r].cmd.balance]
  IN  IF ~ CanReleaseReserved(row, requests[r].cmd.days, row.version)
        THEN "INVALID_RESERVATION"
      ELSE "none"

(* The reservation is released first; the status is tested by the UPDATE   *)
(* of transitionStatus.                                                    *)
RejectRefusal(r) ==
  LET row == balances[requests[r].cmd.balance]
  IN  IF ~ CanReleaseReserved(row, requests[r].cmd.days, row.version)
        THEN "INVALID_RESERVATION"
      ELSE IF requests[r].status # "PENDING" THEN "CONCURRENT_MODIFICATION"
      ELSE "none"

RejectIsRefused(c) ==
  /\ At(c, "reject", "tx")
  /\ RejectRefusal(calls[c].request) # "none"
  /\ Reply(c, RejectRefusal(calls[c].request))
  /\ UNCHANGED <<tables, hcmVars>>

RejectCommits(c) ==
  LET r == calls[c].request
      cmd == requests[r].cmd
  IN  /\ At(c, "reject", "tx")
      /\ RejectRefusal(r) = "none"
      /\ SetBalance(cmd.balance,
                    ReleaseReserved(balances[cmd.balance], cmd.days))
      /\ SetStatus(r, "REJECTED")
      /\ Publish("TIME_OFF_REJECTED", r, "PENDING", "REJECTED")
      /\ Reply(c, "OK")
      /\ UNCHANGED <<idemKeys, hcmVars>>

-----------------------------------------------------------------------------
(* CancelTimeOffRequestHandler *)

(* A request read as APPROVED has been applied in the HCM: its days are    *)
(* given back there first.                                                 *)
CancelStarts(c, r) ==
  /\ calls[c].pc = "idle"
  /\ r \in DOMAIN requests => requests[r].status # "APPROVED"
  /\ Begin(c, "cancel", r, Live, "tx")
  /\ UNCHANGED <<tables, hcmVars>>

CancelCallsHcm(c, r) ==
  /\ calls[c].pc = "idle"
  /\ r \in DOMAIN requests
  /\ requests[r].status = "APPROVED"
  /\ Begin(c, "cancel", r, Live, "apply")
  /\ ApplyLeave(c, [request |-> r, balance |-> requests[r].cmd.balance,
                    days |-> -requests[r].cmd.days])
  /\ UNCHANGED tables

(* The error of a notification that failed is swallowed. *)
CancelHearsFromHcm(c) ==
  /\ At(c, "cancel", "apply")
  /\ client[c].phase \in {"ok", "failed"}
  /\ GoTo(c, "tx")
  /\ UNCHANGED <<tables, hcmVars>>

CancelRefusal(r) ==
  LET row == balances[requests[r].cmd.balance]
      days == requests[r].cmd.days
  IN  CASE requests[r].status \notin Live -> "CONCURRENT_MODIFICATION"
        [] requests[r].status = "PENDING" ->
             IF CanReleaseReserved(row, days, row.version)
               THEN "none" ELSE "INVALID_RESERVATION"
        [] requests[r].status = "APPROVED" ->
             IF CanReleaseUsed(row, days, row.version)
               THEN "none" ELSE "INSUFFICIENT_BALANCE"

CancelIsRefused(c) ==
  /\ At(c, "cancel", "tx")
  /\ CancelRefusal(calls[c].request) # "none"
  /\ Reply(c, CancelRefusal(calls[c].request))
  /\ UNCHANGED <<tables, hcmVars>>

CancelCommits(c) ==
  LET r == calls[c].request
      cmd == requests[r].cmd
      row == balances[cmd.balance]
  IN  /\ At(c, "cancel", "tx")
      /\ CancelRefusal(r) = "none"
      /\ SetBalance(cmd.balance,
                    IF requests[r].status = "PENDING"
                      THEN ReleaseReserved(row, cmd.days)
                      ELSE ReleaseUsed(row, cmd.days))
      /\ SetStatus(r, "CANCELLED")
      /\ Publish("TIME_OFF_CANCELLED", r, requests[r].status, "CANCELLED")
      /\ Reply(c, "OK")
      /\ UNCHANGED <<idemKeys, hcmVars>>

-----------------------------------------------------------------------------
(* SyncBalancesFromHcmHandler.  The corpus is what an administrator read   *)
(* from the HCM, all of it or some rows, before the handler's transaction. *)

SyncStarts(c, exported) ==
  /\ calls[c].pc = "idle"
  /\ calls' = [calls EXCEPT ![c] =
                [NewCall EXCEPT !.op = "sync", !.pc = "tx",
                                !.corpus = [b \in exported |-> hcm[b]]]]
  /\ UNCHANGED <<tables, hcmVars>>

Reconcile(corpus, b) ==
  IF b \in DOMAIN corpus THEN Synced(balances[b], corpus[b])
                         ELSE NotInCorpus(balances[b])

\* Mutant: a row the corpus lacks is not a drift.
DriftsMismatched(corpus) ==
  \E b \in Balances \cap DOMAIN corpus :
    balances[b].available # Reconciled(balances[b], corpus[b])

Drifts(corpus) ==
  \/ DOMAIN corpus # Balances
  \/ \E b \in Balances \cap DOMAIN corpus :
       balances[b].available # Reconciled(balances[b], corpus[b])

SyncCommits(c) ==
  LET corpus == calls[c].corpus
      synced == Append(outbox, Event("BALANCE_SYNCED", System))
  IN  /\ At(c, "sync", "tx")
      /\ balances' = [b \in Balances |-> Reconcile(corpus, b)]
      /\ outbox' = IF Drifts(corpus)
                     THEN Append(synced,
                                 Event("BALANCE_DRIFT_DETECTED", System))
                     ELSE synced
      /\ audit' = Append(audit, AuditRow(System, "NONE", "SYNC"))
      /\ Reply(c, "OK")
      /\ UNCHANGED <<requests, idemKeys, hcmVars>>

-----------------------------------------------------------------------------
(* The process dies and is started again.  Nothing of a running handler is *)
(* resumed; the tables, the HCM and what is on the wire remain.            *)
Crash ==
  /\ \E c \in Calls : Running(c)
  /\ calls' = [c \in Calls |->
                IF Running(c)
                  THEN [calls[c] EXCEPT !.pc = "done", !.reply = "CRASHED"]
                  ELSE calls[c]]
  /\ ForgetClients
  /\ UNCHANGED tables

Arrives(c) ==
  \/ \E cmd \in Commands : CreateFindsKey(c, cmd) \/ CreateStarts(c, cmd)
  \/ \E r \in Requests : \/ ApproveStarts(c, r)
                         \/ RejectStarts(c, r)
                         \/ CancelStarts(c, r)
                         \/ CancelCallsHcm(c, r)
  \/ \E exported \in SUBSET HcmRows : SyncStarts(c, exported)

(* One step of the handler of c, not counting the HCM call it makes. *)
Proceeds(c) ==
  \/ CreateChecksBalance(c)
  \/ CreateIsRefused(c)
  \/ \E r \in Requests : CreateCommits(c, r)
  \/ ApproveRefusesBalance(c)
  \/ ApproveCallsHcm(c)
  \/ ApproveHearsFromHcm(c)
  \/ ApproveMarksSyncFailed(c)
  \/ ApproveMarkFails(c)
  \/ ApproveIsRefused(c)
  \/ ApproveCommits(c)
  \/ RejectIsRefused(c)
  \/ RejectCommits(c)
  \/ CancelHearsFromHcm(c)
  \/ CancelIsRefused(c)
  \/ CancelCommits(c)
  \/ SyncCommits(c)
  \/ TransactionAborts(c)

HcmActs == HcmStep /\ UNCHANGED <<tables, calls>>

Next ==
  \/ \E c \in Calls : Arrives(c) \/ Proceeds(c)
  \/ HcmActs
  \/ Crash

Spec == Init /\ [][Next]_vars

(* Every call that has arrived is driven by the event loop until it has    *)
(* answered; an attempt that gets no answer times out.  Nothing makes a    *)
(* call arrive, a message reach the HCM, or the process die.               *)
HandlerStep(c) == Proceeds(c) \/ (SendAttempt(c) /\ UNCHANGED <<tables, calls>>)
                    \/ (ReceiveAnswer(c) /\ UNCHANGED <<tables, calls>>)
                    \/ (AttemptFails(c) /\ UNCHANGED <<tables, calls>>)

FairSpec == Spec /\ \A c \in Calls : WF_vars(HandlerStep(c))

-----------------------------------------------------------------------------
(* Types of the tables and of the handlers' local state. *)
TypeOK ==
  /\ HcmTypeOK
  /\ balances \in [Balances -> BalanceRow]
  /\ DOMAIN requests \subseteq Requests
  /\ requests \in [DOMAIN requests -> RequestRow]
  /\ DOMAIN idemKeys \subseteq Keys
  /\ idemKeys \in [DOMAIN idemKeys -> KeyRow]
  /\ outbox \in Seq(Events)
  /\ audit \in Seq(AuditRows)
  /\ DOMAIN calls = Calls /\ \A c \in Calls : IsCall(calls[c])

-----------------------------------------------------------------------------
(* The status the events of a request tell, and the days its balance holds *)
(* for it.                                                                 *)

Logged(type, r) == \E i \in DOMAIN outbox : outbox[i] = Event(type, r)

LogStatus(r) ==
  IF Logged("TIME_OFF_CANCELLED", r) THEN "CANCELLED"
  ELSE IF Logged("TIME_OFF_REJECTED", r) THEN "REJECTED"
  ELSE IF Logged("TIME_OFF_APPROVED", r) THEN "APPROVED"
  ELSE "PENDING"

DaysAsked == [r \in DOMAIN requests |-> requests[r].cmd.days]

LoggedOn(b, status) ==
  {r \in DOMAIN requests :
     requests[r].cmd.balance = b /\ LogStatus(r) = status}

(* The balance rows are what the event log says they should be: reserved   *)
(* is the sum of the requests last reported as pending, used of those last *)
(* reported as approved, whatever handlers ran concurrently, died, or were *)
(* followed by a sync.  (NFR-2.2, no balance corruption, for the columns   *)
(* the service owns.)                                                      *)
LedgerMatchesLog ==
  \A b \in Balances :
    /\ balances[b].reserved = TotalDays(LoggedOn(b, "PENDING"), DaysAsked)
    /\ balances[b].used = TotalDays(LoggedOn(b, "APPROVED"), DaysAsked)

(* A request has the status its events tell, except that the update of the *)
(* catch block of approve can have replaced it by SYNC_FAILED.             *)
StatusMatchesLog ==
  \A r \in DOMAIN requests :
    /\ Logged("TIME_OFF_REQUESTED", r)
    /\ requests[r].status \in {LogStatus(r), "SYNC_FAILED"}

(* No two events of a request are the same, however many handlers raced to *)
(* decide it, and none contradicts another: a rejected request was neither *)
(* approved nor cancelled.  A consumer never sees a decision twice.        *)
NoContradictingEvents ==
  /\ \A i, j \in DOMAIN outbox :
       outbox[i] = outbox[j] /\ i # j => outbox[i].aggregate = System
  /\ \A r \in Requests : Logged("TIME_OFF_REJECTED", r) =>
       ~ Logged("TIME_OFF_APPROVED", r) /\ ~ Logged("TIME_OFF_CANCELLED", r)

(* Of two active requests of one employee and leave type one is over       *)
(* before the other starts, not even at different locations do they share  *)
(* an instant (the columns are DATEs with a time, so that two requests can *)
(* be parts of one day).  That is also what keeps a request whose end lies *)
(* before its start (the validation compares no dates) apart from the      *)
(* others: it has no instant they could share.                             *)
Period(r) == requests[r].cmd.from .. requests[r].cmd.to

OverBefore(r, s) == requests[r].cmd.to < requests[s].cmd.from

NoDoubleBooking ==
  \A r, s \in DOMAIN requests :
    /\ r # s
    /\ requests[r].status \in Live /\ requests[s].status \in Live
    /\ EmployeeLeave[requests[r].cmd.balance]
         = EmployeeLeave[requests[s].cmd.balance]
    => /\ OverBefore(r, s) \/ OverBefore(s, r)
       /\ Period(r) \cap Period(s) = {}

(* One key, one request: the key's row names the only request that was     *)
(* created under it, and whoever sent the key again and was answered from  *)
(* the cache was given that request.                                       *)
KeysNameTheirRequest ==
  /\ \A k \in Keys :
       {r \in DOMAIN requests : requests[r].cmd.key = k}
         = IF k \in DOMAIN idemKeys THEN {idemKeys[k].response} ELSE {}
  /\ \A c \in Calls :
       calls[c].op = "create" /\ calls[c].reply \in {"OK", "CACHED"} =>
         /\ calls[c].request \in DOMAIN requests
         /\ requests[calls[c].request].cmd.key = calls[c].cmd.key

(* A request is decided for one caller only: of all the approvals,         *)
(* rejections and cancellations of a request, no two of a kind are         *)
(* answered OK, nor are an approval and a rejection, nor a rejection and a *)
(* cancellation; and what was answered OK has been reported.               *)
DecidedOnce ==
  LET Won(op) == {c \in Calls : calls[c].op = op /\ calls[c].reply = "OK"}
      Type(op) == CASE op = "approve" -> "TIME_OFF_APPROVED"
                    [] op = "reject"  -> "TIME_OFF_REJECTED"
                    [] op = "cancel"  -> "TIME_OFF_CANCELLED"
      Decisions == {"approve", "reject", "cancel"}
  IN  \A op1, op2 \in Decisions : \A c1 \in Won(op1), c2 \in Won(op2) :
        /\ Logged(Type(op1), calls[c1].request)
        /\ c1 # c2 /\ calls[c1].request = calls[c2].request =>
             {op1, op2} = {"approve", "cancel"}

(* No request is approved here whose days the HCM was not asked for and    *)
(* did not take at least once; and days are given back to the HCM only for *)
(* requests that have been approved here.                                  *)
ApprovedInHcm ==
  /\ \A r \in Requests : Logged("TIME_OFF_APPROVED", r) =>
       \E c \in Calls : /\ At(c, "approve", "done")
                        /\ calls[c].request = r
                        /\ served[c] > 0
  /\ \A c \in Calls : calls[c].op = "cancel" /\ client[c].order # <<>> =>
       Logged("TIME_OFF_APPROVED", calls[c].request)

(* The trail of a request in the audit log is unbroken: each entry starts  *)
(* from the status the entry before it ended with, and there is one entry  *)
(* for each event, in the same order.                                      *)
StatusTold(type) ==
  CASE type = "TIME_OFF_REQUESTED" -> "PENDING"
    [] type = "TIME_OFF_APPROVED"  -> "APPROVED"
    [] type = "TIME_OFF_REJECTED"  -> "REJECTED"
    [] type = "TIME_OFF_CANCELLED" -> "CANCELLED"

EventsOf(r) == {i \in DOMAIN outbox : outbox[i].aggregate = r}
TrailOf(r) == {i \in DOMAIN audit : audit[i].entity = r}

(* Entry i is the first, the second, ... of the entries S. *)
Place(S, i) == Cardinality({j \in S : j <= i})

AuditMatchesOutbox ==
  \A r \in Requests :
    /\ Cardinality(TrailOf(r)) = Cardinality(EventsOf(r))
    /\ \A i \in TrailOf(r) :
         LET place == Place(TrailOf(r), i)
         IN  /\ \A j \in EventsOf(r) : Place(EventsOf(r), j) = place =>
                  audit[i].new = StatusTold(outbox[j].type)
             /\ place = 1 => audit[i].old = "NONE"
             /\ \A k \in TrailOf(r) : Place(TrailOf(r), k) + 1 = place =>
                  audit[i].old = audit[k].new

-----------------------------------------------------------------------------
(* Days are only ever moved between the three columns of one row; the sum  *)
(* of a row changes by a sync alone.  A write that moves days moves the    *)
(* version by one, so a version read earlier betrays every lost update.    *)
Entitlement(row) == row.available + row.reserved + row.used

ConservingStep ==
  \A b \in Balances :
    LET old == balances[b]
        new == balances'[b]
    IN  /\ Entitlement(new) # Entitlement(old) =>
             \E c \in Calls : At(c, "sync", "tx") /\ calls'[c].reply = "OK"
        /\ \/ new.version = old.version + 1
           \/ new = [old EXCEPT !.syncStatus = new.syncStatus]

DaysAreConserved == [][ConservingStep]_vars

-----------------------------------------------------------------------------
(* What the HCM has of a balance and what the service believes it has,     *)
(* available plus reserved, drift apart by a sync, or by calls that ended  *)
(* differently on the two sides, and by no more than the days of those:    *)
(* approvals the HCM applied (each attempt counts) that did not commit,    *)
(* and cancellations of approved requests that committed without the HCM   *)
(* giving the days back, or the other way round.                           *)
CallsOn(op, b) ==
  {c \in Calls : /\ calls[c].op = op /\ calls[c].request \in DOMAIN requests
                 /\ requests[calls[c].request].cmd.balance = b}

DaysOf(c) == requests[calls[c].request].cmd.days

InHcm(op, b) ==
  LET S == CallsOn(op, b) IN TotalDays(S, [c \in S |-> served[c] * DaysOf(c)])

(* A cancellation moves days the HCM knows of when it finds an approval. *)
Here(op, b) ==
  LET S == {c \in CallsOn(op, b) :
              calls[c].reply = "OK"
                /\ Logged("TIME_OFF_APPROVED", calls[c].request)}
  IN  TotalDays(S, [c \in S |-> DaysOf(c)])

Unexplained(b) ==
  (balances[b].available + balances[b].reserved - hcm[b])
    - (InHcm("approve", b) - Here("approve", b))
    + (InHcm("cancel", b) - Here("cancel", b))

ExplainedStep ==
  \A b \in Balances \cap HcmRows :
    \/ Unexplained(b)' = Unexplained(b)
    \/ \E c \in Calls : At(c, "sync", "tx") /\ calls'[c].reply = "OK"

DriftIsExplained == [][ExplainedStep]_vars

-----------------------------------------------------------------------------
(* Every call that arrives is answered, with the HCM silent or refusing,   *)
(* other handlers in the way, or the process dying.                        *)
EveryCallAnswered == \A c \in Calls : Running(c) ~> calls[c].pc = "done"

(* The tables, seen as a book of requests: the status is the one the       *)
(* events tell, a request shown as SYNC_FAILED is one that is lost.        *)
Book ==
  [r \in DOMAIN requests |->
     [cmd |-> requests[r].cmd, status |-> LogStatus(r),
      lost |-> requests[r].status = "SYNC_FAILED"]]

Free == [b \in Balances |-> balances[b].available]

Abstract == INSTANCE LeaveBook WITH book <- Book, free <- Free

(* The service implements LeaveBook. *)
ImplementsLeaveBook == Abstract!Spec

-----------------------------------------------------------------------------
(* Statements of the repository's documents and tests that the code does   *)
(* not keep; each is refuted by a run of its own.                          *)

(* tests/unit/business-rules.spec.js:88-89: a rejected or cancelled        *)
(* request stays that way.  The SYNC_FAILED update of an approval that     *)
(* lost the race overwrites it.                                            *)
TerminalStep ==
  \A r \in DOMAIN requests :
    requests[r].status \in {"REJECTED", "CANCELLED"} =>
      requests'[r].status = requests[r].status

DecidedIsFinal == [][TerminalStep]_vars

(* docs/TRD.md:77: duplicates with the same key return the cached          *)
(* response.  Two that run concurrently both miss the cache, and the loser *)
(* is answered with an error.                                              *)
DuplicatesGetCachedReply ==
  \A c, d \in Calls :
    /\ c # d
    /\ calls[c].op = "create" /\ calls[d].op = "create"
    /\ calls[c].cmd = calls[d].cmd /\ calls[c].cmd.key \in Keys
    /\ calls[c].reply = "OK" /\ calls[d].pc = "done"
    => calls[d].reply \in {"CACHED", "DB_ERROR", "CRASHED"}
=============================================================================
