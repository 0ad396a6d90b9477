----------------------------- MODULE ServiceApi -----------------------------
(***************************************************************************)
(* The HTTP API in front of the command handlers: the authentication       *)
(* middleware, the controllers with their role and ownership tests, the    *)
(* queries and the exception filter.                                       *)
(*                                                                         *)
(* A call of TimeOffService is here an exchange with one client: a request *)
(* that is refused at the door, answered by a query, or handed to a        *)
(* command handler.  The handler's reply becomes the status of the answer. *)
(***************************************************************************)
EXTENDS TimeOffService

CONSTANTS
  Tokens,      \* the Authorization headers clients send
  NoUser,      \* nobody in particular
  Owner,       \* Owner[b]: the employee balance b belongs to
  AuditPage,   \* query.limit of GET /api/audit-logs
  ReportPage   \* limit of the drift events in the reconciliation report

(* JwtAuthMiddleware, in front of everything under /api.  A signed token   *)
(* is taken at its word: it must name somebody (sub or userId) and a role, *)
(* and any role will do.                                                   *)
Verified(token) ==
  /\ token.scheme = "Bearer" /\ token.alg = "HS256"
  /\ token.signature = "ours"
  /\ token.exp # "past"
  /\ token.claims.sub # "" /\ token.claims.role # ""

(* Whom the controllers meet: a user is what a verified token claims.      *)
Users == {token.claims : token \in {t \in Tokens : Verified(t)}}

ASSUME ApiAssumption ==
  /\ NoUser \notin Users
  /\ AuditPage \in Nat \ {0} /\ ReportPage \in Nat \ {0}

VARIABLE http  \* http[c]: the exchange c

apiVars == <<vars, http>>

(* The routes of each controller. *)
RequestRoutes == {"create", "list", "show", "approve", "reject", "cancel"}
BalanceRoutes == {"balances", "balance", "sync"}
AuditRoutes == {"auditLog", "auditOf"}
ReportRoutes == {"report"}
Routes == RequestRoutes \cup BalanceRoutes \cup AuditRoutes \cup ReportRoutes

AdminRoutes == {"sync", "auditLog", "auditOf", "report"}

(* stage: where the exchange is; about: the request or balance its path    *)
(* names; told: the decisions that had been answered to somebody when it   *)
(* arrived; shown: what it has read.                                       *)
Stages == {"off", "owner", "handler", "events", "closed"}

NoExchange ==
  [user |-> NoUser, route |-> "none", stage |-> "off", status |-> 0,
   about |-> NoRequest, told |-> {}, shown |-> {}, events |-> {}]

ApiInit == Init /\ http = [c \in Calls |-> NoExchange]

-----------------------------------------------------------------------------
SuccessStatus(route) ==
  CASE route = "create" -> 201 [] route = "sync" -> 202 [] OTHER -> 200

(* HttpExceptionFilter: what it does not know is an internal error. *)
ErrorStatus(code) ==
  CASE code \in {"INVALID_STATE", "INSUFFICIENT_BALANCE",
                 "CONCURRENT_MODIFICATION"} -> 409
    [] code = "NOT_FOUND" -> 404
    [] OTHER -> 500

Succeeded(c) == calls[c].reply \in {"OK", "CACHED"}

(* What has been answered to somebody: <<request, its new status>>. *)
Decision == [create |-> "PENDING", approve |-> "APPROVED",
             reject |-> "REJECTED", cancel |-> "CANCELLED"]

Told == {<<calls[c].request, Decision[http[c].route]>> :
           c \in {d \in Calls : /\ http[d].route \in DOMAIN Decision
                                /\ http[d].status \in {200, 201}}}

-----------------------------------------------------------------------------
MayDecide(u) == u.role \in {"MANAGER", "ADMIN"}

(* The tests a controller makes before it reads anything, in its order:    *)
(* the body of a decision is validated before the role is tested, that of  *)
(* a sync after it.                                                        *)
DoorStatus(u, route, valid) ==
  IF route \in {"create", "approve", "reject"} /\ ~ valid THEN 400
  ELSE IF route \in {"approve", "reject"} /\ ~ MayDecide(u) THEN 403
  ELSE IF route \in AdminRoutes /\ u.role # "ADMIN" THEN 403
  ELSE IF route = "sync" /\ ~ valid THEN 400
  ELSE 0

New(c) == calls[c].pc = "idle" /\ http[c].stage = "off"

Exchange(c, u, route, stage, about) ==
  [NoExchange EXCEPT !.user = u, !.route = route, !.stage = stage,
                     !.about = about, !.told = Told]

Opens(c, u, route, stage, about) ==
  http' = [http EXCEPT ![c] = Exchange(c, u, route, stage, about)]

Closes(c, u, route, about, status, shown) ==
  http' = [http EXCEPT ![c] =
            [Exchange(c, u, route, "closed", about)
              EXCEPT !.status = status, !.shown = shown]]

Shows(c, u, route, about, shown) == Closes(c, u, route, about, 200, shown)

(* What is left of an exchange nothing is claimed of: its status. *)
Refused(status) == [NoExchange EXCEPT !.stage = "closed", !.status = status]

(* GET /health, with or without a token. *)
Health(c) ==
  /\ New(c)
  /\ http' = [http EXCEPT ![c] = Refused(200)]
  /\ UNCHANGED vars

RefusedAtTheDoor(c) ==
  /\ New(c)
  /\ \E token \in Tokens, route \in Routes, valid \in BOOLEAN :
       LET status == IF ~ Verified(token) THEN 401
                     ELSE DoorStatus(token.claims, route, valid)
       IN  status # 0 /\ http' = [http EXCEPT ![c] = Refused(status)]
  /\ UNCHANGED vars

(* Who is let in with what. *)
Admitted(c, u, route) ==
  /\ New(c)
  /\ \E token \in Tokens : Verified(token) /\ token.claims = u
  /\ DoorStatus(u, route, TRUE) = 0

-----------------------------------------------------------------------------
(* The commands. *)

(* The employee is the sender, whatever the body says. *)
PostCreate(c, u) ==
  /\ Admitted(c, u, "create")
  /\ \E cmd \in Commands :
       Owner[cmd.balance] = u.sub /\ (CreateFindsKey(c, cmd) \/ CreateStarts(c, cmd))
  /\ Opens(c, u, "create", "handler", NoRequest)

(* For a location or leave type the employee has no balance for. *)
CreateWithoutBalance(c, u) ==
  /\ Admitted(c, u, "create")
  /\ http' = [http EXCEPT ![c] = Refused(ErrorStatus("INVALID_STATE"))]
  /\ UNCHANGED vars

\* Mutant: the controller does not await the handler.
PatchApproveUnawaited(c, u, r) ==
  /\ Admitted(c, u, "approve")
  /\ ApproveStarts(c, r)
  /\ Shows(c, u, "approve", r, {})

PatchApprove(c, u, r) ==
  /\ Admitted(c, u, "approve")
  /\ ApproveStarts(c, r)
  /\ Opens(c, u, "approve", "handler", r)

PatchReject(c, u, r) ==
  /\ Admitted(c, u, "reject")
  /\ RejectStarts(c, r)
  /\ Opens(c, u, "reject", "handler", r)

PostSync(c, u) ==
  /\ Admitted(c, u, "sync")
  /\ \E exported \in SUBSET HcmRows : SyncStarts(c, exported)
  /\ Opens(c, u, "sync", "handler", NoRequest)

OwnerOf(r) == Owner[requests[r].cmd.balance]

\* Mutant: MayTouch without the test of the owner.
MayTouchAny(u, r) == IF r \notin DOMAIN requests THEN 404 ELSE 0

(* The test of getById and cancel, once they have read the request: only   *)
(* an EMPLOYEE must be its owner.                                          *)
MayTouch(u, r) ==
  IF r \notin DOMAIN requests THEN 404
  ELSE IF u.role = "EMPLOYEE" /\ OwnerOf(r) # u.sub THEN 403
  ELSE 0

(* Cancel reads the request to know its owner; the handler reads it again. *)
PatchCancel(c, u, r) ==
  /\ Admitted(c, u, "cancel")
  /\ IF MayTouch(u, r) = 0
       THEN Opens(c, u, "cancel", "owner", r)
       ELSE Closes(c, u, "cancel", r, MayTouch(u, r), {})
  /\ UNCHANGED vars

CancelGoesOn(c) ==
  /\ http[c].stage = "owner"
  /\ CancelStarts(c, http[c].about) \/ CancelCallsHcm(c, http[c].about)
  /\ http' = [http EXCEPT ![c].stage = "handler"]

-----------------------------------------------------------------------------
(* What the handler returned or threw becomes the answer. *)
Answer(c) ==
  /\ http[c].stage = "handler" /\ calls[c].pc = "done"
  /\ http' = [http EXCEPT
               ![c].stage = "closed",
               ![c].status = IF Succeeded(c)
                               THEN SuccessStatus(http[c].route)
                               ELSE ErrorStatus(calls[c].reply)]
  /\ UNCHANGED vars

-----------------------------------------------------------------------------
(* The queries: each reads once, the report twice. *)

\* Mutant: everyone but an administrator is shown what is pending.
ListedPending(u) ==
  {r \in DOMAIN requests :
     /\ u.role = "EMPLOYEE" => OwnerOf(r) = u.sub
     /\ u.role # "ADMIN" => requests[r].status = "PENDING"}

(* An employee's own requests, what is pending for a manager, everything   *)
(* for anybody else.                                                       *)
Listed(u) ==
  {r \in DOMAIN requests :
     /\ u.role = "EMPLOYEE" => OwnerOf(r) = u.sub
     /\ u.role = "MANAGER" => requests[r].status = "PENDING"}

GetList(c, u) ==
  /\ Admitted(c, u, "list")
  /\ Shows(c, u, "list", NoRequest, Listed(u))
  /\ UNCHANGED vars

GetRequest(c, u, r) ==
  /\ Admitted(c, u, "show")
  /\ IF MayTouch(u, r) = 0
       THEN Shows(c, u, "show", r, {r})
       ELSE Closes(c, u, "show", r, MayTouch(u, r), {})
  /\ UNCHANGED vars

GetBalances(c, u) ==
  /\ Admitted(c, u, "balances")
  /\ Shows(c, u, "balances", NoRequest,
           {b \in Balances : u.role = "EMPLOYEE" => Owner[b] = u.sub})
  /\ UNCHANGED vars

GetBalance(c, u, b) ==
  /\ Admitted(c, u, "balance")
  /\ IF u.role = "EMPLOYEE" /\ Owner[b] # u.sub
       THEN http' = [http EXCEPT ![c] = Refused(403)]
       ELSE Shows(c, u, "balance", b, {b})
  /\ UNCHANGED vars

UnknownBalance(c, u) ==
  /\ Admitted(c, u, "balance")
  /\ http' = [http EXCEPT ![c] = Refused(404)]
  /\ UNCHANGED vars

AuditOf(c, u, r) ==
  /\ Admitted(c, u, "auditOf")
  /\ Shows(c, u, "auditOf", r, {i \in DOMAIN audit : audit[i].entity = r})
  /\ UNCHANGED vars

(* A page of a list without ORDER BY. *)
IsPage(page, all, limit) ==
  /\ page \subseteq all
  /\ Cardinality(page) = IF Cardinality(all) < limit THEN Cardinality(all)
                                                     ELSE limit

(* The page without an offset and with no filter by type, action or actor. *)
GetAuditLog(c, u) ==
  /\ Admitted(c, u, "auditLog")
  /\ \E page \in SUBSET DOMAIN audit :
       /\ IsPage(page, DOMAIN audit, AuditPage)
       /\ Shows(c, u, "auditLog", NoRequest, page)
  /\ UNCHANGED vars

(* Any other page, of which nothing is kept. *)
GetAuditLogPart(c, u) ==
  /\ Admitted(c, u, "auditLog")
  /\ http' = [http EXCEPT ![c] = Refused(200)]
  /\ UNCHANGED vars

FailedRows == {b \in Balances : balances[b].syncStatus = "FAILED"}

DriftEvents ==
  {i \in DOMAIN outbox : outbox[i] = Event("BALANCE_DRIFT_DETECTED", System)}

(* GetReconciliationReportQuery: the rows the last sync failed for, *)
ReportReadsBalances(c, u) ==
  /\ Admitted(c, u, "report")
  /\ http' = [http EXCEPT ![c] =
               [Exchange(c, u, "report", "events", NoRequest)
                 EXCEPT !.shown = FailedRows]]
  /\ UNCHANGED vars

(* then some of the events that report drift. *)
ReportReadsEvents(c) ==
  /\ http[c].stage = "events"
  /\ \E page \in SUBSET DriftEvents :
       /\ IsPage(page, DriftEvents, ReportPage)
       /\ http' = [http EXCEPT ![c].stage = "closed", ![c].status = 200,
                               ![c].events = page]
  /\ UNCHANGED vars

(* The database does not answer a read made outside a handler. *)
ReadFails(c) ==
  /\ \/ New(c) /\ \E token \in Tokens : Verified(token)
     \/ http[c].stage \in {"owner", "events"}
  /\ http' = [http EXCEPT ![c] = Refused(500)]
  /\ UNCHANGED vars

-----------------------------------------------------------------------------
Open(c) == http[c].stage \notin {"off", "closed"}

(* The process dies.  Nobody it was serving gets an answer, not even those *)
(* whose handler had finished.                                             *)
ApiCrash ==
  /\ \E c \in Calls : Open(c)
  /\ IF \E c \in Calls : Running(c) THEN Crash ELSE UNCHANGED vars
  /\ http' = [c \in Calls |-> IF Open(c) THEN Refused(0) ELSE http[c]]

Visits(c, u) ==
  \/ PostCreate(c, u) \/ CreateWithoutBalance(c, u) \/ PostSync(c, u)
  \/ GetList(c, u) \/ GetBalances(c, u)
  \/ GetAuditLog(c, u) \/ GetAuditLogPart(c, u)
  \/ ReportReadsBalances(c, u) \/ UnknownBalance(c, u)
  \/ \E r \in Requests : \/ PatchApprove(c, u, r) \/ PatchReject(c, u, r)
                         \/ PatchCancel(c, u, r) \/ GetRequest(c, u, r)
                         \/ AuditOf(c, u, r)
  \/ \E b \in Balances : GetBalance(c, u, b)

Continues(c) ==
  \/ HandlerStep(c) /\ UNCHANGED http
  \/ CancelGoesOn(c)
  \/ ReportReadsEvents(c)
  \/ Answer(c)

ApiNext ==
  \/ \E c \in Calls :
       \/ Health(c) \/ RefusedAtTheDoor(c) \/ ReadFails(c)
       \/ \E u \in Users : Visits(c, u)
       \/ Continues(c)
  \/ HcmActs /\ UNCHANGED http
  \/ ApiCrash

ApiSpec == ApiInit /\ [][ApiNext]_apiVars

-----------------------------------------------------------------------------
(* What an exchange keeps, and that a handler works for exactly the        *)
(* exchanges that wait for one or have been answered by one.               *)
ApiTypeOK ==
  /\ TypeOK
  /\ DOMAIN http = Calls
  /\ \A c \in Calls :
       /\ http[c].user \in Users \cup {NoUser}
       /\ http[c].route \in Routes \cup {"none"}
       /\ http[c].stage \in Stages
       /\ http[c].status \in {0, 200, 201, 202, 400, 401, 403, 404, 409, 500}
       /\ http[c].about \in Requests \cup Balances \cup {NoRequest}
       /\ http[c].told \subseteq Requests \X Statuses
       /\ http[c].events \subseteq DOMAIN outbox
       /\ http[c].stage = "handler" => calls[c].pc # "idle"
       /\ Running(c) => http[c].stage = "handler"

(* Whatever is changed has been asked for by someone who may, and is still *)
(* waiting for the answer: requests are made by the employee they are for, *)
(* decided by a manager or administrator and cancelled by the employee or  *)
(* by anyone whose token claims another role than EMPLOYEE, be it one the  *)
(* service does not know, and totals are set by administrators.  The entry *)
(* of the audit log says what was changed.  Between the test of the owner  *)
(* and the handler's own reads others may decide, die or make the request. *)
MayChange(u, entry) ==
  CASE entry.new = "PENDING" -> u.sub = OwnerOf(entry.entity)
    [] entry.new \in {"APPROVED", "REJECTED"} -> MayDecide(u)
    [] entry.new = "CANCELLED" ->
         u.sub = OwnerOf(entry.entity) \/ u.role # "EMPLOYEE"
    [] entry.new = "SYNC" -> u.role = "ADMIN"

AuthorisedStep ==
  \A i \in DOMAIN audit' \ DOMAIN audit :
    \E c \in Calls : /\ http[c].stage = "handler"
                     /\ Running(c) /\ calls'[c].reply = "OK"
                     /\ MayChange(http[c].user, audit[i])'

ChangesAreAuthorised == [][AuthorisedStep]_apiVars

(* What somebody was told before an exchange began holds in its answer:    *)
(* the request exists, its owner sees it, and so does everybody who is no  *)
(* employee, but no manager is offered it for a decision once it was       *)
(* decided; nobody decides it a second time, and its audit trail has the   *)
(* entry.  An employee is shown requests of his own only.                  *)
Trailed(rows, r, status) ==
  \E i \in rows : audit[i].entity = r /\ audit[i].new = status

AnswerRespects(e, r, status) ==
  /\ e.about = r => e.status # 404
  /\ e.about = r /\ e.route \in {"approve", "reject"} /\ status # "PENDING" =>
       e.status \in {0, 409}
  /\ e.status = 200 =>
       CASE e.route = "list" /\ e.user.role = "MANAGER" ->
              status # "PENDING" => r \notin e.shown
         [] e.route = "list" /\ e.user.role # "MANAGER" ->
              e.user.role # "EMPLOYEE" \/ OwnerOf(r) = e.user.sub =>
                r \in e.shown
         [] e.route = "auditOf" -> e.about = r => Trailed(e.shown, r, status)
         [] e.route = "auditLog" ->
              Cardinality(e.shown) < AuditPage => Trailed(e.shown, r, status)
         [] OTHER -> TRUE

AnswersRespectEarlierOnes ==
  \A c \in Calls :
    LET e == http[c]
    IN  e.stage = "closed" /\ e.user # NoUser =>
          /\ \A t \in e.told : AnswerRespects(e, t[1], t[2])
          /\ e.route \in {"list", "show"} /\ e.user.role = "EMPLOYEE" =>
               \A r \in e.shown : OwnerOf(r) = e.user.sub

(* A report that counts rows the last sync failed for lists drift: the     *)
(* rows are read before the events, with syncs in between.                 *)
ReportExplainsFailures ==
  \A c \in Calls :
    http[c].route = "report" /\ http[c].stage = "closed"
      /\ http[c].shown # {} => http[c].events # {}
=============================================================================
