-------------------------- MODULE ServiceApi_proofs --------------------------
(***************************************************************************)
(* What the callers of TimeOffService and of its HTTP API are told and may *)
(* do, for any number of handlers, exchanges, users and requests; and that *)
(* the API adds nothing to what the handlers do.                           *)
(***************************************************************************)
EXTENDS ServiceApi, EventLog_proofs

(* Handlers. *)

Good == {"OK", "CACHED"}

(* The handler of d is asked the same and has answered the same. *)
SameAnswer(d) ==
  /\ calls'[d].op = calls[d].op /\ calls'[d].cmd = calls[d].cmd
  /\ calls'[d].request = calls[d].request
  /\ calls'[d].reply = calls[d].reply

LEMMA ReplyIs ==
  ASSUME CallsOK, NEW c \in Calls, NEW code, Reply(c, code)
  PROVE  /\ calls'[c].reply = code /\ calls'[c].op = calls[c].op
         /\ calls'[c].cmd = calls[c].cmd
         /\ calls'[c].request = calls[c].request
         /\ \A d \in Calls : d # c => calls'[d] = calls[d]
  BY DEF CallsOK, CallOK, IsCall, Reply

LEMMA GoToIs ==
  ASSUME CallsOK, NEW c \in Calls, NEW pc, GoTo(c, pc)
  PROVE  \A d \in Calls : SameAnswer(d)
  BY DEF CallsOK, CallOK, IsCall, GoTo, SameAnswer

LEMMA BeginIs ==
  ASSUME CallsOK, NEW c \in Calls, NEW op, NEW r, NEW allowed, NEW pc,
         Begin(c, op, r, allowed, pc)
  PROVE  /\ calls'[c].reply \notin Good
         /\ \A d \in Calls : d # c => calls'[d] = calls[d]
<1>1. StartRefusal(r, allowed) \notin Good
  BY DEF StartRefusal, Good
<1>2. calls'[c].reply = StartRefusal(r, allowed)
  BY DEF CallsOK, Begin, NewCall
<1> QED
  BY <1>1, <1>2 DEF CallsOK, Begin

LEMMA NewCallIs ==
  ASSUME CallsOK, NEW c \in Calls, NEW call, calls' = [calls EXCEPT ![c] = call]
  PROVE  calls'[c] = call /\ \A d \in Calls : d # c => calls'[d] = calls[d]
  BY DEF CallsOK

LEMMA BeginsWith ==
  ASSUME CallsOK, NEW c \in Calls, NEW op, NEW r, NEW allowed, NEW pc,
         Begin(c, op, r, allowed, pc)
  PROVE  /\ calls'[c].op = op /\ calls'[c].request = r
         /\ Running(c)' => r \in DOMAIN requests
         /\ \A d \in Calls : d # c => calls'[d] = calls[d]
<1> DEFINE call == [NewCall EXCEPT
                     !.op = op, !.request = r,
                     !.pc = IF StartRefusal(r, allowed) = "none" THEN pc
                                                                 ELSE "done",
                     !.reply = StartRefusal(r, allowed)]
<1>1. calls' = [calls EXCEPT ![c] = call]
  BY DEF Begin
<1>2. /\ call.op = op /\ call.request = r
      /\ call.pc = IF StartRefusal(r, allowed) = "none" THEN pc ELSE "done"
  BY DEF NewCall
<1> HIDE DEF call
<1>3. calls'[c] = call /\ \A d \in Calls : d # c => calls'[d] = calls[d]
  BY <1>1, NewCallIs
<1>4. StartRefusal(r, allowed) = "none" => r \in DOMAIN requests
  BY DEF StartRefusal
<1> QED
  BY <1>2, <1>3, <1>4 DEF Running

LEMMA CreateBegins ==
  ASSUME CallsOK, NEW c \in Calls, NEW cmd,
         CreateFindsKey(c, cmd) \/ CreateStarts(c, cmd)
  PROVE  /\ calls'[c].op = "create" /\ calls'[c].cmd = cmd
         /\ calls'[c].pc # "idle" /\ calls'[c].reply # "NOT_FOUND"
         /\ \A d \in Calls : d # c => calls'[d] = calls[d]
<1>1. ASSUME NEW pc, NEW request, NEW reply, pc # "idle", reply # "NOT_FOUND",
             calls' = [calls EXCEPT ![c] =
                        [NewCall EXCEPT !.op = "create", !.cmd = cmd, !.pc = pc,
                                        !.request = request, !.reply = reply]]
      PROVE  /\ calls'[c].op = "create" /\ calls'[c].cmd = cmd
             /\ calls'[c].pc # "idle" /\ calls'[c].reply # "NOT_FOUND"
             /\ \A d \in Calls : d # c => calls'[d] = calls[d]
  <2> DEFINE call == [NewCall EXCEPT !.op = "create", !.cmd = cmd, !.pc = pc,
                                     !.request = request, !.reply = reply]
  <2>1. /\ call.op = "create" /\ call.cmd = cmd
        /\ call.pc # "idle" /\ call.reply # "NOT_FOUND"
    BY <1>1 DEF NewCall
  <2>2. calls' = [calls EXCEPT ![c] = call]
    BY <1>1
  <2> HIDE DEF call
  <2>3. calls'[c] = call /\ \A d \in Calls : d # c => calls'[d] = calls[d]
    BY <2>2, NewCallIs
  <2> QED
    BY <2>1, <2>3
<1>2. CASE CreateFindsKey(c, cmd)
  <2>1. PICK request, reply :
          /\ reply \in {"CACHED", "CONCURRENT_MODIFICATION"}
          /\ calls' = [calls EXCEPT ![c] =
                        [NewCall EXCEPT !.op = "create", !.cmd = cmd,
                           !.pc = "done", !.request = request, !.reply = reply]]
    BY <1>2 DEF CreateFindsKey
  <2> QED
    BY <1>1, <2>1
<1>3. CASE CreateStarts(c, cmd)
  <2> DEFINE call == [NewCall EXCEPT !.op = "create", !.cmd = cmd,
                                     !.pc = "balance"]
  <2>1. /\ call.op = "create" /\ call.cmd = cmd
        /\ call.pc # "idle" /\ call.reply # "NOT_FOUND"
    BY DEF NewCall
  <2>2. calls' = [calls EXCEPT ![c] = call]
    BY <1>3 DEF CreateStarts
  <2> HIDE DEF call
  <2>3. calls'[c] = call /\ \A d \in Calls : d # c => calls'[d] = calls[d]
    BY <2>2, NewCallIs
  <2> QED
    BY <2>1, <2>3
<1> QED
  BY <1>2, <1>3

(* An answer is given once; a good one by a create that finds its key or   *)
(* by a transaction that commits.                                          *)
LEMMA ReplyCases ==
  ASSUME CallsOK, [Next]_vars, NEW d \in Calls, calls'[d].reply \in Good
  PROVE  \/ SameAnswer(d)
         \/ \E cmd \in Commands : CreateFindsKey(d, cmd)
         \/ Writes(d) /\ calls[d].pc = "tx"
<1>1. ASSUME NEW c \in Calls, Arrives(c)
      PROVE  SameAnswer(d) \/ \E cmd \in Commands : CreateFindsKey(d, cmd)
  <2>1. ASSUME NEW cmd \in Commands, CreateFindsKey(c, cmd), c # d
        PROVE  SameAnswer(d)
    BY <2>1 DEF CreateFindsKey, CallsOK, SameAnswer
  <2>2. ASSUME NEW cmd \in Commands, CreateStarts(c, cmd)
        PROVE  SameAnswer(d)
    BY <2>2 DEF CreateStarts, CallsOK, SameAnswer, NewCall, Good
  <2>3. ASSUME NEW r \in Requests,
               \/ ApproveStarts(c, r) \/ RejectStarts(c, r)
               \/ CancelStarts(c, r) \/ CancelCallsHcm(c, r)
        PROVE  SameAnswer(d)
    BY <2>3, BeginIs DEF ApproveStarts, RejectStarts, CancelStarts,
         CancelCallsHcm, SameAnswer
  <2>4. ASSUME NEW exported \in SUBSET HcmRows, SyncStarts(c, exported)
        PROVE  SameAnswer(d)
    BY <2>4 DEF SyncStarts, CallsOK, SameAnswer, NewCall, Good
  <2> QED
    BY <1>1, <2>1, <2>2, <2>3, <2>4 DEF Arrives
<1>2. ASSUME NEW c \in Calls, Proceeds(c)
      PROVE  SameAnswer(d) \/ (Writes(d) /\ calls[d].pc = "tx")
  <2>1. ASSUME NEW code, Reply(c, code), code \notin Good
        PROVE  SameAnswer(d)
    BY <2>1, ReplyIs DEF SameAnswer
  <2>2. CASE \E pc : GoTo(c, pc)
    BY <2>2, GoToIs
  <2>3. ASSUME c # d, NEW code, Reply(c, code)
        PROVE  SameAnswer(d)
    BY <2>3, ReplyIs DEF SameAnswer
  <2>4. CASE ApproveMarksSyncFailed(c)
    BY <2>1, <2>4 DEF ApproveMarksSyncFailed, Good
  <2>5. ASSUME NEW r \in Requests, CreateCommits(c, r)
        PROVE  SameAnswer(d) \/ (Writes(d) /\ calls[d].pc = "tx")
    <3>1. c # d => SameAnswer(d)
      BY <2>5 DEF CreateCommits, CallsOK, SameAnswer
    <3> QED
      BY <2>5, <3>1 DEF Writes, CreateCommits, At
  <2>6. CASE \/ ApproveCommits(c) \/ RejectCommits(c)
             \/ CancelCommits(c) \/ SyncCommits(c)
    <3>1. Reply(c, "OK") /\ calls[c].pc = "tx" /\ Writes(c)
      BY <2>6 DEF Writes, ApproveCommits, RejectCommits, CancelCommits,
           SyncCommits, At
    <3> QED
      BY <2>3, <3>1
  <2>7. CASE CreateChecksBalance(c)
    BY <2>1, <2>2, <2>7 DEF CreateChecksBalance, Good
  <2>8. CASE ApproveRefusesBalance(c) \/ ApproveMarkFails(c)
               \/ TransactionAborts(c)
    BY <2>1, <2>8 DEF ApproveRefusesBalance, ApproveMarkFails,
         TransactionAborts, Good
  <2>9. CASE ApproveCallsHcm(c) \/ ApproveHearsFromHcm(c)
               \/ CancelHearsFromHcm(c)
    BY <2>2, <2>9 DEF ApproveCallsHcm, ApproveHearsFromHcm,
         CancelHearsFromHcm
  <2>10. CASE CreateIsRefused(c)
    BY <2>1, <2>10 DEF CreateIsRefused, CreateRefusal, Good
  <2>11. CASE ApproveIsRefused(c)
    BY <2>1, <2>11 DEF ApproveIsRefused, ApproveRefusal, Good
  <2>12. CASE RejectIsRefused(c)
    BY <2>1, <2>12 DEF RejectIsRefused, RejectRefusal, Good
  <2>13. CASE CancelIsRefused(c)
    <3>1. \A r : CancelRefusal(r) \notin Good
      BY DEF CancelRefusal, Live, Good
    <3> QED
      BY <2>1, <2>13, <3>1 DEF CancelIsRefused
  <2> QED
    BY <1>2, <2>4, <2>5, <2>6, <2>7, <2>8, <2>9, <2>10, <2>11, <2>12, <2>13
       DEF Proceeds
<1>3. CASE HcmActs \/ UNCHANGED vars
  BY <1>3 DEF HcmActs, vars, SameAnswer
<1>4. CASE Crash
  <2>1. calls'[d] = calls[d] \/ calls'[d].reply = "CRASHED"
    BY <1>4 DEF Crash, CallsOK, CallOK, IsCall
  <2> QED
    BY <2>1 DEF Good, SameAnswer
<1> QED
  BY <1>1, <1>2, <1>3, <1>4 DEF Next

-----------------------------------------------------------------------------
LEMMA RowsKept ==
  ASSUME ServiceInv, [Next]_vars
  PROVE  \A r \in DOMAIN requests :
           r \in DOMAIN requests' /\ requests'[r].cmd = requests[r].cmd
<1>1. ASSUME NEW c \in Calls, NEW new \in Requests, CreateCommits(c, new)
      PROVE  \A r \in DOMAIN requests :
               r \in DOMAIN requests' /\ requests'[r] = requests[r]
  BY <1>1 DEF CreateCommits
<1> QED
  BY <1>1, ActiveOnlyShrink

(* Only a create writes a key, and the request it names with it. *)
(* A key that is stored joins the others. *)
LEMMA KeyStored ==
  ASSUME NEW key, NEW new, key \notin DOMAIN idemKeys,
         idemKeys' = CompleteKey(StoreKey(idemKeys, key), key, new)
  PROVE  /\ DOMAIN idemKeys' = DOMAIN idemKeys \cup {key}
         /\ idemKeys'[key].response = new
         /\ \A x \in DOMAIN idemKeys : idemKeys'[x] = idemKeys[x]
<1>1. PICK stored : stored = StoreKey(idemKeys, key)
  OBVIOUS
<1>2. /\ stored = [x \in DOMAIN stored |-> stored[x]]
      /\ DOMAIN stored = DOMAIN idemKeys \cup {key}
      /\ \A x \in DOMAIN idemKeys : stored[x] = idemKeys[x]
  BY <1>1 DEF StoreKey
<1>3. idemKeys' = [stored EXCEPT ![key] = [status |-> "COMPLETED",
                                           response |-> new]]
  BY <1>1 DEF CompleteKey
<1> QED
  BY <1>2, <1>3

LEMMA KeyRowsStep ==
  ASSUME ServiceInv, [Next]_vars, NEW k \in Keys,
         {r \in DOMAIN requests : requests[r].cmd.key = k}
           = IF k \in DOMAIN idemKeys THEN {idemKeys[k].response} ELSE {}
  PROVE  {r \in DOMAIN requests' : requests'[r].cmd.key = k}
           = IF k \in DOMAIN idemKeys' THEN {idemKeys'[k].response} ELSE {}
<1>1. CASE \E c \in Calls, r \in Requests : CreateCommits(c, r)
  <2>1. PICK c \in Calls, new \in Requests : CreateCommits(c, new)
    BY <1>1
  <2>2. PICK key : key = calls[c].cmd.key
    OBVIOUS
  <2>3. /\ new \notin DOMAIN requests
        /\ DOMAIN requests' = DOMAIN requests \cup {new}
        /\ requests'[new].cmd.key = key
        /\ \A r \in DOMAIN requests : requests'[r] = requests[r]
        /\ key \notin DOMAIN idemKeys
        /\ key = NoKey => idemKeys' = idemKeys
        /\ key # NoKey =>
             idemKeys' = CompleteKey(StoreKey(idemKeys, key), key, new)
    BY <2>1, <2>2 DEF CreateCommits, CreateRefusal
  <2>4. CASE key = NoKey
    BY <2>3, <2>4, ServiceAssumption DEF ServiceAssumption
  <2>5. CASE key # NoKey
    <3>1. /\ DOMAIN idemKeys' = DOMAIN idemKeys \cup {key}
          /\ idemKeys'[key].response = new
          /\ \A x \in DOMAIN idemKeys : idemKeys'[x] = idemKeys[x]
      BY <2>3, <2>5, KeyStored
    <3> QED
      BY <2>3, <3>1
  <2> QED
    BY <2>4, <2>5
<1>2. CASE ~ \E c \in Calls, r \in Requests : CreateCommits(c, r)
  <2>1. UNCHANGED idemKeys
    BY <1>2, StepCases DEF tables, Writes, ApproveMarksSyncFailed,
         ApproveCommits, RejectCommits, CancelCommits, SyncCommits
  <2> QED
    BY <1>2, <2>1, ActiveOnlyShrink
<1> QED
  BY <1>1, <1>2

LEMMA KeysStep ==
  ASSUME ServiceInv, KeysNameTheirRequest, [Next]_vars
  PROVE  KeysNameTheirRequest'
<1> USE DEF ServiceInv
<1>1. ASSUME NEW k \in Keys
      PROVE  {r \in DOMAIN requests' : requests'[r].cmd.key = k}
               = IF k \in DOMAIN idemKeys' THEN {idemKeys'[k].response} ELSE {}
  BY KeyRowsStep DEF KeysNameTheirRequest
<1>2. ASSUME NEW c \in Calls, calls'[c].op = "create",
             calls'[c].reply \in Good
      PROVE  /\ calls'[c].request \in DOMAIN requests'
             /\ requests'[calls'[c].request].cmd.key = calls'[c].cmd.key
  <2>1. CASE SameAnswer(c)
    BY <1>2, <2>1, RowsKept DEF SameAnswer, KeysNameTheirRequest, Good
  <2>2. ASSUME NEW cmd \in Commands, CreateFindsKey(c, cmd)
        PROVE  /\ calls'[c].request \in DOMAIN requests
               /\ requests[calls'[c].request].cmd.key = calls'[c].cmd.key
    <3>1. /\ cmd.key \in DOMAIN idemKeys /\ cmd.key \in Keys
          /\ calls'[c].cmd = cmd
          /\ calls'[c].request = idemKeys[cmd.key].response
      BY <1>2, <2>2 DEF CreateFindsKey, NewCall, CallsOK, TablesOK, Good
    <3>2. idemKeys[cmd.key].response
            \in {r \in DOMAIN requests : requests[r].cmd.key = cmd.key}
      BY <3>1 DEF KeysNameTheirRequest
    <3> QED
      BY <3>1, <3>2
  <2>3. ASSUME NEW r \in Requests, CreateCommits(c, r)
        PROVE  /\ calls'[c].request \in DOMAIN requests'
               /\ requests'[calls'[c].request].cmd.key = calls'[c].cmd.key
    BY <2>3 DEF CreateCommits, CallsOK, CallOK, IsCall
  <2>4. Writes(c) => \E r \in Requests : CreateCommits(c, r)
    <3>1. ASSUME NEW code, Reply(c, code) PROVE calls[c].op = "create"
      BY <1>2, <3>1, ReplyIs
    <3> QED
      BY <3>1 DEF Writes, ApproveMarksSyncFailed, ApproveCommits,
           RejectCommits, CancelCommits, SyncCommits, At
  <2> QED
    BY <1>2, <2>1, <2>2, <2>3, <2>4, ReplyCases, RowsKept
<1> QED
  BY <1>1, <1>2 DEF KeysNameTheirRequest, Good

(* One key, one request, however many duplicates of a create run at once:  *)
(* the key's row and the request are inserted by the same transaction.     *)
THEOREM OneRequestPerKey == Spec => []KeysNameTheirRequest
<1>1. Init => KeysNameTheirRequest
  <2> SUFFICES ASSUME Init PROVE KeysNameTheirRequest
    OBVIOUS
  <2>1. DOMAIN requests = {} /\ DOMAIN idemKeys = {}
    BY DEF Init
  <2>2. \A c \in Calls : calls[c].op = "none"
    BY DEF Init, NewCall
  <2> QED
    BY <2>1, <2>2 DEF KeysNameTheirRequest
<1> QED
  BY <1>1, KeysStep, ServiceInvariant, PTL DEF Spec

-----------------------------------------------------------------------------
DecisionOps == {"approve", "reject", "cancel"}

EventOf(op) == CASE op = "approve" -> "TIME_OFF_APPROVED"
                 [] op = "reject"  -> "TIME_OFF_REJECTED"
                 [] op = "cancel"  -> "TIME_OFF_CANCELLED"

(* The handler of c has decided its request. *)
HasWon(c) == calls[c].op \in DecisionOps /\ calls[c].reply = "OK"

(* DecidedOnce, one caller at a time. *)
WonOnce ==
  /\ \A c \in Calls : HasWon(c) =>
       Logged(EventOf(calls[c].op), calls[c].request)
  /\ \A c, d \in Calls :
       /\ HasWon(c) /\ HasWon(d)
       /\ c # d /\ calls[c].request = calls[d].request
       => {calls[c].op, calls[d].op} = {"approve", "cancel"}

LEMMA WonOnceIsDecidedOnce == WonOnce => DecidedOnce
  BY DEF WonOnce, DecidedOnce, HasWon, EventOf, DecisionOps

(* Only the commit of a decision makes a winner. *)
LEMMA WinnerCommits ==
  ASSUME ServiceInv, [Next]_vars, NEW c \in Calls, HasWon(c)', ~ SameAnswer(c)
  PROVE  ApproveCommits(c) \/ RejectCommits(c) \/ CancelCommits(c)
<1> USE DEF ServiceInv
<1>1. ~ \E cmd \in Commands : CreateFindsKey(c, cmd)
  <2>1. ASSUME NEW cmd \in Commands, CreateFindsKey(c, cmd) PROVE FALSE
    <3>1. calls'[c].op = "create"
      BY <2>1, CreateBegins
    <3> QED
      BY <3>1 DEF HasWon, DecisionOps
  <2> QED
    BY <2>1
<1>2. Writes(c) /\ calls[c].pc = "tx"
  BY <1>1, ReplyCases DEF HasWon, Good
<1>3. ~ ApproveMarksSyncFailed(c)
  BY <1>2 DEF ApproveMarksSyncFailed, At
<1>4. ~ \E r \in Requests : CreateCommits(c, r)
  <2>1. ASSUME NEW r \in Requests, CreateCommits(c, r)
        PROVE  calls'[c].op = calls[c].op /\ calls[c].op = "create"
    BY <2>1 DEF CreateCommits, CallsOK, CallOK, IsCall, At
  <2> QED
    BY <2>1 DEF HasWon, DecisionOps
<1>5. ~ SyncCommits(c)
  BY ReplyIs DEF SyncCommits, HasWon, DecisionOps, At
<1> QED
  BY <1>2, <1>3, <1>4, <1>5 DEF Writes

(* A caller that wins in this step. *)
LEMMA NewWinner ==
  ASSUME ServiceInv, LogInv, [Next]_vars, NEW c \in Calls, HasWon(c)',
         ~ SameAnswer(c)
  PROVE  LET op == calls[c].op
             r == calls[c].request
         IN  /\ calls'[c].op = op /\ calls'[c].request = r
             /\ Logged(EventOf(op), r)'
             /\ \A d \in Calls : d # c => calls'[d] = calls[d]
             /\ ~ Logged("TIME_OFF_REJECTED", r)
             /\ ~ Logged("TIME_OFF_CANCELLED", r)
             /\ Logged("TIME_OFF_APPROVED", r) => op = "cancel"
<1> USE DEF ServiceInv
<1>1. ApproveCommits(c) \/ RejectCommits(c) \/ CancelCommits(c)
  BY WinnerCommits
<1>2. Reply(c, "OK")
  BY <1>1 DEF ApproveCommits, RejectCommits, CancelCommits
<1>3. PICK r, op, old, new : /\ r = calls[c].request /\ op = calls[c].op
                             /\ <<old, new, EventOf(op)>> \in Decisions
                             /\ Decides(r, old, new, EventOf(op))
                             /\ old = "APPROVED" => op = "cancel"
  <2>1. CASE ApproveCommits(c)
    <3>1. calls[c].op = "approve"
      BY <2>1 DEF ApproveCommits, At
    <3>2. <<"PENDING", "APPROVED", EventOf("approve")>> \in Decisions
      BY DEF Decisions, EventOf
    <3>3. Decides(calls[c].request, "PENDING", "APPROVED", EventOf("approve"))
      BY <2>1, ApproveDecides DEF EventOf
    <3> QED
      BY <3>1, <3>2, <3>3
  <2>2. CASE RejectCommits(c)
    <3>1. calls[c].op = "reject"
      BY <2>2 DEF RejectCommits, At
    <3>2. <<"PENDING", "REJECTED", EventOf("reject")>> \in Decisions
      BY DEF Decisions, EventOf
    <3>3. Decides(calls[c].request, "PENDING", "REJECTED", EventOf("reject"))
      BY <2>2, RejectDecides DEF EventOf
    <3> QED
      BY <3>1, <3>2, <3>3
  <2>3. CASE CancelCommits(c)
    <3>1. calls[c].op = "cancel"
      BY <2>3 DEF CancelCommits, At
    <3>2. PICK old \in {"PENDING", "APPROVED"} :
            Decides(calls[c].request, old, "CANCELLED", EventOf("cancel"))
      BY <2>3, CancelDecides DEF EventOf
    <3>3. <<old, "CANCELLED", EventOf("cancel")>> \in Decisions
      BY <3>2 DEF Decisions, EventOf
    <3> QED
      BY <3>1, <3>2, <3>3
  <2> QED
    BY <1>1, <2>1, <2>2, <2>3
<1>4. /\ ~ Logged("TIME_OFF_REJECTED", r)
      /\ ~ Logged("TIME_OFF_CANCELLED", r)
      /\ Logged("TIME_OFF_APPROVED", r) <=> old = "APPROVED"
  <2>1. old \in {"PENDING", "APPROVED"}
    BY <1>3 DEF Decisions
  <2> QED
    BY <1>3, <2>1, DecisionIsNew
<1>5. Logged(EventOf(op), r)'
  BY <1>3, DecisionTells
<1> QED
  BY <1>2, <1>3, <1>4, <1>5, ReplyIs

LEMMA LogGrows ==
  ASSUME ServiceInv, LogInv, [Next]_vars, NEW type \in RequestEvents, NEW r,
         Logged(type, r)
  PROVE  Logged(type, r)'
<1> USE DEF ServiceInv
<1>1. CASE UNCHANGED outbox
  BY <1>1 DEF Logged
<1>2. ASSUME NEW e, outbox' = Append(outbox, e) PROVE Logged(type, r)'
  BY <1>2, LoggedAppend DEF TablesOK
<1>3. ASSUME NEW c \in Calls, SyncCommits(c) PROVE Logged(type, r)'
  BY <1>3, SyncLogs DEF TablesOK
<1> QED
  BY <1>1, <1>2, <1>3, StepCases DEF tables, Writes, CreateCommits,
     ApproveMarksSyncFailed, ApproveCommits, RejectCommits, CancelCommits,
     Publish

(* What has events is in the table. *)
LEMMA LoggedIsRow ==
  ASSUME ServiceInv, LogInv, NEW type \in RequestEvents, NEW r,
         Logged(type, r)
  PROVE  r \in Requests /\ r \in DOMAIN requests
<1>1. PICK i \in DOMAIN outbox : outbox[i] = Event(type, r)
  BY DEF Logged
<1>2. outbox[i] \in Events /\ outbox[i].type = type /\ outbox[i].aggregate = r
  BY <1>1 DEF ServiceInv, TablesOK, Event
<1>3. type \notin SystemEvents
  BY DEF RequestEvents, SystemEvents
<1>4. r \in Requests
  BY <1>2, <1>3 DEF Events
<1> QED
  BY <1>4 DEF LogInv, LogOK

LEMMA WonStep ==
  ASSUME ServiceInv, LogInv, WonOnce, [Next]_vars
  PROVE  WonOnce'
<1>0. \A op \in DecisionOps : EventOf(op) \in RequestEvents
  BY DEF DecisionOps, EventOf, RequestEvents
<1>1. ASSUME NEW c \in Calls, HasWon(c)', SameAnswer(c)
      PROVE  /\ HasWon(c)
             /\ Logged(EventOf(calls[c].op), calls[c].request)
             /\ Logged(EventOf(calls[c].op), calls[c].request)'
  <2>1. HasWon(c) /\ Logged(EventOf(calls[c].op), calls[c].request)
    BY <1>1 DEF HasWon, SameAnswer, WonOnce
  <2>2. PICK type, r : type = EventOf(calls[c].op) /\ r = calls[c].request
    OBVIOUS
  <2>3. Logged(type, r)'
    BY <1>0, <2>1, <2>2, LogGrows DEF HasWon
  <2>4. type = EventOf(calls'[c].op) /\ r = calls'[c].request
    BY <1>1, <2>2 DEF SameAnswer
  <2> QED
    BY <2>1, <2>3, <2>4
<1>2. ASSUME NEW c \in Calls, HasWon(c)'
      PROVE  Logged(EventOf(calls[c].op), calls[c].request)'
  BY <1>1, <1>2, NewWinner
<1>3. ASSUME NEW c \in Calls, NEW d \in Calls, HasWon(c)', HasWon(d)',
             c # d, calls'[c].request = calls'[d].request, SameAnswer(d)
      PROVE  {calls'[c].op, calls'[d].op} = {"approve", "cancel"}
  <2>1. CASE SameAnswer(c)
    BY <1>1, <1>3, <2>1 DEF SameAnswer, WonOnce
  <2>2. CASE ~ SameAnswer(c)
    <3>1. PICK r : r = calls[c].request /\ r = calls[d].request
      BY <1>3, <2>2, NewWinner DEF SameAnswer
    <3>2. /\ ~ Logged("TIME_OFF_REJECTED", r)
          /\ ~ Logged("TIME_OFF_CANCELLED", r)
          /\ Logged("TIME_OFF_APPROVED", r) => calls'[c].op = "cancel"
      BY <1>3, <2>2, <3>1, NewWinner
    <3>3. Logged(EventOf(calls[d].op), r) /\ calls[d].op \in DecisionOps
      BY <1>1, <1>3, <3>1 DEF HasWon
    <3>4. calls[d].op = "approve"
      BY <3>2, <3>3 DEF DecisionOps, EventOf
    <3> QED
      BY <1>3, <3>2, <3>3, <3>4 DEF EventOf, SameAnswer
  <2> QED
    BY <2>1, <2>2
<1>4. ASSUME NEW c \in Calls, NEW d \in Calls, HasWon(c)', HasWon(d)',
             c # d, ~ SameAnswer(c)
      PROVE  SameAnswer(d)
  BY <1>4, NewWinner DEF SameAnswer
<1> QED
  BY <1>2, <1>3, <1>4 DEF WonOnce

LEMMA WonInit == Init => WonOnce
  BY DEF Init, WonOnce, HasWon, NewCall, DecisionOps

(* Of all the callers that try to decide a request at the same time, one   *)
(* is told OK, or an approval and then a cancellation.                     *)
THEOREM OneDecision == Spec => []DecidedOnce
<1>1. ServiceInv /\ LogInv /\ WonOnce /\ [Next]_vars => WonOnce'
  BY WonStep
<1> QED
  BY <1>1, WonInit, WonOnceIsDecidedOnce, ServiceInvariant, LogInvariant, PTL
     DEF Spec

-----------------------------------------------------------------------------
(* What can change the local state of one handler. *)
LEMMA StepOf ==
  ASSUME CallsOK, [Next]_vars, NEW d \in Calls
  PROVE  \/ calls'[d] = calls[d]
         \/ Arrives(d) \/ Proceeds(d)
         \/ /\ Running(d)
            /\ calls'[d] = [calls[d] EXCEPT !.pc = "done", !.reply = "CRASHED"]
<1>1. ASSUME NEW c \in Calls, Arrives(c), c # d PROVE calls'[d] = calls[d]
  BY <1>1, BeginIs DEF Arrives, CreateFindsKey, CreateStarts, ApproveStarts,
       RejectStarts, CancelStarts, CancelCallsHcm, SyncStarts, CallsOK
<1>2. ASSUME NEW c \in Calls, Proceeds(c), c # d PROVE calls'[d] = calls[d]
  <2>1. \/ \E code : Reply(c, code)
        \/ \E pc : GoTo(c, pc)
        \/ \E r \in Requests : CreateCommits(c, r)
    BY <1>2 DEF Proceeds, CreateChecksBalance, CreateIsRefused,
         ApproveRefusesBalance, ApproveCallsHcm, ApproveHearsFromHcm,
         ApproveMarksSyncFailed, ApproveMarkFails, ApproveIsRefused,
         ApproveCommits, RejectIsRefused, RejectCommits, CancelHearsFromHcm,
         CancelIsRefused, CancelCommits, SyncCommits, TransactionAborts
  <2> QED
    BY <1>2, <2>1 DEF Reply, GoTo, CreateCommits, CallsOK
<1>3. HcmActs \/ UNCHANGED vars => calls'[d] = calls[d]
  BY DEF HcmActs, vars
<1>4. Crash => \/ calls'[d] = calls[d]
               \/ /\ Running(d)
                  /\ calls'[d] = [calls[d] EXCEPT !.pc = "done",
                                                  !.reply = "CRASHED"]
  BY DEF Crash
<1> QED
  BY <1>1, <1>2, <1>3, <1>4 DEF Next

LEMMA DoneStays ==
  ASSUME CallsOK, [Next]_vars, NEW d \in Calls, calls[d].pc = "done"
  PROVE  calls'[d] = calls[d]
<1>1. ~ Running(d)
  BY DEF Running
<1>2. ~ Arrives(d)
  BY DEF Arrives, CreateFindsKey, CreateStarts, ApproveStarts, RejectStarts,
     CancelStarts, CancelCallsHcm, SyncStarts
<1>3. ~ Proceeds(d)
  BY DEF Proceeds, At, CreateChecksBalance, CreateIsRefused, CreateCommits,
     ApproveRefusesBalance, ApproveCallsHcm, ApproveHearsFromHcm,
     ApproveMarksSyncFailed, ApproveMarkFails, ApproveIsRefused,
     ApproveCommits, RejectIsRefused, RejectCommits, CancelHearsFromHcm,
     CancelIsRefused, CancelCommits, SyncCommits, TransactionAborts
<1> QED
  BY <1>1, <1>2, <1>3, StepOf

(* The HCM is told of leave by the two calls of applyLeave only, and what  *)
(* it has applied for a call it has applied.                               *)
LEMMA HcmKeeps ==
  ASSUME ServiceInv, [Next]_vars, NEW d \in Calls
  PROVE  /\ served[d] \in Nat /\ served'[d] \in Nat
         /\ served'[d] >= served[d]
         /\ \/ client'[d].order = client[d].order
            \/ ApproveCallsHcm(d)
            \/ \E r \in Requests : CancelCallsHcm(d, r)
<1>t. /\ client \in [Calls -> Clients] /\ wire \subseteq Messages
      /\ served \in [Calls -> Nat] /\ served' \in [Calls -> Nat]
  BY ServiceInvStep DEF ServiceInv, HcmInv, HcmTypeOK
<1>0. /\ served[d] \in Nat /\ served'[d] \in Nat
      /\ client[d] \in Clients
  BY <1>t
<1>1. CASE UNCHANGED hcmVars
  BY <1>0, <1>1 DEF hcmVars
<1>2. CASE HcmStep
  <2>1. ASSUME NEW c \in Calls,
               SendAttempt(c) \/ ReceiveAnswer(c) \/ AttemptFails(c)
        PROVE  /\ served' = served
               /\ client'[d].order = client[d].order
    <3>1. served' = served
      BY <2>1 DEF SendAttempt, ReceiveAnswer, AttemptFails
    <3>2. CASE SendAttempt(c)
      BY <1>t, <3>2 DEF SendAttempt, Clients
    <3>3. CASE ReceiveAnswer(c)
      BY <1>t, <3>3 DEF ReceiveAnswer, Clients
    <3>4. CASE AttemptFails(c)
      BY <1>t, <3>4 DEF AttemptFails, Clients
    <3> QED
      BY <2>1, <3>1, <3>2, <3>3, <3>4
  <2>2. ASSUME NEW m \in wire, HcmApplies(m) \/ HcmRefuses(m)
        PROVE  /\ served'[d] >= served[d]
               /\ client'[d].order = client[d].order
    <3>1. m.call \in Calls
      BY <1>t DEF Messages
    <3>2. ASSUME NEW answer, client' = Answered(m, answer)
          PROVE  client'[d].order = client[d].order
      BY <1>t, <3>1, <3>2 DEF Answered, Clients
    <3>3. served'[d] >= served[d]
      <4>1. CASE HcmApplies(m)
        <5>1. served[m.call] \in Nat
          BY <1>t, <3>1
        <5>2. served' = [served EXCEPT ![m.call] = @ + 1]
          BY <4>1 DEF HcmApplies
        <5> QED
          BY <1>t, <1>0, <5>1, <5>2
      <4>2. CASE HcmRefuses(m)
        BY <1>0, <4>2 DEF HcmRefuses
      <4> QED
        BY <2>2, <4>1, <4>2
    <3> QED
      BY <2>2, <3>2, <3>3 DEF HcmApplies, HcmRefuses
  <2> QED
    BY <1>0, <1>2, <2>1, <2>2 DEF HcmStep
<1>3. CASE Crash
  <2>1. served' = served
    BY <1>3 DEF Crash, ForgetClients
  <2>2. client'[d] \in {client[d], [client[d] EXCEPT !.phase = "off"]}
    BY <1>3 DEF Crash, ForgetClients
  <2>3. client'[d].order = client[d].order
    BY <1>0, <2>2 DEF Clients
  <2> QED
    BY <1>0, <2>1, <2>3
<1>4. ASSUME NEW c \in Calls, NEW o, ApplyLeave(c, o), c # d
      PROVE  served' = served /\ client'[d] = client[d]
  BY <1>4 DEF ApplyLeave
<1>5. ASSUME NEW c \in Calls, NEW o, ApplyLeave(c, o)
      PROVE  served' = served
  BY <1>5 DEF ApplyLeave
<1>6. ASSUME NEW c \in Calls, Arrives(c)
      PROVE  UNCHANGED hcmVars \/ \E r \in Requests : CancelCallsHcm(c, r)
  BY <1>6 DEF Arrives, CreateFindsKey, CreateStarts, ApproveStarts,
       RejectStarts, CancelStarts, SyncStarts
<1>7. ASSUME NEW c \in Calls, Proceeds(c)
      PROVE  UNCHANGED hcmVars \/ ApproveCallsHcm(c)
  BY <1>7 DEF Proceeds, CreateChecksBalance, CreateIsRefused, CreateCommits,
       ApproveRefusesBalance, ApproveHearsFromHcm, ApproveMarksSyncFailed,
       ApproveMarkFails, ApproveIsRefused, ApproveCommits, RejectIsRefused,
       RejectCommits, CancelHearsFromHcm, CancelIsRefused, CancelCommits,
       SyncCommits, TransactionAborts
<1>8. ASSUME NEW c \in Calls,
             ApproveCallsHcm(c) \/ \E r \in Requests : CancelCallsHcm(c, r)
      PROVE  \E o : ApplyLeave(c, o)
  BY <1>8 DEF ApproveCallsHcm, CancelCallsHcm
<1>9. CASE \E c \in Calls : Arrives(c) \/ Proceeds(c)
  BY <1>0, <1>1, <1>4, <1>5, <1>6, <1>7, <1>8, <1>9
<1> QED
  BY <1>0, <1>1, <1>2, <1>3, <1>9 DEF Next, HcmActs, vars

-----------------------------------------------------------------------------
(* An approval reaches its transaction only after the HCM has applied the  *)
(* leave, and a call that has not arrived has ordered nothing.             *)
OrderOK(c) ==
  /\ At(c, "approve", "tx") => served[c] > 0
  /\ calls[c].pc = "idle" => client[c].order = <<>>
  /\ calls[c].op = "cancel" /\ client[c].order # <<>> =>
       Logged("TIME_OFF_APPROVED", calls[c].request)

TakenInHcm(r) ==
  \E c \in Calls : /\ At(c, "approve", "done")
                   /\ calls[c].request = r
                   /\ served[c] > 0

OrdersOK ==
  /\ \A c \in Calls : OrderOK(c)
  /\ \A r \in Requests : Logged("TIME_OFF_APPROVED", r) => TakenInHcm(r)

(* Only a commit of approve reports an approval. *)
LEMMA NewApproval ==
  ASSUME ServiceInv, LogInv, [Next]_vars, NEW r \in Requests,
         Logged("TIME_OFF_APPROVED", r)', ~ Logged("TIME_OFF_APPROVED", r)
  PROVE  \E c \in Calls : ApproveCommits(c) /\ calls[c].request = r
<1> USE DEF ServiceInv
<1>1. ~ UNCHANGED outbox
  BY DEF Logged
<1>2. ASSUME NEW type, NEW q, type # "TIME_OFF_APPROVED",
             outbox' = Append(outbox, Event(type, q))
      PROVE  FALSE
  BY <1>2, LoggedAppend, EventsDiffer DEF TablesOK
<1>3. ASSUME NEW c \in Calls, SyncCommits(c) PROVE FALSE
  BY <1>3, SyncLogs DEF TablesOK, RequestEvents
<1>4. PICK c \in Calls : Writes(c)
  BY <1>1, StepCases DEF tables
<1>5. ApproveCommits(c)
  BY <1>1, <1>2, <1>3, <1>4 DEF Writes, CreateCommits,
     ApproveMarksSyncFailed, RejectCommits, CancelCommits, Publish
<1>6. outbox' = Append(outbox, Event("TIME_OFF_APPROVED", calls[c].request))
  BY <1>5 DEF ApproveCommits, Publish
<1>7. calls[c].request = r
  BY <1>6, LoggedAppend, EventsDiffer DEF TablesOK
<1> QED
  BY <1>5, <1>7

LEMMA OrderStep ==
  ASSUME ServiceInv, LogInv, OrdersOK, [Next]_vars, NEW d \in Calls
  PROVE  OrderOK(d)'
<1> USE DEF ServiceInv
<1>0. OrderOK(d) /\ d \in DOMAIN calls
  BY DEF OrdersOK, CallsOK
<1>1. ASSUME NEW r, Logged("TIME_OFF_APPROVED", r)
      PROVE  Logged("TIME_OFF_APPROVED", r)'
  BY <1>1, LogGrows DEF RequestEvents
<1>2. CASE Arrives(d)
  <2>1. calls'[d].pc # "idle" /\ ~ At(d, "approve", "tx")'
    <3>1. ASSUME NEW op, NEW r, NEW allowed, NEW pc,
                 Begin(d, op, r, allowed, pc), pc # "idle",
                 op # "approve" \/ pc # "tx"
          PROVE  calls'[d].pc # "idle" /\ ~ At(d, "approve", "tx")'
      BY <1>0, <3>1 DEF Begin, NewCall, At
    <3>2. ASSUME NEW cmd \in Commands,
                 CreateFindsKey(d, cmd) \/ CreateStarts(d, cmd)
          PROVE  calls'[d].pc # "idle" /\ ~ At(d, "approve", "tx")'
      BY <1>0, <3>2 DEF CreateFindsKey, CreateStarts, NewCall, At
    <3>3. ASSUME NEW exported \in SUBSET HcmRows, SyncStarts(d, exported)
          PROVE  calls'[d].pc # "idle" /\ ~ At(d, "approve", "tx")'
      BY <1>0, <3>3 DEF SyncStarts, NewCall, At
    <3>4. ASSUME NEW r \in Requests,
                 \/ ApproveStarts(d, r) \/ RejectStarts(d, r)
                 \/ CancelStarts(d, r) \/ CancelCallsHcm(d, r)
          PROVE  calls'[d].pc # "idle" /\ ~ At(d, "approve", "tx")'
      BY <3>1, <3>4 DEF ApproveStarts, RejectStarts, CancelStarts,
           CancelCallsHcm
    <3> QED
      BY <1>2, <3>2, <3>3, <3>4 DEF Arrives
  <2>2. client[d].order = <<>>
    BY <1>0, <1>2 DEF OrderOK, Arrives, CreateFindsKey, CreateStarts,
         ApproveStarts, RejectStarts, CancelStarts, CancelCallsHcm,
         SyncStarts
  <2>3. ASSUME NEW r \in Requests, CancelCallsHcm(d, r)
        PROVE  Logged("TIME_OFF_APPROVED", calls[d].request)'
    <3>1. r \in DOMAIN requests /\ requests[r].status = "APPROVED"
      BY <2>3 DEF CancelCallsHcm
    <3>2. LogStatus(r) = "APPROVED"
      BY <3>1 DEF LogInv, LogOK
    <3>3. Logged("TIME_OFF_APPROVED", r)
      BY <3>2 DEF LogStatus
    <3>4. calls'[d].request = r
      BY <1>0, <2>3 DEF CancelCallsHcm, Begin, NewCall
    <3> QED
      BY <1>1, <3>3, <3>4
  <2>4. ~ ApproveCallsHcm(d)
    BY <1>2 DEF Arrives, CreateFindsKey, CreateStarts, ApproveStarts,
       RejectStarts, CancelStarts, CancelCallsHcm, SyncStarts,
       ApproveCallsHcm, At
  <2> QED
    BY <2>1, <2>2, <2>3, <2>4, HcmKeeps DEF OrderOK
<1>3. CASE ~ Arrives(d)
  <2> DEFINE Keeps ==
        /\ calls'[d].op = calls[d].op
        /\ calls[d].op = "cancel" => calls'[d].request = calls[d].request
        /\ calls'[d].pc = "idle" => calls[d].pc = "idle"
        /\ At(d, "approve", "tx")' =>
             At(d, "approve", "tx") \/ ApproveHearsFromHcm(d)
  <2>1. Keeps
    <3>0. IsCall(calls[d])
      BY DEF CallsOK, CallOK
    <3>1. CASE calls'[d] = calls[d]
      BY <3>1 DEF At
    <3>2. CASE calls'[d] = [calls[d] EXCEPT !.pc = "done", !.reply = "CRASHED"]
      BY <3>0, <3>2 DEF At, IsCall
    <3>3. ASSUME NEW code, Reply(d, code) PROVE Keeps
      BY <1>0, <3>0, <3>3 DEF Reply, IsCall, At
    <3>4. CASE Proceeds(d)
      <4>1. CASE \E r \in Requests : CreateCommits(d, r)
        BY <1>0, <3>0, <4>1 DEF CreateCommits, IsCall, At
      <4>2. CASE ApproveHearsFromHcm(d)
        BY <1>0, <3>0, <4>2 DEF ApproveHearsFromHcm, GoTo, IsCall, At
      <4>3. CASE CreateChecksBalance(d) /\ GoTo(d, "tx")
        BY <1>0, <3>0, <4>3 DEF CreateChecksBalance, GoTo, IsCall, At
      <4>4. CASE ApproveCallsHcm(d)
        BY <1>0, <3>0, <4>4 DEF ApproveCallsHcm, GoTo, IsCall, At
      <4>5. CASE CancelHearsFromHcm(d)
        BY <1>0, <3>0, <4>5 DEF CancelHearsFromHcm, GoTo, IsCall, At
      <4> QED
        BY <3>3, <3>4, <4>1, <4>2, <4>3, <4>4, <4>5 DEF Proceeds,
           CreateChecksBalance, CreateIsRefused, ApproveRefusesBalance,
           ApproveMarksSyncFailed, ApproveMarkFails, ApproveIsRefused,
           ApproveCommits, RejectIsRefused, RejectCommits, CancelIsRefused,
           CancelCommits, SyncCommits, TransactionAborts
    <3> QED
      BY <1>3, <3>1, <3>2, <3>4, StepOf
  <2>2. At(d, "approve", "tx")' => served'[d] > 0
    <3>1. At(d, "approve", "tx") \/ ApproveHearsFromHcm(d) =>
            served[d] > 0 \/ calls'[d].pc # "tx"
      <4>1. client[d].phase = "ok" => served[d] > 0
        BY DEF HcmInv, ClientOK
      <4>2. ApproveHearsFromHcm(d) =>
              client[d].phase = "ok" \/ calls'[d].pc = "mark"
        BY <1>0 DEF ApproveHearsFromHcm, GoTo, CallsOK, CallOK, IsCall
      <4> QED
        BY <1>0, <4>1, <4>2 DEF OrderOK
    <3> QED
      BY <2>1, <3>1, HcmKeeps DEF At
  <2>3. ~ \E r \in Requests : CancelCallsHcm(d, r)
    BY <1>3 DEF Arrives
  <2>4. ApproveCallsHcm(d) => calls[d].op # "cancel" /\ calls[d].pc # "idle"
    BY DEF ApproveCallsHcm, At
  <2> QED
    BY <1>0, <1>1, <2>1, <2>2, <2>3, <2>4, HcmKeeps DEF OrderOK
<1> QED
  BY <1>2, <1>3

LEMMA OrdersStep ==
  ASSUME ServiceInv, LogInv, OrdersOK, [Next]_vars
  PROVE  OrdersOK'
<1> USE DEF ServiceInv
<1>1. ASSUME NEW r \in Requests, Logged("TIME_OFF_APPROVED", r)'
      PROVE  TakenInHcm(r)'
  <2>1. CASE Logged("TIME_OFF_APPROVED", r)
    <3>1. PICK c \in Calls : /\ At(c, "approve", "done")
                             /\ calls[c].request = r
                             /\ served[c] > 0
      BY <2>1 DEF OrdersOK, TakenInHcm
    <3>2. calls'[c] = calls[c]
      BY <3>1, DoneStays DEF At
    <3>3. served'[c] > 0
      BY <3>1, HcmKeeps
    <3> QED
      BY <3>1, <3>2, <3>3 DEF TakenInHcm, At
  <2>2. CASE ~ Logged("TIME_OFF_APPROVED", r)
    <3>1. PICK c \in Calls : ApproveCommits(c) /\ calls[c].request = r
      BY <1>1, <2>2, NewApproval
    <3>2. At(c, "approve", "tx") /\ Reply(c, "OK")
      BY <3>1 DEF ApproveCommits
    <3>3. served'[c] > 0
      BY <3>2, HcmKeeps DEF OrdersOK, OrderOK
    <3>4. At(c, "approve", "done")' /\ calls'[c].request = r
      BY <3>1, <3>2 DEF At, Reply, CallsOK, CallOK, IsCall
    <3> QED
      BY <3>3, <3>4 DEF TakenInHcm
  <2> QED
    BY <2>1, <2>2
<1> QED
  BY <1>1, OrderStep DEF OrdersOK

LEMMA OrdersInit == Init => OrdersOK
<1> SUFFICES ASSUME Init PROVE OrdersOK
  OBVIOUS
<1>1. \A c \in Calls : calls[c].op = "none" /\ client[c].order = <<>>
  BY DEF Init, NewCall, HcmInit, Idle
<1>2. outbox = <<>> /\ DOMAIN outbox = {}
  BY DEF Init
<1> QED
  BY <1>1, <1>2 DEF OrdersOK, OrderOK, At, Logged

(* No request is approved here whose days the HCM did not take at least    *)
(* once, and none is given back to the HCM that has not been approved      *)
(* here, however attempts time out and whenever the process dies.          *)
THEOREM ApprovalsAreInHcm == Spec => []ApprovedInHcm
<1>1. OrdersOK => ApprovedInHcm
  BY DEF OrdersOK, OrderOK, TakenInHcm, ApprovedInHcm
<1>2. ServiceInv /\ LogInv /\ OrdersOK /\ [Next]_vars => OrdersOK'
  BY OrdersStep
<1> QED
  BY <1>1, <1>2, OrdersInit, ServiceInvariant, LogInvariant, PTL DEF Spec
-----------------------------------------------------------------------------
(* What the two sides of a balance are told by a call: the days the HCM    *)
(* has applied for it, the days the service has moved for it.              *)
Moving == {"approve", "cancel"}

HcmDays(op, b, c) ==
  IF c \in CallsOn(op, b) THEN served[c] * DaysOf(c) ELSE 0

Moved(op, b, c) ==
  /\ c \in CallsOn(op, b) /\ calls[c].reply = "OK"
  /\ Logged("TIME_OFF_APPROVED", calls[c].request)

HereDays(op, b, c) == IF Moved(op, b, c) THEN DaysOf(c) ELSE 0

(* The calls that have arrived are finitely many, and what the HCM was     *)
(* asked for is what the request of the call says.                         *)
Asked == {c \in Calls : calls[c].op # "none"}

OrderFor(c) ==
  LET cmd == requests[calls[c].request].cmd
  IN  [request |-> calls[c].request, balance |-> cmd.balance,
       days |-> IF calls[c].op = "approve" THEN cmd.days ELSE -cmd.days]

WorkOK(c) ==
  /\ calls[c].reply = "OK" => calls[c].pc = "done"
  /\ served[c] > 0 => client[c].order # <<>>
  /\ client[c].order # <<>> =>
       /\ calls[c].op \in Moving /\ calls[c].request \in DOMAIN requests
       /\ client[c].order = OrderFor(c)

WorkInv == IsFiniteSet(Asked) /\ \A c \in Calls : WorkOK(c)

-----------------------------------------------------------------------------
(* Sums. *)
LEMMA SumSpread ==
  ASSUME NEW S, NEW A, S \subseteq A, NEW f, NEW g,
         \A c \in S : g[c] = f[c], \A c \in A : c \notin S => g[c] = 0
  PROVE  TotalDays(S, f) = TotalDays(A, g)
<1>1. ASSUME NEW p \in DayPairs(S, f) PROVE p \in DayPairs(A, g)
  <2>1. PICK c \in S : p \in {c} \X (1..f[c])
    BY DEF DayPairs
  <2> QED
    BY <2>1 DEF DayPairs
<1>2. ASSUME NEW p \in DayPairs(A, g) PROVE p \in DayPairs(S, f)
  <2>1. PICK c \in A : p \in {c} \X (1..g[c])
    BY DEF DayPairs
  <2>2. c \in S
    <3>1. ASSUME c \notin S PROVE FALSE
      <4>1. g[c] = 0
        BY <3>1
      <4>2. 1..g[c] = {}
        BY <4>1
      <4> QED
        BY <2>1, <4>2
    <3> QED
      BY <3>1
  <2> QED
    BY <2>1, <2>2 DEF DayPairs
<1>3. DayPairs(S, f) = DayPairs(A, g)
  BY <1>1, <1>2
<1> QED
  BY <1>3 DEF TotalDays

LEMMA SumChanges ==
  ASSUME NEW A, IsFiniteSet(A), NEW x \in A, NEW f, NEW g,
         \A c \in A : f[c] \in Nat /\ g[c] \in Nat,
         \A c \in A : c # x => f[c] = g[c]
  PROVE  /\ TotalDays(A, f) \in Nat /\ TotalDays(A, g) \in Nat
         /\ TotalDays(A, g) - g[x] = TotalDays(A, f) - f[x]
<1>1. TotalDays(A \ {x}, f) = TotalDays(A \ {x}, g)
  BY TotalSame
<1>2. /\ TotalDays(A \ {x}, f) = TotalDays(A, f) - f[x]
      /\ TotalDays(A \ {x}, g) = TotalDays(A, g) - g[x]
  BY TotalRemove
<1>3. TotalDays(A, f) \in Nat /\ TotalDays(A, g) \in Nat
  BY PairsAreFinite
<1> QED
  BY <1>1, <1>2, <1>3

LEMMA SumsOver ==
  ASSUME NEW A, NEW op, NEW b, CallsOn(op, b) \subseteq A
  PROVE  /\ InHcm(op, b) = TotalDays(A, [c \in A |-> HcmDays(op, b, c)])
         /\ Here(op, b) = TotalDays(A, [c \in A |-> HereDays(op, b, c)])
<1>1. InHcm(op, b) = TotalDays(A, [c \in A |-> HcmDays(op, b, c)])
  <2> DEFINE S == CallsOn(op, b)
             f == [c \in S |-> served[c] * DaysOf(c)]
             g == [c \in A |-> HcmDays(op, b, c)]
  <2>1. /\ \A c \in S : g[c] = f[c]
        /\ \A c \in A : c \notin S => g[c] = 0
    BY DEF HcmDays
  <2>2. InHcm(op, b) = TotalDays(S, f)
    BY DEF InHcm
  <2> HIDE DEF S, f, g
  <2>3. TotalDays(S, f) = TotalDays(A, g)
    <3>1. S \subseteq A
      BY DEF S
    <3> QED
      BY <2>1, <3>1, SumSpread
  <2> QED
    BY <2>2, <2>3 DEF g
<1>2. Here(op, b) = TotalDays(A, [c \in A |-> HereDays(op, b, c)])
  <2> DEFINE S == {c \in CallsOn(op, b) :
                     calls[c].reply = "OK"
                       /\ Logged("TIME_OFF_APPROVED", calls[c].request)}
             f == [c \in S |-> DaysOf(c)]
             g == [c \in A |-> HereDays(op, b, c)]
  <2>1. /\ \A c \in S : g[c] = f[c]
        /\ \A c \in A : c \notin S => g[c] = 0
    BY DEF HereDays, Moved
  <2>2. Here(op, b) = TotalDays(S, f)
    BY DEF Here
  <2>3. S \subseteq A
    OBVIOUS
  <2> HIDE DEF S, f, g
  <2>4. TotalDays(S, f) = TotalDays(A, g)
    BY <2>1, <2>3, SumSpread
  <2> QED
    BY <2>2, <2>4 DEF g
<1> QED
  BY <1>1, <1>2

-----------------------------------------------------------------------------
(* A handler is asked once. *)
LEMMA ProceedsKeeps ==
  ASSUME CallsOK, NEW d \in Calls, Proceeds(d)
  PROVE  /\ calls'[d].op = calls[d].op
         /\ calls[d].op # "create" => calls'[d].request = calls[d].request
<1>1. \/ \E code : Reply(d, code)
      \/ \E pc : GoTo(d, pc)
      \/ \E r \in Requests : CreateCommits(d, r)
  BY DEF Proceeds, CreateChecksBalance, CreateIsRefused,
     ApproveRefusesBalance, ApproveCallsHcm, ApproveHearsFromHcm,
     ApproveMarksSyncFailed, ApproveMarkFails, ApproveIsRefused,
     ApproveCommits, RejectIsRefused, RejectCommits, CancelHearsFromHcm,
     CancelIsRefused, CancelCommits, SyncCommits, TransactionAborts
<1>2. CASE \E code : Reply(d, code)
  BY <1>2, ReplyIs
<1>3. CASE \E pc : GoTo(d, pc)
  BY <1>3, GoToIs DEF SameAnswer
<1>4. ASSUME NEW r \in Requests, CreateCommits(d, r)
      PROVE  calls'[d].op = calls[d].op /\ calls[d].op = "create"
  BY <1>4 DEF CreateCommits, CallsOK, CallOK, IsCall, At
<1> QED
  BY <1>1, <1>2, <1>3, <1>4

LEMMA ArrivesAlone ==
  ASSUME CallsOK, NEW c \in Calls, Arrives(c)
  PROVE  /\ calls[c].pc = "idle"
         /\ \A d \in Calls : d # c => calls'[d] = calls[d]
  BY BeginIs DEF Arrives, CreateFindsKey, CreateStarts, ApproveStarts,
     RejectStarts, CancelStarts, CancelCallsHcm, SyncStarts, CallsOK

LEMMA AskedOnce ==
  ASSUME CallsOK, [Next]_vars, NEW d \in Calls
  PROVE  \/ Arrives(d)
         \/ /\ calls'[d].op = calls[d].op
            /\ calls[d].op # "create" => calls'[d].request = calls[d].request
<1>1. CASE calls'[d] = [calls[d] EXCEPT !.pc = "done", !.reply = "CRASHED"]
  <2>1. IsCall(calls[d])
    BY DEF CallsOK, CallOK
  <2> QED
    BY <1>1, <2>1 DEF IsCall
<1> QED
  BY <1>1, StepOf, ProceedsKeeps

LEMMA AskedGrows ==
  ASSUME CallsOK, [Next]_vars, IsFiniteSet(Asked)
  PROVE  IsFiniteSet(Asked') /\ IsFiniteSet(Asked \cup Asked')
<1>1. CASE \E x \in Calls : Arrives(x)
  <2>1. PICK x \in Calls : Arrives(x)
    BY <1>1
  <2>2. \A d \in Calls : d # x => calls'[d] = calls[d]
    BY <2>1, ArrivesAlone
  <2>3. Asked' \subseteq Asked \cup {x} /\ Asked \cup Asked' \subseteq Asked \cup {x}
    BY <2>2 DEF Asked
  <2>4. IsFiniteSet(Asked \cup {x})
    BY FS_AddElement
  <2> QED
    BY <2>3, <2>4, FS_Subset
<1>2. CASE ~ \E x \in Calls : Arrives(x)
  <2>1. Asked' \subseteq Asked /\ Asked \cup Asked' = Asked
    BY <1>2, AskedOnce DEF Asked
  <2> QED
    BY <2>1, FS_Subset
<1> QED
  BY <1>1, <1>2

-----------------------------------------------------------------------------
(* Only an attempt that reaches the HCM changes what it has. *)
LEMMA HcmChanges ==
  ASSUME ServiceInv, [Next]_vars
  PROVE  \/ UNCHANGED <<hcm, served>>
         \/ \E m \in wire : HcmApplies(m) /\ UNCHANGED <<tables, calls>>
<1>1. ASSUME NEW c \in Calls, NEW o, ApplyLeave(c, o)
      PROVE  UNCHANGED <<hcm, served>>
  BY <1>1 DEF ApplyLeave
<1>2. ASSUME NEW c \in Calls, Arrives(c) PROVE UNCHANGED <<hcm, served>>
  BY <1>1, <1>2 DEF Arrives, CreateFindsKey, CreateStarts, ApproveStarts,
       RejectStarts, CancelStarts, CancelCallsHcm, SyncStarts, hcmVars
<1>3. ASSUME NEW c \in Calls, Proceeds(c) PROVE UNCHANGED <<hcm, served>>
  BY <1>1, <1>3 DEF Proceeds, CreateChecksBalance, CreateIsRefused,
       CreateCommits, ApproveRefusesBalance, ApproveCallsHcm,
       ApproveHearsFromHcm, ApproveMarksSyncFailed, ApproveMarkFails,
       ApproveIsRefused, ApproveCommits, RejectIsRefused, RejectCommits,
       CancelHearsFromHcm, CancelIsRefused, CancelCommits, SyncCommits,
       TransactionAborts, hcmVars
<1>4. CASE HcmActs
  <2>1. ASSUME NEW c \in Calls,
               SendAttempt(c) \/ ReceiveAnswer(c) \/ AttemptFails(c)
        PROVE  UNCHANGED <<hcm, served>>
    BY <2>1 DEF SendAttempt, ReceiveAnswer, AttemptFails
  <2>2. ASSUME NEW m \in wire, HcmRefuses(m) PROVE UNCHANGED <<hcm, served>>
    BY <2>2 DEF HcmRefuses
  <2> QED
    BY <1>4, <2>1, <2>2 DEF HcmActs, HcmStep
<1>5. Crash \/ UNCHANGED vars => UNCHANGED <<hcm, served>>
  BY DEF Crash, ForgetClients, vars, hcmVars
<1> QED
  BY <1>2, <1>3, <1>4, <1>5 DEF Next

(* What the HCM applies was ordered by a call. *)
LEMMA AppliedIs ==
  ASSUME ServiceInv, NEW m \in wire, HcmApplies(m)
  PROVE  LET x == m.call
         IN  /\ x \in Calls /\ m.order = client[x].order /\ m.order \in Orders
             /\ m.order # <<>> /\ m.order.balance \in HcmRows
             /\ served[x] \in Nat /\ served'[x] = served[x] + 1
             /\ \A c \in Calls : c # x => served'[c] = served[c]
             /\ hcm'[m.order.balance] = hcm[m.order.balance] - m.order.days
             /\ \A b \in HcmRows : b # m.order.balance => hcm'[b] = hcm[b]
<1>1. /\ m \in Messages /\ served \in [Calls -> Nat] /\ hcm \in [HcmRows -> Nat]
  BY DEF ServiceInv, HcmInv, HcmTypeOK
<1>2. m.call \in Calls /\ m.order \in Orders
  BY <1>1 DEF Messages
<1>3. m \in OnWire(m.call)
  BY DEF OnWire
<1>4. m.order = client[m.call].order
  BY <1>2, <1>3 DEF ServiceInv, HcmInv, ClientOK
<1>5. m.order # <<>>
  <2>1. "days" \in DOMAIN m.order
    BY <1>2 DEF Orders
  <2>2. "days" \notin DOMAIN <<>>
    OBVIOUS
  <2> QED
    BY <2>1, <2>2
<1>6. m.order.balance \in HcmRows
  BY DEF HcmApplies, Covers
<1> QED
  BY <1>1, <1>2, <1>4, <1>5, <1>6 DEF HcmApplies

LEMMA OrderMade ==
  ASSUME ServiceInv, NEW c \in Calls, NEW o, ApplyLeave(c, o)
  PROVE  client'[c].order = o
  BY DEF ApplyLeave, ServiceInv, HcmInv, HcmTypeOK

LEMMA WorkStep ==
  ASSUME ServiceInv, LogInv, OrdersOK, WorkInv, [Next]_vars, NEW d \in Calls
  PROVE  WorkOK(d)'
<1> USE DEF ServiceInv
<1>0. WorkOK(d) /\ OrderOK(d) /\ IsCall(calls[d]) /\ d \in DOMAIN calls
  BY DEF WorkInv, OrdersOK, CallsOK, CallOK
<1>d. calls'[d].reply = "OK" => calls'[d].pc = "done"
  <2> SUFFICES ASSUME calls'[d].reply = "OK" PROVE calls'[d].pc = "done"
    OBVIOUS
  <2>1. CASE SameAnswer(d)
    BY <1>0, <2>1, DoneStays DEF SameAnswer, WorkOK
  <2>2. ASSUME NEW code, Reply(d, code) PROVE calls'[d].pc = "done"
    BY <1>0, <2>2 DEF Reply, IsCall
  <2>3. ASSUME NEW r \in Requests, CreateCommits(d, r)
        PROVE  calls'[d].pc = "done"
    BY <1>0, <2>3 DEF CreateCommits, IsCall
  <2>4. ASSUME NEW cmd \in Commands, CreateFindsKey(d, cmd)
        PROVE  calls'[d].pc = "done"
    BY <1>0, <2>4 DEF CreateFindsKey, NewCall
  <2>5. CASE Writes(d)
    BY <2>2, <2>3, <2>5 DEF Writes, ApproveMarksSyncFailed, ApproveCommits,
       RejectCommits, CancelCommits, SyncCommits
  <2> QED
    BY <2>1, <2>4, <2>5, ReplyCases DEF Good
<1>1. CASE client'[d].order = client[d].order
  <2>1. served'[d] > 0 => client[d].order # <<>>
    <3>1. CASE served'[d] = served[d]
      BY <1>0, <3>1 DEF WorkOK
    <3>2. CASE served'[d] # served[d]
      <4>1. PICK m \in wire : HcmApplies(m)
        BY <3>2, HcmChanges
      <4>2. d = m.call
        BY <3>2, <4>1, AppliedIs
      <4> QED
        BY <4>1, <4>2, AppliedIs
    <3> QED
      BY <3>1, <3>2
  <2>2. ASSUME client[d].order # <<>>
        PROVE  /\ calls'[d].op \in Moving
               /\ calls'[d].request \in DOMAIN requests'
               /\ client[d].order = OrderFor(d)'
    <3>1. /\ calls[d].op \in Moving /\ calls[d].request \in DOMAIN requests
          /\ client[d].order = OrderFor(d)
      BY <1>0, <2>2 DEF WorkOK
    <3>2. ~ Arrives(d)
      BY <1>0, <2>2, ArrivesAlone DEF OrderOK
    <3>3. PICK op, r : /\ op = calls[d].op /\ r = calls[d].request
                       /\ op = calls'[d].op /\ r = calls'[d].request
      BY <3>1, <3>2, AskedOnce DEF Moving
    <3>4. r \in DOMAIN requests' /\ requests'[r].cmd = requests[r].cmd
      BY <3>1, <3>3, RowsKept
    <3> QED
      BY <3>1, <3>3, <3>4 DEF OrderFor
  <2> QED
    BY <1>d, <1>1, <2>1, <2>2 DEF WorkOK
<1>2. ASSUME ApproveCallsHcm(d)
      PROVE  WorkOK(d)'
  <2>1. PICK r : r = calls[d].request
    OBVIOUS
  <2>2. r \in DOMAIN requests
    BY <1>2, <2>1 DEF ApproveCallsHcm, At, CallsOK, CallOK, Running, OnRequest
  <2>3. /\ client'[d].order = [request |-> r, balance |-> requests[r].cmd.balance,
                               days |-> requests[r].cmd.days]
        /\ UNCHANGED requests
    BY <1>2, <2>1, OrderMade DEF ApproveCallsHcm, tables
  <2>4. calls'[d].op = "approve" /\ calls'[d].request = r
    BY <1>2, <2>1, GoToIs DEF ApproveCallsHcm, SameAnswer, At
  <2>5. OrderFor(d)' = [request |-> r, balance |-> requests[r].cmd.balance,
                        days |-> requests[r].cmd.days]
    BY <2>3, <2>4 DEF OrderFor
  <2>6. client'[d].order # <<>>
    <3>1. "days" \in DOMAIN client'[d].order /\ "days" \notin DOMAIN <<>>
      BY <2>3
    <3> QED
      BY <3>1
  <2> QED
    BY <1>d, <2>2, <2>3, <2>4, <2>5, <2>6 DEF WorkOK, Moving
<1>3. ASSUME NEW r \in Requests, CancelCallsHcm(d, r)
      PROVE  WorkOK(d)'
  <2>1. r \in DOMAIN requests
    BY <1>3 DEF CancelCallsHcm
  <2>2. /\ client'[d].order = [request |-> r, balance |-> requests[r].cmd.balance,
                               days |-> -requests[r].cmd.days]
        /\ UNCHANGED requests
    BY <1>3, OrderMade DEF CancelCallsHcm, tables
  <2>3. calls'[d].op = "cancel" /\ calls'[d].request = r
    BY <1>3, BeginsWith DEF CancelCallsHcm
  <2>4. OrderFor(d)' = [request |-> r, balance |-> requests[r].cmd.balance,
                        days |-> -requests[r].cmd.days]
    BY <2>2, <2>3 DEF OrderFor
  <2>5. client'[d].order # <<>>
    <3>1. "days" \in DOMAIN client'[d].order /\ "days" \notin DOMAIN <<>>
      BY <2>2
    <3> QED
      BY <3>1
  <2> QED
    BY <1>d, <2>1, <2>2, <2>3, <2>4, <2>5 DEF WorkOK, Moving
<1> QED
  BY <1>1, <1>2, <1>3, HcmKeeps

-----------------------------------------------------------------------------
(* The days of one call. *)
LEMMA Products ==
  \A m, n \in Nat : m * n \in Nat /\ 0 * n = 0 /\ (m + 1) * n = m * n + n
OBVIOUS

DriftInv == ServiceInv /\ LogInv /\ WonOnce /\ OrdersOK /\ WorkInv

LEMMA DaysOfIs ==
  ASSUME ServiceInv, NEW c \in Calls, calls[c].request \in DOMAIN requests
  PROVE  /\ DaysOf(c) = requests[calls[c].request].cmd.days
         /\ DaysOf(c) \in Nat
  BY RequestTypes DEF DaysOf, ServiceInv

LEMMA WeightTypes ==
  ASSUME ServiceInv, NEW c \in Calls, NEW op, NEW b
  PROVE  HcmDays(op, b, c) \in Nat /\ HereDays(op, b, c) \in Nat
<1>1. served[c] \in Nat
  BY DEF ServiceInv, HcmInv, HcmTypeOK
<1>2. c \in CallsOn(op, b) => DaysOf(c) \in Nat
  BY DaysOfIs DEF CallsOn
<1>3. c \in CallsOn(op, b) => served[c] * DaysOf(c) \in Nat
  BY <1>1, <1>2, Products
<1> QED
  BY <1>2, <1>3 DEF HcmDays, HereDays, Moved

LEMMA WeightTypesNext ==
  ASSUME ServiceInv', NEW c \in Calls, NEW op, NEW b
  PROVE  HcmDays(op, b, c)' \in Nat /\ HereDays(op, b, c)' \in Nat
<1>1. served'[c] \in Nat
  BY DEF ServiceInv, HcmInv, HcmTypeOK
<1>2. ASSUME c \in CallsOn(op, b)' PROVE DaysOf(c)' \in Nat
  <2>1. PICK r : r = calls'[c].request
    OBVIOUS
  <2>2. r \in DOMAIN requests'
    BY <1>2, <2>1 DEF CallsOn
  <2>3. requests'[r].cmd \in Commands
    BY <2>2 DEF ServiceInv, TablesOK, RequestRow
  <2> QED
    BY <2>1, <2>3, CommandTypes DEF DaysOf
<1>3. c \in CallsOn(op, b)' => served'[c] * DaysOf(c)' \in Nat
  BY <1>1, <1>2, Products
<1> QED
  BY <1>2, <1>3 DEF HcmDays, HereDays, Moved

(* A call the HCM has served is about the same request before and after.   *)
LEMMA ServedStays ==
  ASSUME DriftInv, [Next]_vars, NEW c \in Calls,
         served[c] > 0 \/ client[c].order # <<>>
  PROVE  /\ calls[c].op \in Moving /\ calls[c].request \in DOMAIN requests
         /\ calls'[c].op = calls[c].op /\ calls'[c].request = calls[c].request
         /\ calls'[c].request \in DOMAIN requests'
         /\ requests'[calls'[c].request].cmd = requests[calls[c].request].cmd
<1> USE DEF DriftInv
<1>1. /\ client[c].order # <<>>
      /\ calls[c].op \in Moving /\ calls[c].request \in DOMAIN requests
  BY DEF WorkInv, WorkOK
<1>2. ~ Arrives(c)
  BY <1>1, ArrivesAlone DEF OrdersOK, OrderOK, ServiceInv
<1>3. calls'[c].op = calls[c].op /\ calls'[c].request = calls[c].request
  BY <1>1, <1>2, AskedOnce DEF Moving, ServiceInv
<1> QED
  BY <1>1, <1>3, RowsKept

LEMMA HcmDaysKept ==
  ASSUME DriftInv, [Next]_vars, NEW c \in Calls, NEW op, NEW b,
         served'[c] = served[c]
  PROVE  HcmDays(op, b, c)' = HcmDays(op, b, c)
<1>0. ServiceInv' /\ served[c] \in Nat
  BY ServiceInvStep DEF DriftInv, ServiceInv, HcmInv, HcmTypeOK
<1>1. CASE served[c] = 0
  <2>1. HcmDays(op, b, c) = 0
    <3>1. c \in CallsOn(op, b) => DaysOf(c) \in Nat
      BY DaysOfIs DEF DriftInv, CallsOn
    <3> QED
      BY <1>1, <3>1, Products DEF HcmDays
  <2>2. HcmDays(op, b, c)' = 0
    <3>1. c \in CallsOn(op, b)' => DaysOf(c)' \in Nat
      <4>1. ASSUME NEW r \in DOMAIN requests' PROVE requests'[r].cmd.days \in Nat
        <5>1. requests'[r].cmd \in Commands
          BY <1>0, <4>1 DEF ServiceInv, TablesOK, RequestRow
        <5> QED
          BY <5>1, CommandTypes
      <4> QED
        BY <4>1 DEF CallsOn, DaysOf
    <3> QED
      BY <1>1, <3>1, Products DEF HcmDays
  <2> QED
    BY <2>1, <2>2
<1>2. CASE served[c] > 0
  <2>1. PICK o, r, cmd : /\ o = calls[c].op /\ r = calls[c].request
                         /\ o = calls'[c].op /\ r = calls'[c].request
                         /\ r \in DOMAIN requests /\ r \in DOMAIN requests'
                         /\ cmd = requests[r].cmd /\ cmd = requests'[r].cmd
    BY <1>2, ServedStays
  <2>2. c \in CallsOn(op, b)' <=> c \in CallsOn(op, b)
    BY <2>1 DEF CallsOn
  <2>3. DaysOf(c)' = DaysOf(c)
    BY <2>1 DEF DaysOf
  <2> QED
    BY <2>2, <2>3 DEF HcmDays
<1> QED
  BY <1>0, <1>1, <1>2

(* An attempt the HCM applies adds the days of its call. *)
LEMMA HcmDaysAdded ==
  ASSUME DriftInv, [Next]_vars, NEW m \in wire, HcmApplies(m),
         UNCHANGED <<tables, calls>>, NEW x, x = m.call,
         NEW mine, mine = calls[x].op, NEW r, r = calls[x].request,
         NEW n, n = requests[r].cmd.days,
         NEW here, here = requests[r].cmd.balance
  PROVE  /\ x \in Calls /\ mine \in Moving /\ n \in Nat
         /\ here \in HcmRows
         /\ hcm'[here] = IF mine = "approve" THEN hcm[here] - n
                                             ELSE hcm[here] + n
         /\ \A b \in HcmRows : b # here => hcm'[b] = hcm[b]
         /\ HcmDays(mine, here, x)' = HcmDays(mine, here, x) + n
         /\ \A op, b : \A c \in Calls : c # x \/ op # mine \/ b # here =>
              HcmDays(op, b, c)' = HcmDays(op, b, c)
<1>0. ServiceInv
  BY DEF DriftInv
<1>1. /\ x \in Calls /\ m.order = client[x].order /\ m.order # <<>>
      /\ m.order.balance \in HcmRows
      /\ served[x] \in Nat /\ served'[x] = served[x] + 1
      /\ \A c \in Calls : c # x => served'[c] = served[c]
      /\ hcm'[m.order.balance] = hcm[m.order.balance] - m.order.days
      /\ \A b \in HcmRows : b # m.order.balance => hcm'[b] = hcm[b]
  BY <1>0, AppliedIs
<1>2. /\ mine \in Moving /\ r \in DOMAIN requests
      /\ m.order = OrderFor(x)
  BY <1>1 DEF DriftInv, WorkInv, WorkOK
<1>3. n \in Nat /\ here \in Balances
  BY <1>0, <1>2, RequestTypes DEF ServiceInv
<1>4. /\ m.order.balance = here
      /\ m.order.days = IF mine = "approve" THEN n ELSE -n
  BY <1>2 DEF OrderFor
<1>5. hcm[here] \in Nat
  BY <1>0, <1>1, <1>4 DEF ServiceInv, HcmInv, HcmTypeOK
<1>6. UNCHANGED <<requests, calls>>
  BY DEF tables
<1>7. \A op, b : /\ x \in CallsOn(op, b)' <=> x \in CallsOn(op, b)
                 /\ x \in CallsOn(op, b) <=> op = mine /\ b = here
  BY <1>1, <1>2, <1>6 DEF CallsOn
<1>8. DaysOf(x)' = n /\ DaysOf(x) = n
  BY <1>6 DEF DaysOf
<1>9. HcmDays(mine, here, x)' = HcmDays(mine, here, x) + n
  <2>1. HcmDays(mine, here, x) = served[x] * n
    BY <1>7, <1>8 DEF HcmDays
  <2>2. HcmDays(mine, here, x)' = (served[x] + 1) * n
    BY <1>1, <1>7, <1>8 DEF HcmDays
  <2> QED
    BY <1>1, <1>3, <2>1, <2>2, Products
<1>10. ASSUME NEW op, NEW b, op # mine \/ b # here
       PROVE  HcmDays(op, b, x)' = HcmDays(op, b, x)
  BY <1>7, <1>10 DEF HcmDays
<1>11. ASSUME NEW op, NEW b, NEW c \in Calls, c # x
       PROVE  HcmDays(op, b, c)' = HcmDays(op, b, c)
  BY <1>1, <1>11, HcmDaysKept
<1>12. hcm'[here] = IF mine = "approve" THEN hcm[here] - n
                                               ELSE hcm[here] + n
  <2>1. CASE mine = "approve"
    BY <1>1, <1>4, <2>1
  <2>2. CASE mine # "approve"
    <3>1. hcm'[here] = hcm[here] - (-n)
      BY <1>1, <1>4, <2>2
    <3>2. \A k, l \in Int : k - (-l) = k + l
      OBVIOUS
    <3> QED
      BY <1>3, <1>5, <2>2, <3>1, <3>2
  <2> QED
    BY <2>1, <2>2
<1>13. ASSUME NEW op, NEW b, NEW c \in Calls, c # x \/ op # mine \/ b # here
       PROVE  HcmDays(op, b, c)' = HcmDays(op, b, c)
  <2>1. CASE c = x
    BY <1>10, <1>13, <2>1
  <2>2. CASE c # x
    BY <1>11, <2>2
  <2> QED
    BY <2>1, <2>2
<1>14. \A op, b : \A c \in Calls : c # x \/ op # mine \/ b # here =>
         HcmDays(op, b, c)' = HcmDays(op, b, c)
  BY <1>13
<1>15. /\ x \in Calls /\ mine \in Moving /\ n \in Nat /\ here \in HcmRows
       /\ \A b \in HcmRows : b # here => hcm'[b] = hcm[b]
  BY <1>1, <1>2, <1>3, <1>4
<1> QED
  BY <1>9, <1>12, <1>14, <1>15

-----------------------------------------------------------------------------
(* What the service has moved for a call that has been answered stays, and *)
(* only a caller that wins adds to it.                                     *)
LEMMA HereDaysKept ==
  ASSUME DriftInv, [Next]_vars, NEW c \in Calls, NEW op \in Moving, NEW b,
         SameAnswer(c)
  PROVE  HereDays(op, b, c)' = HereDays(op, b, c)
<1> USE DEF DriftInv
<1>1. CASE calls[c].reply # "OK" \/ calls[c].op # op
  <2>1. ~ Moved(op, b, c) /\ ~ Moved(op, b, c)'
    BY <1>1 DEF Moved, CallsOn, SameAnswer
  <2> QED
    BY <2>1 DEF HereDays
<1>2. CASE calls[c].reply = "OK" /\ calls[c].op = op
  <2>1. PICK r : r = calls[c].request /\ r = calls'[c].request
    BY DEF SameAnswer
  <2>2. HasWon(c) /\ Logged(EventOf(op), r)
    BY <1>2, <2>1 DEF HasWon, Moving, DecisionOps, WonOnce
  <2>3. EventOf(op) \in RequestEvents
    BY DEF EventOf, Moving, RequestEvents
  <2>4. r \in Requests /\ r \in DOMAIN requests
    BY <2>2, <2>3, LoggedIsRow
  <2>5. r \in DOMAIN requests' /\ requests'[r].cmd = requests[r].cmd
    BY <2>4, RowsKept
  <2>6. Logged("TIME_OFF_APPROVED", r)' <=> Logged("TIME_OFF_APPROVED", r)
    <3>1. Logged("TIME_OFF_APPROVED", r) => Logged("TIME_OFF_APPROVED", r)'
      BY LogGrows DEF RequestEvents
    <3>2. CASE op = "approve"
      BY <2>2, <3>1, <3>2 DEF EventOf
    <3>3. CASE op = "cancel"
      <4>1. Logged("TIME_OFF_CANCELLED", r)
        BY <2>2, <3>3 DEF EventOf
      <4>2. ASSUME Logged("TIME_OFF_APPROVED", r)',
                   ~ Logged("TIME_OFF_APPROVED", r)
            PROVE  FALSE
        <5>1. PICK d \in Calls : ApproveCommits(d) /\ calls[d].request = r
          BY <2>4, <4>2, NewApproval
        <5>2. Decides(r, "PENDING", "APPROVED", "TIME_OFF_APPROVED")
          BY <5>1, ApproveDecides DEF ServiceInv
        <5> QED
          BY <4>1, <5>2, DecisionIsNew DEF ServiceInv
      <4> QED
        BY <3>1, <4>2
    <3> QED
      BY <3>2, <3>3 DEF Moving
  <2>7. Moved(op, b, c)' <=> Moved(op, b, c)
    BY <1>2, <2>1, <2>4, <2>5, <2>6 DEF Moved, CallsOn, SameAnswer
  <2>8. DaysOf(c)' = DaysOf(c)
    BY <2>1, <2>5 DEF DaysOf
  <2> QED
    BY <2>7, <2>8 DEF HereDays
<1> QED
  BY <1>1, <1>2

LEMMA HereDaysOfLoser ==
  ASSUME DriftInv, [Next]_vars, NEW c \in Calls, NEW op \in Moving, NEW b,
         ~ HasWon(c)'
  PROVE  HereDays(op, b, c)' = HereDays(op, b, c)
<1>1. CASE SameAnswer(c)
  BY <1>1, HereDaysKept
<1>2. CASE ~ SameAnswer(c)
  <2>1. ~ Moved(op, b, c)'
    BY DEF Moved, CallsOn, HasWon, Moving, DecisionOps
  <2>2. calls[c].reply # "OK"
    <3>1. calls[c].reply = "OK" => calls'[c] = calls[c]
      BY DoneStays DEF DriftInv, WorkInv, WorkOK, ServiceInv
    <3> QED
      BY <1>2, <3>1 DEF SameAnswer
  <2> QED
    BY <2>1, <2>2 DEF HereDays, Moved
<1> QED
  BY <1>1, <1>2

(* The winner of this step, if its op is one that moves days the HCM knows. *)
LEMMA HereDaysOfWinner ==
  ASSUME DriftInv, [Next]_vars, NEW x \in Calls, HasWon(x)', ~ SameAnswer(x),
         NEW mine, mine = calls[x].op, NEW r, r = calls[x].request,
         r \in DOMAIN requests,
         NEW n, n = requests[r].cmd.days,
         NEW here, here = requests[r].cmd.balance
  PROVE  /\ \A op \in Moving, b \in Balances : HereDays(op, b, x) = 0
         /\ HereDays(mine, here, x)'
              = IF Logged("TIME_OFF_APPROVED", r)' THEN n ELSE 0
         /\ \A op \in Moving, b \in Balances : op # mine \/ b # here =>
              HereDays(op, b, x)' = 0
         /\ \A op \in Moving, b \in Balances, c \in Calls : c # x =>
              HereDays(op, b, c)' = HereDays(op, b, c)
<1> USE DEF DriftInv
<1>1. /\ calls'[x].op = mine /\ calls'[x].request = r
      /\ calls'[x].reply = "OK"
      /\ \A d \in Calls : d # x => calls'[d] = calls[d]
  BY NewWinner DEF HasWon
<1>2. r \in DOMAIN requests' /\ requests'[r].cmd = requests[r].cmd
  BY RowsKept
<1>3. ASSUME NEW op \in Moving, NEW b \in Balances PROVE HereDays(op, b, x) = 0
  <2>1. calls[x].reply # "OK"
    <3>1. calls[x].reply = "OK" => calls'[x] = calls[x]
      BY DoneStays DEF WorkInv, WorkOK, ServiceInv
    <3> QED
      BY <3>1 DEF SameAnswer
  <2> QED
    BY <2>1 DEF HereDays, Moved
<1>4. \A op, b : x \in CallsOn(op, b)' <=> op = mine /\ b = here
  BY <1>1, <1>2 DEF CallsOn
<1>5. DaysOf(x)' = n
  BY <1>1, <1>2 DEF DaysOf
<1>6. HereDays(mine, here, x)'
        = IF Logged("TIME_OFF_APPROVED", r)' THEN n ELSE 0
  BY <1>1, <1>4, <1>5 DEF HereDays, Moved
<1>7. ASSUME NEW op \in Moving, NEW b \in Balances, op # mine \/ b # here
      PROVE  HereDays(op, b, x)' = 0
  BY <1>4, <1>7 DEF HereDays, Moved
<1>8. ASSUME NEW op \in Moving, NEW b \in Balances, NEW c \in Calls, c # x
      PROVE  HereDays(op, b, c)' = HereDays(op, b, c)
  BY <1>1, <1>8, HereDaysKept DEF SameAnswer
<1> QED
  BY <1>3, <1>6, <1>7, <1>8

-----------------------------------------------------------------------------
(* The sums after a step, over the calls that have arrived by then. *)
LEMMA SumsOverNext ==
  ASSUME NEW A, NEW op, NEW b, CallsOn(op, b)' \subseteq A
  PROVE  /\ InHcm(op, b)' = TotalDays(A, [c \in A |-> HcmDays(op, b, c)'])
         /\ Here(op, b)' = TotalDays(A, [c \in A |-> HereDays(op, b, c)'])
<1>1. InHcm(op, b)' = TotalDays(A, [c \in A |-> HcmDays(op, b, c)'])
  <2>1. PICK S : S = CallsOn(op, b)'
    OBVIOUS
  <2> DEFINE f == [c \in S |-> served'[c] * DaysOf(c)']
             g == [c \in A |-> HcmDays(op, b, c)']
  <2>2. /\ \A c \in S : g[c] = f[c]
        /\ \A c \in A : c \notin S => g[c] = 0
    BY <2>1 DEF HcmDays
  <2>3. InHcm(op, b)' = TotalDays(S, f)
    BY <2>1 DEF InHcm
  <2>4. S \subseteq A
    BY <2>1
  <2> HIDE DEF f, g
  <2>5. TotalDays(S, f) = TotalDays(A, g)
    BY <2>2, <2>4, SumSpread
  <2> QED
    BY <2>3, <2>5 DEF g
<1>2. Here(op, b)' = TotalDays(A, [c \in A |-> HereDays(op, b, c)'])
  <2>1. PICK S : S = {c \in CallsOn(op, b)' :
                        calls'[c].reply = "OK"
                          /\ Logged("TIME_OFF_APPROVED", calls[c].request)'}
    OBVIOUS
  <2> DEFINE f == [c \in S |-> DaysOf(c)']
             g == [c \in A |-> HereDays(op, b, c)']
  <2>2. /\ \A c \in S : g[c] = f[c]
        /\ \A c \in A : c \notin S => g[c] = 0
    BY <2>1 DEF HereDays, Moved
  <2>3. Here(op, b)' = TotalDays(S, f)
    BY <2>1 DEF Here
  <2>4. S \subseteq A
    BY <2>1
  <2> HIDE DEF f, g
  <2>5. TotalDays(S, f) = TotalDays(A, g)
    BY <2>2, <2>4, SumSpread
  <2> QED
    BY <2>3, <2>5 DEF g
<1> QED
  BY <1>1, <1>2

(* The sums move with the days of the one call that has moved. *)
LEMMA Sums ==
  ASSUME DriftInv, [Next]_vars, NEW x \in Calls, NEW op \in Moving,
         NEW b \in Balances
  PROVE  /\ InHcm(op, b) \in Nat /\ InHcm(op, b)' \in Nat
         /\ Here(op, b) \in Nat /\ Here(op, b)' \in Nat
         /\ HcmDays(op, b, x) \in Nat /\ HcmDays(op, b, x)' \in Nat
         /\ HereDays(op, b, x) \in Nat /\ HereDays(op, b, x)' \in Nat
         /\ (\A c \in Calls : c # x =>
               HcmDays(op, b, c)' = HcmDays(op, b, c)) =>
              InHcm(op, b)' - HcmDays(op, b, x)'
                = InHcm(op, b) - HcmDays(op, b, x)
         /\ (\A c \in Calls : c # x =>
               HereDays(op, b, c)' = HereDays(op, b, c)) =>
              Here(op, b)' - HereDays(op, b, x)'
                = Here(op, b) - HereDays(op, b, x)
<1>1. PICK A : A = (Asked \cup Asked') \cup {x}
  OBVIOUS
<1>2. IsFiniteSet(A) /\ A \subseteq Calls /\ x \in A
  <2>1. IsFiniteSet(Asked \cup Asked')
    BY AskedGrows DEF DriftInv, ServiceInv, WorkInv
  <2>2. IsFiniteSet((Asked \cup Asked') \cup {x})
    BY <2>1, FS_AddElement
  <2> QED
    BY <1>1, <2>2 DEF Asked
<1>3. CallsOn(op, b) \subseteq A /\ CallsOn(op, b)' \subseteq A
  BY <1>1 DEF CallsOn, Asked, Moving
<1>4. PICK f, f1, h, h1 : /\ f = [c \in A |-> HcmDays(op, b, c)]
                          /\ f1 = [c \in A |-> HcmDays(op, b, c)']
                          /\ h = [c \in A |-> HereDays(op, b, c)]
                          /\ h1 = [c \in A |-> HereDays(op, b, c)']
  OBVIOUS
<1>5. /\ \A c \in A : f[c] = HcmDays(op, b, c) /\ f1[c] = HcmDays(op, b, c)'
      /\ \A c \in A : h[c] = HereDays(op, b, c) /\ h1[c] = HereDays(op, b, c)'
  BY <1>4
<1>6. /\ InHcm(op, b) = TotalDays(A, f) /\ InHcm(op, b)' = TotalDays(A, f1)
      /\ Here(op, b) = TotalDays(A, h) /\ Here(op, b)' = TotalDays(A, h1)
  BY <1>3, <1>4, SumsOver, SumsOverNext
<1>7. \A c \in A : /\ f[c] \in Nat /\ f1[c] \in Nat
                   /\ h[c] \in Nat /\ h1[c] \in Nat
  <2>1. ServiceInv /\ ServiceInv'
    BY ServiceInvStep DEF DriftInv
  <2> QED
    BY <1>2, <1>5, <2>1, WeightTypes, WeightTypesNext
<1>8. /\ TotalDays(A, f) \in Nat /\ TotalDays(A, f1) \in Nat
      /\ TotalDays(A, h) \in Nat /\ TotalDays(A, h1) \in Nat
  BY <1>2, <1>7, PairsAreFinite
<1>9. ASSUME \A c \in Calls : c # x => HcmDays(op, b, c)' = HcmDays(op, b, c)
      PROVE  TotalDays(A, f1) - f1[x] = TotalDays(A, f) - f[x]
  <2>1. \A c \in A : c # x => f[c] = f1[c]
    BY <1>2, <1>5, <1>9
  <2> QED
    BY <1>2, <1>7, <2>1, SumChanges
<1>10. ASSUME \A c \in Calls : c # x => HereDays(op, b, c)' = HereDays(op, b, c)
       PROVE  TotalDays(A, h1) - h1[x] = TotalDays(A, h) - h[x]
  <2>1. \A c \in A : c # x => h[c] = h1[c]
    BY <1>2, <1>5, <1>10
  <2> QED
    BY <1>2, <1>7, <2>1, SumChanges
<1> QED
  BY <1>2, <1>5, <1>6, <1>7, <1>8, <1>9, <1>10

LEMMA Arithmetic ==
  ASSUME NEW s \in Int, NEW s1 \in Int,
         NEW i \in Int, NEW i1 \in Int, NEW p \in Int, NEW p1 \in Int,
         NEW h \in Int, NEW h1 \in Int, NEW q \in Int, NEW q1 \in Int,
         NEW j \in Int, NEW j1 \in Int, NEW u \in Int, NEW u1 \in Int,
         NEW k \in Int, NEW k1 \in Int, NEW v \in Int, NEW v1 \in Int,
         i1 - p1 = i - p, h1 - q1 = h - q, j1 - u1 = j - u, k1 - v1 = k - v,
         s1 - (p1 - q1) + (u1 - v1) = s - (p - q) + (u - v)
  PROVE  s1 - (i1 - h1) + (j1 - k1) = s - (i - h) + (j - k)
OBVIOUS

(* What the service has free of a row, less what the HCM has of it. *)
Gap(b) == balances[b].available + balances[b].reserved - hcm[b]

(* One call moves the sums; the balance row and the HCM's row are the rest *)
(* of what is to be explained.                                             *)
LEMMA OneMoves ==
  ASSUME DriftInv, [Next]_vars, NEW x \in Calls, NEW b \in Balances \cap HcmRows,
         \A op \in Moving, c \in Calls : c # x =>
           /\ HcmDays(op, b, c)' = HcmDays(op, b, c)
           /\ HereDays(op, b, c)' = HereDays(op, b, c),
         Gap(b)'
           - (HcmDays("approve", b, x)' - HereDays("approve", b, x)')
           + (HcmDays("cancel", b, x)' - HereDays("cancel", b, x)')
         = Gap(b)
           - (HcmDays("approve", b, x) - HereDays("approve", b, x))
           + (HcmDays("cancel", b, x) - HereDays("cancel", b, x))
  PROVE  Unexplained(b)' = Unexplained(b)
<1>1. Gap(b) \in Int /\ Gap(b)' \in Int
  <2>1. ServiceInv /\ ServiceInv'
    BY ServiceInvStep DEF DriftInv
  <2>2. balances[b] \in BalanceRow /\ balances'[b] \in BalanceRow
    BY <2>1 DEF ServiceInv, TablesOK
  <2>3. hcm[b] \in Nat /\ hcm'[b] \in Nat
    BY <2>1 DEF ServiceInv, HcmInv, HcmTypeOK
  <2> QED
    BY <2>2, <2>3, Columns DEF Gap
<1>2. "approve" \in Moving /\ "cancel" \in Moving /\ b \in Balances
  BY DEF Moving
<1>3. /\ InHcm("approve", b) \in Nat /\ InHcm("approve", b)' \in Nat
      /\ Here("approve", b) \in Nat /\ Here("approve", b)' \in Nat
      /\ HcmDays("approve", b, x) \in Nat /\ HcmDays("approve", b, x)' \in Nat
      /\ HereDays("approve", b, x) \in Nat /\ HereDays("approve", b, x)' \in Nat
      /\ InHcm("approve", b)' - HcmDays("approve", b, x)'
           = InHcm("approve", b) - HcmDays("approve", b, x)
      /\ Here("approve", b)' - HereDays("approve", b, x)'
           = Here("approve", b) - HereDays("approve", b, x)
  BY <1>2, Sums
<1>4. /\ InHcm("cancel", b) \in Nat /\ InHcm("cancel", b)' \in Nat
      /\ Here("cancel", b) \in Nat /\ Here("cancel", b)' \in Nat
      /\ HcmDays("cancel", b, x) \in Nat /\ HcmDays("cancel", b, x)' \in Nat
      /\ HereDays("cancel", b, x) \in Nat /\ HereDays("cancel", b, x)' \in Nat
      /\ InHcm("cancel", b)' - HcmDays("cancel", b, x)'
           = InHcm("cancel", b) - HcmDays("cancel", b, x)
      /\ Here("cancel", b)' - HereDays("cancel", b, x)'
           = Here("cancel", b) - HereDays("cancel", b, x)
  BY <1>2, Sums
<1>5. Gap(b)' - (InHcm("approve", b)' - Here("approve", b)')
             + (InHcm("cancel", b)' - Here("cancel", b)')
        = Gap(b) - (InHcm("approve", b) - Here("approve", b))
             + (InHcm("cancel", b) - Here("cancel", b))
  BY <1>1, <1>3, <1>4, Arithmetic
<1> QED
  BY <1>5 DEF Unexplained, Gap

-----------------------------------------------------------------------------
(* The steps. *)
LEMMA NobodyMoves ==
  ASSUME DriftInv, [Next]_vars, UNCHANGED served,
         NEW b \in Balances \cap HcmRows,
         Gap(b)' = Gap(b),
         \A op \in Moving, c \in Calls :
           HereDays(op, b, c)' = HereDays(op, b, c)
  PROVE  Unexplained(b)' = Unexplained(b)
<1>1. \A op \in Moving, c \in Calls :
        HcmDays(op, b, c)' = HcmDays(op, b, c)
  BY HcmDaysKept
<1>2. CASE Calls # {}
  <2>1. PICK x \in Calls : TRUE
    BY <1>2
  <2>2. "approve" \in Moving /\ "cancel" \in Moving
    BY DEF Moving
  <2> QED
    <3>1. /\ HcmDays("approve", b, x)' = HcmDays("approve", b, x)
          /\ HcmDays("cancel", b, x)' = HcmDays("cancel", b, x)
          /\ HereDays("approve", b, x)' = HereDays("approve", b, x)
          /\ HereDays("cancel", b, x)' = HereDays("cancel", b, x)
      BY <1>1, <2>2
    <3>2. Gap(b)' - (HcmDays("approve", b, x)' - HereDays("approve", b, x)')
            + (HcmDays("cancel", b, x)' - HereDays("cancel", b, x)')
          = Gap(b) - (HcmDays("approve", b, x) - HereDays("approve", b, x))
            + (HcmDays("cancel", b, x) - HereDays("cancel", b, x))
      BY <3>1
    <3>3. \A op \in Moving, c \in Calls : c # x =>
             /\ HcmDays(op, b, c)' = HcmDays(op, b, c)
             /\ HereDays(op, b, c)' = HereDays(op, b, c)
      BY <1>1
    <3> QED
      BY <3>2, <3>3, OneMoves
<1>3. CASE Calls = {}
  <2>1. \A op : /\ CallsOn(op, b) = {} /\ CallsOn(op, b)' = {}
    BY <1>3 DEF CallsOn
  <2>2. \A op : /\ InHcm(op, b) = 0 /\ InHcm(op, b)' = 0
                /\ Here(op, b) = 0 /\ Here(op, b)' = 0
    BY <2>1, TotalEmpty DEF InHcm, Here
  <2> QED
    BY <2>2 DEF Unexplained, Gap
<1> QED
  BY <1>2, <1>3

LEMMA GapTypes ==
  ASSUME DriftInv, [Next]_vars, NEW b \in Balances \cap HcmRows
  PROVE  /\ Gap(b) \in Int /\ Gap(b)' \in Int
         /\ hcm[b] \in Int /\ hcm'[b] \in Int
         /\ balances[b] \in BalanceRow /\ balances'[b] \in BalanceRow
<1>1. ServiceInv /\ ServiceInv'
  BY ServiceInvStep DEF DriftInv
<1>2. balances[b] \in BalanceRow /\ balances'[b] \in BalanceRow
  BY <1>1 DEF ServiceInv, TablesOK
<1>3. hcm[b] \in Nat /\ hcm'[b] \in Nat
  BY <1>1 DEF ServiceInv, HcmInv, HcmTypeOK
<1> QED
  BY <1>2, <1>3, Columns DEF Gap

(* The HCM applies an attempt: what it has of the balance moves. *)
LEMMA AppliedIsExplained ==
  ASSUME DriftInv, [Next]_vars, NEW m \in wire, HcmApplies(m),
         UNCHANGED <<tables, calls>>, NEW b \in Balances \cap HcmRows
  PROVE  Unexplained(b)' = Unexplained(b)
<1>1. PICK x, mine, r, n, here :
        /\ x = m.call /\ mine = calls[x].op /\ r = calls[x].request
        /\ n = requests[r].cmd.days /\ here = requests[r].cmd.balance
  OBVIOUS
<1>2. /\ x \in Calls /\ mine \in Moving /\ n \in Nat /\ here \in HcmRows
      /\ hcm'[here] = IF mine = "approve" THEN hcm[here] - n
                                          ELSE hcm[here] + n
      /\ \A q \in HcmRows : q # here => hcm'[q] = hcm[q]
      /\ HcmDays(mine, here, x)' = HcmDays(mine, here, x) + n
      /\ \A op, q : \A c \in Calls : c # x \/ op # mine \/ q # here =>
           HcmDays(op, q, c)' = HcmDays(op, q, c)
  <2>1. x \in Calls /\ mine \in Moving /\ n \in Nat
    BY <1>1, HcmDaysAdded
  <2>2. here \in HcmRows
    BY <1>1, HcmDaysAdded
  <2>3. hcm'[here] = IF mine = "approve" THEN hcm[here] - n
                                          ELSE hcm[here] + n
    BY <1>1, HcmDaysAdded
  <2>4. \A q \in HcmRows : q # here => hcm'[q] = hcm[q]
    BY <1>1, HcmDaysAdded
  <2>5. HcmDays(mine, here, x)' = HcmDays(mine, here, x) + n
    BY <1>1, HcmDaysAdded
  <2>6. \A op, q : \A c \in Calls : c # x \/ op # mine \/ q # here =>
          HcmDays(op, q, c)' = HcmDays(op, q, c)
    BY <1>1, HcmDaysAdded
  <2> QED
    BY <2>1, <2>2, <2>3, <2>4, <2>5, <2>6
<1>3. \A op \in Moving, c \in Calls :
        HereDays(op, b, c)' = HereDays(op, b, c)
  BY HereDaysKept DEF SameAnswer
<1>4. "approve" \in Moving /\ "cancel" \in Moving
  BY DEF Moving
<1>5. PICK f, g : /\ f = HereDays("approve", b, x) /\ f = HereDays("approve", b, x)'
                  /\ g = HereDays("cancel", b, x) /\ g = HereDays("cancel", b, x)'
  BY <1>2, <1>3, <1>4
<1>6. /\ f \in Nat /\ g \in Nat
      /\ HcmDays("approve", b, x) \in Nat /\ HcmDays("cancel", b, x) \in Nat
  BY <1>2, <1>5, WeightTypes DEF DriftInv
<1>7. Gap(b)' = balances[b].available + balances[b].reserved - hcm'[b]
  BY DEF Gap, tables
<1>8. /\ balances[b].available \in Nat /\ balances[b].reserved \in Nat
      /\ hcm[b] \in Int /\ Gap(b) \in Int
  BY GapTypes, Columns
<1>9. Gap(b)' - (HcmDays("approve", b, x)' - f) + (HcmDays("cancel", b, x)' - g)
        = Gap(b) - (HcmDays("approve", b, x) - f) + (HcmDays("cancel", b, x) - g)
  <2>1. CASE b # here
    <3>1. Gap(b)' = Gap(b)
      BY <1>2, <1>7, <2>1 DEF Gap
    <3>2. /\ HcmDays("approve", b, x)' = HcmDays("approve", b, x)
          /\ HcmDays("cancel", b, x)' = HcmDays("cancel", b, x)
      BY <1>2, <2>1
    <3> QED
      BY <3>1, <3>2
  <2>2. CASE b = here /\ mine = "approve"
    <3>1. Gap(b)' = Gap(b) + n
      BY <1>2, <1>7, <1>8, <2>2 DEF Gap
    <3>2. /\ HcmDays("approve", b, x)' = HcmDays("approve", b, x) + n
          /\ HcmDays("cancel", b, x)' = HcmDays("cancel", b, x)
      BY <1>2, <2>2
    <3> QED
      BY <1>2, <1>6, <1>8, <3>1, <3>2
  <2>3. CASE b = here /\ mine = "cancel"
    <3>1. Gap(b)' = Gap(b) - n
      BY <1>2, <1>7, <1>8, <2>3 DEF Gap
    <3>2. /\ HcmDays("cancel", b, x)' = HcmDays("cancel", b, x) + n
          /\ HcmDays("approve", b, x)' = HcmDays("approve", b, x)
      BY <1>2, <2>3
    <3> QED
      BY <1>2, <1>6, <1>8, <3>1, <3>2
  <2> QED
    BY <1>2, <2>1, <2>2, <2>3 DEF Moving
<1> QED
  BY <1>2, <1>3, <1>5, <1>9, OneMoves

(* A decision commits: what the service has of the balance moves by gain.  *)
Gains(mine, r, n, gain) ==
  /\ mine = "approve" => Logged("TIME_OFF_APPROVED", r)' /\ gain = -n
  /\ mine = "cancel" =>
       gain = IF Logged("TIME_OFF_APPROVED", r)' THEN n ELSE 0
  /\ mine \notin Moving => gain = 0

Settles(x, mine, r, n, here, gain) ==
  /\ UNCHANGED <<hcm, served>>
  /\ HasWon(x)' /\ ~ SameAnswer(x)
  /\ mine = calls[x].op /\ r = calls[x].request
  /\ r \in DOMAIN requests
  /\ n = requests[r].cmd.days /\ here = requests[r].cmd.balance
  /\ balances'[here].available + balances'[here].reserved
       = balances[here].available + balances[here].reserved + gain
  /\ \A q \in Balances : q # here => balances'[q] = balances[q]
  /\ Gains(mine, r, n, gain)

LEMMA WinnerIsExplained ==
  ASSUME DriftInv, [Next]_vars, NEW x \in Calls, NEW mine, NEW r, NEW n,
         NEW here, NEW gain \in Int, Settles(x, mine, r, n, here, gain),
         NEW b \in Balances \cap HcmRows
  PROVE  Unexplained(b)' = Unexplained(b)
<1> USE DEF Settles, Gains
<1>0. n \in Nat
  BY RequestTypes DEF DriftInv, ServiceInv
<1>1. /\ \A op \in Moving, q \in Balances : HereDays(op, q, x) = 0
      /\ HereDays(mine, here, x)'
           = IF Logged("TIME_OFF_APPROVED", r)' THEN n ELSE 0
      /\ \A op \in Moving, q \in Balances : op # mine \/ q # here =>
           HereDays(op, q, x)' = 0
      /\ \A op \in Moving, q \in Balances, c \in Calls : c # x =>
           HereDays(op, q, c)' = HereDays(op, q, c)
  BY HereDaysOfWinner
<1>2. \A op \in Moving, c \in Calls :
        HcmDays(op, b, c)' = HcmDays(op, b, c)
  BY HcmDaysKept
<1>3. "approve" \in Moving /\ "cancel" \in Moving
  BY DEF Moving
<1>4. PICK f, g : /\ f = HcmDays("approve", b, x) /\ f = HcmDays("approve", b, x)'
                  /\ g = HcmDays("cancel", b, x) /\ g = HcmDays("cancel", b, x)'
  BY <1>2, <1>3
<1>5. f \in Nat /\ g \in Nat
  BY <1>4, WeightTypes DEF DriftInv
<1>6. /\ Gap(b) \in Int /\ hcm[b] \in Int
      /\ balances[b] \in BalanceRow
  BY GapTypes
<1>7. b = here => Gap(b)' = Gap(b) + gain
  <2> SUFFICES ASSUME b = here PROVE Gap(b)' = Gap(b) + gain
    OBVIOUS
  <2>1. /\ balances[b].available \in Nat /\ balances[b].reserved \in Nat
        /\ balances'[b].available \in Nat /\ balances'[b].reserved \in Nat
    BY GapTypes, Columns
  <2>2. Gap(b)' = balances'[b].available + balances'[b].reserved - hcm[b]
    BY DEF Gap
  <2>3. balances'[b].available + balances'[b].reserved
          = balances[b].available + balances[b].reserved + gain
    OBVIOUS
  <2> QED
    BY <1>6, <2>1, <2>2, <2>3 DEF Gap
<1>8. HereDays("approve", b, x) = 0 /\ HereDays("cancel", b, x) = 0
  BY <1>1, <1>3
<1>9. Gap(b)' - (f - HereDays("approve", b, x)') + (g - HereDays("cancel", b, x)')
        = Gap(b) - (f - 0) + (g - 0)
  <2>1. CASE b # here
    <3>1. Gap(b)' = Gap(b)
      BY <2>1 DEF Gap
    <3>2. HereDays("approve", b, x)' = 0 /\ HereDays("cancel", b, x)' = 0
      BY <1>1, <1>3, <2>1
    <3> QED
      BY <3>1, <3>2
  <2>2. CASE b = here /\ mine = "approve"
    <3>1. Gap(b)' = Gap(b) + (-n)
      BY <1>7, <2>2
    <3>2. HereDays("approve", b, x)' = n /\ HereDays("cancel", b, x)' = 0
      BY <1>1, <1>3, <2>2
    <3> QED
      BY <1>0, <1>5, <1>6, <3>1, <3>2
  <2>3. CASE b = here /\ mine = "cancel"
    <3>1. Gap(b)' = Gap(b) + gain
      BY <1>7, <2>3
    <3>2. HereDays("cancel", b, x)' = gain /\ HereDays("approve", b, x)' = 0
      BY <1>1, <1>3, <2>3
    <3> QED
      BY <1>5, <1>6, <3>1, <3>2
  <2>4. CASE b = here /\ mine \notin Moving
    <3>1. Gap(b)' = Gap(b)
      BY <1>6, <1>7, <2>4
    <3>2. HereDays("approve", b, x)' = 0 /\ HereDays("cancel", b, x)' = 0
      BY <1>1, <1>3, <2>4
    <3> QED
      BY <3>1, <3>2
  <2> QED
    BY <2>1, <2>2, <2>3, <2>4 DEF Moving
<1>10. \A op \in Moving, c \in Calls : c # x =>
        /\ HcmDays(op, b, c)' = HcmDays(op, b, c)
        /\ HereDays(op, b, c)' = HereDays(op, b, c)
  BY <1>1, <1>2
<1> QED
  BY <1>4, <1>8, <1>9, <1>10, OneMoves

(* A decision that commits has won. *)
LEMMA CommitWins ==
  ASSUME DriftInv, [Next]_vars, NEW x \in Calls,
         ApproveCommits(x) \/ RejectCommits(x) \/ CancelCommits(x)
  PROVE  /\ HasWon(x)' /\ ~ SameAnswer(x)
         /\ calls[x].request \in DOMAIN requests
         /\ UNCHANGED <<hcm, served>>
<1> USE DEF DriftInv, ServiceInv
<1>1. /\ Reply(x, "OK") /\ calls[x].pc = "tx"
      /\ calls[x].op \in DecisionOps
      /\ UNCHANGED <<hcm, served>>
  BY DEF ApproveCommits, RejectCommits, CancelCommits, At, DecisionOps,
     hcmVars
<1>2. HasWon(x)'
  BY <1>1, ReplyIs DEF HasWon
<1>3. calls[x].reply # "OK"
  BY <1>1 DEF WorkInv, WorkOK
<1>4. ~ SameAnswer(x)
  BY <1>2, <1>3 DEF SameAnswer, HasWon
<1>5. calls[x].request \in DOMAIN requests
  BY ApproveDecides, RejectDecides, CancelDecides DEF Decides
<1> QED
  BY <1>1, <1>2, <1>4, <1>5

LEMMA ApproveIsExplained ==
  ASSUME DriftInv, [Next]_vars, NEW x \in Calls, ApproveCommits(x),
         NEW b \in Balances \cap HcmRows
  PROVE  Unexplained(b)' = Unexplained(b)
<1> USE DEF DriftInv, ServiceInv
<1>1. PICK r, n, here : /\ r = calls[x].request /\ n = requests[r].cmd.days
                        /\ here = requests[r].cmd.balance
  OBVIOUS
<1>2. /\ HasWon(x)' /\ ~ SameAnswer(x) /\ r \in DOMAIN requests
      /\ UNCHANGED <<hcm, served>> /\ calls[x].op = "approve"
  BY <1>1, CommitWins DEF ApproveCommits, At
<1>3. n \in Nat /\ here \in Balances
  BY <1>1, <1>2, RequestTypes
<1>4. PICK row \in BalanceRow : row = balances[here]
  BY <1>3 DEF TablesOK
<1>5. /\ balances'[here] = ConsumeReserved(row, n)
      /\ \A q \in Balances : q # here => balances'[q] = balances[q]
  BY <1>1, <1>3, <1>4 DEF ApproveCommits, SetBalance, TablesOK
<1>6. PICK gain \in Int : gain = -n
  BY <1>3
<1>7. balances'[here].available + balances'[here].reserved
        = row.available + row.reserved + gain
  <2>1. /\ balances'[here].available = row.available
        /\ balances'[here].reserved = row.reserved - n
    BY <1>5 DEF ConsumeReserved, BalanceRow
  <2> QED
    BY <1>3, <1>6, <2>1, Columns
<1>8. Logged("TIME_OFF_APPROVED", r)' /\ "approve" \in Moving
  BY <1>1, <1>2, NewWinner DEF EventOf, Moving
<1>9. PICK mine : mine = calls[x].op
  OBVIOUS
<1>10. /\ balances'[here].available + balances'[here].reserved
           = balances[here].available + balances[here].reserved + gain
      /\ gain \in Int
  BY <1>4, <1>6, <1>7
<1>11. Gains(mine, r, n, gain)
  BY <1>2, <1>6, <1>8, <1>9 DEF Gains
<1>12. Settles(x, mine, r, n, here, gain)
  BY ONLY <1>1, <1>2, <1>5, <1>9, <1>10, <1>11 DEF Settles
<1> HIDE DEF DriftInv, ServiceInv
<1> QED
  BY ONLY DriftInv, [Next]_vars, x \in Calls, b \in Balances \cap HcmRows,
     <1>10, <1>12, WinnerIsExplained

LEMMA RejectIsExplained ==
  ASSUME DriftInv, [Next]_vars, NEW x \in Calls, RejectCommits(x),
         NEW b \in Balances \cap HcmRows
  PROVE  Unexplained(b)' = Unexplained(b)
<1> USE DEF DriftInv, ServiceInv
<1>1. PICK r, n, here : /\ r = calls[x].request /\ n = requests[r].cmd.days
                        /\ here = requests[r].cmd.balance
  OBVIOUS
<1>2. /\ HasWon(x)' /\ ~ SameAnswer(x) /\ r \in DOMAIN requests
      /\ UNCHANGED <<hcm, served>> /\ calls[x].op = "reject"
  BY <1>1, CommitWins DEF RejectCommits, At
<1>3. n \in Nat /\ here \in Balances
  BY <1>1, <1>2, RequestTypes
<1>4. PICK row \in BalanceRow : row = balances[here]
  BY <1>3 DEF TablesOK
<1>5. /\ balances'[here] = ReleaseReserved(row, n)
      /\ \A q \in Balances : q # here => balances'[q] = balances[q]
  BY <1>1, <1>3, <1>4 DEF RejectCommits, SetBalance, TablesOK
<1>6. balances'[here].available + balances'[here].reserved
        = row.available + row.reserved + 0
  <2>1. /\ balances'[here].available = row.available + n
        /\ balances'[here].reserved = row.reserved - n
    BY <1>5 DEF ReleaseReserved, BalanceRow
  <2> QED
    BY <1>3, <2>1, Columns
<1>7. calls[x].op \notin Moving /\ calls[x].op # "approve" /\ calls[x].op # "cancel"
  BY <1>2 DEF Moving
<1>8. PICK mine, gain : mine = calls[x].op /\ gain = 0
  OBVIOUS
<1>9. /\ balances'[here].available + balances'[here].reserved
           = balances[here].available + balances[here].reserved + gain
      /\ gain \in Int
  BY <1>4, <1>6, <1>8
<1>10. Gains(mine, r, n, gain)
  BY <1>2, <1>7, <1>8 DEF Gains
<1>11. Settles(x, mine, r, n, here, gain)
  BY <1>1, <1>2, <1>5, <1>8, <1>9, <1>10 DEF Settles
<1> HIDE DEF DriftInv, ServiceInv
<1> QED
  BY ONLY DriftInv, [Next]_vars, x \in Calls, b \in Balances \cap HcmRows,
     <1>9, <1>11, WinnerIsExplained

(* What is still pending was reserved, and is free again; what has been    *)
(* approved was used.                                                      *)
LEMMA CancelIsExplained ==
  ASSUME DriftInv, [Next]_vars, NEW x \in Calls, CancelCommits(x),
         NEW b \in Balances \cap HcmRows
  PROVE  Unexplained(b)' = Unexplained(b)
<1> USE DEF DriftInv, ServiceInv
<1>1. PICK r, n, here, old : /\ r = calls[x].request
                             /\ n = requests[r].cmd.days
                             /\ here = requests[r].cmd.balance
                             /\ old = requests[r].status
  OBVIOUS
<1>2. /\ HasWon(x)' /\ ~ SameAnswer(x) /\ r \in DOMAIN requests
      /\ UNCHANGED <<hcm, served>> /\ calls[x].op = "cancel"
  BY <1>1, CommitWins DEF CancelCommits, At
<1>3. n \in Nat /\ here \in Balances
  BY <1>1, <1>2, RequestTypes
<1>4. PICK row \in BalanceRow : row = balances[here]
  BY <1>3 DEF TablesOK
<1>5. /\ old \in {"PENDING", "APPROVED"}
      /\ Decides(r, old, "CANCELLED", "TIME_OFF_CANCELLED")
  BY <1>1, CancelDecides
<1>6. Logged("TIME_OFF_APPROVED", r)' <=> old = "APPROVED"
  <2>1. <<old, "CANCELLED", "TIME_OFF_CANCELLED">> \in Decisions
    BY <1>5 DEF Decisions
  <2>2. Logged("TIME_OFF_APPROVED", r)' <=> Logged("TIME_OFF_APPROVED", r)
    BY <1>5, <2>1, DecisionTells
  <2>3. Logged("TIME_OFF_APPROVED", r) <=> old = "APPROVED"
    BY <1>5, DecisionIsNew
  <2> QED
    BY <2>2, <2>3
<1>7. /\ balances'[here] = IF old = "PENDING" THEN ReleaseReserved(row, n)
                                              ELSE ReleaseUsed(row, n)
      /\ \A q \in Balances : q # here => balances'[q] = balances[q]
  BY <1>1, <1>3, <1>4 DEF CancelCommits, SetBalance, TablesOK
<1>8. PICK gain : gain = IF Logged("TIME_OFF_APPROVED", r)' THEN n ELSE 0
  OBVIOUS
<1>9. gain \in Int
  BY <1>3, <1>8
<1>10. balances'[here].available + balances'[here].reserved
         = row.available + row.reserved + gain
  <2>1. CASE old = "PENDING"
    <3>1. /\ balances'[here].available = row.available + n
          /\ balances'[here].reserved = row.reserved - n
      BY <1>7, <2>1 DEF ReleaseReserved, BalanceRow
    <3>2. gain = 0
      BY <1>6, <1>8, <2>1
    <3> QED
      BY <1>3, <3>1, <3>2, Columns
  <2>2. CASE old = "APPROVED"
    <3>1. /\ balances'[here].available = row.available + n
          /\ balances'[here].reserved = row.reserved
      BY <1>7, <2>2 DEF ReleaseUsed, BalanceRow
    <3>2. gain = n
      BY <1>6, <1>8, <2>2
    <3> QED
      BY <1>3, <3>1, <3>2, Columns
  <2> QED
    BY <1>5, <2>1, <2>2
<1>11. "cancel" \in Moving /\ "cancel" # "approve"
  BY DEF Moving
<1>12. PICK mine : mine = calls[x].op
  OBVIOUS
<1>13. /\ balances'[here].available + balances'[here].reserved
           = balances[here].available + balances[here].reserved + gain
      /\ gain \in Int
  BY <1>4, <1>9, <1>10
<1>14. Gains(mine, r, n, gain)
  BY <1>2, <1>8, <1>11, <1>12 DEF Gains
<1>15. Settles(x, mine, r, n, here, gain)
  BY ONLY <1>1, <1>2, <1>7, <1>12, <1>13, <1>14 DEF Settles
<1> HIDE DEF DriftInv, ServiceInv
<1> QED
  BY ONLY DriftInv, [Next]_vars, x \in Calls, b \in Balances \cap HcmRows,
     <1>13, <1>15, WinnerIsExplained

(* Every other step moves no days between the sides: a create moves them   *)
(* from available to reserved.                                             *)
LEMMA OthersAreExplained ==
  ASSUME DriftInv, [Next]_vars, UNCHANGED <<hcm, served>>,
         ~ \E c \in Calls : \/ ApproveCommits(c) \/ RejectCommits(c)
                            \/ CancelCommits(c) \/ SyncCommits(c),
         NEW b \in Balances \cap HcmRows
  PROVE  Unexplained(b)' = Unexplained(b)
<1> USE DEF DriftInv, ServiceInv
<1>1. \A op \in Moving, c \in Calls :
        HereDays(op, b, c)' = HereDays(op, b, c)
  <2>1. ASSUME NEW c \in Calls PROVE SameAnswer(c) \/ ~ HasWon(c)'
    BY WinnerCommits
  <2> QED
    BY <2>1, HereDaysKept, HereDaysOfLoser
<1>2. Gap(b)' = Gap(b)
  <2>1. CASE UNCHANGED balances
    BY <2>1 DEF Gap
  <2>2. ASSUME NEW c \in Calls, NEW r \in Requests, CreateCommits(c, r)
        PROVE  Gap(b)' = Gap(b)
    <3>1. PICK cmd \in Commands : cmd = calls[c].cmd
      BY <2>2 DEF CallsOK, CallOK, CreateCommits, At, Running
    <3>2. cmd.days \in Nat /\ balances[b] \in BalanceRow
      BY <3>1, CommandTypes DEF TablesOK
    <3>3. CASE b = cmd.balance
      <4>1. balances'[b] = Reserve(balances[b], cmd.days)
        BY <2>2, <3>1, <3>3 DEF CreateCommits, SetBalance, TablesOK
      <4>2. /\ balances'[b].available = balances[b].available - cmd.days
            /\ balances'[b].reserved = balances[b].reserved + cmd.days
        BY <3>2, <4>1 DEF Reserve, BalanceRow
      <4>3. hcm[b] \in Int
        BY GapTypes
      <4> QED
        BY <3>2, <4>2, <4>3, Columns DEF Gap
    <3>4. CASE b # cmd.balance
      BY <2>2, <3>1, <3>4 DEF CreateCommits, SetBalance, TablesOK, Gap
    <3> QED
      BY <3>3, <3>4
  <2>3. \A c \in Calls : ApproveMarksSyncFailed(c) => UNCHANGED balances
    BY DEF ApproveMarksSyncFailed
  <2> QED
    BY <2>1, <2>2, <2>3, StepCases DEF Writes, tables
<1> QED
  BY <1>1, <1>2, NobodyMoves

LEMMA DriftStep == DriftInv /\ [Next]_vars => ExplainedStep
<1> SUFFICES ASSUME DriftInv, [Next]_vars, NEW b \in Balances \cap HcmRows
             PROVE  \/ Unexplained(b)' = Unexplained(b)
                    \/ \E c \in Calls : /\ At(c, "sync", "tx")
                                        /\ calls'[c].reply = "OK"
  BY DEF ExplainedStep
<1>1. CASE \E m \in wire : HcmApplies(m) /\ UNCHANGED <<tables, calls>>
  BY <1>1, AppliedIsExplained
<1>2. ASSUME NEW c \in Calls, SyncCommits(c)
      PROVE  At(c, "sync", "tx") /\ calls'[c].reply = "OK"
  BY <1>2, ReplyIs DEF SyncCommits, DriftInv, ServiceInv
<1>3. CASE \E c \in Calls : \/ ApproveCommits(c) \/ RejectCommits(c)
                            \/ CancelCommits(c)
  BY <1>3, ApproveIsExplained, RejectIsExplained, CancelIsExplained
<1>4. CASE UNCHANGED <<hcm, served>>
  BY <1>2, <1>3, <1>4, OthersAreExplained
<1> QED
  BY <1>1, <1>4, HcmChanges DEF DriftInv

LEMMA WorkInit == Init => WorkInv
<1> SUFFICES ASSUME Init PROVE WorkInv
  OBVIOUS
<1>1. \A c \in Calls : /\ calls[c] = NewCall /\ client[c].order = <<>>
                       /\ served[c] = 0
  BY DEF Init, HcmInit, Idle
<1>2. Asked = {}
  BY <1>1 DEF Asked, NewCall
<1>3. \A c \in Calls : WorkOK(c)
  BY <1>1 DEF WorkOK, NewCall
<1> QED
  BY <1>2, <1>3, FS_EmptySet DEF WorkInv

LEMMA DriftInvStep == DriftInv /\ [Next]_vars => WorkInv'
<1> SUFFICES ASSUME DriftInv, [Next]_vars PROVE WorkInv'
  OBVIOUS
<1>1. IsFiniteSet(Asked)'
  BY AskedGrows DEF DriftInv, ServiceInv, WorkInv
<1>2. \A c \in Calls : WorkOK(c)'
  BY WorkStep DEF DriftInv
<1> QED
  BY <1>1, <1>2 DEF WorkInv

(* What the HCM has and what the service believes it has drift apart by a  *)
(* sync, or by the days of calls that ended differently on the two sides,  *)
(* however many attempts were applied, answers lost and handlers killed.   *)
THEOREM DriftExplained == Spec => DriftIsExplained
<1>1. ServiceInv /\ LogInv /\ WonOnce /\ [Next]_vars => WonOnce'
  BY WonStep
<1>2. ServiceInv /\ LogInv /\ OrdersOK /\ [Next]_vars => OrdersOK'
  BY OrdersStep
<1>3. DriftInv <=> ServiceInv /\ LogInv /\ WonOnce /\ OrdersOK /\ WorkInv
  BY DEF DriftInv
<1>4. DriftInv /\ [Next]_vars => [ExplainedStep]_vars
  BY DriftStep
<1> QED
  BY <1>1, <1>2, <1>3, <1>4, WonInit, OrdersInit, WorkInit, DriftInvStep,
     ServiceInvariant, LogInvariant, PTL DEF Spec, DriftIsExplained

-----------------------------------------------------------------------------
(* The API. *)

(* The rights of the user a handler works for are tested before it starts; *)
(* that they are still what they were when it commits is the invariant.    *)
MayCancel(u, r) ==
  r \in DOMAIN requests /\ (OwnerOf(r) = u.sub \/ u.role # "EMPLOYEE")

MayRun(u, call) ==
  /\ call.op = "create" => Owner[call.cmd.balance] = u.sub
  /\ call.op \in {"approve", "reject"} => MayDecide(u)
  /\ call.op = "cancel" => MayCancel(u, call.request)
  /\ call.op = "sync" => u.role = "ADMIN"

IsExchange(e) ==
  e \in [user : Users \cup {NoUser}, route : {e.route}, stage : Stages,
         status : {e.status}, about : {e.about}, told : {e.told},
         shown : {e.shown}, events : {e.events}]

ExchangeOK(c) ==
  /\ IsExchange(http[c])
  /\ http[c].stage = "owner" => MayCancel(http[c].user, http[c].about)
  /\ Running(c) => /\ http[c].stage = "handler"
                   /\ MayRun(http[c].user, calls[c])

ApiInv == DOMAIN http = Calls /\ \A c \in Calls : ExchangeOK(c)

IInv == ServiceInv /\ ApiInv

-----------------------------------------------------------------------------
(* A handler that is running is doing what it was started for. *)
SameWork(d) ==
  /\ Running(d)
  /\ calls'[d].op = calls[d].op /\ calls'[d].cmd = calls[d].cmd
  /\ calls'[d].request = calls[d].request

LEMMA WorkKept ==
  ASSUME CallsOK, NEW d \in Calls, Running(d)',
         \/ \E c \in Calls : HandlerStep(c)
         \/ HcmActs \/ Crash \/ UNCHANGED vars
  PROVE  SameWork(d)
<1>1. ASSUME NEW c \in Calls, NEW code, Reply(c, code) PROVE SameWork(d)
  <2>1. calls'[c].pc = "done" /\ (d # c => calls'[d] = calls[d])
    BY <1>1 DEF Reply, CallsOK, CallOK, IsCall
  <2> QED
    BY <2>1 DEF SameWork, Running
<1>2. ASSUME NEW c \in Calls, NEW op, NEW old, NEW pc, At(c, op, old),
             GoTo(c, pc), old \notin {"idle", "done"}
      PROVE  SameWork(d)
  BY <1>2 DEF GoTo, CallsOK, CallOK, IsCall, SameWork, Running, At
<1>3. ASSUME UNCHANGED calls PROVE SameWork(d)
  BY <1>3 DEF SameWork, Running
<1>4. ASSUME NEW c \in Calls, Proceeds(c) PROVE SameWork(d)
  <2>1. ASSUME NEW r \in Requests, CreateCommits(c, r) PROVE SameWork(d)
    <3>1. calls'[c].pc = "done" /\ (d # c => calls'[d] = calls[d])
      BY <2>1 DEF CreateCommits, CallsOK, CallOK, IsCall
    <3> QED
      BY <3>1 DEF SameWork, Running
  <2>2. CASE CreateChecksBalance(c)
    BY <2>2, <1>1, <1>2 DEF CreateChecksBalance
  <2>3. CASE ApproveCallsHcm(c)
    BY <2>3, <1>2 DEF ApproveCallsHcm
  <2>4. CASE ApproveHearsFromHcm(c)
    BY <2>4, <1>2 DEF ApproveHearsFromHcm
  <2>5. CASE CancelHearsFromHcm(c)
    BY <2>5, <1>2 DEF CancelHearsFromHcm
  <2> QED
    BY <1>4, <1>1, <2>1, <2>2, <2>3, <2>4, <2>5
       DEF Proceeds, CreateIsRefused, ApproveRefusesBalance,
           ApproveMarksSyncFailed, ApproveMarkFails, ApproveIsRefused,
           ApproveCommits, RejectIsRefused, RejectCommits, CancelIsRefused,
           CancelCommits, SyncCommits, TransactionAborts
<1>5. ASSUME NEW c \in Calls, HandlerStep(c) PROVE SameWork(d)
  BY <1>3, <1>4, <1>5 DEF HandlerStep
<1>6. ASSUME Crash PROVE FALSE
  <2>1. calls'[d].pc = "done" \/ (~ Running(d) /\ calls'[d] = calls[d])
    BY <1>6 DEF Crash, CallsOK, CallOK, IsCall
  <2> QED
    BY <2>1 DEF Running
<1> QED
  BY <1>3, <1>5, <1>6 DEF HcmActs, vars

LEMMA RightsKept ==
  ASSUME ServiceInv, [Next]_vars
  PROVE  \A u, r : MayCancel(u, r) => MayCancel(u, r)'
  BY RowsKept DEF MayCancel, OwnerOf

-----------------------------------------------------------------------------
(* What an exchange begins with, and what becomes of one that is closed.   *)
LEMMA ExchangeType ==
  ASSUME NEW c \in Calls, NEW u \in Users, NEW route, NEW stage \in Stages,
         NEW about
  PROVE  /\ IsExchange(Exchange(c, u, route, stage, about))
         /\ Exchange(c, u, route, stage, about).user = u
         /\ Exchange(c, u, route, stage, about).stage = stage
         /\ Exchange(c, u, route, stage, about).about = about
  BY DEF IsExchange, Exchange, NoExchange, Stages

LEMMA RefusedType ==
  ASSUME NEW status
  PROVE  /\ IsExchange(Refused(status))
         /\ Refused(status).stage = "closed"
  BY DEF IsExchange, Refused, NoExchange, Stages

(* One exchange moves. *)
HttpMoves(c) ==
  /\ DOMAIN http' = Calls
  /\ IsExchange(http[c])'
  /\ \A d \in Calls : d # c => http'[d] = http[d]

LEMMA NewExchange ==
  ASSUME ApiInv, NEW c \in Calls, NEW e, IsExchange(e),
         http' = [http EXCEPT ![c] = e]
  PROVE  HttpMoves(c) /\ http'[c] = e
  BY DEF ApiInv, HttpMoves, IsExchange

(* It moves without a handler, *)
LEMMA WithoutHandler ==
  ASSUME ApiInv, UNCHANGED vars, NEW c \in Calls, ~ Running(c),
         HttpMoves(c), http'[c].stage # "handler",
         http'[c].stage = "owner" => MayCancel(http'[c].user, http'[c].about)
  PROVE  ApiInv'
<1>1. ASSUME NEW d \in Calls PROVE ExchangeOK(d)'
  <2>1. CASE d = c
    <3>1. ~ Running(d)'
      BY <2>1 DEF vars, Running
    <3>2. (http[d].stage = "owner" => MayCancel(http[d].user, http[d].about))'
      BY <2>1 DEF vars, tables, MayCancel, OwnerOf
    <3> QED
      BY <2>1, <3>1, <3>2 DEF ExchangeOK, HttpMoves
  <2>2. CASE d # c
    <3>1. http'[d] = http[d]
      BY <2>2 DEF HttpMoves
    <3> QED
      BY <3>1 DEF ApiInv, ExchangeOK, IsExchange, MayCancel, MayRun, OwnerOf,
           Running, vars, tables
  <2> QED
    BY <2>1, <2>2
<1> QED
  BY <1>1 DEF ApiInv, HttpMoves

(* or starts one for a user who has the right to it. *)
LEMMA Started ==
  ASSUME ServiceInv, ApiInv, [Next]_vars, NEW c \in Calls,
         HttpMoves(c), http'[c].stage = "handler",
         \A d \in Calls : d # c => calls'[d] = calls[d],
         Running(c)' => MayRun(http[c].user, calls[c])'
  PROVE  ApiInv'
<1>1. ASSUME NEW d \in Calls PROVE ExchangeOK(d)'
  <2>1. CASE d = c
    BY <2>1 DEF ExchangeOK, HttpMoves
  <2>2. CASE d # c
    <3>1. http'[d] = http[d] /\ calls'[d] = calls[d]
      BY <2>2 DEF HttpMoves
    <3> QED
      BY <3>1, RightsKept DEF ApiInv, ExchangeOK, IsExchange, MayRun, Running
  <2> QED
    BY <2>1, <2>2
<1> QED
  BY <1>1 DEF ApiInv, HttpMoves

LEMMA TouchIsCancel ==
  ASSUME NEW u \in Users, NEW r, MayTouch(u, r) = 0
  PROVE  MayCancel(u, r)
  BY DEF MayTouch, MayCancel

LEMMA DoorIs ==
  ASSUME NEW u \in Users
  PROVE  /\ DoorStatus(u, "approve", TRUE) = 0 => MayDecide(u)
         /\ DoorStatus(u, "reject", TRUE) = 0 => MayDecide(u)
         /\ DoorStatus(u, "sync", TRUE) = 0 => u.role = "ADMIN"
  BY DEF DoorStatus, AdminRoutes

LEMMA NotRunning ==
  ASSUME ApiInv, NEW c \in Calls,
         New(c) \/ http[c].stage \in {"owner", "events"}
  PROVE  ~ Running(c)
<1>1. ExchangeOK(c)
  BY DEF ApiInv
<1>2. Running(c) => http[c].stage = "handler"
  BY <1>1 DEF ExchangeOK
<1>3. New(c) => ~ Running(c)
  BY DEF New, Running
<1> QED
  BY <1>2, <1>3

LEMMA ClosedType ==
  ASSUME ApiInv, NEW c \in Calls, NEW u \in Users, NEW route, NEW about,
         NEW status, NEW shown, Closes(c, u, route, about, status, shown)
  PROVE  HttpMoves(c) /\ http'[c].stage = "closed"
<1> DEFINE e0 == Exchange(c, u, route, "closed", about)
           e == [e0 EXCEPT !.status = status, !.shown = shown]
<1>1. IsExchange(e0) /\ e0.stage = "closed"
  BY ExchangeType DEF Stages
<1>2. http' = [http EXCEPT ![c] = e]
  BY DEF Closes
<1> HIDE DEF e0
<1>3. IsExchange(e) /\ e.stage = "closed"
  BY <1>1 DEF IsExchange
<1> HIDE DEF e
<1> QED
  BY <1>2, <1>3, NewExchange

-----------------------------------------------------------------------------
(* The steps that leave the handlers alone. *)
LEMMA Reads ==
  ASSUME ApiInv, NEW c \in Calls,
         \/ Health(c) \/ RefusedAtTheDoor(c) \/ ReadFails(c)
         \/ ReportReadsEvents(c) \/ Answer(c)
         \/ \E u \in Users :
              \/ CreateWithoutBalance(c, u) \/ UnknownBalance(c, u)
              \/ GetList(c, u) \/ GetBalances(c, u) \/ GetAuditLog(c, u)
              \/ GetAuditLogPart(c, u) \/ ReportReadsBalances(c, u)
              \/ \E r \in Requests : \/ PatchCancel(c, u, r)
                                     \/ GetRequest(c, u, r)
                                     \/ AuditOf(c, u, r)
              \/ \E b \in Balances : GetBalance(c, u, b)
  PROVE  ApiInv' /\ UNCHANGED vars
<1>1. ASSUME NEW status, http' = [http EXCEPT ![c] = Refused(status)],
             New(c) \/ http[c].stage \in {"owner", "events"},
             UNCHANGED vars
      PROVE  ApiInv'
  <2>1. HttpMoves(c) /\ http'[c] = Refused(status)
    BY <1>1, RefusedType, NewExchange
  <2>2. http'[c].stage = "closed"
    BY <2>1, RefusedType
  <2>3. ~ Running(c)
    BY <1>1, NotRunning
  <2> QED
    BY <1>1, <2>1, <2>2, <2>3, WithoutHandler
<1>2. ASSUME NEW u \in Users, NEW route, NEW about, NEW status, NEW shown,
             Closes(c, u, route, about, status, shown), New(c),
             UNCHANGED vars
      PROVE  ApiInv'
  <2>1. HttpMoves(c) /\ http'[c].stage = "closed"
    BY <1>2, ClosedType
  <2>2. ~ Running(c)
    BY <1>2, NotRunning
  <2> QED
    BY <1>2, <2>1, <2>2, WithoutHandler
<1>3. CASE Health(c) \/ RefusedAtTheDoor(c) \/ ReadFails(c)
  BY <1>1, <1>3 DEF Health, RefusedAtTheDoor, ReadFails
<1>4. CASE ReportReadsEvents(c)
  <2>1. PICK page : http' = [http EXCEPT ![c].stage = "closed",
                                         ![c].status = 200,
                                         ![c].events = page]
    BY <1>4 DEF ReportReadsEvents
  <2>a. IsExchange(http[c]) /\ DOMAIN http = Calls
    BY DEF ApiInv, ExchangeOK
  <2>2. HttpMoves(c) /\ http'[c].stage = "closed"
    <3>1. PICK e : e = [http[c] EXCEPT !.stage = "closed", !.status = 200,
                                       !.events = page]
      OBVIOUS
    <3>2. IsExchange(e) /\ e.stage = "closed"
      BY <2>a, <3>1 DEF IsExchange, Stages
    <3>3. http' = [http EXCEPT ![c] = e]
      BY <2>1, <2>a, <3>1
    <3> QED
      BY <3>2, <3>3, NewExchange
  <2>3. ~ Running(c) /\ UNCHANGED vars
    BY <1>4, NotRunning DEF ReportReadsEvents
  <2> QED
    BY <2>2, <2>3, WithoutHandler
<1>5. CASE Answer(c)
  <2>1. PICK status : http' = [http EXCEPT ![c].stage = "closed",
                                           ![c].status = status]
    BY <1>5 DEF Answer
  <2>a. IsExchange(http[c]) /\ DOMAIN http = Calls
    BY DEF ApiInv, ExchangeOK
  <2>2. HttpMoves(c) /\ http'[c].stage = "closed"
    BY <2>1, <2>a DEF HttpMoves, IsExchange, Stages
  <2>3. ~ Running(c) /\ UNCHANGED vars
    BY <1>5 DEF Answer, Running
  <2> QED
    BY <2>2, <2>3, WithoutHandler
<1>6. ASSUME NEW u \in Users, NEW r \in Requests, PatchCancel(c, u, r)
      PROVE  ApiInv'
  <2>1. New(c) /\ UNCHANGED vars
    BY <1>6 DEF PatchCancel, Admitted
  <2>2. CASE MayTouch(u, r) = 0
    <3> DEFINE e == Exchange(c, u, "cancel", "owner", r)
    <3>1. http' = [http EXCEPT ![c] = e]
      BY <1>6, <2>2 DEF PatchCancel, Opens
    <3>2. IsExchange(e) /\ e.stage = "owner" /\ e.user = u /\ e.about = r
      BY ExchangeType DEF Stages
    <3>3. MayCancel(u, r)
      BY <2>2, TouchIsCancel
    <3> HIDE DEF e
    <3>4. HttpMoves(c) /\ http'[c] = e
      BY <3>1, <3>2, NewExchange
    <3>5. ~ Running(c)
      BY <2>1, NotRunning
    <3>6. /\ http'[c].stage # "handler"
          /\ MayCancel(http'[c].user, http'[c].about)
      BY <3>2, <3>3, <3>4
    <3> QED
      BY <2>1, <3>4, <3>5, <3>6, WithoutHandler
  <2>3. CASE MayTouch(u, r) # 0
    BY <1>2, <1>6, <2>1, <2>3 DEF PatchCancel
  <2> QED
    BY <2>2, <2>3
<1>7. ASSUME NEW u \in Users, NEW r \in Requests,
             GetRequest(c, u, r) \/ AuditOf(c, u, r)
      PROVE  ApiInv'
  BY <1>2, <1>7 DEF GetRequest, AuditOf, Shows, Admitted
<1>8. ASSUME NEW u \in Users, NEW b \in Balances, GetBalance(c, u, b)
      PROVE  ApiInv'
  BY <1>1, <1>2, <1>8 DEF GetBalance, Shows, Admitted
<1>9. ASSUME NEW u \in Users,
             \/ CreateWithoutBalance(c, u) \/ UnknownBalance(c, u)
             \/ GetList(c, u) \/ GetBalances(c, u) \/ GetAuditLog(c, u)
             \/ GetAuditLogPart(c, u)
      PROVE  ApiInv'
  <2>1. CASE \/ CreateWithoutBalance(c, u) \/ UnknownBalance(c, u)
             \/ GetAuditLogPart(c, u)
    BY <1>1, <2>1 DEF CreateWithoutBalance, UnknownBalance, GetAuditLogPart,
       Admitted
  <2>2. CASE GetList(c, u) \/ GetBalances(c, u)
    BY <1>2, <2>2 DEF GetList, GetBalances, Shows, Admitted
  <2>3. CASE GetAuditLog(c, u)
    BY <1>2, <2>3 DEF GetAuditLog, Shows, Admitted
  <2> QED
    BY <1>9, <2>1, <2>2, <2>3
<1>10. ASSUME NEW u \in Users, ReportReadsBalances(c, u) PROVE ApiInv'
  <2> DEFINE e0 == Exchange(c, u, "report", "events", NoRequest)
             e == [e0 EXCEPT !.shown = FailedRows]
  <2>1. IsExchange(e0) /\ e0.stage = "events"
    BY ExchangeType DEF Stages
  <2>2. http' = [http EXCEPT ![c] = e] /\ New(c) /\ UNCHANGED vars
    BY <1>10 DEF ReportReadsBalances, Admitted
  <2> HIDE DEF e0
  <2>3. IsExchange(e) /\ e.stage = "events"
    BY <2>1 DEF IsExchange
  <2> HIDE DEF e
  <2>4. HttpMoves(c) /\ http'[c] = e
    BY <2>2, <2>3, NewExchange
  <2>5. ~ Running(c)
    BY <2>2, NotRunning
  <2>6. http'[c].stage = "events"
    BY <2>3, <2>4
  <2> QED
    BY <2>2, <2>4, <2>5, <2>6, WithoutHandler
<1>11. UNCHANGED vars
  BY DEF Health, RefusedAtTheDoor, ReadFails, ReportReadsEvents, Answer,
       CreateWithoutBalance, UnknownBalance, GetList, GetBalances,
       GetAuditLog, GetAuditLogPart, ReportReadsBalances, PatchCancel,
       GetRequest, AuditOf, GetBalance
<1> QED
  BY <1>3, <1>4, <1>5, <1>6, <1>7, <1>8, <1>9, <1>10, <1>11

-----------------------------------------------------------------------------
(* The steps that start a handler. *)
LEMMA OpensType ==
  ASSUME ApiInv, NEW c \in Calls, NEW u \in Users, NEW route, NEW about,
         Opens(c, u, route, "handler", about)
  PROVE  /\ HttpMoves(c)
         /\ http'[c].stage = "handler" /\ http'[c].user = u
<1> DEFINE e == Exchange(c, u, route, "handler", about)
<1>1. IsExchange(e) /\ e.stage = "handler" /\ e.user = u
  BY ExchangeType DEF Stages
<1>2. http' = [http EXCEPT ![c] = e]
  BY DEF Opens
<1> HIDE DEF e
<1> QED
  BY <1>1, <1>2, NewExchange

LEMMA Starts ==
  ASSUME ServiceInv, ApiInv, NEW c \in Calls,
         \/ CancelGoesOn(c)
         \/ \E u \in Users : \/ PostCreate(c, u) \/ PostSync(c, u)
                             \/ \E r \in Requests : \/ PatchApprove(c, u, r)
                                                    \/ PatchReject(c, u, r)
  PROVE  ApiInv' /\ Next
<1>1. ASSUME NEW u \in Users, NEW route, NEW about, Arrives(c),
             Opens(c, u, route, "handler", about),
             Running(c)' => MayRun(u, calls[c])'
      PROVE  ApiInv' /\ Next
  <2>1. /\ HttpMoves(c) /\ http'[c].stage = "handler" /\ http'[c].user = u
    BY <1>1, OpensType
  <2>2. Next
    BY <1>1 DEF Next
  <2>3. Running(c)' => MayRun(http[c].user, calls[c])'
    BY <1>1, <2>1
  <2>4. \A d \in Calls : d # c => calls'[d] = calls[d]
    BY <1>1, BeginsWith DEF Arrives, CreateFindsKey, CreateStarts,
       ApproveStarts, RejectStarts, CancelStarts, CancelCallsHcm, SyncStarts,
       CallsOK, ServiceInv
  <2>5. [Next]_vars
    BY <2>2
  <2>6. HttpMoves(c) /\ http'[c].stage = "handler"
    BY <2>1
  <2>7. ApiInv'
    BY ONLY ServiceInv, ApiInv, c \in Calls, <2>3, <2>4, <2>5, <2>6, Started
  <2> QED
    BY <2>2, <2>7
<1> USE DEF ServiceInv
<1>2. ASSUME NEW u \in Users, PostCreate(c, u) PROVE ApiInv' /\ Next
  <2>1. PICK cmd \in Commands :
          /\ Owner[cmd.balance] = u.sub
          /\ CreateFindsKey(c, cmd) \/ CreateStarts(c, cmd)
    BY <1>2 DEF PostCreate
  <2>2. Arrives(c)
    BY <2>1 DEF Arrives
  <2>3. /\ calls'[c].op = "create" /\ calls'[c].cmd = cmd
    BY <2>1, CreateBegins
  <2>4. MayRun(u, calls[c])'
    BY <2>1, <2>3 DEF MayRun
  <2> QED
    BY <1>1, <1>2, <2>2, <2>4 DEF PostCreate
<1>3. ASSUME NEW u \in Users, PostSync(c, u) PROVE ApiInv' /\ Next
  <2>1. Arrives(c) /\ u.role = "ADMIN"
    BY <1>3, DoorIs DEF PostSync, Admitted, Arrives
  <2>2. calls'[c].op = "sync"
    BY <1>3 DEF PostSync, SyncStarts, NewCall, CallsOK
  <2>3. MayRun(u, calls[c])'
    BY <2>1, <2>2 DEF MayRun
  <2> QED
    BY <1>1, <1>3, <2>1, <2>3 DEF PostSync
<1>4. ASSUME NEW u \in Users, NEW r \in Requests,
             PatchApprove(c, u, r) \/ PatchReject(c, u, r)
      PROVE  ApiInv' /\ Next
  <2>1. Arrives(c) /\ MayDecide(u)
    BY <1>4, DoorIs DEF PatchApprove, PatchReject, Admitted, Arrives
  <2>2. calls'[c].op \in {"approve", "reject"}
    BY <1>4, BeginsWith DEF PatchApprove, PatchReject, ApproveStarts,
         RejectStarts
  <2>3. MayRun(u, calls[c])'
    BY <2>1, <2>2 DEF MayRun, MayDecide
  <2> QED
    BY <1>1, <1>4, <2>1, <2>3 DEF PatchApprove, PatchReject
<1>5. CASE CancelGoesOn(c)
  <2>1. PICK r : r = http[c].about
    OBVIOUS
  <2>2. PICK u : u = http[c].user
    OBVIOUS
  <2>3. http[c].stage = "owner" /\ (CancelStarts(c, r) \/ CancelCallsHcm(c, r))
    BY <1>5, <2>1 DEF CancelGoesOn
  <2>4. MayCancel(u, r) /\ r \in DOMAIN requests /\ r \in Requests
    BY <2>1, <2>2, <2>3 DEF ApiInv, ExchangeOK, MayCancel, TablesOK
  <2>5. Arrives(c)
    BY <2>3, <2>4 DEF Arrives
  <2>6. Next
    BY <2>5 DEF Next
  <2>7. /\ calls'[c].op = "cancel" /\ calls'[c].request = r
        /\ \A d \in Calls : d # c => calls'[d] = calls[d]
    BY <2>3, BeginsWith DEF CancelStarts, CancelCallsHcm
  <2>8. MayCancel(u, r)'
    BY <2>4, <2>6, RightsKept
  <2>a. IsExchange(http[c]) /\ DOMAIN http = Calls
    BY DEF ApiInv, ExchangeOK
  <2>9. /\ HttpMoves(c) /\ http'[c].stage = "handler" /\ http'[c].user = u
    BY <1>5, <2>2, <2>a DEF CancelGoesOn, HttpMoves, IsExchange, Stages
  <2>10. MayRun(http[c].user, calls[c])'
    BY <2>7, <2>8, <2>9 DEF MayRun
  <2> QED
    BY <2>6, <2>7, <2>9, <2>10, Started
<1> QED
  BY <1>2, <1>3, <1>4, <1>5

(* The steps of a handler, of the HCM and of the operating system. *)
LEMMA GoesOn ==
  ASSUME ServiceInv, ApiInv, [Next]_vars,
         \/ UNCHANGED http
         \/ http' = [c \in Calls |-> IF Open(c) THEN Refused(0) ELSE http[c]],
         \A d \in Calls : Running(d)' =>
           SameWork(d) /\ http'[d] = http[d]
  PROVE  ApiInv'
<1>1. ASSUME NEW d \in Calls PROVE ExchangeOK(d)'
  <2>1. \/ http'[d] = http[d]
        \/ IsExchange(http'[d]) /\ http'[d].stage = "closed"
    BY RefusedType
  <2>2. IsExchange(http[d])'
    BY <2>1 DEF ApiInv, ExchangeOK, IsExchange
  <2>3. (http[d].stage = "owner" => MayCancel(http[d].user, http[d].about))'
    BY <2>1, RightsKept DEF ApiInv, ExchangeOK
  <2>4. ASSUME Running(d)'
        PROVE  /\ http'[d].stage = "handler"
               /\ MayRun(http[d].user, calls[d])'
    <3>1. /\ Running(d) /\ http'[d] = http[d]
          /\ calls'[d].op = calls[d].op /\ calls'[d].cmd = calls[d].cmd
          /\ calls'[d].request = calls[d].request
      BY <2>4 DEF SameWork
    <3>2. http[d].stage = "handler" /\ MayRun(http[d].user, calls[d])
      BY <3>1 DEF ApiInv, ExchangeOK
    <3> QED
      BY <3>1, <3>2, RightsKept DEF MayRun, MayDecide
  <2> QED
    BY <2>2, <2>3, <2>4 DEF ExchangeOK
<1> QED
  BY <1>1 DEF ApiInv

(* A step of the API is one of the service, or leaves the service alone.   *)
LEMMA ApiStep == IInv /\ [ApiNext]_apiVars => IInv' /\ [Next]_vars
<1> SUFFICES ASSUME IInv, [ApiNext]_apiVars PROVE ApiInv' /\ [Next]_vars
  BY ServiceInvStep DEF IInv
<1> USE DEF IInv, ServiceInv
<1>1. ASSUME [Next]_vars, UNCHANGED http,
             \/ \E c \in Calls : HandlerStep(c)
             \/ HcmActs \/ UNCHANGED vars
      PROVE  ApiInv'
  <2>1. \A d \in Calls : Running(d)' => SameWork(d) /\ http'[d] = http[d]
    BY <1>1, WorkKept
  <2> QED
    BY <1>1, <2>1, GoesOn
<1>2. ASSUME NEW c \in Calls, HandlerStep(c) PROVE Next
  BY <1>2 DEF HandlerStep, Next, HcmActs, HcmStep
<1>3. CASE ApiCrash
  <2>1. Crash \/ (UNCHANGED vars /\ \A d \in Calls : ~ Running(d))
    BY <1>3 DEF ApiCrash
  <2>2. [Next]_vars
    BY <2>1 DEF Next
  <2>3. \A d \in Calls : ~ Running(d)'
    BY <2>1 DEF Crash, CallsOK, CallOK, IsCall, Running, vars
  <2> QED
    BY <1>3, <2>2, <2>3, GoesOn DEF ApiCrash
<1>4. ASSUME NEW c \in Calls,
             \/ Health(c) \/ RefusedAtTheDoor(c) \/ ReadFails(c)
             \/ (\E u \in Users : Visits(c, u)) \/ Continues(c)
      PROVE  ApiInv' /\ [Next]_vars
  <2>1. CASE HandlerStep(c) /\ UNCHANGED http
    BY <1>1, <1>2, <2>1
  <2> QED
    BY <1>4, <2>1, Reads, Starts DEF Visits, Continues
<1>5. CASE HcmActs /\ UNCHANGED http
  BY <1>1, <1>5 DEF Next
<1>6. CASE UNCHANGED apiVars
  BY <1>1, <1>6 DEF apiVars
<1> QED
  BY <1>3, <1>4, <1>5, <1>6 DEF ApiNext

LEMMA ApiInitInv == ApiInit => IInv
<1> SUFFICES ASSUME ApiInit PROVE ApiInv
  BY ServiceInitInv DEF ApiInit, IInv
<1>1. ASSUME NEW c \in Calls PROVE ExchangeOK(c)
  <2>1. http[c] = NoExchange /\ calls[c] = NewCall
    BY DEF ApiInit, Init
  <2>2. IsExchange(NoExchange) /\ NoExchange.stage = "off"
    BY DEF IsExchange, NoExchange, Stages
  <2>3. ~ Running(c)
    BY <2>1 DEF Running, NewCall
  <2> QED
    BY <2>1, <2>2, <2>3 DEF ExchangeOK
<1> QED
  BY <1>1 DEF ApiInv, ApiInit

LEMMA ApiInvariant == ApiSpec => []IInv
<1>1. IInv /\ [ApiNext]_apiVars => IInv'
  BY ApiStep
<1> QED
  BY <1>1, ApiInitInv, PTL DEF ApiSpec

-----------------------------------------------------------------------------
(* Behind the API the handlers are called in no way that TimeOffService    *)
(* leaves out: every behaviour of the API is one of TimeOffService, and    *)
(* what is proved of that holds of this.                                   *)
THEOREM ApiIsService == ApiSpec => Spec
<1>1. ApiInit => Init
  BY DEF ApiInit
<1>2. IInv /\ [ApiNext]_apiVars => [Next]_vars
  BY ApiStep
<1> QED
  BY <1>1, <1>2, ApiInvariant, PTL DEF ApiSpec, Spec

(* Whoever is told that his call has changed something had the right to    *)
(* it: the entry a step adds to the audit log is that of a running handler *)
(* that answers OK to a user who may make the change the entry tells of.   *)
THEOREM RightsHold == ApiSpec => ChangesAreAuthorised
<1>1. ASSUME IInv, [ApiNext]_apiVars PROVE AuthorisedStep
  <2>1. [Next]_vars
    BY <1>1, ApiStep
  <2>r. \A r \in DOMAIN requests :
          r \in DOMAIN requests' /\ requests'[r].cmd = requests[r].cmd
    BY <1>1, <2>1, RowsKept DEF IInv
  <2> USE DEF IInv, ServiceInv
  <2>2. CASE UNCHANGED audit
    BY <2>2 DEF AuthorisedStep
  <2>3. ASSUME NEW c \in Calls, Writes(c), UNCHANGED http, ~ UNCHANGED audit
        PROVE  AuthorisedStep
    <3>1. Running(c)
      BY <2>3 DEF Writes, CreateCommits, ApproveMarksSyncFailed,
         ApproveCommits, RejectCommits, CancelCommits, SyncCommits, At,
         Running
    <3>2. http[c].stage = "handler" /\ MayRun(http[c].user, calls[c])
      BY <1>1, <3>1 DEF ApiInv, ExchangeOK
    <3>3. PICK u : u = http[c].user
      OBVIOUS
    <3>4. ASSUME NEW row, audit' = Append(audit, row), MayChange(u, row)',
                 calls'[c].reply = "OK"
          PROVE  AuthorisedStep
      <4>1. audit \in Seq(AuditRows)
        BY <1>1 DEF TablesOK
      <4>2. \A i \in DOMAIN audit' \ DOMAIN audit : audit'[i] = row
        BY <3>4, <4>1
      <4>3. \A i \in DOMAIN audit' \ DOMAIN audit : MayChange(u, audit[i])'
        BY <3>4, <4>2 DEF MayChange, OwnerOf, MayDecide
      <4>4. \A i \in DOMAIN audit' \ DOMAIN audit :
              MayChange(http[c].user, audit[i])'
        BY <2>3, <3>3, <4>3
      <4> QED
        BY <3>1, <3>2, <3>4, <4>4 DEF AuthorisedStep
    <3>5. ASSUME NEW r, r = calls[c].request, calls[c].op \in OnRequest
          PROVE  r \in DOMAIN requests /\ OwnerOf(r)' = OwnerOf(r)
      <4>1. r \in DOMAIN requests
        BY <1>1, <3>1, <3>5 DEF CallsOK, CallOK
      <4> QED
        BY <2>r, <4>1 DEF OwnerOf
    <3>7. ASSUME NEW r \in Requests, CreateCommits(c, r)
          PROVE  AuthorisedStep
      <4>1. requests'[r].cmd = calls[c].cmd /\ calls'[c].reply = "OK"
        BY <1>1, <3>7 DEF CreateCommits, CallsOK, CallOK, IsCall
      <4>2. Owner[calls[c].cmd.balance] = u.sub
        BY <3>2, <3>3, <3>7 DEF MayRun, CreateCommits, At
      <4>3. MayChange(u, AuditRow(r, "NONE", "PENDING"))'
        BY <4>1, <4>2 DEF MayChange, OwnerOf, AuditRow
      <4> QED
        BY <3>4, <3>7, <4>1, <4>3 DEF CreateCommits, Publish
    <3>8. ASSUME NEW r, NEW old, NEW new, r = calls[c].request,
                 Reply(c, "OK"), audit' = Append(audit, AuditRow(r, old, new)),
                 \/ calls[c].op \in {"approve", "reject"}
                      /\ new \in {"APPROVED", "REJECTED"}
                 \/ calls[c].op = "cancel" /\ new = "CANCELLED"
          PROVE  AuthorisedStep
      <4>1. calls'[c].reply = "OK"
        BY <1>1, <3>8, ReplyIs
      <4>2. CASE calls[c].op \in {"approve", "reject"}
        <5>1. MayDecide(u)
          BY <3>2, <3>3, <4>2 DEF MayRun
        <5>2. CASE new = "APPROVED"
          <6>1. MayChange(u, AuditRow(r, old, new))'
            BY <5>1, <5>2 DEF MayChange, AuditRow, MayDecide
          <6> QED
            BY <3>4, <3>8, <4>1, <6>1
        <5>3. CASE new = "REJECTED"
          <6>1. MayChange(u, AuditRow(r, old, new))'
            BY <5>1, <5>3 DEF MayChange, AuditRow, MayDecide
          <6> QED
            BY <3>4, <3>8, <4>1, <6>1
        <5> QED
          BY <3>8, <4>2, <5>2, <5>3
      <4>3. CASE calls[c].op = "cancel"
        <5>1. OwnerOf(r)' = u.sub \/ u.role # "EMPLOYEE"
          BY <3>2, <3>3, <3>5, <3>8, <4>3 DEF MayRun, MayCancel, OnRequest
        <5>2. MayChange(u, AuditRow(r, old, new))'
          BY <3>8, <4>3, <5>1 DEF MayChange, AuditRow, MayDecide, OwnerOf
        <5> QED
          BY <3>4, <3>8, <4>1, <5>2
      <4> QED
        BY <3>8, <4>2, <4>3
    <3>9. CASE SyncCommits(c)
      <4>1. u.role = "ADMIN"
        BY <3>2, <3>3, <3>9 DEF MayRun, SyncCommits, At
      <4>2. MayChange(u, AuditRow(System, "NONE", "SYNC"))'
        BY <4>1 DEF MayChange, AuditRow, OwnerOf, MayDecide
      <4>3. calls'[c].reply = "OK"
        BY <1>1, <3>9, ReplyIs DEF SyncCommits
      <4> QED
        BY <3>4, <3>9, <4>2, <4>3 DEF SyncCommits
    <3>10. CASE ApproveCommits(c) \/ RejectCommits(c)
      BY <3>8, <3>10 DEF ApproveCommits, RejectCommits, Publish, At
    <3>11. CASE CancelCommits(c)
      <4>1. PICK r : r = calls[c].request
        OBVIOUS
      <4>2. PICK old : old = requests[r].status
        OBVIOUS
      <4>3. /\ calls[c].op = "cancel" /\ Reply(c, "OK")
            /\ audit' = Append(audit, AuditRow(r, old, "CANCELLED"))
        BY <3>11, <4>1, <4>2 DEF CancelCommits, Publish, At
      <4> QED
        BY <3>8, <4>1, <4>3
    <3> QED
      BY <2>3, <3>7, <3>9, <3>10, <3>11 DEF Writes, ApproveMarksSyncFailed
  <2>4. UNCHANGED http \/ UNCHANGED audit
    <3>1. ASSUME NEW c \in Calls,
                 \/ CancelGoesOn(c)
                 \/ \E u \in Users :
                      \/ PostCreate(c, u) \/ PostSync(c, u)
                      \/ \E r \in Requests : PatchApprove(c, u, r)
                                             \/ PatchReject(c, u, r)
          PROVE  UNCHANGED audit
      BY <3>1 DEF CancelGoesOn, PostCreate, PostSync, PatchApprove,
         PatchReject, CreateFindsKey, CreateStarts, ApproveStarts,
         RejectStarts, CancelStarts, CancelCallsHcm, SyncStarts, tables
    <3>2. ASSUME NEW c \in Calls,
                 \/ Health(c) \/ RefusedAtTheDoor(c) \/ ReadFails(c)
                 \/ (\E u \in Users : Visits(c, u)) \/ Continues(c)
          PROVE  UNCHANGED http \/ UNCHANGED audit
      BY <1>1, <3>1, <3>2, Reads DEF Visits, Continues, vars, tables
    <3>3. CASE ApiCrash
      BY <3>3 DEF ApiCrash, Crash, vars, tables
    <3> QED
      BY <1>1, <3>2, <3>3 DEF ApiNext, apiVars
  <2> QED
    BY <2>1, <2>2, <2>3, <2>4, StepCases DEF tables
<1> QED
  BY <1>1, ApiInvariant, PTL DEF ApiSpec, ChangesAreAuthorised

-----------------------------------------------------------------------------
(* The log and the trail only grow, and every event of a request has its   *)
(* entry in the trail.                                                     *)
LEMMA Appends ==
  ASSUME NEW s, NEW S, s \in Seq(S), NEW x, NEW t, t = Append(s, x)
  PROVE  /\ DOMAIN s \subseteq DOMAIN t
         /\ \A i \in DOMAIN s : t[i] = s[i]
         /\ Len(s) + 1 \in DOMAIN t /\ t[Len(s) + 1] = x
OBVIOUS

(* The events and the entry of a step that reports something. *)
LEMMA Publishes ==
  ASSUME ServiceInv, [Next]_vars
  PROVE  \/ UNCHANGED <<outbox, audit>>
         \/ \E type \in RequestEvents, r \in Requests : \E old :
              Publish(type, r, old, StatusTold(type))
         \/ \E c \in Calls : SyncCommits(c)
<1> USE DEF ServiceInv
<1>1. CASE UNCHANGED tables
  BY <1>1 DEF tables
<1>2. ASSUME NEW c \in Calls, NEW r \in Requests, CreateCommits(c, r)
      PROVE  Publish("TIME_OFF_REQUESTED", r, "NONE",
                     StatusTold("TIME_OFF_REQUESTED"))
  BY <1>2 DEF CreateCommits, StatusTold
<1>3. ASSUME NEW c \in Calls, ApproveMarksSyncFailed(c)
      PROVE  UNCHANGED <<outbox, audit>>
  BY <1>3 DEF ApproveMarksSyncFailed
<1>4. ASSUME NEW c \in Calls,
             ApproveCommits(c) \/ RejectCommits(c) \/ CancelCommits(c)
      PROVE  \E type \in RequestEvents, r \in Requests : \E old :
               Publish(type, r, old, StatusTold(type))
  <2>1. PICK r : r = calls[c].request
    OBVIOUS
  <2>2. r \in Requests
    BY <1>4, <2>1, ApproveDecides, RejectDecides, CancelDecides
       DEF Decides, TablesOK
  <2>3. /\ StatusTold("TIME_OFF_APPROVED") = "APPROVED"
        /\ StatusTold("TIME_OFF_REJECTED") = "REJECTED"
        /\ StatusTold("TIME_OFF_CANCELLED") = "CANCELLED"
    BY DEF StatusTold
  <2>4. \E type \in RequestEvents : \E old :
         Publish(type, r, old, StatusTold(type))
    <3>1. CASE ApproveCommits(c)
      <4>1. Publish("TIME_OFF_APPROVED", r, "PENDING", "APPROVED")
        BY <2>1, <3>1 DEF ApproveCommits
      <4> QED
        BY <2>3, <4>1 DEF RequestEvents
    <3>2. CASE RejectCommits(c)
      <4>1. Publish("TIME_OFF_REJECTED", r, "PENDING", "REJECTED")
        BY <2>1, <3>2 DEF RejectCommits
      <4> QED
        BY <2>3, <4>1 DEF RequestEvents
    <3>3. CASE CancelCommits(c)
      <4>1. Publish("TIME_OFF_CANCELLED", r, requests[r].status, "CANCELLED")
        BY <2>1, <3>3 DEF CancelCommits
      <4> QED
        BY <2>3, <4>1 DEF RequestEvents
    <3> QED
      BY <1>4, <3>1, <3>2, <3>3
  <2> QED
    BY <2>2, <2>4
<1>5. "TIME_OFF_REQUESTED" \in RequestEvents
  BY DEF RequestEvents
<1> QED
  BY <1>1, <1>2, <1>3, <1>4, <1>5, StepCases DEF Writes

(* What a sync writes besides the rows. *)
LEMMA SyncWrites ==
  ASSUME ServiceInv, NEW c \in Calls, SyncCommits(c)
  PROVE  /\ DOMAIN outbox \subseteq DOMAIN outbox'
         /\ \A i \in DOMAIN outbox : outbox'[i] = outbox[i]
         /\ Drifts(calls[c].corpus) =>
              \E i \in DOMAIN outbox' :
                outbox'[i] = Event("BALANCE_DRIFT_DETECTED", System)
         /\ audit' = Append(audit, AuditRow(System, "NONE", "SYNC"))
<1> DEFINE e1 == Event("BALANCE_SYNCED", System)
           e2 == Event("BALANCE_DRIFT_DETECTED", System)
<1>1. e1 \in Events /\ e2 \in Events /\ outbox \in Seq(Events)
  BY DEF Event, Events, SystemEvents, ServiceInv, TablesOK
<1>2. PICK log : log = Append(outbox, e1)
  OBVIOUS
<1>3. outbox' = IF Drifts(calls[c].corpus) THEN Append(log, e2) ELSE log
  BY <1>2 DEF SyncCommits
<1> HIDE DEF e1, e2
<1>4. /\ log \in Seq(Events) /\ DOMAIN outbox \subseteq DOMAIN log
      /\ \A i \in DOMAIN outbox : log[i] = outbox[i]
  BY <1>1, <1>2
<1>5. CASE Drifts(calls[c].corpus)
  <2>1. outbox' = Append(log, e2)
    BY <1>3, <1>5
  <2>2. /\ DOMAIN log \subseteq DOMAIN outbox'
        /\ \A i \in DOMAIN log : outbox'[i] = log[i]
        /\ Len(log) + 1 \in DOMAIN outbox' /\ outbox'[Len(log) + 1] = e2
    BY <1>4, <2>1
  <2> QED
    BY <1>4, <2>2 DEF e2, SyncCommits
<1>6. CASE ~ Drifts(calls[c].corpus)
  BY <1>3, <1>4, <1>6 DEF SyncCommits
<1> QED
  BY <1>5, <1>6

LEMMA LogsGrow ==
  ASSUME ServiceInv, [Next]_vars
  PROVE  /\ DOMAIN outbox \subseteq DOMAIN outbox'
         /\ \A i \in DOMAIN outbox : outbox'[i] = outbox[i]
         /\ DOMAIN audit \subseteq DOMAIN audit'
         /\ \A i \in DOMAIN audit : audit'[i] = audit[i]
<1>0. outbox \in Seq(Events) /\ audit \in Seq(AuditRows)
  BY DEF ServiceInv, TablesOK
<1>1. CASE \E type \in RequestEvents, r \in Requests : \E old :
             Publish(type, r, old, StatusTold(type))
  BY <1>0, <1>1, Appends DEF Publish
<1>2. ASSUME NEW c \in Calls, SyncCommits(c)
      PROVE  /\ DOMAIN audit \subseteq DOMAIN audit'
             /\ \A i \in DOMAIN audit : audit'[i] = audit[i]
  BY <1>0, <1>2, SyncWrites, Appends
<1> QED
  BY <1>1, <1>2, SyncWrites, Publishes

(* What is reported of a request is in its trail. *)
RecordedOK ==
  \A r \in Requests, type \in RequestEvents :
    Logged(type, r) => Trailed(DOMAIN audit, r, StatusTold(type))

LEMMA TrailedStays ==
  ASSUME ServiceInv, [Next]_vars, NEW rows \in SUBSET DOMAIN audit,
         NEW r, NEW status
  PROVE  /\ Trailed(rows, r, status)' <=> Trailed(rows, r, status)
         /\ Trailed(DOMAIN audit, r, status) =>
              Trailed(DOMAIN audit, r, status)'
<1>1. /\ DOMAIN audit \subseteq DOMAIN audit'
      /\ \A i \in DOMAIN audit : audit'[i] = audit[i]
  BY LogsGrow
<1> QED
  BY <1>1 DEF Trailed

LEMMA RecordedStep == ServiceInv /\ RecordedOK /\ [Next]_vars => RecordedOK'
<1> SUFFICES ASSUME ServiceInv, RecordedOK, [Next]_vars,
                    NEW r \in Requests, NEW type \in RequestEvents,
                    Logged(type, r)'
             PROVE  Trailed(DOMAIN audit, r, StatusTold(type))'
  BY DEF RecordedOK
<1>0. outbox \in Seq(Events) /\ audit \in Seq(AuditRows)
  BY DEF ServiceInv, TablesOK
<1>1. PICK status : status = StatusTold(type)
  OBVIOUS
<1>2. CASE Logged(type, r)
  <2>1. Trailed(DOMAIN audit, r, status)
    BY <1>1, <1>2 DEF RecordedOK
  <2> QED
    BY <1>1, <2>1, TrailedStays
<1>3. CASE ~ Logged(type, r)
  <2>1. ~ UNCHANGED outbox
    BY <1>3 DEF Logged
  <2>2. ~ \E c \in Calls : SyncCommits(c)
    BY <1>0, <1>3, SyncLogs
  <2>3. PICK t \in RequestEvents, q \in Requests :
          \E old : Publish(t, q, old, StatusTold(t))
    BY <2>1, <2>2, Publishes
  <2>a. PICK old : Publish(t, q, old, StatusTold(t))
    BY <2>3
  <2>4. t = type /\ q = r
    BY <1>0, <1>3, <2>a, LoggedAppend, EventsDiffer DEF Publish
  <2>5. audit' = Append(audit, AuditRow(r, old, status))
    BY <1>1, <2>a, <2>4 DEF Publish
  <2>6. Len(audit) + 1 \in DOMAIN audit'
        /\ audit'[Len(audit) + 1] = AuditRow(r, old, status)
    BY <1>0, <2>5, Appends
  <2> QED
    BY <1>1, <2>6 DEF Trailed, AuditRow
<1> QED
  BY <1>2, <1>3

(* A row that a sync marks as failed is a drift it reports. *)
FailuresOK == FailedRows # {} => DriftEvents # {}

LEMMA DriftEventsStay ==
  ASSUME ServiceInv, [Next]_vars
  PROVE  DriftEvents \subseteq DriftEvents'
  BY LogsGrow DEF DriftEvents, Event

LEMMA FailuresStep == ServiceInv /\ FailuresOK /\ [Next]_vars => FailuresOK'
<1> SUFFICES ASSUME ServiceInv, FailuresOK, [Next]_vars, FailedRows' # {}
             PROVE  DriftEvents' # {}
  BY DEF FailuresOK
<1>1. PICK b \in Balances : balances'[b].syncStatus = "FAILED"
  BY DEF FailedRows
<1>2. balances[b] \in BalanceRow
  BY DEF ServiceInv, TablesOK
<1>3. CASE balances[b].syncStatus = "FAILED"
  <2>1. FailedRows # {}
    BY <1>3 DEF FailedRows
  <2> QED
    BY <2>1, DriftEventsStay DEF FailuresOK
<1>4. CASE balances[b].syncStatus # "FAILED"
  <2>1. ASSUME NEW here, NEW n,
               NEW row \in {Reserve(balances[here], n),
                            ReleaseReserved(balances[here], n),
                            ConsumeReserved(balances[here], n),
                            ReleaseUsed(balances[here], n)},
               SetBalance(here, row)
        PROVE  FALSE
    <3>1. here = b => row.syncStatus = balances[b].syncStatus
      BY <1>2, <2>1 DEF Reserve, ReleaseReserved, ConsumeReserved,
         ReleaseUsed, BalanceRow
    <3>2. balances'[b] = IF here = b THEN row ELSE balances[b]
      BY <2>1 DEF SetBalance, ServiceInv, TablesOK
    <3> QED
      BY <1>1, <1>4, <3>1, <3>2
  <2>2. ASSUME NEW c \in Calls, SyncCommits(c) PROVE DriftEvents' # {}
    <3>1. b \notin DOMAIN calls[c].corpus
      BY <1>1, <1>2, <2>2 DEF SyncCommits, Reconcile, Synced, BalanceRow
    <3>2. Drifts(calls[c].corpus)
      BY <3>1 DEF Drifts
    <3> QED
      BY <2>2, <3>2, SyncWrites DEF DriftEvents, Event
  <2>3. ~ UNCHANGED balances
    BY <1>1, <1>4
  <2>4. PICK c \in Calls : Writes(c)
    BY <2>3, StepCases DEF tables
  <2>5. ~ ApproveMarksSyncFailed(c)
    BY <2>3 DEF ApproveMarksSyncFailed
  <2>6. ASSUME NEW r \in Requests PROVE ~ CreateCommits(c, r)
    BY <2>1 DEF CreateCommits
  <2>7. ~ ApproveCommits(c) /\ ~ RejectCommits(c) /\ ~ CancelCommits(c)
    BY <2>1 DEF ApproveCommits, RejectCommits, CancelCommits
  <2> QED
    BY <2>2, <2>4, <2>5, <2>6, <2>7 DEF Writes
<1> QED
  BY <1>3, <1>4

(* An answer from the cache is one to a create. *)
CachedOK == \A c \in Calls : calls[c].reply = "CACHED" => calls[c].op = "create"

LEMMA CachedStep == ServiceInv /\ CachedOK /\ [Next]_vars => CachedOK'
<1> SUFFICES ASSUME ServiceInv, CachedOK, [Next]_vars, NEW c \in Calls,
                    calls'[c].reply = "CACHED"
             PROVE  calls'[c].op = "create"
  BY DEF CachedOK
<1>1. CASE SameAnswer(c)
  BY <1>1 DEF SameAnswer, CachedOK
<1>2. CASE \E cmd \in Commands : CreateFindsKey(c, cmd)
  BY <1>2 DEF CreateFindsKey, NewCall, ServiceInv, CallsOK
<1>3. CASE Writes(c)
  <2>1. ASSUME NEW code, Reply(c, code) PROVE code = "CACHED"
    BY <2>1, ReplyIs DEF ServiceInv
  <2>2. ASSUME NEW r \in Requests, CreateCommits(c, r) PROVE FALSE
    <3>1. calls' = [calls EXCEPT ![c].pc = "done", ![c].reply = "OK",
                                 ![c].request = r]
      BY <2>2 DEF CreateCommits
    <3>2. c \in DOMAIN calls /\ IsCall(calls[c])
      BY DEF ServiceInv, CallsOK, CallOK
    <3>3. calls'[c].reply = "OK"
      BY <3>1, <3>2 DEF IsCall
    <3> QED
      BY <3>3
  <2> QED
    BY <1>3, <2>1, <2>2 DEF Writes, ApproveMarksSyncFailed, ApproveCommits,
       RejectCommits, CancelCommits, SyncCommits
<1> QED
  BY <1>1, <1>2, <1>3, ReplyCases DEF ServiceInv, Good

Facts ==
  /\ ServiceInv /\ LogInv /\ WonOnce /\ KeysNameTheirRequest
  /\ RecordedOK /\ FailuresOK /\ CachedOK

LEMMA FactsInit == Init => RecordedOK /\ FailuresOK /\ CachedOK
<1> SUFFICES ASSUME Init PROVE RecordedOK /\ FailuresOK /\ CachedOK
  OBVIOUS
<1>1. outbox = <<>> /\ DOMAIN outbox = {}
  BY DEF Init
<1>2. ASSUME NEW b \in Balances PROVE balances[b].syncStatus # "FAILED"
  BY DEF Init, NewBalance
<1> QED
  BY <1>1, <1>2 DEF Init, RecordedOK, Logged, FailuresOK, FailedRows,
     CachedOK, NewCall

LEMMA FactsInvariant == Spec => []Facts
<1>1. ServiceInv /\ LogInv /\ WonOnce /\ [Next]_vars => WonOnce'
  BY WonStep
<1>2. Facts <=> /\ ServiceInv /\ LogInv /\ WonOnce /\ KeysNameTheirRequest
                /\ RecordedOK /\ FailuresOK /\ CachedOK
  BY DEF Facts
<1> QED
  BY <1>1, <1>2, WonInit, FactsInit, RecordedStep, FailuresStep, CachedStep,
     ServiceInvariant, LogInvariant, OneRequestPerKey, PTL DEF Spec

-----------------------------------------------------------------------------
(* What was told to somebody has been reported, and stays so. *)
Holds(t) ==
  \E r \in DOMAIN requests, type \in RequestEvents :
    t = <<r, StatusTold(type)>> /\ Logged(type, r)

Codes == {0, 200, 201, 202, 400, 401, 403, 404, 409, 500}
Handled == {"create", "approve", "reject", "cancel", "sync"}

(* The fields of an exchange; an open one has no status yet. *)
FieldsOK(e) ==
  /\ e.route \in Routes \cup {"none"} /\ e.status \in Codes
  /\ e.about \in Requests \cup Balances \cup {NoRequest}
  /\ e.events \subseteq DOMAIN outbox
  /\ e.stage # "closed" => e.status = 0
  /\ e.route \in {"list", "show"} => e.shown \subseteq DOMAIN requests
  /\ e.route \in {"auditOf", "auditLog"} => e.shown \subseteq DOMAIN audit

(* The handler of an exchange does what its route says.  When it has begun *)
(* after a decision on its request was told, it has refused at once.       *)
HandlerOK(e, call) ==
  /\ e.route \in Handled /\ call.op = e.route /\ call.pc # "idle"
  /\ e.route \in {"create", "sync"} =>
       e.about = NoRequest /\ call.reply # "NOT_FOUND"
  /\ \A t \in e.told : t[1] = e.about =>
       /\ call.reply # "NOT_FOUND"
       /\ e.route \in {"approve", "reject"} /\ t[2] # "PENDING" =>
            call.pc = "done" /\ call.reply = "INVALID_STATE"

AnsweredOK(e) ==
  /\ \A t \in e.told : AnswerRespects(e, t[1], t[2])
  /\ e.route \in {"list", "show"} /\ e.user.role = "EMPLOYEE" =>
       \A r \in e.shown : OwnerOf(r) = e.user.sub

ReportOK(e) ==
  /\ e.stage = "events" <=> e.route = "report" /\ e.stage # "closed"
  /\ e.stage = "events" /\ e.shown # {} => DriftEvents # {}
  /\ e.stage = "closed" /\ e.route = "report" /\ e.shown # {} => e.events # {}

(* All that is known of one exchange.  The properties speak of closed ones *)
(* only; they are inductive together with what the open ones have read and *)
(* with what their handlers can still answer.                              *)
TraceOK(c) ==
  LET e == http[c]
  IN  /\ FieldsOK(e) /\ ReportOK(e)
      /\ \A t \in e.told : Holds(t)
      /\ e.stage = "owner" => e.route = "cancel"
      /\ e.stage = "handler" => HandlerOK(e, calls[c])
      /\ e.route \in DOMAIN Decision /\ e.status \in {200, 201} =>
           /\ calls[c].pc = "done" /\ calls[c].op = e.route
           /\ calls[c].reply \in {"OK", "CACHED"}
      /\ e.stage = "closed" /\ e.user # NoUser => AnsweredOK(e)

TracesOK == \A c \in Calls : TraceOK(c)

-----------------------------------------------------------------------------
(* What is told stays told, whoever moves. *)
LEMMA HoldsStays ==
  ASSUME Facts, [Next]_vars, NEW t, Holds(t)
  PROVE  Holds(t)'
<1>1. PICK r \in DOMAIN requests, type \in RequestEvents :
        t = <<r, StatusTold(type)>> /\ Logged(type, r)
  BY DEF Holds
<1>2. r \in DOMAIN requests'
  BY RowsKept DEF Facts
<1>3. Logged(type, r)'
  BY <1>1, LogGrows DEF Facts
<1> QED
  BY <1>1, <1>2, <1>3 DEF Holds

LEMMA HoldsMeans ==
  ASSUME Facts, NEW t, Holds(t)
  PROVE  /\ t \in Requests \X Statuses /\ t[1] \in DOMAIN requests
         /\ t[1] \in Requests
         /\ Trailed(DOMAIN audit, t[1], t[2])
         /\ t[2] # "PENDING" => requests[t[1]].status # "PENDING"
<1>1. PICK r \in DOMAIN requests, type \in RequestEvents :
        t = <<r, StatusTold(type)>> /\ Logged(type, r)
  BY DEF Holds
<1>2. r \in Requests /\ LogOK(r)
  BY <1>1, LoggedIsRow DEF Facts, LogInv
<1>3. StatusTold(type) \in Statuses
  BY DEF StatusTold, RequestEvents, Statuses
<1>4. Trailed(DOMAIN audit, r, StatusTold(type))
  BY <1>1, <1>2 DEF Facts, RecordedOK
<1>5. ASSUME StatusTold(type) # "PENDING"
      PROVE  requests[r].status # "PENDING"
  <2>1. type # "TIME_OFF_REQUESTED"
    BY <1>5 DEF StatusTold
  <2>2. LogStatus(r) # "PENDING"
    BY <1>1, <2>1 DEF LogStatus, RequestEvents
  <2> QED
    BY <1>2, <2>2 DEF LogOK
<1> QED
  BY <1>1, <1>2, <1>3, <1>4, <1>5

LEMMA OwnersStay ==
  ASSUME Facts, [Next]_vars, NEW r \in DOMAIN requests
  PROVE  OwnerOf(r)' = OwnerOf(r)
  BY RowsKept DEF OwnerOf, Facts

LEMMA AnsweredStays ==
  ASSUME Facts, [Next]_vars, NEW e, FieldsOK(e), \A t \in e.told : Holds(t),
         AnsweredOK(e)
  PROVE  AnsweredOK(e)'
<1>1. ASSUME NEW t \in e.told PROVE AnswerRespects(e, t[1], t[2])'
  <2>1. PICK r, status : r = t[1] /\ status = t[2]
    OBVIOUS
  <2>2. AnswerRespects(e, r, status) /\ r \in DOMAIN requests
    BY <2>1, HoldsMeans DEF AnsweredOK
  <2>3. OwnerOf(r)' = OwnerOf(r)
    BY <2>2, OwnersStay
  <2>4. e.route \in {"auditOf", "auditLog"} =>
          (Trailed(e.shown, r, status)' <=> Trailed(e.shown, r, status))
    BY TrailedStays DEF FieldsOK, Facts
  <2> QED
    BY <2>1, <2>2, <2>3, <2>4 DEF AnswerRespects
<1>2. e.route \in {"list", "show"} => \A r \in e.shown : OwnerOf(r)' = OwnerOf(r)
  BY OwnersStay DEF FieldsOK
<1> QED
  BY <1>1, <1>2 DEF AnsweredOK

LEMMA ProceedsOn ==
  ASSUME CallsOK, NEW d \in Calls, Proceeds(d)
  PROVE  /\ calls'[d].pc # "idle"
         /\ calls'[d].reply = "NOT_FOUND" => calls[d].reply = "NOT_FOUND"
<1>0. IsCall(calls[d]) /\ d \in DOMAIN calls
  BY DEF CallsOK, CallOK
<1>1. ASSUME NEW code, Reply(d, code), code # "NOT_FOUND"
      PROVE  calls'[d].pc # "idle" /\ calls'[d].reply # "NOT_FOUND"
  BY <1>0, <1>1 DEF Reply, IsCall
<1>2. ASSUME NEW pc, GoTo(d, pc), pc # "idle"
      PROVE  calls'[d].pc # "idle" /\ calls'[d].reply = calls[d].reply
  BY <1>0, <1>2 DEF GoTo, IsCall
<1>3. ASSUME NEW r \in Requests, CreateCommits(d, r)
      PROVE  calls'[d].pc # "idle" /\ calls'[d].reply # "NOT_FOUND"
  BY <1>0, <1>3 DEF CreateCommits, IsCall
<1>4. \A r : /\ CreateRefusal(r) # "NOT_FOUND"
             /\ ApproveRefusal(r) # "NOT_FOUND"
             /\ RejectRefusal(r) # "NOT_FOUND"
             /\ CancelRefusal(r) # "NOT_FOUND"
  <2>1. \A r : CreateRefusal(r) # "NOT_FOUND"
    BY DEF CreateRefusal
  <2>2. \A r : ApproveRefusal(r) # "NOT_FOUND" /\ RejectRefusal(r) # "NOT_FOUND"
    BY DEF ApproveRefusal, RejectRefusal
  <2>3. \A r : CancelRefusal(r) # "NOT_FOUND"
    BY DEF CancelRefusal, Live
  <2> QED
    BY <2>1, <2>2, <2>3
<1>5. CASE CreateChecksBalance(d) \/ ApproveHearsFromHcm(d)
           \/ ApproveCallsHcm(d) \/ CancelHearsFromHcm(d)
  BY <1>1, <1>2, <1>5 DEF CreateChecksBalance, ApproveHearsFromHcm,
     ApproveCallsHcm, CancelHearsFromHcm
<1>6. CASE \/ CreateIsRefused(d) \/ ApproveIsRefused(d) \/ RejectIsRefused(d)
           \/ CancelIsRefused(d)
  BY <1>1, <1>4, <1>6 DEF CreateIsRefused, ApproveIsRefused, RejectIsRefused,
     CancelIsRefused
<1>7. CASE \/ ApproveRefusesBalance(d) \/ ApproveMarksSyncFailed(d)
           \/ ApproveMarkFails(d) \/ ApproveCommits(d) \/ RejectCommits(d)
           \/ CancelCommits(d) \/ SyncCommits(d) \/ TransactionAborts(d)
  BY <1>1, <1>7 DEF ApproveRefusesBalance, ApproveMarksSyncFailed,
     ApproveMarkFails, ApproveCommits, RejectCommits, CancelCommits,
     SyncCommits, TransactionAborts
<1> QED
  BY <1>3, <1>5, <1>6, <1>7 DEF Proceeds

LEMMA HandlerStays ==
  ASSUME CallsOK, [Next]_vars, NEW d \in Calls, NEW e, HandlerOK(e, calls[d])
  PROVE  HandlerOK(e, calls'[d])
<1>1. calls[d].pc # "idle" /\ IsCall(calls[d])
  BY DEF HandlerOK, CallsOK, CallOK
<1>2. ~ Arrives(d)
  BY <1>1, ArrivesAlone
<1>3. calls'[d].op = calls[d].op
  BY <1>2, AskedOnce
<1>4. /\ calls'[d].pc # "idle"
      /\ calls'[d].reply = "NOT_FOUND" => calls[d].reply = "NOT_FOUND"
  <2>1. CASE calls'[d] = calls[d]
    BY <1>1, <2>1
  <2>2. CASE calls'[d] = [calls[d] EXCEPT !.pc = "done", !.reply = "CRASHED"]
    BY <1>1, <2>2 DEF IsCall
  <2> QED
    BY <1>2, <2>1, <2>2, StepOf, ProceedsOn
<1>5. calls[d].pc = "done" => calls'[d] = calls[d]
  BY DoneStays
<1> QED
  BY <1>3, <1>4, <1>5 DEF HandlerOK

(* What is said of an exchange that does not move stays true. *)
LEMMA TraceKept ==
  ASSUME Facts, [Next]_vars, NEW d \in Calls, TraceOK(d),
         http'[d] = http[d]
  PROVE  TraceOK(d)'
<1>1. PICK e : e = http[d] /\ e = http'[d]
  OBVIOUS
<1>2. /\ FieldsOK(e) /\ ReportOK(e) /\ \A t \in e.told : Holds(t)
      /\ e.stage = "owner" => e.route = "cancel"
      /\ e.stage = "handler" => HandlerOK(e, calls[d])
      /\ e.route \in DOMAIN Decision /\ e.status \in {200, 201} =>
           /\ calls[d].pc = "done" /\ calls[d].op = e.route
           /\ calls[d].reply \in {"OK", "CACHED"}
      /\ e.stage = "closed" /\ e.user # NoUser => AnsweredOK(e)
  BY <1>1 DEF TraceOK
<1>3. FieldsOK(e)'
  <2>1. DOMAIN outbox \subseteq DOMAIN outbox' /\ DOMAIN audit \subseteq DOMAIN audit'
    BY LogsGrow DEF Facts
  <2>2. DOMAIN requests \subseteq DOMAIN requests'
    BY RowsKept DEF Facts
  <2> QED
    BY <1>2, <2>1, <2>2 DEF FieldsOK
<1>4. ReportOK(e)'
  BY <1>2, DriftEventsStay DEF ReportOK, Facts
<1>5. \A t \in e.told : Holds(t)'
  BY <1>2, HoldsStays
<1>6. e.stage = "handler" => HandlerOK(e, calls'[d])
  BY <1>2, HandlerStays DEF Facts, ServiceInv
<1>7. calls[d].pc = "done" => calls'[d] = calls[d]
  BY DoneStays DEF Facts, ServiceInv
<1>8. e.stage = "closed" /\ e.user # NoUser => AnsweredOK(e)'
  BY <1>2, AnsweredStays
<1> QED
  BY <1>1, <1>2, <1>3, <1>4, <1>5, <1>6, <1>7, <1>8 DEF TraceOK

(* What is told to a client now is so. *)
LEMMA ToldHolds ==
  ASSUME Facts, TracesOK, NEW t \in Told
  PROVE  Holds(t)
<1>1. PICK c \in Calls : /\ http[c].route \in DOMAIN Decision
                         /\ http[c].status \in {200, 201}
                         /\ t = <<calls[c].request, Decision[http[c].route]>>
  BY DEF Told
<1>2. PICK op, r : op = calls[c].op /\ r = calls[c].request
  OBVIOUS
<1>3. /\ op = http[c].route /\ op \in DOMAIN Decision
      /\ calls[c].reply \in {"OK", "CACHED"}
  BY <1>1, <1>2 DEF TracesOK, TraceOK
<1>4. t = <<r, Decision[op]>>
  BY <1>1, <1>2, <1>3
<1>5. CASE op = "create"
  <2>1. r \in DOMAIN requests
    BY <1>2, <1>3, <1>5 DEF Facts, KeysNameTheirRequest
  <2>2. Logged("TIME_OFF_REQUESTED", r)
    BY <2>1 DEF Facts, LogInv, LogOK, ServiceInv, TablesOK
  <2>3. StatusTold("TIME_OFF_REQUESTED") = Decision["create"]
    BY DEF StatusTold, Decision
  <2>4. "TIME_OFF_REQUESTED" \in RequestEvents
    BY DEF RequestEvents
  <2> QED
    BY <1>4, <1>5, <2>1, <2>2, <2>3, <2>4 DEF Holds
<1>6. CASE op # "create"
  <2>1. op \in DecisionOps
    BY <1>3, <1>6 DEF Decision, DecisionOps
  <2>2. calls[c].reply = "OK"
    BY <1>2, <1>3, <1>6 DEF Facts, CachedOK
  <2>3. Logged(EventOf(op), r)
    BY <1>2, <2>1, <2>2 DEF Facts, WonOnce, HasWon
  <2>4. EventOf(op) \in RequestEvents /\ StatusTold(EventOf(op)) = Decision[op]
    BY <2>1 DEF DecisionOps, EventOf, RequestEvents, StatusTold, Decision
  <2>5. r \in DOMAIN requests
    BY <2>3, <2>4, LoggedIsRow DEF Facts
  <2> QED
    BY <1>4, <2>3, <2>4, <2>5 DEF Holds
<1> QED
  BY <1>5, <1>6

-----------------------------------------------------------------------------
(* An exchange that has just been opened, refused or answered. *)
IsNow(e, u, route, stage, about, status, shown) ==
  /\ e.user = u /\ e.route = route /\ e.stage = stage /\ e.about = about
  /\ e.told = Told /\ e.status = status /\ e.shown = shown /\ e.events = {}

LEMMA ExchangeIs ==
  ASSUME NEW c, NEW u, NEW route, NEW stage, NEW about, NEW status, NEW shown
  PROVE  /\ IsNow(Exchange(c, u, route, stage, about),
                  u, route, stage, about, 0, {})
         /\ IsNow([Exchange(c, u, route, stage, about)
                     EXCEPT !.status = status, !.shown = shown],
                  u, route, stage, about, status, shown)
         /\ IsNow([Exchange(c, u, route, stage, about) EXCEPT !.shown = shown],
                  u, route, stage, about, 0, shown)
<1>1. PICK told : told = Told
  OBVIOUS
<1>2. PICK e : e = Exchange(c, u, route, stage, about)
  OBVIOUS
<1>3. /\ e \in [user : {u}, route : {route}, stage : {stage}, status : {0},
                about : {about}, told : {told}, shown : {{}}, events : {{}}]
  BY <1>1, <1>2 DEF Exchange, NoExchange
<1>4. IsNow(e, u, route, stage, about, 0, {})
  BY <1>1, <1>3 DEF IsNow
<1>5. IsNow([e EXCEPT !.status = status, !.shown = shown],
            u, route, stage, about, status, shown)
  BY <1>1, <1>3 DEF IsNow
<1>6. IsNow([e EXCEPT !.shown = shown], u, route, stage, about, 0, shown)
  BY <1>1, <1>3 DEF IsNow
<1> QED
  BY <1>2, <1>4, <1>5, <1>6

LEMMA RefusedTrace ==
  ASSUME Facts, NEW c \in Calls, NEW status \in Codes,
         http'[c] = Refused(status)
  PROVE  TraceOK(c)'
<1>1. PICK e : e = Refused(status)
  OBVIOUS
<1>2. /\ e.user = NoUser /\ e.route = "none" /\ e.stage = "closed"
      /\ e.about = NoRequest /\ e.told = {} /\ e.status = status
      /\ e.shown = {} /\ e.events = {}
  BY <1>1 DEF Refused, NoExchange
<1>3. FieldsOK(e)'
  BY <1>2 DEF FieldsOK
<1>4. ReportOK(e)'
  BY <1>2 DEF ReportOK
<1>5. e.route \notin DOMAIN Decision
  BY <1>2 DEF Decision
<1> QED
  BY <1>1, <1>2, <1>3, <1>4, <1>5 DEF TraceOK

(* Nothing is told to, or said of, an exchange that only reads that would  *)
(* not be so when it has read.                                             *)
LEMMA StaysSo ==
  ASSUME UNCHANGED vars, NEW e
  PROVE  /\ FieldsOK(e)' <=> FieldsOK(e)
         /\ ReportOK(e)' <=> ReportOK(e)
         /\ AnsweredOK(e)' <=> AnsweredOK(e)
         /\ \A t : Holds(t)' <=> Holds(t)
<1> USE DEF vars, tables
<1>1. FieldsOK(e)' <=> FieldsOK(e)
  BY DEF FieldsOK
<1>2. ReportOK(e)' <=> ReportOK(e)
  BY DEF ReportOK, DriftEvents
<1>3. \A r : OwnerOf(r)' = OwnerOf(r)
  BY DEF OwnerOf
<1>4. \A rows, r, status : Trailed(rows, r, status)' <=> Trailed(rows, r, status)
  BY DEF Trailed
<1>5. \A r, status : AnswerRespects(e, r, status)' <=> AnswerRespects(e, r, status)
  BY <1>3, <1>4 DEF AnswerRespects
<1>6. AnsweredOK(e)' <=> AnsweredOK(e)
  BY <1>3, <1>5 DEF AnsweredOK
<1>7. \A type, r : Logged(type, r)' <=> Logged(type, r)
  BY DEF Logged
<1>8. \A t : Holds(t)' <=> Holds(t)
  BY <1>7 DEF Holds
<1> QED
  BY <1>1, <1>2, <1>6, <1>8

LEMMA Unmoved ==
  ASSUME UNCHANGED vars, NEW c \in Calls, NEW e, e = http'[c],
         FieldsOK(e), ReportOK(e), \A t \in e.told : Holds(t),
         e.stage = "owner" => e.route = "cancel",
         e.stage # "handler",
         e.route \in DOMAIN Decision /\ e.status \in {200, 201} =>
           /\ calls[c].pc = "done" /\ calls[c].op = e.route
           /\ calls[c].reply \in {"OK", "CACHED"},
         e.stage = "closed" /\ e.user # NoUser => AnsweredOK(e)
  PROVE  TraceOK(c)'
<1>1. /\ FieldsOK(e)' /\ ReportOK(e)' /\ \A t \in e.told : Holds(t)'
      /\ e.stage = "closed" /\ e.user # NoUser => AnsweredOK(e)'
  BY StaysSo
<1>2. calls' = calls
  BY DEF vars
<1> QED
  BY <1>1, <1>2 DEF TraceOK

(* A query that reads once, and a cancel refused for its owner. *)
LEMMA ShownTrace ==
  ASSUME Facts, TracesOK, UNCHANGED vars, NEW c \in Calls,
         NEW e, e = http'[c], FieldsOK(e), e.stage = "closed",
         e.route # "report", e.told = Told,
         e.route \in DOMAIN Decision => e.status \notin {200, 201},
         AnsweredOK(e)
  PROVE  TraceOK(c)'
<1>1. ReportOK(e)
  BY DEF ReportOK
<1>2. \A t \in e.told : Holds(t)
  BY ToldHolds
<1> QED
  BY <1>1, <1>2, Unmoved

(* What a test of getById or cancel answers. *)
LEMMA TouchAnswers ==
  ASSUME Facts, TracesOK, NEW e, e.route \in {"show", "cancel"},
         e.told = Told, e.status = 404 => e.about \notin DOMAIN requests,
         e.user.role = "EMPLOYEE" =>
           \A q \in e.shown : OwnerOf(q) = e.user.sub
  PROVE  AnsweredOK(e)
<1>1. ASSUME NEW t \in Told PROVE AnswerRespects(e, t[1], t[2])
  <2>1. PICK q, told : q = t[1] /\ told = t[2] /\ q \in DOMAIN requests
    BY <1>1, ToldHolds, HoldsMeans
  <2>2. AnswerRespects(e, q, told)
    BY <2>1 DEF AnswerRespects
  <2> QED
    BY <2>1, <2>2
<1> QED
  BY <1>1 DEF AnsweredOK

LEMMA ListAnswers ==
  ASSUME Facts, TracesOK, NEW u \in Users, NEW e,
         IsNow(e, u, "list", "closed", NoRequest, 200, Listed(u))
  PROVE  AnsweredOK(e)
<1>0. /\ e.user = u /\ e.route = "list" /\ e.about = NoRequest /\ e.told = Told
      /\ e.status = 200 /\ e.shown = Listed(u)
  BY DEF IsNow
<1>1. ASSUME NEW t \in Told PROVE AnswerRespects(e, t[1], t[2])
  <2>1. PICK r, told :
          /\ r = t[1] /\ told = t[2] /\ r \in DOMAIN requests
          /\ told # "PENDING" => requests[r].status # "PENDING"
    BY <1>1, ToldHolds, HoldsMeans
  <2>2. u.role = "MANAGER" /\ told # "PENDING" => r \notin Listed(u)
    BY <2>1 DEF Listed
  <2>3. u.role # "MANAGER"
          /\ (u.role # "EMPLOYEE" \/ OwnerOf(r) = u.sub) =>
          r \in Listed(u)
    BY <2>1 DEF Listed
  <2>4. AnswerRespects(e, r, told)
    BY <1>0, <2>2, <2>3 DEF AnswerRespects
  <2> QED
    BY <2>1, <2>4
<1>2. u.role = "EMPLOYEE" => \A r \in Listed(u) : OwnerOf(r) = u.sub
  BY DEF Listed
<1> QED
  BY <1>0, <1>1, <1>2 DEF AnsweredOK

LEMMA AuditAnswers ==
  ASSUME Facts, TracesOK, NEW u \in Users, NEW e,
         NEW route \in {"auditOf", "auditLog"}, NEW about, NEW shown,
         IsNow(e, u, route, "closed", about, 200, shown),
         route = "auditOf" => shown = {i \in DOMAIN audit : audit[i].entity = about},
         route = "auditLog" => IsPage(shown, DOMAIN audit, AuditPage)
  PROVE  AnsweredOK(e)
<1>0. /\ e.user = u /\ e.route = route /\ e.about = about /\ e.told = Told
      /\ e.status = 200 /\ e.shown = shown
  BY DEF IsNow
<1>1. ASSUME NEW t \in Told PROVE AnswerRespects(e, t[1], t[2])
  <2>1. PICK r, told :
          r = t[1] /\ told = t[2] /\ Trailed(DOMAIN audit, r, told)
    BY <1>1, ToldHolds, HoldsMeans
  <2>2. route = "auditOf" /\ about = r => Trailed(shown, r, told)
    BY <2>1 DEF Trailed
  <2>3. route = "auditLog" /\ Cardinality(shown) < AuditPage =>
          Trailed(shown, r, told)
    <3> SUFFICES ASSUME route = "auditLog", Cardinality(shown) < AuditPage
                 PROVE  shown = DOMAIN audit
      BY <2>1
    <3>1. IsFiniteSet(DOMAIN audit)
      <4>1. audit \in Seq(AuditRows)
        BY DEF Facts, ServiceInv, TablesOK
      <4>2. DOMAIN audit = 1 .. Len(audit) /\ Len(audit) \in Nat
        BY <4>1
      <4> QED
        BY <4>2, FS_Interval
    <3>2. shown \subseteq DOMAIN audit /\ AuditPage \in Nat
      BY ApiAssumption DEF IsPage, ApiAssumption
    <3>3. Cardinality(shown) = Cardinality(DOMAIN audit)
      <4>1. Cardinality(DOMAIN audit) \in Nat
        BY <3>1, FS_CardinalityType
      <4> QED
        BY <3>2, <4>1 DEF IsPage
    <3> QED
      BY <3>1, <3>2, <3>3, FS_Subset
  <2>4. AnswerRespects(e, r, told)
    BY <1>0, <2>2, <2>3 DEF AnswerRespects
  <2> QED
    BY <2>1, <2>4
<1> QED
  BY <1>0, <1>1 DEF AnsweredOK

(* Balances say nothing of requests. *)
LEMMA BalanceAnswers ==
  ASSUME NEW u, NEW e, NEW route \in {"balances", "balance"}, NEW about,
         NEW shown, IsNow(e, u, route, "closed", about, 200, shown)
  PROVE  AnsweredOK(e)
  BY DEF IsNow, AnsweredOK, AnswerRespects

-----------------------------------------------------------------------------
(* What a step makes of the exchange it serves. *)
LEMMA ClosesIs ==
  ASSUME ApiInv, NEW c \in Calls, NEW u, NEW route, NEW about, NEW status,
         NEW shown, Closes(c, u, route, about, status, shown)
  PROVE  IsNow(http'[c], u, route, "closed", about, status, shown)
<1> DEFINE e == [Exchange(c, u, route, "closed", about)
                   EXCEPT !.status = status, !.shown = shown]
<1>1. http' = [http EXCEPT ![c] = e]
  BY DEF Closes
<1>2. IsNow(e, u, route, "closed", about, status, shown)
  BY ExchangeIs
<1> HIDE DEF e
<1> QED
  BY <1>1, <1>2 DEF ApiInv

LEMMA OpensIs ==
  ASSUME ApiInv, NEW c \in Calls, NEW u, NEW route, NEW stage, NEW about,
         Opens(c, u, route, stage, about)
  PROVE  IsNow(http'[c], u, route, stage, about, 0, {})
<1> DEFINE e == Exchange(c, u, route, stage, about)
<1>1. http' = [http EXCEPT ![c] = e]
  BY DEF Opens
<1>2. IsNow(e, u, route, stage, about, 0, {})
  BY ExchangeIs
<1> HIDE DEF e
<1> QED
  BY <1>1, <1>2 DEF ApiInv

-----------------------------------------------------------------------------
(* The exchanges that need no handler. *)
LEMMA RefusalTraces ==
  ASSUME Facts, ApiInv, NEW c \in Calls,
         \/ Health(c) \/ RefusedAtTheDoor(c) \/ ReadFails(c)
         \/ \E u \in Users : \/ CreateWithoutBalance(c, u) \/ UnknownBalance(c, u)
                             \/ GetAuditLogPart(c, u)
  PROVE  TraceOK(c)'
<1>1. \A code : ErrorStatus(code) \in Codes
  BY DEF ErrorStatus, Codes
<1>2. \A u, route, valid : DoorStatus(u, route, valid) \in Codes
  BY DEF DoorStatus, Codes
<1>3. {200, 401, 404, 500} \subseteq Codes
  BY DEF Codes
<1>4. \E status \in Codes : http' = [http EXCEPT ![c] = Refused(status)]
  BY <1>1, <1>2, <1>3 DEF Health, RefusedAtTheDoor, ReadFails,
     CreateWithoutBalance, UnknownBalance, GetAuditLogPart
<1>5. PICK status \in Codes : http' = [http EXCEPT ![c] = Refused(status)]
  BY <1>4
<1>6. http'[c] = Refused(status)
  BY <1>5 DEF ApiInv
<1> QED
  BY <1>6, RefusedTrace

LEMMA TouchTraces ==
  ASSUME Facts, TracesOK, ApiInv, NEW c \in Calls, NEW u \in Users,
         NEW r \in Requests,
         GetRequest(c, u, r) \/ (PatchCancel(c, u, r) /\ MayTouch(u, r) # 0)
  PROVE  TraceOK(c)'
<1>0. DOMAIN requests \subseteq Requests
  BY DEF Facts, ServiceInv, TablesOK
<1>1. UNCHANGED vars
  BY DEF GetRequest, PatchCancel
<1>2. PICK e : e = http'[c]
  OBVIOUS
<1>3. ASSUME NEW route \in {"show", "cancel"}, NEW status \in {403, 404},
             status = 404 => r \notin DOMAIN requests,
             Closes(c, u, route, r, status, {})
      PROVE  TraceOK(c)'
  <2>1. IsNow(e, u, route, "closed", r, status, {})
    BY <1>2, <1>3, ClosesIs
  <2>2. /\ e.user = u /\ e.stage = "closed" /\ e.route = route
        /\ e.about = r /\ e.told = Told /\ e.status = status
        /\ e.shown = {} /\ e.events = {}
    BY <2>1 DEF IsNow
  <2>3. AnsweredOK(e)
    BY <1>3, <2>2, TouchAnswers
  <2>4. route \in Routes \ {"report"} /\ status \in Codes /\ status \notin {200, 201}
    BY <1>3 DEF Routes, RequestRoutes, Codes
  <2>5. FieldsOK(e)
    BY <2>2, <2>4 DEF FieldsOK
  <2>6. /\ e.route # "report"
        /\ e.route \in DOMAIN Decision => e.status \notin {200, 201}
    BY <2>2, <2>4
  <2> QED
    BY <1>1, <1>2, <2>2, <2>3, <2>5, <2>6, ShownTrace
<1>4. CASE GetRequest(c, u, r) /\ MayTouch(u, r) = 0
  <2>1. IsNow(e, u, "show", "closed", r, 200, {r})
    BY <1>2, <1>4, ClosesIs DEF GetRequest, Shows
  <2>2. {r} \in SUBSET DOMAIN requests /\ r \in DOMAIN requests
    BY <1>4 DEF MayTouch
  <2>3. u.role = "EMPLOYEE" => \A q \in {r} : OwnerOf(q) = u.sub
    BY <1>4 DEF MayTouch
  <2>4. /\ e.user = u /\ e.stage = "closed" /\ e.route = "show"
        /\ e.about = r /\ e.told = Told /\ e.status = 200
        /\ e.shown = {r} /\ e.events = {}
    BY <2>1 DEF IsNow
  <2>5. AnsweredOK(e)
    BY <2>3, <2>4, TouchAnswers
  <2>6. "show" \in Routes \ {"report"} /\ 200 \in Codes
        /\ "show" \notin DOMAIN Decision
    BY DEF Routes, RequestRoutes, Codes, Decision
  <2>7. FieldsOK(e)
    BY <2>2, <2>4, <2>6 DEF FieldsOK
  <2>8. /\ e.route # "report"
        /\ e.route \in DOMAIN Decision => e.status \notin {200, 201}
    BY <2>4, <2>6
  <2> QED
    BY <1>1, <1>2, <2>4, <2>5, <2>7, <2>8, ShownTrace
<1>5. CASE MayTouch(u, r) # 0
  <2>1. MayTouch(u, r) \in {403, 404}
        /\ (MayTouch(u, r) = 404 => r \notin DOMAIN requests)
    BY <1>5 DEF MayTouch
  <2>2. PICK status : status = MayTouch(u, r)
    OBVIOUS
  <2>3. Closes(c, u, "show", r, status, {}) \/ Closes(c, u, "cancel", r, status, {})
    BY <1>5, <2>2 DEF GetRequest, PatchCancel
  <2> QED
    BY <1>3, <2>1, <2>2, <2>3
<1> QED
  BY <1>4, <1>5

LEMMA QueryTraces ==
  ASSUME Facts, TracesOK, ApiInv, NEW c \in Calls, NEW u \in Users,
         \/ GetList(c, u) \/ GetBalances(c, u) \/ GetAuditLog(c, u)
         \/ \E r \in Requests : AuditOf(c, u, r)
         \/ \E b \in Balances : GetBalance(c, u, b)
  PROVE  TraceOK(c)'
<1>1. UNCHANGED vars
  BY DEF GetList, GetBalances, GetAuditLog, AuditOf, GetBalance
<1>2. PICK e : e = http'[c]
  OBVIOUS
<1>3. /\ {"list", "balances", "balance", "auditLog", "auditOf"}
           \subseteq Routes \ {"report"}
      /\ {"list", "balances", "balance", "auditLog", "auditOf"}
           \cap DOMAIN Decision = {}
      /\ 200 \in Codes /\ 403 \in Codes
  BY DEF Routes, RequestRoutes, BalanceRoutes, AuditRoutes, Codes, Decision
<1>4. ASSUME NEW route \in {"list", "balances", "balance", "auditLog", "auditOf"},
             NEW about \in Requests \cup Balances \cup {NoRequest}, NEW shown,
             IsNow(e, u, route, "closed", about, 200, shown),
             route = "list" => shown \subseteq DOMAIN requests,
             route \in {"auditOf", "auditLog"} => shown \subseteq DOMAIN audit,
             AnsweredOK(e)
      PROVE  TraceOK(c)'
  <2>1. /\ e.stage = "closed" /\ e.route = route /\ e.about = about
        /\ e.told = Told /\ e.status = 200 /\ e.shown = shown /\ e.events = {}
    BY <1>4 DEF IsNow
  <2>2. /\ route \in Routes \ {"report"} /\ route \notin DOMAIN Decision
        /\ route # "show"
    BY <1>3, <1>4
  <2>3. FieldsOK(e)
    BY <1>3, <1>4, <2>1, <2>2 DEF FieldsOK
  <2> QED
    BY <1>1, <1>2, <1>4, <2>1, <2>2, <2>3, ShownTrace
<1>5. CASE GetList(c, u)
  <2>1. IsNow(e, u, "list", "closed", NoRequest, 200, Listed(u))
    BY <1>2, <1>5, ClosesIs DEF GetList, Shows
  <2>2. Listed(u) \subseteq DOMAIN requests
    BY DEF Listed
  <2> QED
    BY <1>4, <2>1, <2>2, ListAnswers
<1>6. CASE GetBalances(c, u)
  <2>1. PICK shown : IsNow(e, u, "balances", "closed", NoRequest, 200, shown)
    BY <1>2, <1>6, ClosesIs DEF GetBalances, Shows
  <2> QED
    BY <1>4, <2>1, BalanceAnswers
<1>7. CASE GetAuditLog(c, u)
  <2>1. PICK page \in SUBSET DOMAIN audit :
          /\ IsPage(page, DOMAIN audit, AuditPage)
          /\ Shows(c, u, "auditLog", NoRequest, page)
    BY <1>7 DEF GetAuditLog
  <2>2. IsNow(e, u, "auditLog", "closed", NoRequest, 200, page)
    BY <1>2, <2>1, ClosesIs DEF Shows
  <2>3. AnsweredOK(e)
    BY <2>1, <2>2, AuditAnswers
  <2> QED
    BY <1>4, <2>1, <2>2, <2>3
<1>8. ASSUME NEW r \in Requests, AuditOf(c, u, r) PROVE TraceOK(c)'
  <2>1. PICK shown : shown = {i \in DOMAIN audit : audit[i].entity = r}
    OBVIOUS
  <2>2. IsNow(e, u, "auditOf", "closed", r, 200, shown)
    BY <1>2, <1>8, <2>1, ClosesIs DEF AuditOf, Shows
  <2>3. AnsweredOK(e)
    BY <2>1, <2>2, AuditAnswers
  <2>4. shown \subseteq DOMAIN audit
    BY <2>1
  <2> QED
    BY <1>4, <2>2, <2>3, <2>4
<1>9. ASSUME NEW b \in Balances, GetBalance(c, u, b) PROVE TraceOK(c)'
  <2>1. CASE u.role = "EMPLOYEE" /\ Owner[b] # u.sub
    <3>1. http'[c] = Refused(403)
      BY <1>9, <2>1 DEF GetBalance, ApiInv
    <3> QED
      BY <1>3, <3>1, RefusedTrace
  <2>2. CASE ~ (u.role = "EMPLOYEE" /\ Owner[b] # u.sub)
    <3>1. IsNow(e, u, "balance", "closed", b, 200, {b})
      BY <1>2, <1>9, <2>2, ClosesIs DEF GetBalance, Shows
    <3> QED
      BY <1>4, <3>1, BalanceAnswers
  <2> QED
    BY <2>1, <2>2
<1> QED
  BY <1>5, <1>6, <1>7, <1>8, <1>9

-----------------------------------------------------------------------------
(* The report. *)
LEMMA ReportBegins ==
  ASSUME Facts, TracesOK, ApiInv, NEW c \in Calls, NEW u \in Users,
         ReportReadsBalances(c, u)
  PROVE  TraceOK(c)'
<1> DEFINE x == [Exchange(c, u, "report", "events", NoRequest)
                   EXCEPT !.shown = FailedRows]
<1>1. http' = [http EXCEPT ![c] = x] /\ UNCHANGED vars
  BY DEF ReportReadsBalances
<1>2. IsNow(x, u, "report", "events", NoRequest, 0, FailedRows)
  BY ExchangeIs
<1> HIDE DEF x
<1>3. PICK e : e = http'[c]
  OBVIOUS
<1>4. IsNow(e, u, "report", "events", NoRequest, 0, FailedRows)
  BY <1>1, <1>2, <1>3 DEF ApiInv
<1>5. "report" \in Routes /\ 0 \in Codes /\ "report" \notin DOMAIN Decision
  BY DEF Routes, ReportRoutes, Codes, Decision
<1>6. FieldsOK(e)
  BY <1>4, <1>5 DEF IsNow, FieldsOK
<1>7. ReportOK(e)
  BY <1>4 DEF IsNow, ReportOK, Facts, FailuresOK
<1>8. \A t \in e.told : Holds(t)
  BY <1>4, ToldHolds DEF IsNow
<1>9. e.stage = "events" /\ e.route = "report"
  BY <1>4 DEF IsNow
<1> QED
  BY <1>1, <1>3, <1>5, <1>6, <1>7, <1>8, <1>9, Unmoved

LEMMA ReportEnds ==
  ASSUME Facts, TracesOK, ApiInv, NEW c \in Calls, ReportReadsEvents(c)
  PROVE  TraceOK(c)'
<1>1. PICK page \in SUBSET DriftEvents :
        /\ IsPage(page, DriftEvents, ReportPage)
        /\ http' = [http EXCEPT ![c].stage = "closed", ![c].status = 200,
                                ![c].events = page]
  BY DEF ReportReadsEvents
<1>2. PICK f, e : f = http[c] /\ e = http'[c]
  OBVIOUS
<1>3. IsExchange(f) /\ c \in DOMAIN http
  BY <1>2 DEF ApiInv, ExchangeOK
<1>4. e = [f EXCEPT !.stage = "closed", !.status = 200, !.events = page]
  BY <1>1, <1>2, <1>3
<1>5. /\ e.user = f.user /\ e.route = f.route /\ e.stage = "closed"
      /\ e.about = f.about /\ e.told = f.told /\ e.status = 200
      /\ e.shown = f.shown /\ e.events = page
  BY <1>3, <1>4 DEF IsExchange
<1>6. /\ FieldsOK(f) /\ ReportOK(f) /\ \A t \in f.told : Holds(t)
      /\ f.stage = "events"
  BY <1>2 DEF TracesOK, TraceOK, ReportReadsEvents
<1>7. f.route = "report"
  BY <1>6 DEF ReportOK
<1>8. f.shown # {} => page # {}
  <2> SUFFICES ASSUME f.shown # {}, page = {} PROVE FALSE
    OBVIOUS
  <2>1. DriftEvents # {}
    BY <1>6 DEF ReportOK
  <2>2. IsFiniteSet(DriftEvents)
    <3>1. outbox \in Seq(Events)
      BY DEF Facts, ServiceInv, TablesOK
    <3>2. DOMAIN outbox = 1 .. Len(outbox) /\ Len(outbox) \in Nat
      BY <3>1
    <3>3. IsFiniteSet(DOMAIN outbox)
      BY <3>2, FS_Interval
    <3> QED
      BY <3>3, FS_Subset DEF DriftEvents
  <2>3. Cardinality(DriftEvents) \in Nat /\ Cardinality(DriftEvents) # 0
    BY <2>1, <2>2, FS_CardinalityType, FS_EmptySet
  <2>4. Cardinality(page) = 0
    BY FS_EmptySet
  <2>5. ReportPage \in Nat \ {0}
    BY ApiAssumption DEF ApiAssumption
  <2> QED
    BY <1>1, <2>3, <2>4, <2>5 DEF IsPage
<1>9. FieldsOK(e)
  <2>1. page \subseteq DOMAIN outbox
    BY DEF DriftEvents
  <2>2. 200 \in Codes
    BY DEF Codes
  <2> QED
    BY <1>5, <1>6, <2>1, <2>2 DEF FieldsOK
<1>10. ReportOK(e)
  BY <1>5, <1>7, <1>8 DEF ReportOK
<1>11. AnsweredOK(e)
  BY <1>5, <1>7 DEF AnsweredOK, AnswerRespects
<1>12. "report" \notin DOMAIN Decision /\ UNCHANGED vars
  BY DEF Decision, ReportReadsEvents
<1> QED
  BY <1>2, <1>5, <1>6, <1>7, <1>9, <1>10, <1>11, <1>12, Unmoved

-----------------------------------------------------------------------------
(* A handler that looks its request up starts, or has answered, at once. *)
LEMMA BeginAnswers ==
  ASSUME CallsOK, NEW c \in Calls, NEW op, NEW r, NEW allowed,
         NEW pc \in Places \ {"idle"}, Begin(c, op, r, allowed, pc)
  PROVE  /\ calls'[c].op = op /\ calls'[c].pc # "idle"
         /\ calls'[c].reply = StartRefusal(r, allowed)
         /\ StartRefusal(r, allowed) # "none" => calls'[c].pc = "done"
<1>1. PICK refusal : refusal = StartRefusal(r, allowed)
  OBVIOUS
<1>2. PICK place : place = IF refusal = "none" THEN pc ELSE "done"
  OBVIOUS
<1> DEFINE call == [NewCall EXCEPT !.op = op, !.request = r, !.pc = place,
                                   !.reply = refusal]
<1>3. calls' = [calls EXCEPT ![c] = call]
  BY <1>1, <1>2 DEF Begin
<1>4. call.op = op /\ call.pc = place /\ call.reply = refusal
  BY DEF NewCall
<1> HIDE DEF call
<1>5. calls'[c] = call
  BY <1>3, NewCallIs
<1>6. place # "idle"
  BY <1>2
<1> QED
  BY <1>1, <1>2, <1>4, <1>5, <1>6

LEMMA StartedTrace ==
  ASSUME Facts, TracesOK, [Next]_vars, NEW c \in Calls, NEW u,
         NEW route \in Handled, NEW about \in Requests \cup {NoRequest},
         NEW e, e = http'[c], IsNow(e, u, route, "handler", about, 0, {}),
         HandlerOK(e, calls'[c])
  PROVE  TraceOK(c)'
<1>1. /\ e.user = u /\ e.route = route /\ e.stage = "handler"
      /\ e.about = about /\ e.told = Told /\ e.status = 0 /\ e.shown = {}
      /\ e.events = {}
  BY DEF IsNow
<1>2. route \in Routes \ {"report"} /\ 0 \in Codes
  BY DEF Handled, Routes, RequestRoutes, BalanceRoutes, Codes
<1>3. FieldsOK(e)'
  BY <1>1, <1>2 DEF FieldsOK
<1>4. ReportOK(e)'
  BY <1>1, <1>2 DEF ReportOK
<1>5. \A t \in e.told : Holds(t)'
  BY <1>1, ToldHolds, HoldsStays
<1>6. HandlerOK(e, calls[c])'
  OBVIOUS
<1>7. e.stage = "handler" /\ e.status \notin {200, 201}
  BY <1>1
<1>8. /\ FieldsOK(http[c])' /\ ReportOK(http[c])'
      /\ HandlerOK(http[c], calls[c])'
  BY <1>3, <1>4, <1>6
<1>9. \A t \in http'[c].told : Holds(t)'
  BY <1>5
<1>10. http'[c].stage = "handler" /\ http'[c].status \notin {200, 201}
  BY <1>7
<1>11. http'[c].stage # "owner" /\ http'[c].stage # "closed"
  BY <1>10
<1>12. /\ http'[c].stage = "owner" => http'[c].route = "cancel"
       /\ http'[c].stage = "handler" => HandlerOK(http[c], calls[c])'
       /\ http'[c].route \in DOMAIN Decision
            /\ http'[c].status \in {200, 201} =>
              /\ calls'[c].pc = "done" /\ calls'[c].op = http'[c].route
              /\ calls'[c].reply \in {"OK", "CACHED"}
       /\ http'[c].stage = "closed" /\ http'[c].user # NoUser =>
              AnsweredOK(http[c])'
  BY ONLY <1>8, <1>10, <1>11
<1> QED
  BY ONLY <1>8, <1>9, <1>12 DEF TraceOK

LEMMA CreateTrace ==
  ASSUME Facts, TracesOK, ApiInv, [Next]_vars, NEW c \in Calls, NEW u \in Users,
         PostCreate(c, u)
  PROVE  TraceOK(c)'
<1>1. PICK cmd \in Commands : CreateFindsKey(c, cmd) \/ CreateStarts(c, cmd)
  BY DEF PostCreate
<1>2. /\ calls'[c].op = "create" /\ calls'[c].pc # "idle"
      /\ calls'[c].reply # "NOT_FOUND"
  BY <1>1, CreateBegins DEF Facts, ServiceInv
<1>3. PICK e : e = http'[c]
  OBVIOUS
<1>4. IsNow(e, u, "create", "handler", NoRequest, 0, {})
  BY <1>3, OpensIs DEF PostCreate
<1>5. HandlerOK(e, calls'[c])
  BY <1>2, <1>4 DEF HandlerOK, IsNow, Handled
<1>6. "create" \in Handled
  BY DEF Handled
<1> QED
  BY <1>3, <1>4, <1>5, <1>6, StartedTrace

LEMMA SyncTrace ==
  ASSUME Facts, TracesOK, ApiInv, [Next]_vars, NEW c \in Calls, NEW u \in Users,
         PostSync(c, u)
  PROVE  TraceOK(c)'
<1>1. PICK exported \in SUBSET HcmRows : SyncStarts(c, exported)
  BY DEF PostSync
<1>2. /\ calls'[c].op = "sync" /\ calls'[c].pc # "idle"
      /\ calls'[c].reply # "NOT_FOUND"
  BY <1>1 DEF SyncStarts, NewCall, Facts, ServiceInv, CallsOK
<1>3. PICK e : e = http'[c]
  OBVIOUS
<1>4. IsNow(e, u, "sync", "handler", NoRequest, 0, {})
  BY <1>3, OpensIs DEF PostSync
<1>5. HandlerOK(e, calls'[c])
  BY <1>2, <1>4 DEF HandlerOK, IsNow, Handled
<1>6. "sync" \in Handled
  BY DEF Handled
<1> QED
  BY <1>3, <1>4, <1>5, <1>6, StartedTrace

LEMMA DecisionTrace ==
  ASSUME Facts, TracesOK, ApiInv, [Next]_vars, NEW c \in Calls, NEW u \in Users,
         NEW r \in Requests, PatchApprove(c, u, r) \/ PatchReject(c, u, r)
  PROVE  TraceOK(c)'
<1>1. PICK route \in {"approve", "reject"}, pc \in Places \ {"idle"} :
        /\ Begin(c, route, r, {"PENDING"}, pc)
        /\ Opens(c, u, route, "handler", r)
  BY DEF PatchApprove, PatchReject, ApproveStarts, RejectStarts, Places
<1>2. PICK refusal : refusal = StartRefusal(r, {"PENDING"})
  OBVIOUS
<1>3. /\ calls'[c].op = route /\ calls'[c].pc # "idle"
      /\ calls'[c].reply = refusal
      /\ refusal # "none" => calls'[c].pc = "done"
  BY <1>1, <1>2, BeginAnswers DEF Facts, ServiceInv
<1>4. PICK e : e = http'[c]
  OBVIOUS
<1>5. IsNow(e, u, route, "handler", r, 0, {})
  BY <1>1, <1>4, OpensIs
<1>6. ASSUME NEW t \in Told, t[1] = r
      PROVE  /\ refusal # "NOT_FOUND"
             /\ t[2] # "PENDING" => refusal = "INVALID_STATE"
  <2>1. /\ r \in DOMAIN requests
        /\ t[2] # "PENDING" => requests[r].status # "PENDING"
    BY <1>6, ToldHolds, HoldsMeans
  <2> QED
    BY <1>2, <2>1 DEF StartRefusal
<1>7. HandlerOK(e, calls'[c])
  <2>1. /\ e.route = route /\ e.about = r /\ e.told = Told
    BY <1>5 DEF IsNow
  <2> QED
    BY <1>3, <1>6, <2>1 DEF HandlerOK, Handled
<1>8. route \in Handled
  BY DEF Handled
<1> QED
  BY <1>4, <1>5, <1>7, <1>8, StartedTrace

LEMMA CancelTraces ==
  ASSUME Facts, TracesOK, ApiInv, NEW c \in Calls, NEW u \in Users,
         NEW r \in Requests, PatchCancel(c, u, r), MayTouch(u, r) = 0
  PROVE  TraceOK(c)'
<1>1. PICK e : e = http'[c]
  OBVIOUS
<1>2. IsNow(e, u, "cancel", "owner", r, 0, {}) /\ UNCHANGED vars
  BY <1>1, OpensIs DEF PatchCancel
<1>3. "cancel" \in Routes \ {"report"} /\ 0 \in Codes
  BY DEF Routes, RequestRoutes, Codes
<1>4. FieldsOK(e)
  BY <1>2, <1>3 DEF IsNow, FieldsOK
<1>5. ReportOK(e)
  BY <1>2 DEF IsNow, ReportOK
<1>6. \A t \in e.told : Holds(t)
  BY <1>2, ToldHolds DEF IsNow
<1>7. e.stage = "owner" /\ e.route = "cancel" /\ e.status = 0
  BY <1>2 DEF IsNow
<1> QED
  BY <1>1, <1>2, <1>4, <1>5, <1>6, <1>7, Unmoved

LEMMA CancelGoesTrace ==
  ASSUME Facts, TracesOK, ApiInv, [Next]_vars, NEW c \in Calls, CancelGoesOn(c)
  PROVE  TraceOK(c)'
<1>1. PICK f, e : f = http[c] /\ e = http'[c]
  OBVIOUS
<1>2. IsExchange(f) /\ c \in DOMAIN http
  BY <1>1 DEF ApiInv, ExchangeOK
<1>3. e = [f EXCEPT !.stage = "handler"]
  BY <1>1, <1>2 DEF CancelGoesOn
<1>4. /\ e.user = f.user /\ e.route = f.route /\ e.stage = "handler"
      /\ e.about = f.about /\ e.told = f.told /\ e.status = f.status
      /\ e.shown = f.shown /\ e.events = f.events
  BY <1>2, <1>3 DEF IsExchange
<1>5. /\ FieldsOK(f) /\ ReportOK(f) /\ \A t \in f.told : Holds(t)
      /\ f.stage = "owner" /\ f.route = "cancel"
  BY <1>1 DEF TracesOK, TraceOK, CancelGoesOn
<1>6. PICK r : r = f.about
  OBVIOUS
<1>a. CancelStarts(c, r) \/ CancelCallsHcm(c, r)
  BY <1>1, <1>6 DEF CancelGoesOn
<1>b. \E pc \in Places \ {"idle"} : \E allowed : Begin(c, "cancel", r, allowed, pc)
  BY <1>a DEF CancelStarts, CancelCallsHcm, Places
<1>c. PICK pc \in Places \ {"idle"} : \E allowed : Begin(c, "cancel", r, allowed, pc)
  BY <1>b
<1>d. PICK allowed : Begin(c, "cancel", r, allowed, pc)
  BY <1>c
<1>7. PICK refusal : refusal = StartRefusal(r, allowed)
  OBVIOUS
<1>8. /\ calls'[c].op = "cancel" /\ calls'[c].pc # "idle"
      /\ calls'[c].reply = refusal
  BY <1>d, <1>7, BeginAnswers DEF Facts, ServiceInv
<1>9. ASSUME NEW t \in f.told, t[1] = r PROVE refusal # "NOT_FOUND"
  <2>1. r \in DOMAIN requests
    BY <1>5, <1>9, HoldsMeans
  <2> QED
    BY <1>7, <2>1 DEF StartRefusal
<1>10. HandlerOK(e, calls'[c])
  BY <1>4, <1>5, <1>6, <1>8, <1>9 DEF HandlerOK, Handled
<1>11. FieldsOK(e)'
  <2>1. DOMAIN outbox \subseteq DOMAIN outbox'
    BY LogsGrow DEF Facts
  <2> QED
    BY <1>4, <1>5, <2>1 DEF FieldsOK
<1>12. ReportOK(e)'
  BY <1>4, <1>5 DEF ReportOK
<1>13. \A t \in e.told : Holds(t)'
  BY <1>4, <1>5, HoldsStays
<1>14. e.status = 0
  BY <1>4, <1>5 DEF FieldsOK
<1> QED
  BY <1>1, <1>4, <1>10, <1>11, <1>12, <1>13, <1>14 DEF TraceOK

(* The answer of a handler. *)
LEMMA AnswerTrace ==
  ASSUME Facts, TracesOK, ApiInv, NEW c \in Calls, Answer(c)
  PROVE  TraceOK(c)'
<1>1. PICK f, e : f = http[c] /\ e = http'[c]
  OBVIOUS
<1>2. PICK status, reply :
        /\ reply = calls[c].reply
        /\ status = IF reply \in {"OK", "CACHED"} THEN SuccessStatus(f.route)
                                                  ELSE ErrorStatus(reply)
  OBVIOUS
<1>3. IsExchange(f) /\ c \in DOMAIN http
  BY <1>1 DEF ApiInv, ExchangeOK
<1>4. e = [f EXCEPT !.stage = "closed", !.status = status]
  BY <1>1, <1>2, <1>3 DEF Answer, Succeeded
<1>5. /\ e.user = f.user /\ e.route = f.route /\ e.stage = "closed"
      /\ e.about = f.about /\ e.told = f.told /\ e.status = status
      /\ e.shown = f.shown /\ e.events = f.events
  BY <1>3, <1>4 DEF IsExchange
<1>6. /\ FieldsOK(f) /\ ReportOK(f) /\ \A t \in f.told : Holds(t)
      /\ HandlerOK(f, calls[c]) /\ calls[c].pc = "done"
  BY <1>1 DEF TracesOK, TraceOK, Answer
<1>7. /\ f.route \in Handled /\ calls[c].op = f.route
      /\ \A t \in f.told : t[1] = f.about =>
           /\ reply # "NOT_FOUND"
           /\ f.route \in {"approve", "reject"} /\ t[2] # "PENDING" =>
                reply = "INVALID_STATE"
  BY <1>2, <1>6 DEF HandlerOK
<1>8. /\ status \in Codes
      /\ status \in {200, 201} => reply \in {"OK", "CACHED"}
      /\ reply # "NOT_FOUND" => status # 404
      /\ reply = "INVALID_STATE" => status = 409
  BY <1>2 DEF SuccessStatus, ErrorStatus, Codes
<1>9. FieldsOK(e)
  BY <1>5, <1>6, <1>8 DEF FieldsOK
<1>10. f.route \notin {"report", "list", "show", "auditOf", "auditLog"}
  BY <1>7 DEF Handled
<1>11. ReportOK(e)
  BY <1>5, <1>10 DEF ReportOK
<1>12. ASSUME NEW t \in e.told PROVE AnswerRespects(e, t[1], t[2])
  <2>1. PICK r, told : r = t[1] /\ told = t[2]
    OBVIOUS
  <2>2. /\ e.about = r => status # 404
        /\ e.about = r /\ e.route \in {"approve", "reject"} /\ told # "PENDING" =>
             status = 409
    BY <1>5, <1>7, <1>8, <1>12, <2>1
  <2>3. AnswerRespects(e, r, told)
    BY <1>5, <1>10, <2>2 DEF AnswerRespects
  <2> QED
    BY <2>1, <2>3
<1>13. AnsweredOK(e)
  BY <1>5, <1>10, <1>12 DEF AnsweredOK
<1>14. UNCHANGED vars
  BY DEF Answer
<1>15. e.route \in DOMAIN Decision /\ e.status \in {200, 201} =>
         /\ calls[c].pc = "done" /\ calls[c].op = e.route
         /\ calls[c].reply \in {"OK", "CACHED"}
  BY <1>2, <1>5, <1>6, <1>7, <1>8
<1>16. \A t \in e.told : Holds(t)
  BY <1>5, <1>6
<1> QED
  BY <1>1, <1>5, <1>9, <1>11, <1>13, <1>14, <1>15, <1>16, Unmoved

-----------------------------------------------------------------------------
(* One client is served at a time. *)
LEMMA OneExchange ==
  ASSUME ApiInv, NEW c \in Calls,
         \/ Health(c) \/ RefusedAtTheDoor(c) \/ ReadFails(c)
         \/ CancelGoesOn(c) \/ ReportReadsEvents(c) \/ Answer(c)
         \/ \E u \in Users : Visits(c, u),
         NEW d \in Calls, d # c
  PROVE  http'[d] = http[d]
<1>0. DOMAIN http = Calls
  BY DEF ApiInv
<1>1. ASSUME NEW e, http' = [http EXCEPT ![c] = e] PROVE http'[d] = http[d]
  BY <1>0, <1>1
<1>2. CASE Health(c) \/ RefusedAtTheDoor(c) \/ ReadFails(c)
  BY <1>1, <1>2 DEF Health, RefusedAtTheDoor, ReadFails
<1>3. CASE CancelGoesOn(c) \/ ReportReadsEvents(c) \/ Answer(c)
  BY <1>0, <1>3 DEF CancelGoesOn, ReportReadsEvents, Answer
<1>4. ASSUME NEW u \in Users,
             \/ PostCreate(c, u) \/ CreateWithoutBalance(c, u) \/ PostSync(c, u)
             \/ ReportReadsBalances(c, u) \/ UnknownBalance(c, u)
             \/ GetAuditLogPart(c, u)
      PROVE  http'[d] = http[d]
  BY <1>1, <1>4 DEF PostCreate, CreateWithoutBalance, PostSync,
     ReportReadsBalances, UnknownBalance, GetAuditLogPart, Opens
<1>5. ASSUME NEW u \in Users,
             GetList(c, u) \/ GetBalances(c, u) \/ GetAuditLog(c, u)
      PROVE  http'[d] = http[d]
  BY <1>1, <1>5 DEF GetList, GetBalances, GetAuditLog, Shows, Closes
<1>6. ASSUME NEW u \in Users, NEW r \in Requests,
             \/ PatchApprove(c, u, r) \/ PatchReject(c, u, r)
             \/ PatchCancel(c, u, r)
      PROVE  http'[d] = http[d]
  BY <1>1, <1>6 DEF PatchApprove, PatchReject, PatchCancel, Opens, Closes
<1>7. ASSUME NEW u \in Users, NEW r \in Requests,
             GetRequest(c, u, r) \/ AuditOf(c, u, r)
      PROVE  http'[d] = http[d]
  BY <1>1, <1>7 DEF GetRequest, AuditOf, Shows, Closes
<1>8. ASSUME NEW u \in Users, NEW b \in Balances, GetBalance(c, u, b)
      PROVE  http'[d] = http[d]
  BY <1>1, <1>8 DEF GetBalance, Shows, Closes
<1> QED
  BY <1>2, <1>3, <1>4, <1>5, <1>6, <1>7, <1>8 DEF Visits

LEMMA TracesStep ==
  Facts /\ IInv /\ TracesOK /\ [ApiNext]_apiVars => TracesOK'
<1> SUFFICES ASSUME Facts, IInv, TracesOK, [ApiNext]_apiVars PROVE TracesOK'
  OBVIOUS
<1>1. [Next]_vars /\ ApiInv
  BY ApiStep DEF IInv
<1>2. ASSUME NEW d \in Calls, http'[d] = http[d] PROVE TraceOK(d)'
  BY <1>1, <1>2, TraceKept DEF TracesOK
<1>3. CASE UNCHANGED http
  BY <1>2, <1>3 DEF TracesOK
<1>4. CASE ApiCrash
  <2>1. 0 \in Codes
    BY DEF Codes
  <2>2. \A d \in Calls : http'[d] = Refused(0) \/ http'[d] = http[d]
    BY <1>4 DEF ApiCrash
  <2> QED
    BY <1>2, <2>1, <2>2, RefusedTrace DEF TracesOK
<1>5. ASSUME NEW c \in Calls,
             \/ Health(c) \/ RefusedAtTheDoor(c) \/ ReadFails(c)
             \/ CancelGoesOn(c) \/ ReportReadsEvents(c) \/ Answer(c)
             \/ \E u \in Users : Visits(c, u)
      PROVE  TracesOK'
  <2>1. ASSUME NEW u \in Users, Visits(c, u) PROVE TraceOK(c)'
    BY <1>1, <2>1, RefusalTraces, CreateTrace, SyncTrace, QueryTraces,
       ReportBegins, DecisionTrace, CancelTraces, TouchTraces DEF Visits
  <2>2. TraceOK(c)'
    BY <1>1, <1>5, <2>1, RefusalTraces, CancelGoesTrace, ReportEnds,
       AnswerTrace
  <2> QED
    BY <1>1, <1>2, <1>5, <2>2, OneExchange DEF TracesOK
<1> QED
  BY <1>3, <1>4, <1>5 DEF ApiNext, Continues, apiVars

LEMMA TracesInit == ApiInit => TracesOK
<1> SUFFICES ASSUME ApiInit, NEW c \in Calls PROVE TraceOK(c)
  BY DEF TracesOK
<1>1. PICK e : e = http[c]
  OBVIOUS
<1>2. /\ e.user = NoUser /\ e.route = "none" /\ e.stage = "off"
      /\ e.about = NoRequest /\ e.told = {} /\ e.status = 0
      /\ e.shown = {} /\ e.events = {}
  BY <1>1 DEF ApiInit, NoExchange
<1>3. FieldsOK(e) /\ ReportOK(e) /\ e.route \notin DOMAIN Decision
  BY <1>2 DEF FieldsOK, ReportOK, Codes, Decision
<1> QED
  BY <1>1, <1>2, <1>3 DEF TraceOK

LEMMA TracesInvariant == ApiSpec => [](Facts /\ IInv /\ TracesOK)
<1>1. Facts /\ IInv /\ TracesOK /\ [ApiNext]_apiVars => TracesOK'
  BY TracesStep
<1> QED
  BY <1>1, TracesInit, ApiIsService, ApiInvariant, FactsInvariant, PTL
     DEF ApiSpec

(* What an exchange and its handler are, whoever asks what: a handler runs *)
(* for the exchanges that wait for one and for no other, also when clients *)
(* are refused, the database does not answer or the process dies.          *)
THEOREM ApiTypes == ApiSpec => []ApiTypeOK
<1>1. TypeOK /\ Facts /\ IInv /\ TracesOK => ApiTypeOK
  <2> SUFFICES ASSUME TypeOK, Facts, IInv, TracesOK, NEW c \in Calls
               PROVE  /\ DOMAIN http = Calls
                      /\ http[c].user \in Users \cup {NoUser}
                      /\ http[c].route \in Routes \cup {"none"}
                      /\ http[c].stage \in Stages
                      /\ http[c].status \in Codes
                      /\ http[c].about \in Requests \cup Balances \cup {NoRequest}
                      /\ http[c].told \subseteq Requests \X Statuses
                      /\ http[c].events \subseteq DOMAIN outbox
                      /\ http[c].stage = "handler" => calls[c].pc # "idle"
                      /\ Running(c) => http[c].stage = "handler"
    BY DEF ApiTypeOK, Codes, IInv, ApiInv
  <2>1. DOMAIN http = Calls /\ ExchangeOK(c) /\ TraceOK(c)
    BY DEF IInv, ApiInv, TracesOK
  <2>2. PICK e : e = http[c]
    OBVIOUS
  <2>3. IsExchange(e) /\ FieldsOK(e) /\ \A t \in e.told : Holds(t)
    BY <2>1, <2>2 DEF ExchangeOK, TraceOK
  <2>4. e.user \in Users \cup {NoUser} /\ e.stage \in Stages
    BY <2>3 DEF IsExchange
  <2>5. e.told \subseteq Requests \X Statuses
    BY <2>3, HoldsMeans
  <2>6. http[c].stage = "handler" => calls[c].pc # "idle"
    BY <2>1 DEF TraceOK, HandlerOK
  <2>7. Running(c) => http[c].stage = "handler"
    BY <2>1 DEF ExchangeOK
  <2> QED
    BY <2>1, <2>2, <2>3, <2>4, <2>5, <2>6, <2>7 DEF FieldsOK
<1> QED
  BY <1>1, TracesInvariant, TypeCorrect, ApiIsService, PTL

(* What somebody was told before an exchange began is so in its answer: in *)
(* the lists, in the audit trail and in what a second decision is answered.*)
(* It has to be known while the handler runs as well: a decision on a      *)
(* request that was told to be decided has been refused before its handler *)
(* does anything.                                                          *)
THEOREM AnswersRespected == ApiSpec => []AnswersRespectEarlierOnes
<1>1. TracesOK => AnswersRespectEarlierOnes
  BY DEF TracesOK, TraceOK, AnsweredOK, AnswersRespectEarlierOnes
<1> QED
  BY <1>1, TracesInvariant, PTL

(* A report that counts failed rows lists drift, although the rows are     *)
(* read before the events: the sync that marks a row as failed publishes   *)
(* its event in the same transaction, and events stay.                     *)
THEOREM ReportsExplain == ApiSpec => []ReportExplainsFailures
<1>1. TracesOK => ReportExplainsFailures
  BY DEF TracesOK, TraceOK, ReportOK, ReportExplainsFailures
<1> QED
  BY <1>1, TracesInvariant, PTL
=============================================================================
