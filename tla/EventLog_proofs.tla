--------------------------- MODULE EventLog_proofs ---------------------------
(***************************************************************************)
(* What the event log of TimeOffService tells about the requests, for any  *)
(* number of handlers: statuses, decisions, periods and balance rows; and  *)
(* that TimeOffService implements LeaveBook.                               *)
(***************************************************************************)
EXTENDS TimeOffService_proofs

(* Every step either leaves the tables alone or is one of these.           *)
Writes(c) ==
  \/ \E r \in Requests : CreateCommits(c, r)
  \/ ApproveMarksSyncFailed(c)
  \/ ApproveCommits(c)
  \/ RejectCommits(c)
  \/ CancelCommits(c)
  \/ SyncCommits(c)

LEMMA StepCases ==
  ASSUME [Next]_vars
  PROVE  UNCHANGED tables \/ \E c \in Calls : Writes(c)
<1>1. ASSUME NEW c \in Calls, Arrives(c) PROVE UNCHANGED tables
  BY <1>1 DEF Arrives, CreateFindsKey, CreateStarts, ApproveStarts,
       RejectStarts, CancelStarts, CancelCallsHcm, SyncStarts
<1>2. ASSUME NEW c \in Calls, Proceeds(c)
      PROVE  UNCHANGED tables \/ Writes(c)
  BY <1>2 DEF Writes, Proceeds, CreateChecksBalance, CreateIsRefused,
       ApproveRefusesBalance, ApproveCallsHcm, ApproveHearsFromHcm,
       ApproveMarkFails, ApproveIsRefused, RejectIsRefused,
       CancelHearsFromHcm, CancelIsRefused, TransactionAborts
<1>3. HcmActs \/ Crash \/ UNCHANGED vars => UNCHANGED tables
  BY DEF HcmActs, Crash, vars
<1> QED
  BY <1>1, <1>2, <1>3 DEF Next

(* What the three decisions have in common. *)
Decides(r, old, new, type) ==
  /\ r \in DOMAIN requests
  /\ requests[r].status = old
  /\ SetStatus(r, new)
  /\ outbox' = Append(outbox, Event(type, r))
  /\ UNCHANGED idemKeys

LEMMA ApproveDecides ==
  ASSUME CallsOK, NEW c \in Calls, ApproveCommits(c)
  PROVE  Decides(calls[c].request, "PENDING", "APPROVED",
                 "TIME_OFF_APPROVED")
<1>1. calls[c].request \in DOMAIN requests
  BY DEF ApproveCommits, At, CallsOK, CallOK, Running, OnRequest
<1>2. requests[calls[c].request].status = "PENDING"
  BY DEF ApproveCommits, ApproveRefusal
<1> QED
  BY <1>1, <1>2 DEF ApproveCommits, Decides, Publish

LEMMA RejectDecides ==
  ASSUME CallsOK, NEW c \in Calls, RejectCommits(c)
  PROVE  Decides(calls[c].request, "PENDING", "REJECTED",
                 "TIME_OFF_REJECTED")
<1>1. calls[c].request \in DOMAIN requests
  BY DEF RejectCommits, At, CallsOK, CallOK, Running, OnRequest
<1>2. requests[calls[c].request].status = "PENDING"
  BY DEF RejectCommits, RejectRefusal
<1> QED
  BY <1>1, <1>2 DEF RejectCommits, Decides, Publish

LEMMA CancelDecides ==
  ASSUME CallsOK, NEW c \in Calls, CancelCommits(c)
  PROVE  LET r == calls[c].request
         IN  /\ requests[r].status \in {"PENDING", "APPROVED"}
             /\ Decides(r, requests[r].status, "CANCELLED",
                        "TIME_OFF_CANCELLED")
<1>1. calls[c].request \in DOMAIN requests
  BY DEF CancelCommits, At, CallsOK, CallOK, Running, OnRequest
<1>2. requests[calls[c].request].status \in {"PENDING", "APPROVED"}
  BY DEF CancelCommits, CancelRefusal, Live
<1> QED
  BY <1>1, <1>2 DEF CancelCommits, Decides, Publish

-----------------------------------------------------------------------------
(* An event that is appended is logged, and what was logged stays.         *)
LEMMA LoggedAppend ==
  ASSUME outbox \in Seq(Events), NEW e, outbox' = Append(outbox, e)
  PROVE  \A type, r : Logged(type, r)' <=> Logged(type, r) \/ e = Event(type, r)
<1> SUFFICES ASSUME NEW type, NEW r
             PROVE  Logged(type, r)' <=>
                      Logged(type, r) \/ e = Event(type, r)
  OBVIOUS
<1>1. /\ Len(outbox) \in Nat
      /\ DOMAIN outbox = 1..Len(outbox)
      /\ DOMAIN outbox' = 1..(Len(outbox) + 1)
      /\ outbox'[Len(outbox) + 1] = e
      /\ \A i \in 1..Len(outbox) : outbox'[i] = outbox[i]
  OBVIOUS
<1>2. ASSUME Logged(type, r)' PROVE Logged(type, r) \/ e = Event(type, r)
  <2>1. PICK i \in DOMAIN outbox' : outbox'[i] = Event(type, r)
    BY <1>2 DEF Logged, Event
  <2>2. i \in 1..Len(outbox) \/ i = Len(outbox) + 1
    BY <1>1
  <2> QED
    BY <1>1, <2>1, <2>2 DEF Logged
<1>3. ASSUME Logged(type, r) PROVE Logged(type, r)'
  <2>1. PICK i \in DOMAIN outbox : outbox[i] = Event(type, r)
    BY <1>3 DEF Logged
  <2>2. i \in DOMAIN outbox' /\ outbox'[i] = Event(type, r)
    BY <1>1, <2>1
  <2> QED
    BY <2>2 DEF Logged, Event
<1>4. ASSUME e = Event(type, r) PROVE Logged(type, r)'
  <2>1. Len(outbox) + 1 \in DOMAIN outbox'
    BY <1>1
  <2> QED
    BY <1>1, <1>4, <2>1 DEF Logged, Event
<1> QED
  BY <1>2, <1>3, <1>4

LEMMA EventsDiffer ==
  \A t1, r1, t2, r2 : Event(t1, r1) = Event(t2, r2) <=> t1 = t2 /\ r1 = r2
<1> SUFFICES ASSUME NEW t1, NEW r1, NEW t2, NEW r2
             PROVE  Event(t1, r1) = Event(t2, r2) <=> t1 = t2 /\ r1 = r2
  OBVIOUS
<1>1. Event(t1, r1).type = t1 /\ Event(t1, r1).aggregate = r1
  BY DEF Event
<1>2. Event(t2, r2).type = t2 /\ Event(t2, r2).aggregate = r2
  BY DEF Event
<1> QED
  BY <1>1, <1>2

(* A sync appends one or two events, none of them about a request. *)
LEMMA SyncLogs ==
  ASSUME outbox \in Seq(Events), NEW c \in Calls, SyncCommits(c)
  PROVE  \A type \in RequestEvents : \A r : Logged(type, r)' <=> Logged(type, r)
<1> DEFINE e1 == Event("BALANCE_SYNCED", System)
           e2 == Event("BALANCE_DRIFT_DETECTED", System)
<1>1. e1 \in Events /\ e2 \in Events
  BY DEF Event, Events, SystemEvents
<1>2. \A type \in RequestEvents : \A r : e1 # Event(type, r) /\ e2 # Event(type, r)
  BY EventsDiffer DEF RequestEvents
<1>3. CASE outbox' = Append(outbox, e1)
  <2> HIDE DEF e1
  <2> QED
    BY <1>2, <1>3, LoggedAppend
<1>4. CASE outbox' = Append(Append(outbox, e1), e2)
  <2> SUFFICES ASSUME NEW type \in RequestEvents, NEW r
               PROVE  Logged(type, r)' <=> Logged(type, r)
    OBVIOUS
  <2> HIDE DEF e1, e2
  <2>1. /\ Len(outbox) \in Nat
        /\ DOMAIN outbox = 1..Len(outbox)
        /\ DOMAIN outbox' = 1..(Len(outbox) + 2)
        /\ outbox'[Len(outbox) + 1] = e1
        /\ outbox'[Len(outbox) + 2] = e2
        /\ \A i \in 1..Len(outbox) : outbox'[i] = outbox[i]
    BY <1>1, <1>4
  <2>2. ASSUME Logged(type, r)' PROVE Logged(type, r)
    <3>1. PICK i \in DOMAIN outbox' : outbox'[i] = Event(type, r)
      BY <2>2 DEF Logged, Event
    <3>2. i \in 1..Len(outbox)
      BY <1>2, <2>1, <3>1
    <3> QED
      BY <2>1, <3>1, <3>2 DEF Logged
  <2>3. ASSUME Logged(type, r) PROVE Logged(type, r)'
    <3>1. PICK i \in DOMAIN outbox : outbox[i] = Event(type, r)
      BY <2>3 DEF Logged
    <3>2. i \in DOMAIN outbox' /\ outbox'[i] = Event(type, r)
      BY <2>1, <3>1
    <3> QED
      BY <3>2 DEF Logged, Event
  <2> QED
    BY <2>2, <2>3
<1> QED
  BY <1>3, <1>4 DEF SyncCommits

-----------------------------------------------------------------------------
(* The events of a request tell one story, and its status is where the     *)
(* story ends.  A request that does not exist has no events: without that  *)
(* a new one could start with a decision already logged.                   *)
LogOK(r) ==
  /\ r \in DOMAIN requests =>
       /\ Logged("TIME_OFF_REQUESTED", r)
       /\ requests[r].status \in {LogStatus(r), "SYNC_FAILED"}
  /\ r \notin DOMAIN requests =>
       \A type \in RequestEvents : ~ Logged(type, r)
  /\ Logged("TIME_OFF_REJECTED", r) =>
       ~ Logged("TIME_OFF_APPROVED", r) /\ ~ Logged("TIME_OFF_CANCELLED", r)

NoEventTwice ==
  \A i, j \in DOMAIN outbox :
    outbox[i] = outbox[j] /\ i # j => outbox[i].aggregate = System

LogInv == NoEventTwice /\ \A r \in Requests : LogOK(r)

LEMMA AppendOnce ==
  ASSUME outbox \in Seq(Events), NoEventTwice, NEW type, NEW r,
         r = System \/ ~ Logged(type, r),
         outbox' = Append(outbox, Event(type, r))
  PROVE  NoEventTwice'
<1> DEFINE e == Event(type, r)
<1>1. /\ Len(outbox) \in Nat
      /\ DOMAIN outbox = 1..Len(outbox)
      /\ DOMAIN outbox' = 1..(Len(outbox) + 1)
      /\ outbox'[Len(outbox) + 1] = e
      /\ \A i \in 1..Len(outbox) : outbox'[i] = outbox[i]
  OBVIOUS
<1>2. e.aggregate = r
  BY DEF Event
<1>3. r # System => \A i \in 1..Len(outbox) : outbox[i] # e
  BY <1>1 DEF Logged
<1> SUFFICES ASSUME NEW i \in DOMAIN outbox', NEW j \in DOMAIN outbox',
                    outbox'[i] = outbox'[j], i # j
             PROVE  outbox'[i].aggregate = System
  BY DEF NoEventTwice
<1> HIDE DEF e
<1>4. CASE i \in 1..Len(outbox) /\ j \in 1..Len(outbox)
  BY <1>1, <1>4 DEF NoEventTwice
<1>5. CASE i = Len(outbox) + 1 \/ j = Len(outbox) + 1
  BY <1>1, <1>2, <1>3, <1>5
<1> QED
  BY <1>1, <1>4, <1>5

LEMMA CreateTells ==
  ASSUME TablesOK, LogInv, NEW c \in Calls, NEW r \in Requests,
         CreateCommits(c, r)
  PROVE  LogInv'
<1>1. /\ r \notin DOMAIN requests
      /\ DOMAIN requests' = DOMAIN requests \cup {r}
      /\ requests'[r].status = "PENDING"
      /\ \A q \in DOMAIN requests : requests'[q] = requests[q]
      /\ outbox' = Append(outbox, Event("TIME_OFF_REQUESTED", r))
  BY DEF CreateCommits, Publish
<1>2. \A type, q : Logged(type, q)' <=>
        Logged(type, q) \/ (type = "TIME_OFF_REQUESTED" /\ q = r)
  BY <1>1, LoggedAppend, EventsDiffer DEF TablesOK
<1>3. \A type \in RequestEvents : ~ Logged(type, r)
  BY <1>1 DEF LogInv, LogOK
<1>4. NoEventTwice'
  BY <1>1, <1>3, AppendOnce DEF LogInv, TablesOK, RequestEvents
<1>5. ASSUME NEW q \in Requests PROVE LogOK(q)'
  <2>1. LogOK(q)
    BY DEF LogInv
  <2>2. LogStatus(q)' = LogStatus(q)
    BY <1>2 DEF LogStatus
  <2>3. CASE q = r
    <3>1. LogStatus(r) = "PENDING"
      BY <1>3 DEF LogStatus, RequestEvents
    <3> QED
      BY <1>1, <1>2, <1>3, <2>2, <2>3, <3>1 DEF LogOK, RequestEvents
  <2>4. CASE q # r
    BY <1>1, <1>2, <2>1, <2>2, <2>4 DEF LogOK
  <2> QED
    BY <2>3, <2>4
<1> QED
  BY <1>4, <1>5 DEF LogInv

(* The status a decision is made on is the one the events tell: it is not  *)
(* SYNC_FAILED.  So none of the decisions it excludes has been logged.     *)
LEMMA DecisionIsNew ==
  ASSUME TablesOK, LogInv, NEW r, NEW old \in {"PENDING", "APPROVED"},
         NEW new, NEW type, Decides(r, old, new, type)
  PROVE  /\ r \in Requests /\ LogStatus(r) = old
         /\ ~ Logged("TIME_OFF_CANCELLED", r)
         /\ ~ Logged("TIME_OFF_REJECTED", r)
         /\ Logged("TIME_OFF_APPROVED", r) <=> old = "APPROVED"
<1>1. r \in Requests /\ LogOK(r)
  BY DEF Decides, TablesOK, LogInv
<1>2. LogStatus(r) = old
  BY <1>1 DEF Decides, LogOK
<1> QED
  BY <1>1, <1>2 DEF LogStatus

Decisions ==
  {<<"PENDING", "APPROVED", "TIME_OFF_APPROVED">>,
   <<"PENDING", "REJECTED", "TIME_OFF_REJECTED">>,
   <<"PENDING", "CANCELLED", "TIME_OFF_CANCELLED">>,
   <<"APPROVED", "CANCELLED", "TIME_OFF_CANCELLED">>}

LEMMA DecisionTells ==
  ASSUME TablesOK, LogInv, NEW r, NEW old, NEW new, NEW type,
         <<old, new, type>> \in Decisions, Decides(r, old, new, type)
  PROVE  /\ LogInv'
         /\ DOMAIN requests' = DOMAIN requests
         /\ LogStatus(r)' = new
         /\ \A q \in Requests : q # r => LogStatus(q)' = LogStatus(q)
         /\ \A t, q : Logged(t, q)' <=>
              Logged(t, q) \/ (t = type /\ q = r)
<1>0. old \in {"PENDING", "APPROVED"} /\ type \in RequestEvents
  BY DEF Decisions, RequestEvents
<1>1. /\ r \in DOMAIN requests
      /\ DOMAIN requests' = DOMAIN requests
      /\ requests'[r].status = new
      /\ \A q \in DOMAIN requests : q # r => requests'[q] = requests[q]
      /\ outbox' = Append(outbox, Event(type, r))
  BY DEF Decides, SetStatus, TablesOK, RequestRow
<1>2. \A t, q : Logged(t, q)' <=> Logged(t, q) \/ (t = type /\ q = r)
  BY <1>1, LoggedAppend, EventsDiffer DEF TablesOK
<1>3. /\ r \in Requests
      /\ ~ Logged("TIME_OFF_CANCELLED", r)
      /\ ~ Logged("TIME_OFF_REJECTED", r)
      /\ Logged("TIME_OFF_APPROVED", r) <=> old = "APPROVED"
  BY <1>0, DecisionIsNew
<1>4. ~ Logged(type, r)
  BY <1>3 DEF Decisions
<1>5. NoEventTwice'
  BY <1>1, <1>4, AppendOnce DEF LogInv, TablesOK
<1>6. LogStatus(r)' = new
  BY <1>2, <1>3 DEF LogStatus, Decisions
<1>7. \A q \in Requests : q # r => LogStatus(q)' = LogStatus(q)
  BY <1>2 DEF LogStatus
<1>8. ASSUME NEW q \in Requests PROVE LogOK(q)'
  <2>1. LogOK(q)
    BY DEF LogInv
  <2>2. CASE q = r
    BY <1>1, <1>2, <1>3, <1>6, <2>1, <2>2 DEF LogOK, Decisions
  <2>3. CASE q # r
    BY <1>1, <1>2, <1>7, <2>1, <2>3 DEF LogOK
  <2> QED
    BY <2>2, <2>3
<1> QED
  BY <1>1, <1>2, <1>5, <1>6, <1>7, <1>8 DEF LogInv

(* The update of the catch block writes the one status no event tells.     *)
LEMMA MarkTells ==
  ASSUME TablesOK, CallsOK, LogInv, NEW c \in Calls, ApproveMarksSyncFailed(c)
  PROVE  LogInv'
<1> DEFINE r == calls[c].request
<1>1. r \in DOMAIN requests
  BY DEF ApproveMarksSyncFailed, At, CallsOK, CallOK, Running, OnRequest
<1>2. /\ DOMAIN requests' = DOMAIN requests
      /\ requests'[r].status = "SYNC_FAILED"
      /\ \A q \in DOMAIN requests : q # r => requests'[q] = requests[q]
      /\ UNCHANGED outbox
  BY <1>1 DEF ApproveMarksSyncFailed, SetStatus, TablesOK, RequestRow
<1> HIDE DEF r
<1>3. \A type, q : Logged(type, q)' <=> Logged(type, q)
  BY <1>2 DEF Logged
<1>4. \A q : LogStatus(q)' = LogStatus(q)
  BY <1>3 DEF LogStatus
<1>5. ASSUME NEW q \in Requests PROVE LogOK(q)'
  BY <1>1, <1>2, <1>3, <1>4 DEF LogInv, LogOK
<1> QED
  BY <1>2, <1>5 DEF LogInv, NoEventTwice

LEMMA SyncTells ==
  ASSUME TablesOK, LogInv, NEW c \in Calls, SyncCommits(c)
  PROVE  LogInv'
<1>1. \A type \in RequestEvents : \A r : Logged(type, r)' <=> Logged(type, r)
  BY SyncLogs DEF TablesOK
<1>2. ASSUME NEW r \in Requests PROVE LogOK(r)'
  <2>1. LogStatus(r)' = LogStatus(r)
    BY <1>1 DEF LogStatus, RequestEvents
  <2>2. UNCHANGED requests
    BY DEF SyncCommits
  <2> QED
    BY <1>1, <2>1, <2>2 DEF LogInv, LogOK, RequestEvents
<1>3. \A i \in DOMAIN outbox' :
        \/ i \in DOMAIN outbox /\ outbox'[i] = outbox[i]
        \/ outbox'[i].aggregate = System
  <2> DEFINE e1 == Event("BALANCE_SYNCED", System)
             e2 == Event("BALANCE_DRIFT_DETECTED", System)
  <2>1. e1 \in Events /\ e2 \in Events
    BY DEF Event, Events, SystemEvents
  <2>2. e1.aggregate = System /\ e2.aggregate = System
    BY DEF Event
  <2>3. \/ outbox' = Append(outbox, e1)
        \/ outbox' = Append(Append(outbox, e1), e2)
    BY DEF SyncCommits
  <2>4. outbox \in Seq(Events)
    BY DEF TablesOK
  <2> HIDE DEF e1, e2
  <2>5. CASE outbox' = Append(outbox, e1)
    BY <2>1, <2>2, <2>4, <2>5
  <2>6. CASE outbox' = Append(Append(outbox, e1), e2)
    <3>1. /\ DOMAIN outbox = 1..Len(outbox) /\ Len(outbox) \in Nat
          /\ DOMAIN outbox' = 1..(Len(outbox) + 2)
          /\ outbox'[Len(outbox) + 1] = e1
          /\ outbox'[Len(outbox) + 2] = e2
          /\ \A i \in 1..Len(outbox) : outbox'[i] = outbox[i]
      BY <2>1, <2>4, <2>6
    <3> QED
      BY <2>2, <3>1
  <2> QED
    BY <2>3, <2>5, <2>6
<1>4. NoEventTwice'
  <2> SUFFICES ASSUME NEW i \in DOMAIN outbox', NEW j \in DOMAIN outbox',
                      outbox'[i] = outbox'[j], i # j
               PROVE  outbox'[i].aggregate = System
    BY DEF NoEventTwice
  <2> QED
    BY <1>3 DEF LogInv, NoEventTwice
<1> QED
  BY <1>2, <1>4 DEF LogInv

LEMMA LogInvStep ==
  ASSUME ServiceInv, LogInv, [Next]_vars
  PROVE  LogInv'
<1> USE DEF ServiceInv
<1>1. CASE UNCHANGED tables
  <2>1. UNCHANGED <<requests, outbox>>
    BY <1>1 DEF tables
  <2>2. \A type, q : Logged(type, q)' <=> Logged(type, q)
    BY <2>1 DEF Logged
  <2>3. \A q : LogStatus(q)' = LogStatus(q)
    BY <2>2 DEF LogStatus
  <2> QED
    BY <2>1, <2>2, <2>3 DEF LogInv, LogOK, NoEventTwice
<1>2. ASSUME NEW c \in Calls, Writes(c) PROVE LogInv'
  <2>1. ASSUME NEW r \in Requests, CreateCommits(c, r) PROVE LogInv'
    BY <2>1, CreateTells
  <2>2. CASE ApproveMarksSyncFailed(c)
    BY <2>2, MarkTells
  <2>3. CASE ApproveCommits(c)
    <3>1. Decides(calls[c].request, "PENDING", "APPROVED",
                  "TIME_OFF_APPROVED")
      BY <2>3, ApproveDecides
    <3> QED
      BY <3>1, DecisionTells DEF Decisions
  <2>4. CASE RejectCommits(c)
    <3>1. Decides(calls[c].request, "PENDING", "REJECTED",
                  "TIME_OFF_REJECTED")
      BY <2>4, RejectDecides
    <3> QED
      BY <3>1, DecisionTells DEF Decisions
  <2>5. CASE CancelCommits(c)
    <3> DEFINE r == calls[c].request
               old == requests[r].status
    <3>1. /\ old \in {"PENDING", "APPROVED"}
          /\ Decides(r, old, "CANCELLED", "TIME_OFF_CANCELLED")
      BY <2>5, CancelDecides
    <3>2. <<old, "CANCELLED", "TIME_OFF_CANCELLED">> \in Decisions
      BY <3>1 DEF Decisions
    <3> HIDE DEF r, old
    <3> QED
      BY <3>1, <3>2, DecisionTells
  <2>6. CASE SyncCommits(c)
    BY <2>6, SyncTells
  <2> QED
    BY <1>2, <2>1, <2>2, <2>3, <2>4, <2>5, <2>6 DEF Writes
<1> QED
  BY <1>1, <1>2, StepCases

LEMMA LogInvInit == Init => LogInv
<1> SUFFICES ASSUME Init PROVE LogInv
  OBVIOUS
<1>1. outbox = <<>> /\ DOMAIN outbox = {} /\ DOMAIN requests = {}
  BY DEF Init
<1> QED
  BY <1>1 DEF LogInv, LogOK, NoEventTwice, Logged

LEMMA LogInvariant == Spec => []LogInv
<1>1. ServiceInv /\ LogInv /\ [Next]_vars => LogInv'
  BY LogInvStep
<1> QED
  BY <1>1, LogInvInit, ServiceInvariant, PTL DEF Spec

-----------------------------------------------------------------------------
(* A request has the status its events tell, however approvals, rejections *)
(* and cancellations of it interleave; only the SYNC_FAILED update of the  *)
(* catch block of approve, which is not reported, can hide it.             *)
THEOREM StatusFollowsLog == Spec => []StatusMatchesLog
<1>1. ServiceInv /\ LogInv => StatusMatchesLog
  BY DEF ServiceInv, TablesOK, LogInv, LogOK, StatusMatchesLog
<1> QED
  BY <1>1, LogInvariant, ServiceInvariant, PTL

(* The status tests of the transactions admit one decision at a time: no   *)
(* event of a request is written twice, and none contradicts another.      *)
THEOREM EventsDoNotContradict == Spec => []NoContradictingEvents
<1>1. LogInv => NoContradictingEvents
  BY DEF LogInv, LogOK, NoEventTwice, NoContradictingEvents
<1> QED
  BY <1>1, LogInvariant, PTL

-----------------------------------------------------------------------------
(* Only a create adds to the active requests, and it has looked for every  *)
(* one that overlaps; the other steps can only take requests away.         *)
LEMMA ActiveOnlyShrink ==
  ASSUME ServiceInv, [Next]_vars,
         ~ \E c \in Calls, r \in Requests : CreateCommits(c, r)
  PROVE  /\ DOMAIN requests' = DOMAIN requests
         /\ \A r \in DOMAIN requests :
              /\ requests'[r].cmd = requests[r].cmd
              /\ requests'[r].status \in Live => requests[r].status \in Live
<1> USE DEF ServiceInv
<1>1. CASE UNCHANGED tables
  BY <1>1 DEF tables
<1>2. ASSUME NEW r, NEW old \in Live, NEW new, NEW type,
             Decides(r, old, new, type)
      PROVE  /\ DOMAIN requests' = DOMAIN requests
             /\ \A q \in DOMAIN requests :
                  /\ requests'[q].cmd = requests[q].cmd
                  /\ requests'[q].status \in Live => requests[q].status \in Live
  BY <1>2 DEF Decides, SetStatus, TablesOK, RequestRow
<1>3. ASSUME NEW c \in Calls, ApproveMarksSyncFailed(c)
      PROVE  /\ DOMAIN requests' = DOMAIN requests
             /\ \A q \in DOMAIN requests :
                  /\ requests'[q].cmd = requests[q].cmd
                  /\ requests'[q].status \in Live => requests[q].status \in Live
  BY <1>3 DEF ApproveMarksSyncFailed, SetStatus, TablesOK, RequestRow, Live
<1>4. ASSUME NEW c \in Calls, SyncCommits(c) PROVE UNCHANGED requests
  BY <1>4 DEF SyncCommits
<1>5. \A c \in Calls : /\ ApproveCommits(c) \/ RejectCommits(c) =>
                            \E r, new, type : Decides(r, "PENDING", new, type)
                       /\ CancelCommits(c) =>
                            \E r, type : \E old \in Live :
                              Decides(r, old, "CANCELLED", type)
  <2> TAKE c \in Calls
  <2>1. CASE ApproveCommits(c)
    BY <2>1, ApproveDecides DEF ApproveCommits, CancelCommits, At
  <2>2. CASE RejectCommits(c)
    BY <2>2, RejectDecides DEF RejectCommits, CancelCommits, At
  <2>3. CASE CancelCommits(c)
    BY <2>3, CancelDecides DEF Live, ApproveCommits, RejectCommits,
         CancelCommits, At
  <2> QED
    BY <2>1, <2>2, <2>3
<1>6. "PENDING" \in Live
  BY DEF Live
<1> QED
  BY <1>1, <1>2, <1>3, <1>4, <1>5, <1>6, StepCases DEF Writes

LEMMA BookingStep ==
  ASSUME ServiceInv, NoDoubleBooking, [Next]_vars
  PROVE  NoDoubleBooking'
<1> USE DEF ServiceInv
<1>1. CASE \E c \in Calls, r \in Requests : CreateCommits(c, r)
  <2>1. PICK c \in Calls, new \in Requests : CreateCommits(c, new)
    BY <1>1
  <2>2. PICK cmd : cmd = calls[c].cmd
    OBVIOUS
  <2>3. /\ new \notin DOMAIN requests
        /\ DOMAIN requests' = DOMAIN requests \cup {new}
        /\ requests'[new].cmd = cmd
        /\ \A q \in DOMAIN requests : requests'[q] = requests[q]
        /\ Overlapping(cmd) = {}
    BY <2>1, <2>2 DEF CreateCommits, CreateRefusal
  <2>4. cmd \in Commands
    BY <2>1, <2>2 DEF CallsOK, CallOK, CreateCommits, At, Running
  <2>5. ASSUME NEW r \in DOMAIN requests, requests[r].status \in Live,
               EmployeeLeave[requests[r].cmd.balance]
                 = EmployeeLeave[cmd.balance]
        PROVE  /\ \/ requests[r].cmd.to < cmd.from
                  \/ cmd.to < requests[r].cmd.from
               /\ (requests[r].cmd.from .. requests[r].cmd.to)
                    \cap (cmd.from .. cmd.to) = {}
    <3>1. ~ (/\ requests[r].cmd.from <= cmd.to
             /\ requests[r].cmd.to >= cmd.from)
      BY <2>3, <2>5 DEF Overlapping
    <3>2. /\ cmd.from \in Nat /\ cmd.to \in Nat
          /\ requests[r].cmd.from \in Nat /\ requests[r].cmd.to \in Nat
      BY <2>4, RequestTypes, CommandTypes
    <3> QED
      BY <3>1, <3>2
  <2> SUFFICES ASSUME NEW r \in DOMAIN requests', NEW s \in DOMAIN requests',
                      r # s, requests'[r].status \in Live,
                      requests'[s].status \in Live,
                      EmployeeLeave[requests'[r].cmd.balance]
                        = EmployeeLeave[requests'[s].cmd.balance]
               PROVE  /\ \/ requests'[r].cmd.to < requests'[s].cmd.from
                         \/ requests'[s].cmd.to < requests'[r].cmd.from
                      /\ (requests'[r].cmd.from .. requests'[r].cmd.to)
                           \cap (requests'[s].cmd.from .. requests'[s].cmd.to)
                           = {}
    BY DEF NoDoubleBooking, Period, OverBefore
  <2>6. CASE r \in DOMAIN requests /\ s \in DOMAIN requests
    BY <2>3, <2>6 DEF NoDoubleBooking, Period, OverBefore
  <2>7. CASE r = new
    BY <2>3, <2>5, <2>7
  <2>8. CASE s = new
    BY <2>3, <2>5, <2>8
  <2> QED
    BY <2>3, <2>6, <2>7, <2>8
<1>2. CASE ~ \E c \in Calls, r \in Requests : CreateCommits(c, r)
  BY <1>2, ActiveOnlyShrink DEF NoDoubleBooking, Period, OverBefore
<1> QED
  BY <1>1, <1>2

(* Active requests of an employee and leave type never share an instant,   *)
(* for any number of creates that run at once: the check for overlapping   *)
(* requests is part of the transaction that inserts the new one.           *)
THEOREM BookingsAreDisjoint == Spec => []NoDoubleBooking
<1>1. Init => NoDoubleBooking
  BY DEF Init, NoDoubleBooking
<1> QED
  BY <1>1, BookingStep, ServiceInvariant, PTL DEF Spec

-----------------------------------------------------------------------------
(* The balance rows agree with the log: the days reserved and used are     *)
(* those of the requests last reported as pending and approved.            *)

(* The sums are over finitely many requests. *)
LedgerInv == IsFiniteSet(DOMAIN requests) /\ LedgerMatchesLog

AllInv == ServiceInv /\ LogInv /\ LedgerInv

(* The days a row should hold for the requests that have a status. *)
Held(b, status) == TotalDays(LoggedOn(b, status), DaysAsked)

LEMMA LoggedOnFacts ==
  ASSUME ServiceInv, IsFiniteSet(DOMAIN requests), NEW b, NEW status
  PROVE  /\ IsFiniteSet(LoggedOn(b, status))
         /\ \A r \in DOMAIN requests : DaysAsked[r] \in Nat
         /\ \A r \in LoggedOn(b, status) : DaysAsked[r] \in Nat
<1>1. LoggedOn(b, status) \subseteq DOMAIN requests
  BY DEF LoggedOn
<1>2. \A r \in DOMAIN requests : DaysAsked[r] \in Nat
  BY RequestTypes DEF ServiceInv, DaysAsked
<1> QED
  BY <1>1, <1>2, FS_Subset

(* A step that reports nothing about a request and touches neither         *)
(* reserved nor used.                                                      *)
LEMMA LedgerKept ==
  ASSUME LedgerInv, DOMAIN requests' = DOMAIN requests,
         \A r \in DOMAIN requests : requests'[r].cmd = requests[r].cmd,
         \A r \in DOMAIN requests : LogStatus(r)' = LogStatus(r),
         \A b \in Balances : /\ balances'[b].reserved = balances[b].reserved
                             /\ balances'[b].used = balances[b].used
  PROVE  LedgerInv'
<1>1. DaysAsked' = DaysAsked
  BY DEF DaysAsked
<1>2. \A b, s : LoggedOn(b, s)' = LoggedOn(b, s)
  BY DEF LoggedOn
<1>3. ASSUME NEW b \in Balances
      PROVE  /\ balances'[b].reserved
                  = TotalDays(LoggedOn(b, "PENDING"), DaysAsked)'
             /\ balances'[b].used
                  = TotalDays(LoggedOn(b, "APPROVED"), DaysAsked)'
  <2>1. \A s : TotalDays(LoggedOn(b, s), DaysAsked)'
                 = TotalDays(LoggedOn(b, s), DaysAsked)
    BY <1>1, <1>2 DEF TotalDays, DayPairs
  <2> QED
    BY <2>1 DEF LedgerInv, LedgerMatchesLog
<1> QED
  BY <1>3 DEF LedgerInv, LedgerMatchesLog

(* A decision moves its request from one sum to another. *)
LEMMA DecisionMoves ==
  ASSUME ServiceInv, LogInv, IsFiniteSet(DOMAIN requests),
         NEW r, NEW old, NEW new, NEW type,
         <<old, new, type>> \in Decisions, Decides(r, old, new, type),
         NEW here, here = requests[r].cmd.balance,
         NEW n, n = requests[r].cmd.days
  PROVE  /\ DOMAIN requests' = DOMAIN requests
         /\ r \in DOMAIN requests /\ n \in Nat
         /\ \A b, s : Held(b, s) \in Nat
         /\ Held(here, old) >= n
         /\ Held(here, old)' = Held(here, old) - n
         /\ Held(here, new)' = Held(here, new) + n
         /\ \A b, s : b # here \/ s \notin {old, new} =>
              Held(b, s)' = Held(b, s)
<1>0. /\ DOMAIN requests' = DOMAIN requests
      /\ LogStatus(r)' = new
      /\ \A q \in Requests : q # r => LogStatus(q)' = LogStatus(q)
  BY DecisionTells DEF ServiceInv
<1>1. r \in DOMAIN requests /\ r \in Requests /\ LogStatus(r) = old
  <2>1. old \in {"PENDING", "APPROVED"}
    BY DEF Decisions
  <2> QED
    BY <2>1, DecisionIsNew DEF ServiceInv, Decides
<1>2. old # new
  BY DEF Decisions
<1>3. \A q \in DOMAIN requests : requests'[q].cmd = requests[q].cmd
  BY DEF Decides, SetStatus, ServiceInv, TablesOK, RequestRow
<1>4. DaysAsked' = DaysAsked
  BY <1>0, <1>3 DEF DaysAsked
<1>5. DaysAsked[r] = n /\ n \in Nat
  BY <1>1, RequestTypes DEF DaysAsked, ServiceInv
<1>6. \A q \in DOMAIN requests : q \in Requests
  BY DEF ServiceInv, TablesOK
<1>7. /\ r \in LoggedOn(here, old) /\ r \notin LoggedOn(here, new)
      /\ LoggedOn(here, old)' = LoggedOn(here, old) \ {r}
      /\ LoggedOn(here, new)' = LoggedOn(here, new) \cup {r}
      /\ \A b, s : b # here \/ s \notin {old, new} =>
           LoggedOn(b, s)' = LoggedOn(b, s)
  <2>1. r \in LoggedOn(here, old) /\ r \notin LoggedOn(here, new)
    BY <1>1, <1>2 DEF LoggedOn
  <2>2. LoggedOn(here, old)' = LoggedOn(here, old) \ {r}
    BY <1>0, <1>1, <1>2, <1>3, <1>6 DEF LoggedOn
  <2>3. LoggedOn(here, new)' = LoggedOn(here, new) \cup {r}
    BY <1>0, <1>1, <1>2, <1>3, <1>6 DEF LoggedOn
  <2>4. \A b, s : b # here \/ s \notin {old, new} =>
          LoggedOn(b, s)' = LoggedOn(b, s)
    BY <1>0, <1>1, <1>2, <1>3, <1>6 DEF LoggedOn
  <2> QED
    BY <2>1, <2>2, <2>3, <2>4
<1>8. \A b, s : Held(b, s)' = TotalDays(LoggedOn(b, s)', DaysAsked)
  BY <1>4 DEF Held, TotalDays, DayPairs
<1>9. \A b, s : /\ IsFiniteSet(LoggedOn(b, s))
                /\ \A q \in LoggedOn(b, s) : DaysAsked[q] \in Nat
  BY LoggedOnFacts
<1>10. \A b, s : Held(b, s) \in Nat
  BY <1>9, PairsAreFinite DEF Held
<1>11. Held(here, old) >= n /\ Held(here, old)' = Held(here, old) - n
  <2> DEFINE S == LoggedOn(here, old)
  <2>1. IsFiniteSet(S) /\ r \in S /\ \A q \in S : DaysAsked[q] \in Nat
    BY <1>7, <1>9
  <2>2. Held(here, old)' = TotalDays(S \ {r}, DaysAsked)
    BY <1>7, <1>8
  <2> HIDE DEF S
  <2>3. /\ TotalDays(S, DaysAsked) >= DaysAsked[r]
        /\ TotalDays(S \ {r}, DaysAsked)
             = TotalDays(S, DaysAsked) - DaysAsked[r]
    BY ONLY <2>1, TotalRemove
  <2> QED
    BY <1>5, <2>2, <2>3 DEF S, Held
<1>12. Held(here, new)' = Held(here, new) + n
  <2> DEFINE S == LoggedOn(here, new)
  <2>1. /\ IsFiniteSet(S) /\ r \notin S
        /\ \A q \in S \cup {r} : DaysAsked[q] \in Nat
    BY <1>5, <1>7, <1>9
  <2>2. Held(here, new)' = TotalDays(S \cup {r}, DaysAsked)
    BY <1>7, <1>8
  <2> HIDE DEF S
  <2>3. TotalDays(S \cup {r}, DaysAsked)
          = TotalDays(S, DaysAsked) + DaysAsked[r]
    BY ONLY <2>1, TotalAdd
  <2> QED
    BY <1>5, <2>2, <2>3 DEF S, Held
<1>13. \A b, s : b # here \/ s \notin {old, new} => Held(b, s)' = Held(b, s)
  BY <1>7, <1>8 DEF Held
<1> QED
  BY <1>0, <1>1, <1>5, <1>10, <1>11, <1>12, <1>13

LEMMA ApproveKeepsLedger ==
  ASSUME AllInv, NEW c \in Calls, ApproveCommits(c)
  PROVE  LedgerInv'
<1>p. PICK r, here, n : /\ r = calls[c].request
                        /\ here = requests[r].cmd.balance
                        /\ n = requests[r].cmd.days
  OBVIOUS
<1>0. Decides(r, "PENDING", "APPROVED", "TIME_OFF_APPROVED")
  BY <1>p, ApproveDecides DEF AllInv, ServiceInv
<1>1. /\ DOMAIN requests' = DOMAIN requests
      /\ n \in Nat
      /\ \A b, s : Held(b, s) \in Nat
      /\ Held(here, "PENDING") >= n
      /\ Held(here, "PENDING")' = Held(here, "PENDING") - n
      /\ Held(here, "APPROVED")' = Held(here, "APPROVED") + n
      /\ \A b, s : b # here \/ s \notin {"PENDING", "APPROVED"} =>
           Held(b, s)' = Held(b, s)
  <2>1. <<"PENDING", "APPROVED", "TIME_OFF_APPROVED">> \in Decisions
    BY DEF Decisions
  <2> QED
    BY <1>p, <1>0, <2>1, DecisionMoves DEF AllInv, LedgerInv
<1>2. /\ here \in Balances /\ balances[here] \in BalanceRow
      /\ balances' = [balances EXCEPT ![here]
                        = ConsumeReserved(balances[here], n)]
  BY <1>p, <1>0, RequestTypes DEF AllInv, ServiceInv, ApproveCommits, SetBalance,
       Decides
<1>3. \A b \in Balances : /\ balances[b].reserved = Held(b, "PENDING")
                          /\ balances[b].used = Held(b, "APPROVED")
  BY DEF AllInv, LedgerInv, LedgerMatchesLog, Held
<1>4. /\ balances'[here].reserved = balances[here].reserved - n
      /\ balances'[here].used = balances[here].used + n
      /\ \A b \in Balances : b # here => balances'[b] = balances[b]
  BY <1>2 DEF ConsumeReserved, BalanceRow, AllInv, ServiceInv, TablesOK
<1>5. \A b \in Balances : /\ balances'[b].reserved = Held(b, "PENDING")'
                          /\ balances'[b].used = Held(b, "APPROVED")'
  BY <1>1, <1>2, <1>3, <1>4
<1> QED
  BY <1>1, <1>5 DEF AllInv, LedgerInv, LedgerMatchesLog, Held

LEMMA RejectKeepsLedger ==
  ASSUME AllInv, NEW c \in Calls, RejectCommits(c)
  PROVE  LedgerInv'
<1>p. PICK r, here, n : /\ r = calls[c].request
                        /\ here = requests[r].cmd.balance
                        /\ n = requests[r].cmd.days
  OBVIOUS
<1>0. Decides(r, "PENDING", "REJECTED", "TIME_OFF_REJECTED")
  BY <1>p, RejectDecides DEF AllInv, ServiceInv
<1>1. /\ DOMAIN requests' = DOMAIN requests
      /\ n \in Nat
      /\ \A b, s : Held(b, s) \in Nat
      /\ Held(here, "PENDING")' = Held(here, "PENDING") - n
      /\ \A b, s : b # here \/ s \notin {"PENDING", "REJECTED"} =>
           Held(b, s)' = Held(b, s)
  <2>1. <<"PENDING", "REJECTED", "TIME_OFF_REJECTED">> \in Decisions
    BY DEF Decisions
  <2> QED
    BY <1>p, <1>0, <2>1, DecisionMoves DEF AllInv, LedgerInv
<1>2. /\ here \in Balances /\ balances[here] \in BalanceRow
      /\ balances' = [balances EXCEPT ![here]
                        = ReleaseReserved(balances[here], n)]
  BY <1>p, <1>0, RequestTypes DEF AllInv, ServiceInv, RejectCommits, SetBalance,
       Decides
<1>3. \A b \in Balances : /\ balances[b].reserved = Held(b, "PENDING")
                          /\ balances[b].used = Held(b, "APPROVED")
  BY DEF AllInv, LedgerInv, LedgerMatchesLog, Held
<1>4. /\ balances'[here].reserved = balances[here].reserved - n
      /\ balances'[here].used = balances[here].used
      /\ \A b \in Balances : b # here => balances'[b] = balances[b]
  BY <1>2 DEF ReleaseReserved, BalanceRow, AllInv, ServiceInv, TablesOK
<1>5. \A b \in Balances : /\ balances'[b].reserved = Held(b, "PENDING")'
                          /\ balances'[b].used = Held(b, "APPROVED")'
  BY <1>1, <1>2, <1>3, <1>4
<1> QED
  BY <1>1, <1>5 DEF AllInv, LedgerInv, LedgerMatchesLog, Held

LEMMA CancelKeepsLedger ==
  ASSUME AllInv, NEW c \in Calls, CancelCommits(c)
  PROVE  LedgerInv'
<1>p. PICK r, old, here, n : /\ r = calls[c].request
                             /\ old = requests[r].status
                             /\ here = requests[r].cmd.balance
                             /\ n = requests[r].cmd.days
  OBVIOUS
<1>0. /\ Decides(r, old, "CANCELLED", "TIME_OFF_CANCELLED")
      /\ old \in {"PENDING", "APPROVED"}
  BY <1>p, CancelDecides DEF AllInv, ServiceInv
<1>1. /\ DOMAIN requests' = DOMAIN requests
      /\ n \in Nat
      /\ \A b, s : Held(b, s) \in Nat
      /\ Held(here, old)' = Held(here, old) - n
      /\ \A b, s : b # here \/ s \notin {old, "CANCELLED"} =>
           Held(b, s)' = Held(b, s)
  <2>1. <<old, "CANCELLED", "TIME_OFF_CANCELLED">> \in Decisions
    BY <1>0 DEF Decisions
  <2> QED
    BY <1>p, <1>0, <2>1, DecisionMoves DEF AllInv, LedgerInv
<1>2. /\ here \in Balances /\ balances[here] \in BalanceRow
      /\ old = "PENDING" =>
           balances' = [balances EXCEPT ![here]
                          = ReleaseReserved(balances[here], n)]
      /\ old = "APPROVED" =>
           balances' = [balances EXCEPT ![here]
                          = ReleaseUsed(balances[here], n)]
  BY <1>p, <1>0, RequestTypes DEF AllInv, ServiceInv, CancelCommits, SetBalance,
       Decides
<1>3. \A b \in Balances : /\ balances[b].reserved = Held(b, "PENDING")
                          /\ balances[b].used = Held(b, "APPROVED")
  BY DEF AllInv, LedgerInv, LedgerMatchesLog, Held
<1>4. /\ balances'[here].reserved = IF old = "PENDING"
                                      THEN balances[here].reserved - n
                                      ELSE balances[here].reserved
      /\ balances'[here].used = IF old = "APPROVED"
                                  THEN balances[here].used - n
                                  ELSE balances[here].used
      /\ \A b \in Balances : b # here => balances'[b] = balances[b]
  <2>1. PICK row : row = balances[here]
    OBVIOUS
  <2>2. /\ DOMAIN balances = Balances
        /\ \A new : balances' = [balances EXCEPT ![here] = new] =>
              /\ balances'[here] = new
              /\ \A b \in Balances : b # here => balances'[b] = balances[b]
    BY <1>2 DEF AllInv, ServiceInv, TablesOK
  <2>3. /\ ReleaseReserved(row, n).reserved = row.reserved - n
        /\ ReleaseReserved(row, n).used = row.used
        /\ ReleaseUsed(row, n).reserved = row.reserved
        /\ ReleaseUsed(row, n).used = row.used - n
    BY <1>2, <2>1 DEF ReleaseReserved, ReleaseUsed, BalanceRow
  <2>4. CASE old = "PENDING"
    BY <1>2, <2>1, <2>2, <2>3, <2>4
  <2>5. CASE old = "APPROVED"
    BY <1>2, <2>1, <2>2, <2>3, <2>5
  <2> QED
    BY <1>0, <2>4, <2>5
<1>5. \A b \in Balances : /\ balances'[b].reserved = Held(b, "PENDING")'
                          /\ balances'[b].used = Held(b, "APPROVED")'
  BY <1>0, <1>1, <1>2, <1>3, <1>4
<1> QED
  BY <1>1, <1>5 DEF AllInv, LedgerInv, LedgerMatchesLog, Held

LEMMA CreateKeepsLedger ==
  ASSUME AllInv, NEW c \in Calls, NEW r \in Requests, CreateCommits(c, r)
  PROVE  LedgerInv'
<1>p. PICK cmd, here, n : /\ cmd = calls[c].cmd
                          /\ here = cmd.balance
                          /\ n = cmd.days
  OBVIOUS
<1>0. cmd \in Commands /\ here \in Balances /\ n \in Nat
  <2>1. cmd \in Commands
    BY <1>p DEF AllInv, ServiceInv, CallsOK, CallOK, CreateCommits, At,
         Running
  <2> QED
    BY <1>p, <2>1, CommandTypes
<1>1. /\ r \notin DOMAIN requests
      /\ DOMAIN requests' = DOMAIN requests \cup {r}
      /\ requests'[r].cmd = cmd
      /\ \A q \in DOMAIN requests : requests'[q] = requests[q]
      /\ outbox' = Append(outbox, Event("TIME_OFF_REQUESTED", r))
  BY <1>p DEF CreateCommits, Publish
<1>2. \A q : LogStatus(q)' = LogStatus(q)
  <2>1. \A type, q : Logged(type, q)' <=>
          Logged(type, q) \/ (type = "TIME_OFF_REQUESTED" /\ q = r)
    BY <1>1, LoggedAppend, EventsDiffer DEF AllInv, ServiceInv, TablesOK
  <2> QED
    BY <2>1 DEF LogStatus
<1>3. LogStatus(r) = "PENDING"
  BY <1>1 DEF AllInv, LogInv, LogOK, LogStatus, RequestEvents
<1>4. /\ DaysAsked'[r] = n
      /\ \A q \in DOMAIN requests : DaysAsked'[q] = DaysAsked[q]
  BY <1>p, <1>1 DEF DaysAsked
<1>5. /\ \A b, s : b # here \/ s # "PENDING" =>
           LoggedOn(b, s)' = LoggedOn(b, s)
      /\ LoggedOn(here, "PENDING")' = LoggedOn(here, "PENDING") \cup {r}
  BY <1>p, <1>1, <1>2, <1>3 DEF LoggedOn
<1>6. \A b, s : /\ IsFiniteSet(LoggedOn(b, s))
                /\ LoggedOn(b, s) \subseteq DOMAIN requests
                /\ \A q \in LoggedOn(b, s) : DaysAsked[q] \in Nat
  BY LoggedOnFacts DEF AllInv, LedgerInv, LoggedOn
<1>7. \A b, s : TotalDays(LoggedOn(b, s), DaysAsked') = Held(b, s)
  <2> SUFFICES ASSUME NEW b, NEW s
               PROVE  TotalDays(LoggedOn(b, s), DaysAsked') = Held(b, s)
    OBVIOUS
  <2> DEFINE S == LoggedOn(b, s)
             new == DaysAsked'
             old == DaysAsked
  <2>1. \A q \in S : new[q] = old[q]
    BY <1>4, <1>6
  <2> HIDE DEF S, new, old
  <2>2. TotalDays(S, new) = TotalDays(S, old)
    BY ONLY <2>1, TotalSame
  <2> QED
    BY <2>2 DEF S, new, old, Held
<1>8. \A b, s : b # here \/ s # "PENDING" => Held(b, s)' = Held(b, s)
  BY <1>5, <1>7 DEF Held
<1>9. Held(here, "PENDING")' = Held(here, "PENDING") + n
  <2> DEFINE S == LoggedOn(here, "PENDING")
             new == DaysAsked'
  <2>1. /\ IsFiniteSet(S) /\ r \notin S
        /\ \A q \in S \cup {r} : new[q] \in Nat
    BY <1>0, <1>1, <1>4, <1>6
  <2>2. Held(here, "PENDING")' = TotalDays(S \cup {r}, new)
    BY <1>5 DEF Held
  <2>3. new[r] = n /\ TotalDays(S, new) = Held(here, "PENDING")
    BY <1>4, <1>7
  <2> HIDE DEF S, new
  <2>4. TotalDays(S \cup {r}, new) = TotalDays(S, new) + new[r]
    BY ONLY <2>1, TotalAdd
  <2> QED
    BY <2>2, <2>3, <2>4
<1>10. /\ balances'[here].reserved = balances[here].reserved + n
       /\ balances'[here].used = balances[here].used
       /\ \A b \in Balances : b # here => balances'[b] = balances[b]
  BY <1>p, <1>0 DEF CreateCommits, SetBalance, Reserve, BalanceRow, AllInv,
       ServiceInv, TablesOK
<1>11. \A b \in Balances : /\ balances[b].reserved = Held(b, "PENDING")
                           /\ balances[b].used = Held(b, "APPROVED")
  BY DEF AllInv, LedgerInv, LedgerMatchesLog, Held
<1>12. \A b \in Balances : /\ balances'[b].reserved = Held(b, "PENDING")'
                           /\ balances'[b].used = Held(b, "APPROVED")'
  BY <1>0, <1>8, <1>9, <1>10, <1>11
<1>13. IsFiniteSet(DOMAIN requests')
  BY <1>1, FS_AddElement DEF AllInv, LedgerInv
<1> QED
  BY <1>12, <1>13 DEF LedgerInv, LedgerMatchesLog, Held

(* A sync writes available and the version only, the update of the catch   *)
(* block no balance at all; neither is reported as an event of a request.  *)
LEMMA OthersKeepLedger ==
  ASSUME AllInv, NEW c \in Calls, ApproveMarksSyncFailed(c) \/ SyncCommits(c)
  PROVE  LedgerInv'
<1>1. CASE ApproveMarksSyncFailed(c)
  <2>1. /\ DOMAIN requests' = DOMAIN requests
        /\ \A r \in DOMAIN requests : requests'[r].cmd = requests[r].cmd
    BY <1>1 DEF ApproveMarksSyncFailed, SetStatus, AllInv, ServiceInv,
         TablesOK, RequestRow
  <2>2. UNCHANGED <<balances, outbox>>
    BY <1>1 DEF ApproveMarksSyncFailed
  <2>3. \A r : LogStatus(r)' = LogStatus(r)
    BY <2>2 DEF LogStatus, Logged
  <2> QED
    BY <2>1, <2>2, <2>3, LedgerKept DEF AllInv
<1>2. CASE SyncCommits(c)
  <2>1. UNCHANGED requests
    BY <1>2 DEF SyncCommits
  <2>2. \A r : LogStatus(r)' = LogStatus(r)
    BY <1>2, SyncLogs DEF AllInv, ServiceInv, TablesOK, LogStatus,
         RequestEvents
  <2>3. \A b \in Balances : /\ balances'[b].reserved = balances[b].reserved
                            /\ balances'[b].used = balances[b].used
    BY <1>2 DEF SyncCommits, Reconcile, Synced, NotInCorpus, AllInv,
         ServiceInv, TablesOK, BalanceRow
  <2> QED
    BY <2>1, <2>2, <2>3, LedgerKept DEF AllInv
<1> QED
  BY <1>1, <1>2

LEMMA LedgerStep ==
  ASSUME AllInv, [Next]_vars
  PROVE  LedgerInv'
<1>1. CASE UNCHANGED tables
  <2>1. UNCHANGED <<balances, requests, outbox>>
    BY <1>1 DEF tables
  <2>2. \A r : LogStatus(r)' = LogStatus(r)
    BY <2>1 DEF LogStatus, Logged
  <2> QED
    BY <2>1, <2>2, LedgerKept DEF AllInv
<1>2. ASSUME NEW c \in Calls, Writes(c) PROVE LedgerInv'
  BY <1>2, CreateKeepsLedger, ApproveKeepsLedger, RejectKeepsLedger,
     CancelKeepsLedger, OthersKeepLedger DEF Writes
<1> QED
  BY <1>1, <1>2, StepCases

LEMMA LedgerInit == Init => LedgerInv
<1> SUFFICES ASSUME Init PROVE LedgerInv
  OBVIOUS
<1>1. DOMAIN requests = {} /\ IsFiniteSet({})
  BY FS_EmptySet DEF Init
<1>2. \A b, s : LoggedOn(b, s) = {}
  BY <1>1 DEF LoggedOn
<1>3. \A b, s : TotalDays(LoggedOn(b, s), DaysAsked) = 0
  BY <1>2, TotalEmpty
<1>4. \A b \in Balances : balances[b].reserved = 0 /\ balances[b].used = 0
  BY DEF Init, NewBalance
<1> QED
  BY <1>1, <1>3, <1>4 DEF LedgerInv, LedgerMatchesLog

LEMMA Invariant == Spec => []AllInv
<1>1. ServiceInv /\ LogInv /\ LedgerInv /\ [Next]_vars => LedgerInv'
  BY LedgerStep DEF AllInv
<1>2. ServiceInv /\ LogInv /\ LedgerInv => AllInv
  BY DEF AllInv
<1> QED
  BY <1>1, <1>2, LedgerInit, ServiceInvariant, LogInvariant, PTL DEF Spec

-----------------------------------------------------------------------------
(* No balance corruption: whatever handlers run concurrently, abort or     *)
(* die, and whatever a sync writes, reserved and used of every row are the *)
(* sums of the requests last reported as pending and as approved.          *)
THEOREM BalancesFollowLog == Spec => []LedgerMatchesLog
<1>1. AllInv => LedgerMatchesLog
  BY DEF AllInv, LedgerInv
<1> QED
  BY <1>1, Invariant, PTL

-----------------------------------------------------------------------------
LEMMA StatementsConserve ==
  ASSUME NEW row \in BalanceRow, NEW n \in Nat,
         NEW new \in {Reserve(row, n), ReleaseReserved(row, n),
                      ConsumeReserved(row, n), ReleaseUsed(row, n)}
  PROVE  Entitlement(new) = Entitlement(row) /\ new.version = row.version + 1
<1>1. /\ row.available \in Nat /\ row.reserved \in Nat
      /\ row.used \in Nat /\ row.version \in Nat
  BY Columns
<1>2. CASE new = Reserve(row, n)
  BY <1>1, <1>2 DEF Reserve, Entitlement, BalanceRow
<1>3. CASE new = ReleaseReserved(row, n)
  BY <1>1, <1>3 DEF ReleaseReserved, Entitlement, BalanceRow
<1>4. CASE new = ConsumeReserved(row, n)
  BY <1>1, <1>4 DEF ConsumeReserved, Entitlement, BalanceRow
<1>5. CASE new = ReleaseUsed(row, n)
  BY <1>1, <1>5 DEF ReleaseUsed, Entitlement, BalanceRow
<1> QED
  BY <1>2, <1>3, <1>4, <1>5

(* The days of a row are moved, never made or lost, except by a sync; and  *)
(* every write of days moves the version that the other handlers compare.  *)
THEOREM DaysConserved == Spec => DaysAreConserved
<1> DEFINE Kept(b) ==
      LET old == balances[b]
          new == balances'[b]
      IN  /\ Entitlement(new) = Entitlement(old)
          /\ \/ new.version = old.version + 1
             \/ new = [old EXCEPT !.syncStatus = new.syncStatus]
<1>1. ASSUME ServiceInv, [Next]_vars PROVE ConservingStep
  <2> USE <1>1 DEF ServiceInv
  <2>1. ASSUME NEW b \in Balances, balances'[b] = balances[b] PROVE Kept(b)
    <3>1. balances[b] \in BalanceRow
      BY DEF TablesOK
    <3> QED
      BY <2>1, <3>1 DEF BalanceRow
  <2>2. ASSUME NEW here, NEW n \in Nat,
               NEW row \in {Reserve(balances[here], n),
                            ReleaseReserved(balances[here], n),
                            ConsumeReserved(balances[here], n),
                            ReleaseUsed(balances[here], n)},
               SetBalance(here, row)
        PROVE  ConservingStep
    <3>1. ASSUME NEW b \in Balances PROVE Kept(b)
      <4>1. CASE b = here
        BY <2>2, <4>1, StatementsConserve DEF TablesOK, SetBalance
      <4>2. CASE b # here
        BY <2>1, <2>2, <4>2 DEF TablesOK, SetBalance
      <4> QED
        BY <4>1, <4>2
    <3> QED
      BY <3>1 DEF ConservingStep
  <2>3. CASE UNCHANGED balances
    BY <2>1, <2>3 DEF ConservingStep
  <2>4. ASSUME NEW c \in Calls, NEW r \in Requests, CreateCommits(c, r)
        PROVE  ConservingStep
    <3>1. calls[c].cmd \in Commands
      BY <2>4 DEF CallsOK, CallOK, CreateCommits, At, Running
    <3> QED
      BY <2>2, <2>4, <3>1, CommandTypes DEF CreateCommits
  <2>5. ASSUME NEW c \in Calls,
               ApproveCommits(c) \/ RejectCommits(c) \/ CancelCommits(c)
        PROVE  ConservingStep
    <3>1. calls[c].request \in DOMAIN requests
      BY <2>5, ApproveDecides, RejectDecides, CancelDecides DEF Decides
    <3>2. requests[calls[c].request].cmd.days \in Nat
      BY <3>1, RequestTypes
    <3>3. CASE ApproveCommits(c)
      BY <2>2, <3>2, <3>3 DEF ApproveCommits
    <3>4. CASE RejectCommits(c)
      BY <2>2, <3>2, <3>4 DEF RejectCommits
    <3>5. CASE CancelCommits(c)
      BY <2>2, <3>2, <3>5 DEF CancelCommits
    <3> QED
      BY <2>5, <3>3, <3>4, <3>5
  <2>6. ASSUME NEW c \in Calls, SyncCommits(c) PROVE ConservingStep
    <3>1. At(c, "sync", "tx") /\ calls'[c].reply = "OK"
      BY <2>6 DEF SyncCommits, Reply, CallsOK, CallOK, IsCall
    <3>2. ASSUME NEW b \in Balances
          PROVE  \/ balances'[b].version = balances[b].version + 1
                 \/ balances'[b] = [balances[b] EXCEPT
                                      !.syncStatus = balances'[b].syncStatus]
      <4>1. balances[b] \in BalanceRow
        BY DEF TablesOK
      <4> QED
        BY <2>6, <4>1 DEF SyncCommits, Reconcile, Synced, NotInCorpus,
             BalanceRow
    <3> QED
      BY <3>1, <3>2 DEF ConservingStep
  <2>7. ASSUME NEW c \in Calls, ApproveMarksSyncFailed(c)
        PROVE  UNCHANGED balances
    BY <2>7 DEF ApproveMarksSyncFailed
  <2>8. UNCHANGED tables => UNCHANGED balances
    BY DEF tables
  <2> QED
    BY <2>3, <2>4, <2>5, <2>6, <2>7, <2>8, StepCases DEF Writes
<1>2. ServiceInv /\ [Next]_vars => [ConservingStep]_vars
  BY <1>1
<1> QED
  BY <1>2, ServiceInvariant, PTL DEF Spec, DaysAreConserved
-----------------------------------------------------------------------------
(* LeaveBook: every step of a handler is a step of the book or leaves it   *)
(* as it is.                                                               *)

(* One entry of the book. *)
Entry(r) ==
  [cmd |-> requests[r].cmd, status |-> LogStatus(r),
   lost |-> requests[r].status = "SYNC_FAILED"]

LEMMA BookEntries == DOMAIN Book = DOMAIN requests
                     /\ \A r \in DOMAIN requests : Book[r] = Entry(r)
  BY DEF Book, Entry

(* What a statement on one balance row does to the free days. *)
LEMMA FreeOfOne ==
  ASSUME TablesOK, NEW here, NEW row, SetBalance(here, row)
  PROVE  Free' = [Free EXCEPT ![here] = row.available]
  BY DEF TablesOK, SetBalance, Free

LEMMA DecisionInBook ==
  ASSUME TablesOK, LogInv, NEW r, NEW old, NEW new, NEW type,
         <<old, new, type>> \in Decisions, Decides(r, old, new, type)
  PROVE  /\ r \in Requests /\ r \in DOMAIN Book
         /\ Book[r].cmd = requests[r].cmd
         /\ Book[r].status = old /\ ~ Book[r].lost
         /\ Book' = [Book EXCEPT ![r].status = new]
<1>1. /\ DOMAIN requests' = DOMAIN requests
      /\ LogStatus(r)' = new
      /\ \A q \in Requests : q # r => LogStatus(q)' = LogStatus(q)
  BY DecisionTells
<1>2. /\ old \in {"PENDING", "APPROVED"}
      /\ new # "SYNC_FAILED"
  BY DEF Decisions
<1>3. r \in Requests /\ LogStatus(r) = old
  BY <1>2, DecisionIsNew
<1>4. /\ r \in DOMAIN requests
      /\ requests[r].status = old
      /\ requests'[r].status = new
      /\ \A q \in DOMAIN requests : /\ requests'[q].cmd = requests[q].cmd
                                    /\ q # r => requests'[q] = requests[q]
      /\ \A q \in DOMAIN requests : q \in Requests
  BY DEF Decides, SetStatus, TablesOK, RequestRow
<1>5. PICK cmd, lost : cmd = requests[r].cmd /\ lost = FALSE
  OBVIOUS
<1>6. Entry(r)' = [Entry(r) EXCEPT !.status = new]
  <2>1. /\ (requests[r].status = "SYNC_FAILED") = FALSE
        /\ (requests'[r].status = "SYNC_FAILED") = FALSE
        /\ requests'[r].cmd = requests[r].cmd
    BY <1>2, <1>4
  <2>2. Entry(r) = [cmd |-> cmd, status |-> old, lost |-> lost]
    BY <1>3, <1>5, <2>1, Zenon DEF Entry
  <2>3. Entry(r)' = [cmd |-> cmd, status |-> new, lost |-> lost]
    BY <1>1, <1>5, <2>1, Zenon DEF Entry
  <2> QED
    BY <2>2, <2>3
<1>7. \A q \in DOMAIN requests : q # r => Entry(q)' = Entry(q)
  BY <1>1, <1>4 DEF Entry
<1>8. Book' = [q \in DOMAIN requests |-> Entry(q)']
  BY <1>1 DEF Book, Entry
<1>9. Book = [q \in DOMAIN requests |-> Entry(q)]
  BY DEF Book, Entry
<1>10. Book' = [Book EXCEPT ![r].status = new]
  BY <1>4, <1>6, <1>7, <1>8, <1>9
<1>11. ~ Book[r].lost
  <2>1. Entry(r).lost = (requests[r].status = "SYNC_FAILED")
    BY DEF Entry
  <2>2. Book[r] = Entry(r) /\ requests[r].status # "SYNC_FAILED"
    BY <1>2, <1>4, BookEntries
  <2> QED
    BY <2>1, <2>2, Zenon
<1>12. Entry(r).cmd = requests[r].cmd /\ Entry(r).status = LogStatus(r)
  BY DEF Entry
<1> QED
  BY <1>3, <1>4, <1>10, <1>11, <1>12, BookEntries

-----------------------------------------------------------------------------
LEMMA ApproveIsApprove ==
  ASSUME ServiceInv, LogInv, NEW c \in Calls, ApproveCommits(c)
  PROVE  \E r \in Requests : Abstract!Approve(r)
<1> USE DEF ServiceInv
<1>1. PICK r : r = calls[c].request
  OBVIOUS
<1>2. Decides(r, "PENDING", "APPROVED", "TIME_OFF_APPROVED")
  BY <1>1, ApproveDecides
<1>3. <<"PENDING", "APPROVED", "TIME_OFF_APPROVED">> \in Decisions
  BY DEF Decisions
<1>4. /\ r \in Requests /\ r \in DOMAIN Book
      /\ Book[r].status = "PENDING" /\ ~ Book[r].lost
      /\ Book' = [Book EXCEPT ![r].status = "APPROVED"]
  BY <1>2, <1>3, DecisionInBook
<1>5. Free' = Free
  <2>1. PICK here, n : here = requests[r].cmd.balance /\ n = requests[r].cmd.days
    OBVIOUS
  <2>2. /\ SetBalance(here, ConsumeReserved(balances[here], n))
        /\ here \in Balances /\ balances[here] \in BalanceRow
    BY <1>1, <1>2, <2>1, RequestTypes DEF ApproveCommits, Decides
  <2>3. ConsumeReserved(balances[here], n).available = balances[here].available
    BY <2>2 DEF ConsumeReserved, BalanceRow
  <2> QED
    BY <2>2, <2>3, FreeOfOne DEF Free
<1> QED
  BY <1>4, <1>5 DEF Abstract!Approve

LEMMA RejectIsReject ==
  ASSUME ServiceInv, LogInv, NEW c \in Calls, RejectCommits(c)
  PROVE  \E r \in Requests : Abstract!Reject(r)
<1> USE DEF ServiceInv
<1>1. PICK r : r = calls[c].request
  OBVIOUS
<1>2. Decides(r, "PENDING", "REJECTED", "TIME_OFF_REJECTED")
  BY <1>1, RejectDecides
<1>3. <<"PENDING", "REJECTED", "TIME_OFF_REJECTED">> \in Decisions
  BY DEF Decisions
<1>4. /\ r \in Requests /\ r \in DOMAIN Book
      /\ Book[r].cmd = requests[r].cmd
      /\ Book[r].status = "PENDING" /\ ~ Book[r].lost
      /\ Book' = [Book EXCEPT ![r].status = "REJECTED"]
  BY <1>2, <1>3, DecisionInBook
<1>5. Free' = [Free EXCEPT ![requests[r].cmd.balance]
                             = @ + requests[r].cmd.days]
  <2>1. PICK here, n : here = requests[r].cmd.balance /\ n = requests[r].cmd.days
    OBVIOUS
  <2>2. /\ SetBalance(here, ReleaseReserved(balances[here], n))
        /\ here \in Balances /\ balances[here] \in BalanceRow
    BY <1>1, <1>2, <2>1, RequestTypes DEF RejectCommits, Decides
  <2>3. ReleaseReserved(balances[here], n).available
          = balances[here].available + n
    BY <2>2 DEF ReleaseReserved, BalanceRow
  <2> QED
    BY <2>1, <2>2, <2>3, FreeOfOne DEF Free
<1> QED
  BY <1>4, <1>5 DEF Abstract!Reject, Abstract!GiveBack

LEMMA CancelIsCancel ==
  ASSUME ServiceInv, LogInv, NEW c \in Calls, CancelCommits(c)
  PROVE  \E r \in Requests : Abstract!Cancel(r)
<1> USE DEF ServiceInv
<1>1. PICK r, old : r = calls[c].request /\ old = requests[r].status
  OBVIOUS
<1>2. /\ old \in {"PENDING", "APPROVED"}
      /\ Decides(r, old, "CANCELLED", "TIME_OFF_CANCELLED")
  BY <1>1, CancelDecides
<1>3. <<old, "CANCELLED", "TIME_OFF_CANCELLED">> \in Decisions
  BY <1>2 DEF Decisions
<1>4. /\ r \in Requests /\ r \in DOMAIN Book
      /\ Book[r].cmd = requests[r].cmd
      /\ Book[r].status = old /\ ~ Book[r].lost
      /\ Book' = [Book EXCEPT ![r].status = "CANCELLED"]
  BY <1>2, <1>3, DecisionInBook
<1>5. Free' = [Free EXCEPT ![requests[r].cmd.balance]
                             = @ + requests[r].cmd.days]
  <2>1. PICK here, n : here = requests[r].cmd.balance /\ n = requests[r].cmd.days
    OBVIOUS
  <2>2. PICK row \in {ReleaseReserved(balances[here], n),
                      ReleaseUsed(balances[here], n)} : SetBalance(here, row)
    BY <1>1, <2>1 DEF CancelCommits
  <2>3. here \in Balances /\ balances[here] \in BalanceRow
    BY <1>2, <2>1, RequestTypes DEF Decides
  <2>4. row.available = balances[here].available + n
    BY <2>2, <2>3 DEF ReleaseReserved, ReleaseUsed, BalanceRow
  <2> QED
    BY <2>1, <2>2, <2>3, <2>4, FreeOfOne DEF Free
<1> QED
  BY <1>2, <1>4, <1>5 DEF Abstract!Cancel, Abstract!GiveBack, Abstract!Open

LEMMA CreateIsSubmit ==
  ASSUME ServiceInv, LogInv, NEW c \in Calls, NEW r \in Requests,
         CreateCommits(c, r)
  PROVE  \E cmd \in Commands : Abstract!Submit(r, cmd)
<1> USE DEF ServiceInv
<1>1. PICK cmd : cmd = calls[c].cmd
  OBVIOUS
<1>2. /\ cmd \in Commands /\ cmd.balance \in Balances /\ cmd.days \in Nat
      /\ balances[cmd.balance] \in BalanceRow
  <2>1. cmd \in Commands
    BY <1>1 DEF CallsOK, CallOK, CreateCommits, At, Running
  <2> QED
    BY <2>1, CommandTypes DEF TablesOK
<1>3. /\ r \notin DOMAIN requests
      /\ DOMAIN requests' = DOMAIN requests \cup {r}
      /\ requests'[r] = [status |-> "PENDING", cmd |-> cmd]
      /\ \A q \in DOMAIN requests : requests'[q] = requests[q]
      /\ outbox' = Append(outbox, Event("TIME_OFF_REQUESTED", r))
  BY <1>1 DEF CreateCommits, Publish
<1>4. \A q : LogStatus(q)' = LogStatus(q)
  <2>1. \A type, q : Logged(type, q)' <=>
          Logged(type, q) \/ (type = "TIME_OFF_REQUESTED" /\ q = r)
    BY <1>3, LoggedAppend, EventsDiffer DEF TablesOK
  <2> QED
    BY <2>1 DEF LogStatus
<1>5. LogStatus(r) = "PENDING"
  BY <1>3 DEF LogInv, LogOK, LogStatus, RequestEvents
<1>6. Book' = [s \in DOMAIN Book \cup {r} |->
                 IF s = r
                   THEN [cmd |-> cmd, status |-> "PENDING", lost |-> FALSE]
                   ELSE Book[s]]
  <2>1. Book' = [s \in DOMAIN requests \cup {r} |-> Entry(s)']
    BY <1>3 DEF Book, Entry
  <2>2. Entry(r)' = [cmd |-> cmd, status |-> "PENDING", lost |-> FALSE]
    <3>1. requests'[r].cmd = cmd /\ LogStatus(r)' = "PENDING"
      BY <1>3, <1>4, <1>5
    <3>2. (requests'[r].status = "SYNC_FAILED") = FALSE
      BY <1>3
    <3> QED
      BY <3>1, <3>2, Zenon DEF Entry
  <2>3. \A s \in DOMAIN requests : Entry(s)' = Book[s]
    BY <1>3, <1>4, BookEntries DEF Entry
  <2> QED
    BY <1>3, <2>1, <2>2, <2>3, BookEntries
<1>7. \A s \in DOMAIN Book : Abstract!Open(s) => ~ Abstract!Meet(Book[s].cmd, cmd)
  <2> SUFFICES ASSUME NEW s \in DOMAIN requests, Abstract!Open(s),
                      Abstract!Meet(requests[s].cmd, cmd)
               PROVE  FALSE
    BY BookEntries DEF Entry
  <2>1. requests[s].status \in Live
    <3>1. /\ LogStatus(s) \in Live
          /\ requests[s].status # "SYNC_FAILED"
      <4>1. Book[s].status \in {"PENDING", "APPROVED"} /\ ~ Book[s].lost
        BY DEF Abstract!Open
      <4>2. Book[s] = Entry(s)
        BY BookEntries
      <4>3. /\ Entry(s).status = LogStatus(s)
            /\ Entry(s).lost = (requests[s].status = "SYNC_FAILED")
        BY DEF Entry
      <4>4. requests[s].status # "SYNC_FAILED"
        BY <4>1, <4>2, <4>3, Zenon
      <4> QED
        BY <4>1, <4>2, <4>3, <4>4 DEF Live
    <3>2. requests[s].status \in {LogStatus(s), "SYNC_FAILED"}
      BY DEF LogInv, LogOK, TablesOK
    <3> QED
      BY <3>1, <3>2
  <2>2. Overlapping(cmd) = {}
    BY <1>1 DEF CreateCommits, CreateRefusal
  <2> QED
    BY <2>1, <2>2 DEF Overlapping, Abstract!Meet
<1>8. Free[cmd.balance] >= cmd.days
  BY <1>1, <1>2 DEF CreateCommits, CreateRefusal, CanReserve, Free
<1>9. Free' = [Free EXCEPT ![cmd.balance] = @ - cmd.days]
  <2>1. PICK here, n : here = cmd.balance /\ n = cmd.days
    OBVIOUS
  <2>2. SetBalance(here, Reserve(balances[here], n))
    BY <1>1, <2>1 DEF CreateCommits
  <2>3. Reserve(balances[here], n).available = balances[here].available - n
    BY <1>2, <2>1 DEF Reserve, BalanceRow
  <2> QED
    BY <1>2, <2>1, <2>2, <2>3, FreeOfOne DEF Free
<1> QED
  BY <1>2, <1>3, <1>6, <1>7, <1>8, <1>9, BookEntries DEF Abstract!Submit

LEMMA MarkIsLose ==
  ASSUME ServiceInv, NEW c \in Calls, ApproveMarksSyncFailed(c)
  PROVE  \E r \in Requests : Abstract!Lose(r)
<1> USE DEF ServiceInv
<1>1. PICK r : r = calls[c].request
  OBVIOUS
<1>2. r \in DOMAIN requests /\ r \in Requests
  BY <1>1 DEF ApproveMarksSyncFailed, At, CallsOK, CallOK, Running,
       OnRequest, TablesOK
<1>3. /\ DOMAIN requests' = DOMAIN requests
      /\ requests'[r].status = "SYNC_FAILED"
      /\ \A q \in DOMAIN requests : /\ requests'[q].cmd = requests[q].cmd
                                    /\ q # r => requests'[q] = requests[q]
      /\ UNCHANGED <<outbox, balances>>
  BY <1>1, <1>2 DEF ApproveMarksSyncFailed, SetStatus, TablesOK, RequestRow
<1>4. \A q : LogStatus(q)' = LogStatus(q)
  BY <1>3 DEF LogStatus, Logged
<1>5. Entry(r)' = [Entry(r) EXCEPT !.lost = TRUE]
  <2>1. /\ requests'[r].cmd = requests[r].cmd /\ LogStatus(r)' = LogStatus(r)
        /\ (requests'[r].status = "SYNC_FAILED") = TRUE
    BY <1>2, <1>3, <1>4
  <2>2. PICK cmd, old, new : /\ cmd = requests[r].cmd
                             /\ old = (requests[r].status = "SYNC_FAILED")
                             /\ new = TRUE
    OBVIOUS
  <2>3. Entry(r) = [cmd |-> cmd, status |-> LogStatus(r), lost |-> old]
    BY <2>2, Zenon DEF Entry
  <2>4. Entry(r)' = [cmd |-> cmd, status |-> LogStatus(r), lost |-> new]
    BY <2>1, <2>2, Zenon DEF Entry
  <2>5. Entry(r)' = [Entry(r) EXCEPT !.lost = new]
    BY <2>3, <2>4
  <2> QED
    BY <2>2, <2>5, Zenon
<1>6. \A q \in DOMAIN requests : q # r => Entry(q)' = Entry(q)
  BY <1>3, <1>4 DEF Entry
<1>7. Book' = [q \in DOMAIN requests |-> Entry(q)']
  BY <1>3 DEF Book, Entry
<1>8. Book = [q \in DOMAIN requests |-> Entry(q)]
  BY DEF Book, Entry
<1>9. Book' = [Book EXCEPT ![r].lost = TRUE]
  BY <1>2, <1>5, <1>6, <1>7, <1>8
<1>10. UNCHANGED Free
  BY <1>3 DEF Free
<1> QED
  BY <1>2, <1>9, <1>10, BookEntries DEF Abstract!Lose

LEMMA SyncIsAdjust ==
  ASSUME ServiceInv, ServiceInv', NEW c \in Calls, SyncCommits(c)
  PROVE  Abstract!Adjust
<1>1. UNCHANGED requests
  BY DEF SyncCommits
<1>2. \A r : LogStatus(r)' = LogStatus(r)
  BY SyncLogs DEF ServiceInv, TablesOK, LogStatus, RequestEvents
<1>3. UNCHANGED Book
  BY <1>1, <1>2 DEF Book
<1>4. \A b \in Balances : balances'[b].available \in Nat
  BY Columns DEF ServiceInv, TablesOK
<1>5. Free' \in [Balances -> Nat]
  BY <1>4 DEF Free
<1> QED
  BY <1>3, <1>5 DEF Abstract!Adjust

-----------------------------------------------------------------------------
LEMMA InitIsInit == Init => Abstract!Init
<1> SUFFICES ASSUME Init PROVE Abstract!Init
  OBVIOUS
<1>1. Book = [r \in {} |-> <<>>]
  BY DEF Init, Book
<1>2. Free \in [Balances -> InitialDays]
  <2>1. \A b \in Balances : balances[b].available \in InitialDays
    BY DEF Init, NewBalance
  <2> QED
    BY <2>1 DEF Free
<1> QED
  BY <1>1, <1>2 DEF Abstract!Init

LEMMA StepIsStep ==
  ASSUME ServiceInv, ServiceInv', LogInv, [Next]_vars
  PROVE  [Abstract!Next]_(Abstract!bookVars)
<1>1. CASE UNCHANGED tables
  <2>1. \A r : LogStatus(r)' = LogStatus(r)
    BY <1>1 DEF tables, LogStatus, Logged
  <2>2. UNCHANGED <<Book, Free>>
    BY <1>1, <2>1 DEF tables, Book, Free
  <2> QED
    BY <2>2 DEF Abstract!bookVars
<1>2. ASSUME NEW c \in Calls, Writes(c) PROVE Abstract!Next
  BY <1>2, CreateIsSubmit, ApproveIsApprove, RejectIsReject, CancelIsCancel,
     MarkIsLose, SyncIsAdjust DEF Writes, Abstract!Next
<1> QED
  BY <1>1, <1>2, StepCases

(* However many handlers race, abort, wait for the HCM or die, an observer *)
(* of the tables sees a book in which every request is submitted, decided  *)
(* and given back one step at a time.                                      *)
THEOREM Implements == Spec => ImplementsLeaveBook
<1>1. ServiceInv /\ ServiceInv' /\ LogInv /\ [Next]_vars
        => [Abstract!Next]_(Abstract!bookVars)
  BY StepIsStep
<1> QED
  BY <1>1, InitIsInit, ServiceInvariant, LogInvariant, PTL
     DEF Spec, ImplementsLeaveBook, Abstract!Spec

-----------------------------------------------------------------------------
(* The trail in the audit log.  AuditMatchesOutbox is not inductive: the   *)
(* last entry of a trail has to be the status the events tell, for the     *)
(* next decision starts from it.                                           *)
TrailInv(r) ==
  /\ Cardinality(TrailOf(r)) = Cardinality(EventsOf(r))
  /\ \A i \in TrailOf(r) :
       /\ \A j \in EventsOf(r) :
            Place(EventsOf(r), j) = Place(TrailOf(r), i) =>
              audit[i].new = StatusTold(outbox[j].type)
       /\ Place(TrailOf(r), i) = 1 => audit[i].old = "NONE"
       /\ \A k \in TrailOf(r) :
            Place(TrailOf(r), k) + 1 = Place(TrailOf(r), i) =>
              audit[i].old = audit[k].new
       /\ Place(TrailOf(r), i) = Cardinality(TrailOf(r)) =>
            audit[i].new = LogStatus(r)
  /\ r \notin DOMAIN requests => TrailOf(r) = {}
  /\ r \in DOMAIN requests => TrailOf(r) # {}

TrailsOK == \A r \in Requests : TrailInv(r)

(* What is appended is the last; the others keep their places.             *)
LEMMA PlaceOfLast ==
  ASSUME NEW S, IsFiniteSet(S), S \subseteq Nat, NEW m \in Nat,
         \A x \in S : x < m
  PROVE  /\ Cardinality(S) \in Nat /\ (S = {} <=> Cardinality(S) = 0)
         /\ Cardinality(S \cup {m}) = Cardinality(S) + 1
         /\ Place(S \cup {m}, m) = Cardinality(S) + 1
         /\ \A x \in S : /\ Place(S \cup {m}, x) = Place(S, x)
                         /\ Place(S, x) \in 1..Cardinality(S)
<1>1. Cardinality(S) \in Nat /\ (S = {} <=> Cardinality(S) = 0)
  BY FS_CardinalityType, FS_EmptySet
<1>2. Cardinality(S \cup {m}) = Cardinality(S) + 1
  <2>1. m \notin S
    <3>1. SUFFICES ASSUME m \in S PROVE FALSE
      OBVIOUS
    <3>2. m < m
      BY <3>1
    <3> QED
      BY <3>2
  <2> QED
    BY <2>1, FS_AddElement
<1>3. Place(S \cup {m}, m) = Cardinality(S) + 1
  <2>1. \A j \in S \cup {m} : j <= m
    OBVIOUS
  <2>2. {j \in S \cup {m} : j <= m} = S \cup {m}
    BY <2>1
  <2> QED
    BY <1>2, <2>2 DEF Place
<1>4. ASSUME NEW x \in S
      PROVE  /\ Place(S \cup {m}, x) = Place(S, x)
             /\ Place(S, x) \in 1..Cardinality(S)
  <2>1. {j \in S \cup {m} : j <= x} = {j \in S : j <= x}
    <3>1. ~ (m <= x)
      OBVIOUS
    <3> QED
      BY <3>1
  <2>2. PICK T : T = {j \in S : j <= x}
    OBVIOUS
  <2>3. T \subseteq S /\ x \in T
    BY <2>2
  <2>4. /\ IsFiniteSet(T) /\ Cardinality(T) <= Cardinality(S)
        /\ Cardinality(T) \in Nat /\ Cardinality(T) # 0
    <3>1. IsFiniteSet(T)
      BY <2>3, FS_Subset
    <3>2. Cardinality(T) <= Cardinality(S)
      BY <2>3, FS_Subset
    <3> QED
      BY <2>3, <3>1, <3>2, FS_CardinalityType, FS_EmptySet
  <2> QED
    BY <1>1, <2>1, <2>2, <2>4 DEF Place
<1> QED
  BY <1>1, <1>2, <1>3, <1>4

LEMMA TrailsAreFinite ==
  ASSUME TablesOK, NEW r
  PROVE  /\ IsFiniteSet(TrailOf(r)) /\ IsFiniteSet(EventsOf(r))
         /\ TrailOf(r) \subseteq 1..Len(audit)
         /\ EventsOf(r) \subseteq 1..Len(outbox)
         /\ Len(audit) \in Nat /\ Len(outbox) \in Nat
<1>1. /\ Len(audit) \in Nat /\ Len(outbox) \in Nat
      /\ DOMAIN audit = 1..Len(audit) /\ DOMAIN outbox = 1..Len(outbox)
  BY DEF TablesOK
<1>2. IsFiniteSet(1..Len(audit)) /\ IsFiniteSet(1..Len(outbox))
  BY <1>1, FS_Interval
<1>3. /\ TrailOf(r) \subseteq 1..Len(audit)
      /\ EventsOf(r) \subseteq 1..Len(outbox)
  BY <1>1 DEF TrailOf, EventsOf
<1> QED
  BY <1>1, <1>2, <1>3, FS_Subset

(* A step that reports and records nothing of r.                           *)
LEMMA TrailKept ==
  ASSUME NEW r, TrailInv(r),
         TrailOf(r)' = TrailOf(r), EventsOf(r)' = EventsOf(r),
         \A i \in TrailOf(r) : audit'[i] = audit[i],
         \A i \in EventsOf(r) : outbox'[i] = outbox[i],
         LogStatus(r)' = LogStatus(r),
         r \in DOMAIN requests' <=> r \in DOMAIN requests
  PROVE  TrailInv(r)'
<1>1. PICK trail, events : trail = TrailOf(r) /\ events = EventsOf(r)
  OBVIOUS
<1>2. trail = TrailOf(r)' /\ events = EventsOf(r)'
  BY <1>1
<1> QED
  BY <1>1, <1>2 DEF TrailInv

(* An event and an entry that goes on from where the trail ended.          *)
LEMMA TrailGrows ==
  ASSUME ServiceInv, NEW r \in Requests, TrailInv(r),
         NEW type, NEW old, NEW new,
         outbox' = Append(outbox, Event(type, r)),
         audit' = Append(audit, AuditRow(r, old, new)),
         new = StatusTold(type), LogStatus(r)' = new,
         old = IF r \in DOMAIN requests THEN LogStatus(r) ELSE "NONE",
         r \in DOMAIN requests'
  PROVE  TrailInv(r)'
<1> DEFINE m == Len(audit) + 1
           n == Len(outbox) + 1
           trail == TrailOf(r)
           events == EventsOf(r)
<1>0. TablesOK
  BY DEF ServiceInv
<1>1. /\ m \in Nat /\ n \in Nat
      /\ DOMAIN audit' = DOMAIN audit \cup {m} /\ m \notin DOMAIN audit
      /\ DOMAIN outbox' = DOMAIN outbox \cup {n} /\ n \notin DOMAIN outbox
      /\ audit'[m] = AuditRow(r, old, new) /\ outbox'[n] = Event(type, r)
      /\ \A i \in DOMAIN audit : audit'[i] = audit[i]
      /\ \A i \in DOMAIN outbox : outbox'[i] = outbox[i]
  BY <1>0 DEF TablesOK
<1>2. /\ audit'[m].entity = r /\ audit'[m].old = old /\ audit'[m].new = new
      /\ outbox'[n].aggregate = r /\ outbox'[n].type = type
  BY <1>1 DEF AuditRow, Event
<1>3. TrailOf(r)' = trail \cup {m} /\ EventsOf(r)' = events \cup {n}
  BY <1>1, <1>2 DEF TrailOf, EventsOf
<1>4. /\ IsFiniteSet(trail) /\ trail \subseteq Nat /\ \A x \in trail : x < m
      /\ IsFiniteSet(events) /\ events \subseteq Nat /\ \A x \in events : x < n
      /\ trail \subseteq DOMAIN audit /\ events \subseteq DOMAIN outbox
  <2>1. /\ IsFiniteSet(trail) /\ IsFiniteSet(events)
        /\ trail \subseteq 1..Len(audit) /\ events \subseteq 1..Len(outbox)
        /\ Len(audit) \in Nat /\ Len(outbox) \in Nat
    BY <1>0, TrailsAreFinite
  <2>2. trail \subseteq DOMAIN audit /\ events \subseteq DOMAIN outbox
    BY DEF TrailOf, EventsOf
  <2> QED
    BY <2>1, <2>2
<1>5. PICK size : size = Cardinality(trail)
  OBVIOUS
<1>6. size = Cardinality(events)
  BY <1>5 DEF TrailInv
<1>7. PICK trail1, events1 : trail1 = trail \cup {m} /\ events1 = events \cup {n}
  OBVIOUS
<1> HIDE DEF m, n, trail, events
<1>8. /\ size \in Nat /\ (trail = {} <=> size = 0)
      /\ Cardinality(trail1) = size + 1 /\ Place(trail1, m) = size + 1
      /\ \A x \in trail : /\ Place(trail1, x) = Place(trail, x)
                          /\ Place(trail, x) \in 1..size
  <2>1. /\ Cardinality(trail) \in Nat /\ (trail = {} <=> Cardinality(trail) = 0)
        /\ Cardinality(trail \cup {m}) = Cardinality(trail) + 1
        /\ Place(trail \cup {m}, m) = Cardinality(trail) + 1
        /\ \A x \in trail : /\ Place(trail \cup {m}, x) = Place(trail, x)
                         /\ Place(trail, x) \in 1..Cardinality(trail)
    BY ONLY <1>1, <1>4, <1>7, PlaceOfLast
  <2> QED
    BY <1>5, <1>7, <2>1
<1>9. /\ Cardinality(events1) = size + 1 /\ Place(events1, n) = size + 1
      /\ \A x \in events : /\ Place(events1, x) = Place(events, x)
                           /\ Place(events, x) \in 1..size
  <2>1. /\ Cardinality(events \cup {n}) = Cardinality(events) + 1
        /\ Place(events \cup {n}, n) = Cardinality(events) + 1
        /\ \A x \in events : /\ Place(events \cup {n}, x) = Place(events, x)
                         /\ Place(events, x) \in 1..Cardinality(events)
    BY ONLY <1>1, <1>4, <1>7, PlaceOfLast
  <2> QED
    BY <1>6, <1>7, <2>1
<1>10. ASSUME NEW i \in trail1
       PROVE  /\ \A j \in events1 : Place(events1, j) = Place(trail1, i) =>
                   audit'[i].new = StatusTold(outbox'[j].type)
              /\ Place(trail1, i) = 1 => audit'[i].old = "NONE"
              /\ \A k \in trail1 : Place(trail1, k) + 1 = Place(trail1, i) =>
                   audit'[i].old = audit'[k].new
              /\ Place(trail1, i) = size + 1 => audit'[i].new = new
  <2>1. CASE i \in trail
    <3>1. /\ Place(trail1, i) = Place(trail, i) /\ Place(trail, i) \in 1..size
          /\ audit'[i] = audit[i]
      BY <1>1, <1>4, <1>8, <2>1
    <3>2. ASSUME NEW j \in events1, Place(events1, j) = Place(trail1, i)
          PROVE  audit'[i].new = StatusTold(outbox'[j].type)
      <4>1. j # n
        BY <1>8, <1>9, <3>1, <3>2
      <4>2. j \in events /\ outbox'[j] = outbox[j]
        BY <1>1, <1>4, <1>7, <3>2, <4>1
      <4> QED
        BY <1>9, <2>1, <3>1, <3>2, <4>2 DEF TrailInv, trail, events
    <3>3. ASSUME NEW k \in trail1, Place(trail1, k) + 1 = Place(trail1, i)
          PROVE  audit'[i].old = audit'[k].new
      <4>1. k # m
        BY <1>8, <3>1, <3>3
      <4>2. k \in trail /\ audit'[k] = audit[k]
        BY <1>1, <1>4, <1>7, <3>3, <4>1
      <4> QED
        BY <1>8, <2>1, <3>1, <3>3, <4>2 DEF TrailInv, trail
    <3>4. Place(trail1, i) = 1 => audit'[i].old = "NONE"
      BY <2>1, <3>1 DEF TrailInv, trail
    <3>5. Place(trail1, i) # size + 1
      BY <1>8, <3>1
    <3> QED
      BY <3>2, <3>3, <3>4, <3>5
  <2>2. CASE i = m
    <3>1. /\ Place(trail1, i) = size + 1
          /\ audit'[i].old = old /\ audit'[i].new = new
      BY <1>2, <1>8, <2>2
    <3>2. ASSUME NEW j \in events1, Place(events1, j) = Place(trail1, i)
          PROVE  audit'[i].new = StatusTold(outbox'[j].type)
      <4>1. j = n
        BY <1>7, <1>8, <1>9, <3>1, <3>2
      <4> QED
        BY <1>2, <3>1, <4>1
    <3>3. ASSUME NEW k \in trail1, Place(trail1, k) + 1 = Place(trail1, i)
          PROVE  audit'[i].old = audit'[k].new
      <4>1. k # m /\ k \in trail
        BY <1>7, <1>8, <3>1, <3>3
      <4>2. Place(trail, k) = size /\ audit'[k] = audit[k]
        BY <1>1, <1>4, <1>8, <3>1, <3>3, <4>1
      <4>3. audit[k].new = LogStatus(r)
        BY <1>5, <4>1, <4>2 DEF TrailInv, trail
      <4>4. r \in DOMAIN requests
        BY <4>1 DEF TrailInv, trail
      <4> QED
        BY <3>1, <4>2, <4>3, <4>4
    <3>4. Place(trail1, i) = 1 => audit'[i].old = "NONE"
      <4>1. size = 0 => r \notin DOMAIN requests
        BY <1>8 DEF TrailInv, trail
      <4>2. size + 1 = 1 => size = 0
        BY <1>8
      <4> QED
        BY <3>1, <4>1, <4>2
    <3> QED
      BY <3>1, <3>2, <3>3, <3>4
  <2> QED
    BY <1>7, <2>1, <2>2
<1>11. trail1 # {}
  BY <1>7
<1>12. TrailOf(r)' = trail1 /\ EventsOf(r)' = events1
  BY <1>3, <1>7
<1>13. (Cardinality(TrailOf(r)) = Cardinality(EventsOf(r)))'
  BY <1>8, <1>9, <1>12
<1>14. ASSUME NEW i \in TrailOf(r)'
       PROVE  /\ (\A j \in EventsOf(r) :
                     Place(EventsOf(r), j) = Place(TrailOf(r), i) =>
                       audit[i].new = StatusTold(outbox[j].type))'
              /\ (Place(TrailOf(r), i) = 1 => audit[i].old = "NONE")'
              /\ (\A k \in TrailOf(r) :
                     Place(TrailOf(r), k) + 1 = Place(TrailOf(r), i) =>
                       audit[i].old = audit[k].new)'
              /\ (Place(TrailOf(r), i) = Cardinality(TrailOf(r)) =>
                     audit[i].new = LogStatus(r))'
  BY <1>8, <1>10, <1>12, ZenonT(60)
<1>15. /\ r \in DOMAIN requests'
       /\ TrailOf(r)' # {}
  BY <1>11, <1>12
<1> QED
  BY <1>13, <1>14, <1>15 DEF TrailInv

(* What is appended for another request is not of this one.                *)
LEMMA EventOfAnother ==
  ASSUME TablesOK, NEW r, NEW q, q # r, NEW type,
         outbox' = Append(outbox, Event(type, q))
  PROVE  /\ EventsOf(r)' = EventsOf(r)
         /\ \A i \in EventsOf(r) : outbox'[i] = outbox[i]
<1> DEFINE n == Len(outbox) + 1
<1>1. /\ DOMAIN outbox' = DOMAIN outbox \cup {n} /\ n \notin DOMAIN outbox
      /\ outbox'[n] = Event(type, q)
      /\ \A i \in DOMAIN outbox : outbox'[i] = outbox[i]
  BY DEF TablesOK
<1>2. outbox'[n].aggregate = q
  BY <1>1 DEF Event
<1> HIDE DEF n
<1> QED
  BY <1>1, <1>2 DEF EventsOf

LEMMA EntryOfAnother ==
  ASSUME TablesOK, NEW r, NEW q, q # r, NEW old, NEW new,
         audit' = Append(audit, AuditRow(q, old, new))
  PROVE  /\ TrailOf(r)' = TrailOf(r)
         /\ \A i \in TrailOf(r) : audit'[i] = audit[i]
<1> DEFINE n == Len(audit) + 1
<1>1. /\ DOMAIN audit' = DOMAIN audit \cup {n} /\ n \notin DOMAIN audit
      /\ audit'[n] = AuditRow(q, old, new)
      /\ \A i \in DOMAIN audit : audit'[i] = audit[i]
  BY DEF TablesOK
<1>2. audit'[n].entity = q
  BY <1>1 DEF AuditRow
<1> HIDE DEF n
<1> QED
  BY <1>1, <1>2 DEF TrailOf

LEMMA SyncIsOfAnother ==
  ASSUME TablesOK, NEW r, r # System, NEW c \in Calls, SyncCommits(c)
  PROVE  /\ EventsOf(r)' = EventsOf(r)
         /\ \A i \in EventsOf(r) : outbox'[i] = outbox[i]
<1> DEFINE e1 == Event("BALANCE_SYNCED", System)
           e2 == Event("BALANCE_DRIFT_DETECTED", System)
<1>1. /\ e1 \in Events /\ e2 \in Events
      /\ e1.aggregate = System /\ e2.aggregate = System
  BY DEF Event, Events, SystemEvents
<1>2. CASE outbox' = Append(outbox, e1)
  BY <1>2, EventOfAnother
<1>3. CASE outbox' = Append(Append(outbox, e1), e2)
  <2> HIDE DEF e1, e2
  <2>1. /\ DOMAIN outbox = 1..Len(outbox) /\ Len(outbox) \in Nat
        /\ DOMAIN outbox' = 1..(Len(outbox) + 2)
        /\ outbox'[Len(outbox) + 1] = e1
        /\ outbox'[Len(outbox) + 2] = e2
        /\ \A i \in 1..Len(outbox) : outbox'[i] = outbox[i]
    BY <1>1, <1>3 DEF TablesOK
  <2>2. \A i \in DOMAIN outbox' : i \in DOMAIN outbox \/ outbox'[i].aggregate # r
    BY <1>1, <2>1
  <2>3. DOMAIN outbox \subseteq DOMAIN outbox'
    BY <2>1
  <2> QED
    BY <2>1, <2>2, <2>3 DEF EventsOf
<1> QED
  BY <1>2, <1>3 DEF SyncCommits

(* The three decisions also leave the entry their event calls for. *)
LEMMA DecisionRecorded ==
  ASSUME ServiceInv, LogInv, TrailsOK, NEW q, NEW old, NEW new, NEW type,
         <<old, new, type>> \in Decisions, Decides(q, old, new, type),
         audit' = Append(audit, AuditRow(q, old, new))
  PROVE  TrailsOK'
<1>0. /\ TablesOK /\ old \in {"PENDING", "APPROVED"}
      /\ new = StatusTold(type)
  BY DEF ServiceInv, Decisions, StatusTold
<1>1. /\ q \in Requests /\ q \in DOMAIN requests /\ LogStatus(q) = old
      /\ outbox' = Append(outbox, Event(type, q))
  BY <1>0, DecisionIsNew DEF Decides
<1>2. /\ DOMAIN requests' = DOMAIN requests
      /\ LogStatus(q)' = new
      /\ \A r \in Requests : r # q => LogStatus(r)' = LogStatus(r)
  BY <1>0, DecisionTells
<1>3. TrailInv(q)'
  <2>1. TrailInv(q)
    BY <1>1 DEF TrailsOK
  <2>2. old = IF q \in DOMAIN requests THEN LogStatus(q) ELSE "NONE"
    BY <1>1
  <2>3. q \in DOMAIN requests'
    BY <1>1, <1>2
  <2> QED
    BY <1>0, <1>1, <1>2, <2>1, <2>2, <2>3, TrailGrows
<1>4. ASSUME NEW r \in Requests, r # q PROVE TrailInv(r)'
  <2>1. TrailInv(r)
    BY DEF TrailsOK
  <2>2. /\ EventsOf(r)' = EventsOf(r)
        /\ \A i \in EventsOf(r) : outbox'[i] = outbox[i]
    BY <1>0, <1>1, <1>4, EventOfAnother
  <2>3. /\ TrailOf(r)' = TrailOf(r)
        /\ \A i \in TrailOf(r) : audit'[i] = audit[i]
    BY <1>0, <1>4, EntryOfAnother
  <2>4. /\ LogStatus(r)' = LogStatus(r)
        /\ r \in DOMAIN requests' <=> r \in DOMAIN requests
    BY <1>2, <1>4
  <2> QED
    BY <2>1, <2>2, <2>3, <2>4, TrailKept
<1> QED
  BY <1>3, <1>4 DEF TrailsOK

LEMMA CreateRecorded ==
  ASSUME ServiceInv, LogInv, TrailsOK, NEW c \in Calls, NEW q \in Requests,
         CreateCommits(c, q)
  PROVE  TrailsOK'
<1>0. TablesOK
  BY DEF ServiceInv
<1>1. /\ q \notin DOMAIN requests
      /\ DOMAIN requests' = DOMAIN requests \cup {q}
      /\ outbox' = Append(outbox, Event("TIME_OFF_REQUESTED", q))
      /\ audit' = Append(audit, AuditRow(q, "NONE", "PENDING"))
  BY DEF CreateCommits, Publish
<1>2. \A t, r : Logged(t, r)' <=>
        Logged(t, r) \/ (t = "TIME_OFF_REQUESTED" /\ r = q)
  BY <1>0, <1>1, LoggedAppend, EventsDiffer DEF TablesOK
<1>3. \A r \in Requests : LogStatus(r)' = LogStatus(r)
  BY <1>2 DEF LogStatus
<1>4. LogStatus(q) = "PENDING"
  BY <1>1 DEF LogInv, LogOK, LogStatus, RequestEvents
<1>5. TrailInv(q)'
  <2>1. TrailInv(q)
    BY DEF TrailsOK
  <2>2. "NONE" = IF q \in DOMAIN requests THEN LogStatus(q) ELSE "NONE"
    BY <1>1
  <2>3. q \in DOMAIN requests' /\ LogStatus(q)' = "PENDING"
    BY <1>1, <1>3, <1>4
  <2>4. "PENDING" = StatusTold("TIME_OFF_REQUESTED")
    BY DEF StatusTold
  <2> QED
    BY <1>1, <2>1, <2>2, <2>3, <2>4, TrailGrows
<1>6. ASSUME NEW r \in Requests, r # q PROVE TrailInv(r)'
  <2>1. TrailInv(r)
    BY DEF TrailsOK
  <2>2. /\ EventsOf(r)' = EventsOf(r)
        /\ \A i \in EventsOf(r) : outbox'[i] = outbox[i]
    BY <1>0, <1>1, <1>6, EventOfAnother
  <2>3. /\ TrailOf(r)' = TrailOf(r)
        /\ \A i \in TrailOf(r) : audit'[i] = audit[i]
    BY <1>0, <1>1, <1>6, EntryOfAnother
  <2>4. /\ LogStatus(r)' = LogStatus(r)
        /\ r \in DOMAIN requests' <=> r \in DOMAIN requests
    BY <1>1, <1>3, <1>6
  <2> QED
    BY <2>1, <2>2, <2>3, <2>4, TrailKept
<1> QED
  BY <1>5, <1>6 DEF TrailsOK

LEMMA SyncRecorded ==
  ASSUME ServiceInv, TrailsOK, NEW c \in Calls, SyncCommits(c)
  PROVE  TrailsOK'
<1>0. TablesOK /\ outbox \in Seq(Events)
  BY DEF ServiceInv, TablesOK
<1>1. /\ UNCHANGED requests
      /\ audit' = Append(audit, AuditRow(System, "NONE", "SYNC"))
  BY DEF SyncCommits
<1>2. ASSUME NEW r \in Requests PROVE TrailInv(r)'
  <2>1. TrailInv(r) /\ r # System
    BY RequestIds DEF TrailsOK, RequestIds
  <2>2. /\ EventsOf(r)' = EventsOf(r)
        /\ \A i \in EventsOf(r) : outbox'[i] = outbox[i]
    BY <1>0, <2>1, SyncIsOfAnother
  <2>3. /\ TrailOf(r)' = TrailOf(r)
        /\ \A i \in TrailOf(r) : audit'[i] = audit[i]
    BY <1>0, <1>1, <2>1, EntryOfAnother
  <2>4. LogStatus(r)' = LogStatus(r)
    BY <1>0, SyncLogs DEF LogStatus, RequestEvents
  <2> QED
    BY <1>1, <2>1, <2>2, <2>3, <2>4, TrailKept
<1> QED
  BY <1>2 DEF TrailsOK

LEMMA TrailsStep ==
  ASSUME ServiceInv, LogInv, TrailsOK, [Next]_vars
  PROVE  TrailsOK'
<1>0. TablesOK /\ CallsOK
  BY DEF ServiceInv
<1>1. ASSUME UNCHANGED <<outbox, audit>>, DOMAIN requests' = DOMAIN requests
      PROVE  TrailsOK'
  <2>1. \A q : LogStatus(q)' = LogStatus(q)
    BY <1>1 DEF LogStatus, Logged
  <2>2. \A q : TrailOf(q)' = TrailOf(q) /\ EventsOf(q)' = EventsOf(q)
    BY <1>1 DEF TrailOf, EventsOf
  <2>3. ASSUME NEW r \in Requests PROVE TrailInv(r)'
    <3>1. TrailInv(r)
      BY DEF TrailsOK
    <3> QED
      BY <1>1, <2>1, <2>2, <3>1, TrailKept
  <2> QED
    BY <2>3 DEF TrailsOK
<1>2. ASSUME NEW c \in Calls, Writes(c) PROVE TrailsOK'
  <2> DEFINE r == calls[c].request
             old == requests[r].status
  <2>1. ASSUME NEW q \in Requests, CreateCommits(c, q) PROVE TrailsOK'
    BY <2>1, CreateRecorded
  <2>2. CASE ApproveMarksSyncFailed(c)
    <3>1. UNCHANGED <<outbox, audit>> /\ DOMAIN requests' = DOMAIN requests
      BY <2>2 DEF ApproveMarksSyncFailed, SetStatus
    <3> QED
      BY <1>1, <3>1
  <2>3. CASE ApproveCommits(c)
    <3>1. /\ Decides(r, "PENDING", "APPROVED", "TIME_OFF_APPROVED")
          /\ audit' = Append(audit, AuditRow(r, "PENDING", "APPROVED"))
      BY <1>0, <2>3, ApproveDecides DEF ApproveCommits, Publish
    <3> QED
      BY <3>1, DecisionRecorded DEF Decisions
  <2>4. CASE RejectCommits(c)
    <3>1. /\ Decides(r, "PENDING", "REJECTED", "TIME_OFF_REJECTED")
          /\ audit' = Append(audit, AuditRow(r, "PENDING", "REJECTED"))
      BY <1>0, <2>4, RejectDecides DEF RejectCommits, Publish
    <3> QED
      BY <3>1, DecisionRecorded DEF Decisions
  <2>5. CASE CancelCommits(c)
    <3>1. /\ old \in {"PENDING", "APPROVED"}
          /\ Decides(r, old, "CANCELLED", "TIME_OFF_CANCELLED")
          /\ audit' = Append(audit, AuditRow(r, old, "CANCELLED"))
      BY <1>0, <2>5, CancelDecides DEF CancelCommits, Publish
    <3>2. <<old, "CANCELLED", "TIME_OFF_CANCELLED">> \in Decisions
      BY <3>1 DEF Decisions
    <3> HIDE DEF r, old
    <3> QED
      BY <3>1, <3>2, DecisionRecorded
  <2>6. CASE SyncCommits(c)
    BY <2>6, SyncRecorded
  <2> QED
    BY <1>2, <2>1, <2>2, <2>3, <2>4, <2>5, <2>6 DEF Writes
<1>3. UNCHANGED tables => UNCHANGED <<outbox, audit, requests>>
  BY DEF tables
<1> QED
  BY <1>1, <1>2, <1>3, StepCases

LEMMA TrailsInit == Init => TrailsOK
<1> SUFFICES ASSUME Init, NEW r \in Requests PROVE TrailInv(r)
  BY DEF TrailsOK
<1>1. /\ DOMAIN outbox = {} /\ DOMAIN audit = {} /\ DOMAIN requests = {}
  BY DEF Init
<1>2. TrailOf(r) = {} /\ EventsOf(r) = {}
  BY <1>1 DEF TrailOf, EventsOf
<1> QED
  BY <1>1, <1>2 DEF TrailInv

(* The audit log and the events of a request are written by the same       *)
(* transactions: entry by entry they tell the same story, and each entry   *)
(* goes on from the status where the one before it ended, however the      *)
(* handlers interleave.                                                    *)
THEOREM TrailsFollowEvents == Spec => []AuditMatchesOutbox
<1>1. ServiceInv /\ LogInv /\ TrailsOK /\ [Next]_vars => TrailsOK'
  BY TrailsStep
<1>2. TrailsOK => AuditMatchesOutbox
  BY DEF TrailsOK, TrailInv, AuditMatchesOutbox
<1> QED
  BY <1>1, <1>2, TrailsInit, LogInvariant, ServiceInvariant, PTL DEF Spec

=============================================================================
