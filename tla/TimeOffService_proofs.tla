------------------------ MODULE TimeOffService_proofs ------------------------
(***************************************************************************)
(* Proofs about TimeOffService and the HcmClient it is built on, for any   *)
(* number of calls, requests, keys, balances and attempts, any set of      *)
(* create commands and any HCM totals.                                     *)
(***************************************************************************)
EXTENDS TimeOffService, FiniteSetTheorems, TLAPS

(* HcmClient by itself. *)

(* AnswersAreTrue is not inductive: an answer that is on its way back must *)
(* be true already, and Cardinality says something of finite sets only.    *)
ClientOK(c) ==
  /\ IsFiniteSet(OnWire(c))
  /\ served[c] + Cardinality(OnWire(c)) <= client[c].attempt
  /\ \A m \in OnWire(c) : m.order = client[c].order
  /\ client[c].answer = "success" => served[c] > 0
  /\ client[c].phase = "ok" => served[c] > 0

HcmInv == HcmTypeOK /\ \A c \in Calls : ClientOK(c)

-----------------------------------------------------------------------------
LEMMA AddAtMostOne ==
  ASSUME NEW S, IsFiniteSet(S), NEW x
  PROVE  /\ IsFiniteSet(S \cup {x})
         /\ Cardinality(S \cup {x}) \in Nat
         /\ Cardinality(S \cup {x}) <= Cardinality(S) + 1
<1>1. /\ IsFiniteSet(S \cup {x})
      /\ Cardinality(S \cup {x}) = IF x \in S THEN Cardinality(S)
                                              ELSE Cardinality(S) + 1
  BY FS_AddElement
<1>2. Cardinality(S) \in Nat /\ Cardinality(S \cup {x}) \in Nat
  BY <1>1, FS_CardinalityType
<1> QED
  BY <1>1, <1>2

LEMMA HcmInitInv == HcmInit => HcmInv
<1> SUFFICES ASSUME HcmInit PROVE HcmInv
  OBVIOUS
<1>1. HcmTypeOK
  <2>1. hcm \in [HcmRows -> Nat]
    BY HcmAssumption DEF HcmAssumption, HcmInit
  <2>2. Idle \in Clients
    BY HcmAssumption DEF HcmAssumption, Idle, Clients, Phases, Answers
  <2> QED
    BY <2>1, <2>2 DEF HcmTypeOK, HcmInit, Idle
<1>2. ASSUME NEW c \in Calls PROVE ClientOK(c)
  <2>1. OnWire(c) = {}
    BY DEF OnWire, HcmInit
  <2>2. IsFiniteSet(OnWire(c)) /\ Cardinality(OnWire(c)) = 0
    BY <2>1, FS_EmptySet
  <2> QED
    BY <2>1, <2>2 DEF ClientOK, HcmInit, Idle
<1> QED
  BY <1>1, <1>2 DEF HcmInv

LEMMA HcmTypeStep == HcmTypeOK /\ [HcmNext]_hcmVars => HcmTypeOK'
<1> SUFFICES ASSUME HcmTypeOK, [HcmNext]_hcmVars PROVE HcmTypeOK'
  OBVIOUS
<1>0. /\ HcmTotals \subseteq Nat
      /\ Days \subseteq Nat \ {0}
      /\ MaxAttempts \in Nat \ {0}
  BY HcmAssumption DEF HcmAssumption
<1> USE <1>0 DEF HcmTypeOK
<1> DEFINE OrderOK(k) == k.phase # "off" => k.order \in Orders
<1>1. ASSUME NEW c \in Calls, NEW o \in Orders, ApplyLeave(c, o)
      PROVE  HcmTypeOK'
  BY <1>1 DEF ApplyLeave, Clients, Phases, Answers
<1>2. ASSUME NEW c \in Calls, SendAttempt(c) PROVE HcmTypeOK'
  <2>1. \A d \in Calls : client'[d] \in Clients /\ OrderOK(client'[d])
    BY <1>2 DEF SendAttempt, Clients, Phases, Answers
  <2>2. client[c].order \in Orders
    BY <1>2 DEF SendAttempt
  <2> QED
    BY <1>2, <2>1, <2>2 DEF SendAttempt, Messages, Clients
<1>3. ASSUME NEW c \in Calls, ReceiveAnswer(c) PROVE HcmTypeOK'
  <2>1. \A d \in Calls : client'[d] \in Clients /\ OrderOK(client'[d])
    BY <1>3 DEF ReceiveAnswer, Clients, Phases
  <2> QED
    BY <1>3, <2>1 DEF ReceiveAnswer
<1>4. ASSUME NEW c \in Calls, AttemptFails(c) PROVE HcmTypeOK'
  <2>1. \A d \in Calls : client'[d] \in Clients /\ OrderOK(client'[d])
    BY <1>4, ZenonT(60) DEF AttemptFails, Clients, Phases, Answers
  <2> QED
    BY <1>4, <2>1 DEF AttemptFails
<1>5. ASSUME NEW m \in wire, NEW answer \in Answers,
             client' = Answered(m, answer)
      PROVE  /\ client' \in [Calls -> Clients]
             /\ \A d \in Calls : OrderOK(client'[d])
  <2>1. m.call \in Calls
    BY DEF Messages
  <2>2. \A d \in Calls : client'[d] \in Clients /\ OrderOK(client'[d])
    BY <1>5, <2>1 DEF Answered, Clients
  <2> QED
    BY <1>5, <2>1, <2>2 DEF Answered
<1>6. ASSUME NEW m \in wire, HcmApplies(m) PROVE HcmTypeOK'
  <2>1. /\ client' \in [Calls -> Clients]
        /\ \A d \in Calls : OrderOK(client'[d])
    BY <1>5, <1>6 DEF HcmApplies, Answers
  <2>2. m.call \in Calls /\ m.order.days \in Int
    <3>1. \A x \in Days \cup {-n : n \in Days} : x \in Int
      OBVIOUS
    <3>2. m.order \in Orders /\ m.call \in Calls
      BY DEF Messages
    <3> QED
      BY <3>1, <3>2 DEF Orders
  <2>3. hcm' \in [HcmRows -> Nat]
    BY <1>6, <2>2 DEF HcmApplies, Covers
  <2> QED
    BY <1>6, <2>1, <2>2, <2>3 DEF HcmApplies
<1>7. ASSUME NEW m \in wire, HcmRefuses(m) PROVE HcmTypeOK'
  BY <1>5, <1>7 DEF HcmRefuses, Answers
<1>8. CASE ForgetClients
  <2>1. \A d \in Calls : client'[d] \in Clients /\ OrderOK(client'[d])
    BY <1>8 DEF ForgetClients, Clients, Phases
  <2> QED
    BY <1>8, <2>1 DEF ForgetClients
<1>9. CASE UNCHANGED hcmVars
  BY <1>9 DEF hcmVars
<1> QED
  BY <1>1, <1>2, <1>3, <1>4, <1>6, <1>7, <1>8, <1>9 DEF HcmNext, HcmStep

(* What the HCM has applied for a call, plus what it may still apply,      *)
(* never exceeds the attempts the client has made.                         *)
LEMMA ClientStep ==
  ASSUME HcmInv, [HcmNext]_hcmVars, NEW d \in Calls
  PROVE  ClientOK(d)'
<1> USE DEF HcmInv, HcmTypeOK
<1>0. ClientOK(d) /\ client[d] \in Clients /\ served[d] \in Nat
      /\ client[d].attempt \in Nat
  BY DEF Clients
<1>c. Cardinality(OnWire(d)) \in Nat
  BY <1>0, FS_CardinalityType DEF ClientOK
<1>1. ASSUME NEW c \in Calls, NEW o \in Orders, ApplyLeave(c, o)
      PROVE  ClientOK(d)'
  <2>1. OnWire(d)' = OnWire(d)
    BY <1>1 DEF ApplyLeave, OnWire
  <2>2. CASE c = d
    <3>1. Cardinality(OnWire(d)) = 0 /\ served[d] = 0
      BY <1>0, <1>1, <1>c, <2>2 DEF ApplyLeave, ClientOK
    <3>2. OnWire(d) = {}
      BY <1>0, <3>1, FS_EmptySet DEF ClientOK
    <3> QED
      BY <1>0, <1>1, <2>1, <2>2, <3>1, <3>2 DEF ApplyLeave, ClientOK
  <2>3. CASE c # d
    BY <1>0, <1>1, <2>1, <2>3 DEF ApplyLeave, ClientOK
  <2> QED
    BY <2>2, <2>3
<1>2. ASSUME NEW c \in Calls, SendAttempt(c) PROVE ClientOK(d)'
  <2>1. CASE c = d
    <3> DEFINE m == [call |-> c, attempt |-> client[c].attempt + 1,
                     order |-> client[c].order]
    <3>1. OnWire(d)' = OnWire(d) \cup {m}
      BY <1>2, <2>1 DEF SendAttempt, OnWire
    <3>2. /\ IsFiniteSet(OnWire(d)')
          /\ Cardinality(OnWire(d)') <= Cardinality(OnWire(d)) + 1
      <4> HIDE DEF m
      <4>1. IsFiniteSet(OnWire(d))
        BY <1>0 DEF ClientOK
      <4>2. /\ IsFiniteSet(OnWire(d) \cup {m})
            /\ Cardinality(OnWire(d) \cup {m}) <= Cardinality(OnWire(d)) + 1
        BY <4>1, AddAtMostOne
      <4> QED
        BY <3>1, <4>2
    <3>3. Cardinality(OnWire(d)') \in Nat
      BY <3>2, FS_CardinalityType
    <3>4. /\ client'[d].attempt = client[d].attempt + 1
          /\ client'[d].order = client[d].order
          /\ client'[d].answer = "none" /\ client'[d].phase = "waiting"
          /\ served'[d] = served[d]
      BY <1>2, <2>1, <1>0 DEF SendAttempt, Clients
    <3> QED
      BY <1>0, <1>c, <2>1, <3>1, <3>2, <3>3, <3>4 DEF ClientOK
  <2>2. CASE c # d
    <3>1. OnWire(d)' = OnWire(d)
      BY <1>2, <2>2 DEF SendAttempt, OnWire
    <3> QED
      BY <1>0, <1>2, <2>2, <3>1 DEF SendAttempt, ClientOK
  <2> QED
    BY <2>1, <2>2
<1>3. ASSUME NEW c \in Calls, ReceiveAnswer(c) PROVE ClientOK(d)'
  <2>1. OnWire(d)' = OnWire(d) /\ served'[d] = served[d]
    BY <1>3 DEF ReceiveAnswer, OnWire
  <2>2. /\ client'[d].attempt = client[d].attempt
        /\ client'[d].order = client[d].order
        /\ client'[d].answer = client[d].answer
        /\ client'[d].phase = "ok" =>
             client[d].phase = "ok" \/ client[d].answer = "success"
    BY <1>0, <1>3 DEF ReceiveAnswer, Clients
  <2> QED
    BY <1>0, <2>1, <2>2 DEF ClientOK
<1>4. ASSUME NEW c \in Calls, AttemptFails(c) PROVE ClientOK(d)'
  <2>1. OnWire(d)' = OnWire(d) /\ served'[d] = served[d]
    BY <1>4 DEF AttemptFails, OnWire
  <2>2. /\ client'[d].attempt = client[d].attempt
        /\ client'[d].order = client[d].order
        /\ client'[d].answer \in {"none", client[d].answer}
        /\ client'[d].phase = "ok" => client[d].phase = "ok"
    BY <1>0, <1>4 DEF AttemptFails, Clients
  <2> QED
    BY <1>0, <2>1, <2>2 DEF ClientOK
<1>5. ASSUME NEW m \in wire, NEW answer \in Answers,
             client' = Answered(m, answer)
      PROVE  /\ client'[d].attempt = client[d].attempt
             /\ client'[d].order = client[d].order
             /\ client'[d].phase = client[d].phase
             /\ \/ client'[d].answer = client[d].answer
                \/ m.call = d /\ client'[d].answer = answer
  BY <1>0, <1>5 DEF Answered, Messages, Clients
<1>6. ASSUME NEW m \in wire, wire' = wire \ {m}
      PROVE  /\ OnWire(d)' \subseteq OnWire(d)
             /\ IsFiniteSet(OnWire(d)')
             /\ Cardinality(OnWire(d)') \in Nat
             /\ Cardinality(OnWire(d)') <= Cardinality(OnWire(d))
             /\ m.call = d =>
                  Cardinality(OnWire(d)') + 1 = Cardinality(OnWire(d))
  <2>1. OnWire(d)' = OnWire(d) \ {m}
    BY <1>6 DEF OnWire
  <2>2. m.call = d => m \in OnWire(d)
    BY DEF OnWire
  <2>3. /\ IsFiniteSet(OnWire(d)')
        /\ Cardinality(OnWire(d)') = IF m \in OnWire(d)
             THEN Cardinality(OnWire(d)) - 1 ELSE Cardinality(OnWire(d))
    BY <1>0, <2>1, FS_RemoveElement DEF ClientOK
  <2>4. Cardinality(OnWire(d)') \in Nat
    BY <2>3, FS_CardinalityType
  <2> QED
    BY <1>c, <2>1, <2>2, <2>3, <2>4
<1>7. ASSUME NEW m \in wire, HcmApplies(m) PROVE ClientOK(d)'
  <2>1. /\ m.call \in Calls
        /\ m.call # d => served'[d] = served[d]
        /\ m.call = d => served'[d] = served[d] + 1
    BY <1>0, <1>7 DEF HcmApplies, Messages
  <2> QED
    BY <1>0, <1>c, <1>5, <1>6, <1>7, <2>1 DEF HcmApplies, ClientOK, Answers
<1>8. ASSUME NEW m \in wire, HcmRefuses(m) PROVE ClientOK(d)'
  <2>1. served'[d] = served[d]
    BY <1>8 DEF HcmRefuses
  <2> QED
    BY <1>0, <1>c, <1>5, <1>6, <1>8, <2>1 DEF HcmRefuses, ClientOK, Answers
<1>9. CASE ForgetClients
  <2>1. OnWire(d)' = OnWire(d) /\ served'[d] = served[d]
    BY <1>9 DEF ForgetClients, OnWire
  <2>2. /\ client'[d].attempt = client[d].attempt
        /\ client'[d].order = client[d].order
        /\ client'[d].answer = client[d].answer
        /\ client'[d].phase = "ok" => client[d].phase = "ok"
    BY <1>0, <1>9 DEF ForgetClients, Clients
  <2> QED
    BY <1>0, <2>1, <2>2 DEF ClientOK
<1>10. CASE UNCHANGED hcmVars
  BY <1>0, <1>10 DEF hcmVars, ClientOK, OnWire
<1> QED
  BY <1>1, <1>2, <1>3, <1>4, <1>7, <1>8, <1>9, <1>10 DEF HcmNext, HcmStep

LEMMA HcmInvStep == HcmInv /\ [HcmNext]_hcmVars => HcmInv'
  BY HcmTypeStep, ClientStep DEF HcmInv

(* The client never reports a leave as applied that the HCM has not        *)
(* applied, and never costs more than its attempts, for every number of    *)
(* attempts and however late the HCM works off what it was sent.           *)
THEOREM HcmCorrect == HcmSpec => []AnswersAreTrue
<1>1. HcmInv => AnswersAreTrue
  BY DEF HcmInv, ClientOK, AnswersAreTrue
<1> QED
  BY <1>1, HcmInitInv, HcmInvStep, PTL DEF HcmSpec
-----------------------------------------------------------------------------
(* What the sum of days does when a request is added to or taken out of    *)
(* the requests it ranges over, and what the statements of the balance     *)
(* repository do to the columns of a row.                                  *)

LEMMA OneRequest ==
  ASSUME NEW r, NEW n \in Nat
  PROVE  /\ IsFiniteSet({r} \X (1..n))
         /\ Cardinality({r} \X (1..n)) = n
<1>1. IsFiniteSet({r}) /\ Cardinality({r}) = 1
  BY FS_Singleton
<1>2. IsFiniteSet(1..n) /\ Cardinality(1..n) = n
  BY FS_Interval
<1>3. /\ IsFiniteSet({r} \X (1..n))
      /\ Cardinality({r} \X (1..n)) = Cardinality({r}) * Cardinality(1..n)
  BY <1>1, <1>2, FS_Product
<1> QED
  BY <1>1, <1>2, <1>3

(* The sum ranges over finitely many days. *)
LEMMA PairsAreFinite ==
  ASSUME NEW R, IsFiniteSet(R), NEW days, \A r \in R : days[r] \in Nat
  PROVE  IsFiniteSet(DayPairs(R, days)) /\ TotalDays(R, days) \in Nat
<1> DEFINE Pairs == {{r} \X (1..days[r]) : r \in R}
<1>1. IsFiniteSet(Pairs)
  <2> DEFINE f == [r \in R |-> {r} \X (1..days[r])]
  <2>1. f \in Surjection(R, Pairs)
    BY DEF Surjection
  <2> QED
    BY <2>1, FS_Surjection
<1>2. \A T \in Pairs : IsFiniteSet(T)
  <2> SUFFICES ASSUME NEW r \in R PROVE IsFiniteSet({r} \X (1..days[r]))
    OBVIOUS
  <2>1. days[r] \in Nat
    OBVIOUS
  <2> QED
    BY <2>1, OneRequest
<1>3. IsFiniteSet(UNION Pairs)
  BY <1>1, <1>2, FS_UNION
<1> QED
  BY <1>3, FS_CardinalityType DEF DayPairs, TotalDays

(* A request that joins the sum adds its days. *)
LEMMA TotalAdd ==
  ASSUME NEW R, IsFiniteSet(R), NEW r, r \notin R,
         NEW days, \A q \in R \cup {r} : days[q] \in Nat
  PROVE  TotalDays(R \cup {r}, days) = TotalDays(R, days) + days[r]
<1> DEFINE S == DayPairs(R, days)
           T == {r} \X (1..days[r])
<1>1. IsFiniteSet(S) /\ TotalDays(R, days) \in Nat
  BY PairsAreFinite
<1>2. IsFiniteSet(T) /\ Cardinality(T) = days[r]
  BY OneRequest
<1>3. S \cap T = {}
  BY DEF DayPairs
<1>4. Cardinality(S \cup T) = Cardinality(S) + Cardinality(T)
  <2> HIDE DEF S, T
  <2>1. Cardinality(S \cup T)
          = Cardinality(S) + Cardinality(T) - Cardinality(S \cap T)
    BY <1>1, <1>2, FS_Union
  <2>2. Cardinality(S \cap T) = 0
    BY <1>3, FS_EmptySet
  <2>3. Cardinality(S) \in Nat /\ Cardinality(T) \in Nat
    BY <1>1, <1>2, FS_CardinalityType
  <2> QED
    BY <2>1, <2>2, <2>3
<1>5. DayPairs(R \cup {r}, days) = S \cup T
  <2>1. DayPairs(R \cup {r}, days)
          = DayPairs(R, days) \cup ({r} \X (1..days[r]))
    BY DEF DayPairs
  <2> QED
    BY ONLY <2>1 DEF S, T
<1> QED
  BY <1>2, <1>4, <1>5 DEF TotalDays

(* A request that leaves the sum takes its days with it; the sum was at    *)
(* least that much, which is why the WHERE clauses of release and consume  *)
(* never refuse a request that is still pending.                           *)
LEMMA TotalRemove ==
  ASSUME NEW R, IsFiniteSet(R), NEW r \in R,
         NEW days, \A q \in R : days[q] \in Nat
  PROVE  /\ TotalDays(R, days) >= days[r]
         /\ TotalDays(R \ {r}, days) = TotalDays(R, days) - days[r]
<1> DEFINE Q == R \ {r}
<1>1. IsFiniteSet(Q) /\ r \notin Q /\ Q \cup {r} = R
  BY FS_RemoveElement
<1>2. TotalDays(Q \cup {r}, days) = TotalDays(Q, days) + days[r]
  <2> HIDE DEF Q
  <2> QED
    BY <1>1, TotalAdd
<1>3. TotalDays(Q, days) \in Nat
  BY <1>1, PairsAreFinite
<1>4. days[r] \in Nat
  OBVIOUS
<1>5. TotalDays(R, days) = TotalDays(Q, days) + days[r]
  BY <1>1, <1>2
<1> HIDE DEF Q
<1>6. TotalDays(R, days) >= days[r] /\ TotalDays(Q, days) = TotalDays(R, days) - days[r]
  BY <1>3, <1>4, <1>5
<1> QED
  BY <1>6 DEF Q

LEMMA TotalSame ==
  ASSUME NEW R, NEW days1, NEW days2, \A r \in R : days1[r] = days2[r]
  PROVE  TotalDays(R, days1) = TotalDays(R, days2)
<1>1. DayPairs(R, days1) = DayPairs(R, days2)
  BY DEF DayPairs
<1> QED
  BY <1>1 DEF TotalDays

LEMMA TotalEmpty ==
  ASSUME NEW days
  PROVE  TotalDays({}, days) = 0
<1>1. DayPairs({}, days) = {}
  BY DEF DayPairs
<1> QED
  BY <1>1, FS_EmptySet DEF TotalDays

-----------------------------------------------------------------------------
(* Every statement keeps a row a row when its WHERE clause matches. *)
LEMMA Columns ==
  ASSUME NEW row \in BalanceRow
  PROVE  /\ row.available \in Nat /\ row.reserved \in Nat
         /\ row.used \in Nat /\ row.version \in Nat
         /\ row.syncStatus \in SyncStatuses
  BY DEF BalanceRow

LEMMA RowTypes ==
  ASSUME NEW row \in BalanceRow, NEW n \in Nat, NEW v
  PROVE  /\ CanReserve(row, n, v) => Reserve(row, n) \in BalanceRow
         /\ CanReleaseReserved(row, n, v) =>
              ReleaseReserved(row, n) \in BalanceRow
         /\ CanConsume(row, n, v) => ConsumeReserved(row, n) \in BalanceRow
         /\ CanReleaseUsed(row, n, v) => ReleaseUsed(row, n) \in BalanceRow
         /\ Synced(row, n) \in BalanceRow
         /\ NotInCorpus(row) \in BalanceRow
<1>0. /\ row.version + 1 \in Nat
      /\ row.available + n \in Nat
      /\ row.reserved + n \in Nat
      /\ row.used + n \in Nat
      /\ row.available >= n => row.available - n \in Nat
      /\ row.reserved >= n => row.reserved - n \in Nat
      /\ row.used >= n => row.used - n \in Nat
      /\ Reconciled(row, n) \in Nat
  BY Columns DEF Reconciled
<1>1. CanReserve(row, n, v) => Reserve(row, n) \in BalanceRow
  BY <1>0 DEF CanReserve, Reserve, BalanceRow
<1>2. CanReleaseReserved(row, n, v) => ReleaseReserved(row, n) \in BalanceRow
  BY <1>0 DEF CanReleaseReserved, ReleaseReserved, BalanceRow
<1>3. CanConsume(row, n, v) => ConsumeReserved(row, n) \in BalanceRow
  BY <1>0 DEF CanConsume, ConsumeReserved, BalanceRow
<1>4. CanReleaseUsed(row, n, v) => ReleaseUsed(row, n) \in BalanceRow
  BY <1>0 DEF CanReleaseUsed, ReleaseUsed, BalanceRow
<1>5. Synced(row, n) \in BalanceRow
  BY <1>0 DEF Synced, BalanceRow, SyncStatuses
<1>6. NotInCorpus(row) \in BalanceRow
  BY DEF NotInCorpus, BalanceRow, SyncStatuses
<1> QED
  BY <1>1, <1>2, <1>3, <1>4, <1>5, <1>6

-----------------------------------------------------------------------------

(* TypeOK is not inductive: a handler that is still running reads the row  *)
(* of its request and uses the command it was given, so there must be one. *)
TablesOK ==
  /\ balances \in [Balances -> BalanceRow]
  /\ DOMAIN requests \subseteq Requests
  /\ requests \in [DOMAIN requests -> RequestRow]
  /\ DOMAIN idemKeys \subseteq Keys
  /\ idemKeys \in [DOMAIN idemKeys -> KeyRow]
  /\ outbox \in Seq(Events)
  /\ audit \in Seq(AuditRows)

OnRequest == {"approve", "reject", "cancel"}

CallOK(c) ==
  /\ IsCall(calls[c])
  /\ Running(c) =>
       /\ calls[c].op = "create" => calls[c].cmd \in Commands
       /\ calls[c].op \in OnRequest => calls[c].request \in DOMAIN requests

CallsOK == DOMAIN calls = Calls /\ \A c \in Calls : CallOK(c)

ServiceInv == HcmInv /\ TablesOK /\ CallsOK

-----------------------------------------------------------------------------
LEMMA CommandTypes ==
  ASSUME NEW cmd \in Commands
  PROVE  /\ cmd.balance \in Balances
         /\ cmd.days \in Days /\ cmd.days \in Nat /\ cmd.days > 0
         /\ cmd.from \in Nat /\ cmd.to \in Nat
         /\ cmd.key \in Keys \cup {NoKey}
<1>1. \A d \in Days : d \in Nat /\ d > 0
  <2>1. \A d \in Days : d \in Nat \ {0}
    BY HcmAssumption DEF HcmAssumption
  <2> QED
    BY <2>1
<1>2. Commands \subseteq [balance : Balances, from : Nat, to : Nat,
                         days : Days, key : Keys \cup {NoKey}]
  BY ServiceAssumption DEF ServiceAssumption
<1>3. cmd \in [balance : Balances, from : Nat, to : Nat,
              days : Days, key : Keys \cup {NoKey}]
  BY <1>2
<1>4. cmd.days \in Days
  BY <1>3
<1>5. cmd.days \in Nat /\ cmd.days > 0
  BY <1>1, <1>4
<1> QED
  BY <1>3, <1>4, <1>5

LEMMA RequestTypes ==
  ASSUME TablesOK, NEW r \in DOMAIN requests
  PROVE  /\ r \in Requests
         /\ requests[r] \in RequestRow
         /\ requests[r].status \in Statuses
         /\ requests[r].cmd \in Commands
         /\ requests[r].cmd.balance \in Balances
         /\ requests[r].cmd.days \in Nat
         /\ balances[requests[r].cmd.balance] \in BalanceRow
<1>1. /\ r \in Requests /\ requests[r] \in RequestRow
      /\ requests[r].status \in Statuses /\ requests[r].cmd \in Commands
  BY DEF TablesOK, RequestRow
<1>2. requests[r].cmd.balance \in Balances /\ requests[r].cmd.days \in Nat
  BY <1>1, CommandTypes
<1> QED
  BY <1>1, <1>2 DEF TablesOK

(* Each kind of write keeps its table well typed. *)
LEMMA SetBalanceType ==
  ASSUME TablesOK, NEW b, NEW row \in BalanceRow, SetBalance(b, row)
  PROVE  balances' \in [Balances -> BalanceRow]
  BY DEF TablesOK, SetBalance

LEMMA SetStatusType ==
  ASSUME TablesOK, NEW r, NEW status \in Statuses, SetStatus(r, status)
  PROVE  /\ DOMAIN requests' = DOMAIN requests
         /\ requests' \in [DOMAIN requests' -> RequestRow]
<1>1. DOMAIN requests' = DOMAIN requests
  BY DEF SetStatus
<1>2. \A x \in DOMAIN requests : requests'[x] \in RequestRow
  BY DEF TablesOK, SetStatus, RequestRow
<1>3. requests' = [x \in DOMAIN requests |-> requests'[x]]
  BY DEF SetStatus, TablesOK
<1> QED
  BY <1>1, <1>2, <1>3

LEMMA PublishType ==
  ASSUME TablesOK, NEW type \in RequestEvents, NEW r \in Requests,
         NEW old \in Statuses \cup {"NONE"}, NEW new \in Statuses,
         Publish(type, r, old, new)
  PROVE  outbox' \in Seq(Events) /\ audit' \in Seq(AuditRows)
<1>1. Event(type, r) \in Events
  BY DEF Event, Events
<1>2. AuditRow(r, old, new) \in AuditRows
  BY DEF AuditRow, AuditRows
<1> QED
  BY <1>1, <1>2 DEF TablesOK, Publish

-----------------------------------------------------------------------------
(* The two ways a handler's local state changes once it runs. *)
LEMMA ReplyOK ==
  ASSUME CallsOK, NEW c \in Calls, NEW code \in Replies, Reply(c, code),
         DOMAIN requests \subseteq DOMAIN requests'
  PROVE  CallsOK'
<1>1. DOMAIN calls' = Calls
  BY DEF CallsOK, Reply
<1>2. ASSUME NEW d \in Calls PROVE CallOK(d)'
  <2>1. CallOK(d) /\ d \in DOMAIN calls
    BY DEF CallsOK
  <2>2. CASE d = c
    BY <2>1, <2>2 DEF CallOK, Reply, IsCall, Running, Places
  <2>3. CASE d # c
    <3>1. calls'[d] = calls[d]
      BY <2>1, <2>3 DEF Reply
    <3> QED
      BY <2>1, <3>1 DEF CallOK, Running
  <2> QED
    BY <2>2, <2>3
<1> QED
  BY <1>1, <1>2 DEF CallsOK

LEMMA GoToOK ==
  ASSUME CallsOK, NEW c \in Calls, Running(c), NEW pc \in Places, GoTo(c, pc),
         DOMAIN requests \subseteq DOMAIN requests'
  PROVE  CallsOK'
<1>1. DOMAIN calls' = Calls
  BY DEF CallsOK, GoTo
<1>2. ASSUME NEW d \in Calls PROVE CallOK(d)'
  <2>1. CallOK(d) /\ d \in DOMAIN calls
    BY DEF CallsOK
  <2>2. CASE d = c
    BY <2>1, <2>2 DEF CallOK, GoTo, IsCall, Running
  <2>3. CASE d # c
    <3>1. calls'[d] = calls[d]
      BY <2>1, <2>3 DEF GoTo
    <3> QED
      BY <2>1, <3>1 DEF CallOK, Running
  <2> QED
    BY <2>2, <2>3
<1> QED
  BY <1>1, <1>2 DEF CallsOK

(* A handler that starts: its record is a new one. *)
LEMMA StartOK ==
  ASSUME CallsOK, NEW c \in Calls, NEW call, IsCall(call),
         calls' = [calls EXCEPT ![c] = call],
         UNCHANGED requests,
         call.pc \notin {"idle", "done"} =>
           /\ call.op = "create" => call.cmd \in Commands
           /\ call.op \in OnRequest => call.request \in DOMAIN requests
  PROVE  CallsOK'
<1>1. DOMAIN calls' = Calls
  BY DEF CallsOK
<1>2. ASSUME NEW d \in Calls PROVE CallOK(d)'
  BY DEF CallsOK, CallOK, Running
<1> QED
  BY <1>1, <1>2 DEF CallsOK

-----------------------------------------------------------------------------
LEMMA ServiceInitInv == Init => ServiceInv
<1> SUFFICES ASSUME Init PROVE ServiceInv
  OBVIOUS
<1>1. HcmInv
  BY HcmInitInv DEF Init
<1>2. TablesOK
  <2>1. InitialDays \subseteq Nat
    BY ServiceAssumption DEF ServiceAssumption
  <2>2. \A d \in InitialDays : NewBalance(d) \in BalanceRow
    BY <2>1 DEF NewBalance, BalanceRow, SyncStatuses
  <2>3. balances \in [Balances -> BalanceRow]
    BY <2>2 DEF Init
  <2>4. DOMAIN requests = {} /\ requests \in [{} -> RequestRow]
    BY DEF Init
  <2>5. DOMAIN idemKeys = {} /\ idemKeys \in [{} -> KeyRow]
    BY DEF Init
  <2> QED
    BY <2>3, <2>4, <2>5 DEF Init, TablesOK
<1>3. CallsOK
  <2>1. IsCall(NewCall)
    BY DEF IsCall, IsCorpus, NewCall, NoCorpus, Operations, Places, Replies
  <2> QED
    BY <2>1 DEF Init, CallsOK, CallOK, Running, NewCall
<1> QED
  BY <1>1, <1>2, <1>3 DEF ServiceInv

(* The handlers use the HCM client as its module says: whatever the        *)
(* service does is a step of the client, or none.                          *)
LEMMA ServiceUsesHcmClient ==
  ASSUME TablesOK, CallsOK, [Next]_vars
  PROVE  [HcmNext]_hcmVars
<1>1. ASSUME NEW r \in DOMAIN requests, NEW n,
             n \in {requests[r].cmd.days, -requests[r].cmd.days}
      PROVE  [request |-> r, balance |-> requests[r].cmd.balance,
              days |-> n] \in Orders
  <2>1. requests[r].cmd.days \in Days
    BY RequestTypes, CommandTypes
  <2> QED
    BY <1>1, <2>1, RequestTypes DEF Orders
<1>2. ASSUME NEW c \in Calls, ApproveCallsHcm(c) PROVE HcmNext
  <2>1. calls[c].request \in DOMAIN requests
    BY <1>2 DEF ApproveCallsHcm, At, CallsOK, CallOK, Running, OnRequest
  <2> QED
    BY <1>1, <1>2, <2>1 DEF ApproveCallsHcm, HcmNext
<1>3. ASSUME NEW c \in Calls, NEW r \in Requests, CancelCallsHcm(c, r)
      PROVE  HcmNext
  BY <1>1, <1>3 DEF CancelCallsHcm, HcmNext
<1>4. ASSUME NEW c \in Calls, Arrives(c) PROVE [HcmNext]_hcmVars
  BY <1>3, <1>4 DEF Arrives, CreateFindsKey, CreateStarts, ApproveStarts,
       RejectStarts, CancelStarts, SyncStarts
<1>5. ASSUME NEW c \in Calls, Proceeds(c) PROVE [HcmNext]_hcmVars
  BY <1>2, <1>5 DEF Proceeds, CreateChecksBalance, CreateIsRefused,
       CreateCommits, ApproveRefusesBalance, ApproveHearsFromHcm,
       ApproveMarksSyncFailed, ApproveMarkFails, ApproveIsRefused,
       ApproveCommits, RejectIsRefused, RejectCommits, CancelHearsFromHcm,
       CancelIsRefused, CancelCommits, SyncCommits, TransactionAborts
<1>6. HcmActs \/ Crash => HcmNext
  BY DEF HcmActs, Crash, HcmNext
<1>7. UNCHANGED vars => UNCHANGED hcmVars
  BY DEF vars
<1> QED
  BY <1>4, <1>5, <1>6, <1>7 DEF Next

-----------------------------------------------------------------------------
(* Every transaction leaves the tables well typed. *)
LEMMA CreateKeepsTables ==
  ASSUME TablesOK, CallsOK, NEW c \in Calls, NEW r \in Requests,
         CreateCommits(c, r)
  PROVE  TablesOK'
<1> DEFINE cmd == calls[c].cmd
<1>1. cmd \in Commands
  BY DEF CreateCommits, At, CallsOK, CallOK, Running
<1>2. cmd.balance \in Balances /\ cmd.days \in Nat
      /\ cmd.key \in Keys \cup {NoKey}
  BY <1>1, CommandTypes
<1> HIDE DEF cmd
<1>3. balances' \in [Balances -> BalanceRow]
  <2>1. balances[cmd.balance] \in BalanceRow
    BY <1>2 DEF TablesOK
  <2>2. CanReserve(balances[cmd.balance], cmd.days,
                   balances[cmd.balance].version)
    BY DEF CreateCommits, CreateRefusal, cmd
  <2>3. Reserve(balances[cmd.balance], cmd.days) \in BalanceRow
    BY <1>2, <2>1, <2>2, RowTypes
  <2> QED
    BY <2>3, SetBalanceType DEF CreateCommits, cmd
<1>4. /\ DOMAIN requests' \subseteq Requests
      /\ requests' \in [DOMAIN requests' -> RequestRow]
  <2>1. [status |-> "PENDING", cmd |-> cmd] \in RequestRow
    BY <1>1 DEF RequestRow, Statuses
  <2>2. requests' = [x \in DOMAIN requests \cup {r} |->
                       IF x = r THEN [status |-> "PENDING", cmd |-> cmd]
                                ELSE requests[x]]
    BY DEF CreateCommits, cmd
  <2> QED
    BY <2>1, <2>2 DEF TablesOK
<1>5. /\ DOMAIN idemKeys' \subseteq Keys
      /\ idemKeys' \in [DOMAIN idemKeys' -> KeyRow]
  <2>1. CASE cmd.key = NoKey
    <3>1. idemKeys' = idemKeys
      BY <2>1 DEF CreateCommits, cmd
    <3> QED
      BY <3>1 DEF TablesOK
  <2>2. CASE cmd.key # NoKey
    <3> DEFINE kept == StoreKey(idemKeys, cmd.key)
               row == [status |-> "COMPLETED", response |-> r]
    <3>1. idemKeys' = [kept EXCEPT ![cmd.key] = row]
      BY <2>2 DEF CreateCommits, CompleteKey, cmd
    <3>2. row \in KeyRow
      BY DEF KeyRow
    <3>3. /\ DOMAIN kept = DOMAIN idemKeys \cup {cmd.key}
          /\ \A k \in DOMAIN idemKeys : k # cmd.key => kept[k] \in KeyRow
          /\ kept = [k \in DOMAIN kept |-> kept[k]]
      BY DEF StoreKey, TablesOK
    <3>4. DOMAIN kept \subseteq Keys
      BY <1>2, <2>2, <3>3 DEF TablesOK
    <3> HIDE DEF kept, row
    <3>5. DOMAIN idemKeys' = DOMAIN kept
      BY <3>1
    <3>6. \A k \in DOMAIN kept : idemKeys'[k] \in KeyRow
      BY <3>1, <3>2, <3>3
    <3> QED
      BY <3>1, <3>3, <3>4, <3>5, <3>6
  <2> QED
    BY <2>1, <2>2
<1>6. outbox' \in Seq(Events) /\ audit' \in Seq(AuditRows)
  BY PublishType DEF CreateCommits, RequestEvents, Statuses
<1> QED
  BY <1>3, <1>4, <1>5, <1>6 DEF TablesOK

(* A decision on a request: new status, new balance row, one event.        *)
LEMMA DecisionKeepsTables ==
  ASSUME TablesOK, NEW r \in DOMAIN requests, NEW row \in BalanceRow,
         NEW old \in Statuses, NEW new \in Statuses,
         NEW type \in RequestEvents,
         SetStatus(r, new), SetBalance(requests[r].cmd.balance, row),
         Publish(type, r, old, new), UNCHANGED idemKeys
  PROVE  TablesOK'
<1>1. r \in Requests
  BY DEF TablesOK
<1>2. outbox' \in Seq(Events) /\ audit' \in Seq(AuditRows)
  BY <1>1, PublishType
<1>3. balances' \in [Balances -> BalanceRow]
  BY SetBalanceType
<1>4. /\ DOMAIN requests' = DOMAIN requests
      /\ requests' \in [DOMAIN requests' -> RequestRow]
  BY SetStatusType
<1> QED
  BY <1>2, <1>3, <1>4 DEF TablesOK

LEMMA TablesStep ==
  ASSUME TablesOK, CallsOK, HcmTypeOK, [Next]_vars
  PROVE  TablesOK'
<1>0. \A c \in Calls : Running(c) /\ calls[c].op \in OnRequest =>
        calls[c].request \in DOMAIN requests
  BY DEF CallsOK, CallOK
<1>u. UNCHANGED tables => TablesOK'
  BY DEF tables, TablesOK
<1>1. ASSUME NEW c \in Calls, Arrives(c) PROVE UNCHANGED tables
  BY <1>1 DEF Arrives, CreateFindsKey, CreateStarts, ApproveStarts,
       RejectStarts, CancelStarts, CancelCallsHcm, SyncStarts
<1>2. ASSUME NEW c \in Calls, NEW r \in Requests, CreateCommits(c, r)
      PROVE  TablesOK'
  BY <1>2, CreateKeepsTables
<1>3. ASSUME NEW c \in Calls, ApproveMarksSyncFailed(c) PROVE TablesOK'
  <2>1. SetStatus(calls[c].request, "SYNC_FAILED")
        /\ UNCHANGED <<balances, idemKeys, outbox, audit>>
    BY <1>3 DEF ApproveMarksSyncFailed
  <2>2. /\ DOMAIN requests' = DOMAIN requests
        /\ requests' \in [DOMAIN requests' -> RequestRow]
    BY <2>1, SetStatusType DEF Statuses
  <2> QED
    BY <2>1, <2>2 DEF TablesOK
<1>4. ASSUME NEW c \in Calls, ApproveCommits(c) PROVE TablesOK'
  <2> DEFINE r == calls[c].request
             row == balances[requests[r].cmd.balance]
             n == requests[r].cmd.days
  <2>1. r \in DOMAIN requests
    BY <1>0, <1>4 DEF ApproveCommits, At, Running, OnRequest
  <2>2. CanConsume(row, n, row.version)
    BY <1>4 DEF ApproveCommits, ApproveRefusal
  <2>3. ConsumeReserved(row, n) \in BalanceRow
    BY <2>1, <2>2, RequestTypes, RowTypes
  <2>4. "PENDING" \in Statuses /\ "APPROVED" \in Statuses
        /\ "TIME_OFF_APPROVED" \in RequestEvents
    BY DEF Statuses, RequestEvents
  <2>5. /\ SetStatus(r, "APPROVED")
        /\ SetBalance(requests[r].cmd.balance, ConsumeReserved(row, n))
        /\ Publish("TIME_OFF_APPROVED", r, "PENDING", "APPROVED")
        /\ UNCHANGED idemKeys
    BY <1>4 DEF ApproveCommits
  <2> HIDE DEF r, row, n
  <2> QED
    BY <2>1, <2>3, <2>4, <2>5, DecisionKeepsTables
<1>5. ASSUME NEW c \in Calls, RejectCommits(c) PROVE TablesOK'
  <2> DEFINE r == calls[c].request
             row == balances[requests[r].cmd.balance]
             n == requests[r].cmd.days
  <2>1. r \in DOMAIN requests
    BY <1>0, <1>5 DEF RejectCommits, At, Running, OnRequest
  <2>2. CanReleaseReserved(row, n, row.version)
    BY <1>5 DEF RejectCommits, RejectRefusal
  <2>3. ReleaseReserved(row, n) \in BalanceRow
    BY <2>1, <2>2, RequestTypes, RowTypes
  <2>4. "PENDING" \in Statuses /\ "REJECTED" \in Statuses
        /\ "TIME_OFF_REJECTED" \in RequestEvents
    BY DEF Statuses, RequestEvents
  <2>5. /\ SetStatus(r, "REJECTED")
        /\ SetBalance(requests[r].cmd.balance, ReleaseReserved(row, n))
        /\ Publish("TIME_OFF_REJECTED", r, "PENDING", "REJECTED")
        /\ UNCHANGED idemKeys
    BY <1>5 DEF RejectCommits
  <2> HIDE DEF r, row, n
  <2> QED
    BY <2>1, <2>3, <2>4, <2>5, DecisionKeepsTables
<1>6. ASSUME NEW c \in Calls, CancelCommits(c) PROVE TablesOK'
  <2> DEFINE r == calls[c].request
             row == balances[requests[r].cmd.balance]
             n == requests[r].cmd.days
             new == IF requests[r].status = "PENDING"
                      THEN ReleaseReserved(row, n) ELSE ReleaseUsed(row, n)
  <2>1. r \in DOMAIN requests
    BY <1>0, <1>6 DEF CancelCommits, At, Running, OnRequest
  <2>2. /\ requests[r].status = "PENDING" =>
             CanReleaseReserved(row, n, row.version)
        /\ requests[r].status # "PENDING" =>
             CanReleaseUsed(row, n, row.version)
    BY <1>6 DEF CancelCommits, CancelRefusal, Live
  <2>3. new \in BalanceRow
    BY <2>1, <2>2, RequestTypes, RowTypes
  <2>4. requests[r].status \in Statuses /\ "CANCELLED" \in Statuses
        /\ "TIME_OFF_CANCELLED" \in RequestEvents
    BY <2>1, RequestTypes DEF Statuses, RequestEvents
  <2>5. /\ SetStatus(r, "CANCELLED")
        /\ SetBalance(requests[r].cmd.balance, new)
        /\ Publish("TIME_OFF_CANCELLED", r, requests[r].status, "CANCELLED")
        /\ UNCHANGED idemKeys
    BY <1>6 DEF CancelCommits
  <2> HIDE DEF r, row, n, new
  <2> QED
    BY <2>1, <2>3, <2>4, <2>5, DecisionKeepsTables
<1>7. ASSUME NEW c \in Calls, SyncCommits(c) PROVE TablesOK'
  <2> DEFINE corpus == calls[c].corpus
  <2>1. IsCorpus(corpus)
    BY DEF CallsOK, CallOK, IsCall
  <2>2. \A b \in Balances : Reconcile(corpus, b) \in BalanceRow
    BY <2>1, RowTypes DEF Reconcile, IsCorpus, TablesOK
  <2>3. balances' \in [Balances -> BalanceRow]
    BY <1>7, <2>2 DEF SyncCommits
  <2>4. /\ Event("BALANCE_SYNCED", System) \in Events
        /\ Event("BALANCE_DRIFT_DETECTED", System) \in Events
        /\ AuditRow(System, "NONE", "SYNC") \in AuditRows
    BY DEF Event, Events, SystemEvents, AuditRow, AuditRows
  <2>5. outbox' \in Seq(Events) /\ audit' \in Seq(AuditRows)
    BY <1>7, <2>4 DEF SyncCommits, TablesOK
  <2> QED
    BY <1>7, <2>3, <2>5 DEF SyncCommits, TablesOK
<1>8. ASSUME NEW c \in Calls, Proceeds(c) PROVE TablesOK'
  BY <1>u, <1>2, <1>3, <1>4, <1>5, <1>6, <1>7, <1>8 DEF Proceeds,
       CreateChecksBalance, CreateIsRefused, ApproveRefusesBalance,
       ApproveCallsHcm, ApproveHearsFromHcm, ApproveMarkFails,
       ApproveIsRefused, RejectIsRefused, CancelHearsFromHcm,
       CancelIsRefused, TransactionAborts
<1>9. HcmActs \/ Crash \/ UNCHANGED vars => UNCHANGED tables
  BY DEF HcmActs, Crash, vars
<1> QED
  BY <1>u, <1>1, <1>8, <1>9 DEF Next

-----------------------------------------------------------------------------
LEMMA RefusalTypes ==
  /\ \A r, allowed : StartRefusal(r, allowed) \in Replies
  /\ \A cmd : CreateRefusal(cmd) \in Replies
  /\ \A r : ApproveRefusal(r) \in Replies
  /\ \A r : RejectRefusal(r) \in Replies
  /\ \A r : CancelRefusal(r) \in Replies
<1>1. \A r, allowed : StartRefusal(r, allowed) \in Replies
  BY DEF StartRefusal, Replies
<1>2. \A cmd : CreateRefusal(cmd) \in Replies
  BY DEF CreateRefusal, Replies
<1>3. \A r : ApproveRefusal(r) \in Replies
  BY DEF ApproveRefusal, Replies
<1>4. \A r : RejectRefusal(r) \in Replies
  BY DEF RejectRefusal, Replies
<1>5. \A r : CancelRefusal(r) \in Replies
  BY DEF CancelRefusal, Replies, Live
<1> QED
  BY <1>1, <1>2, <1>3, <1>4, <1>5

(* A handler that takes a request id goes on only if there is the request. *)
LEMMA BeginOK ==
  ASSUME CallsOK, NEW c \in Calls, NEW op \in OnRequest, NEW r \in Requests,
         NEW allowed, NEW pc \in Places, Begin(c, op, r, allowed, pc),
         UNCHANGED requests
  PROVE  CallsOK'
<1> DEFINE refusal == StartRefusal(r, allowed)
           call == [NewCall EXCEPT !.op = op, !.request = r,
                      !.pc = IF refusal = "none" THEN pc ELSE "done",
                      !.reply = refusal]
<1>1. refusal \in Replies /\ (refusal = "none" => r \in DOMAIN requests)
  BY RefusalTypes DEF StartRefusal
<1>2. calls' = [calls EXCEPT ![c] = call]
  BY DEF Begin
<1>3. IsCall(call)
  BY <1>1 DEF IsCall, IsCorpus, NewCall, NoCorpus, Operations, Places,
       OnRequest
<1>4. call.pc \notin {"idle", "done"} => call.request \in DOMAIN requests
  BY <1>1 DEF NewCall
<1>5. call.op # "create"
  BY DEF NewCall, OnRequest
<1> HIDE DEF call
<1> QED
  BY <1>2, <1>3, <1>4, <1>5, StartOK

LEMMA CallsStep ==
  ASSUME TablesOK, CallsOK, HcmTypeOK, [Next]_vars
  PROVE  CallsOK'
<1>1. ASSUME NEW c \in Calls, Arrives(c) PROVE CallsOK'
  <2>u. UNCHANGED requests
    BY <1>1 DEF Arrives, CreateFindsKey, CreateStarts, ApproveStarts,
         RejectStarts, CancelStarts, CancelCallsHcm, SyncStarts, tables
  <2>1. ASSUME NEW cmd \in Commands, CreateFindsKey(c, cmd) PROVE CallsOK'
    <3> DEFINE found == idemKeys[cmd.key]
               cached == found.status = "COMPLETED"
               call == [NewCall EXCEPT
                          !.op = "create", !.cmd = cmd, !.pc = "done",
                          !.request = IF cached THEN found.response
                                                ELSE NoRequest,
                          !.reply = IF cached THEN "CACHED"
                                    ELSE "CONCURRENT_MODIFICATION"]
    <3>1. calls' = [calls EXCEPT ![c] = call]
      BY <2>1 DEF CreateFindsKey
    <3>2. found \in KeyRow
      BY <2>1 DEF CreateFindsKey, TablesOK
    <3>3. IsCall(call)
      BY <3>2 DEF IsCall, IsCorpus, NewCall, NoCorpus, Operations, Places,
           Replies, KeyRow
    <3>4. call.pc = "done"
      BY DEF NewCall
    <3> HIDE DEF call
    <3> QED
      BY <2>u, <3>1, <3>3, <3>4, StartOK
  <2>2. ASSUME NEW cmd \in Commands, CreateStarts(c, cmd) PROVE CallsOK'
    <3> DEFINE call == [NewCall EXCEPT !.op = "create", !.cmd = cmd,
                                       !.pc = "balance"]
    <3>1. calls' = [calls EXCEPT ![c] = call]
      BY <2>2 DEF CreateStarts
    <3>2. IsCall(call) /\ call.op = "create" /\ call.cmd \in Commands
      BY DEF IsCall, IsCorpus, NewCall, NoCorpus, Operations, Places, Replies
    <3>3. call.op \notin OnRequest
      BY <3>2 DEF OnRequest
    <3> HIDE DEF call
    <3> QED
      BY <2>u, <3>1, <3>2, <3>3, StartOK
  <2>3. ASSUME NEW r \in Requests, ApproveStarts(c, r) PROVE CallsOK'
    BY <2>u, <2>3, BeginOK DEF ApproveStarts, OnRequest, Places
  <2>4. ASSUME NEW r \in Requests, RejectStarts(c, r) PROVE CallsOK'
    BY <2>u, <2>4, BeginOK DEF RejectStarts, OnRequest, Places
  <2>5. ASSUME NEW r \in Requests, CancelStarts(c, r) PROVE CallsOK'
    BY <2>u, <2>5, BeginOK DEF CancelStarts, OnRequest, Places
  <2>6. ASSUME NEW r \in Requests, CancelCallsHcm(c, r) PROVE CallsOK'
    BY <2>u, <2>6, BeginOK DEF CancelCallsHcm, OnRequest, Places
  <2>7. ASSUME NEW exported \in SUBSET HcmRows, SyncStarts(c, exported)
        PROVE  CallsOK'
    <3> DEFINE corpus == [b \in exported |-> hcm[b]]
               call == [NewCall EXCEPT !.op = "sync", !.pc = "tx",
                                       !.corpus = corpus]
    <3>1. calls' = [calls EXCEPT ![c] = call]
      BY <2>7 DEF SyncStarts
    <3>2. IsCorpus(corpus)
      BY DEF IsCorpus, HcmTypeOK
    <3> HIDE DEF corpus
    <3>3. IsCall(call) /\ call.op = "sync"
      BY <3>2 DEF IsCall, NewCall, Operations, Places, Replies
    <3>4. call.op # "create" /\ call.op \notin OnRequest
      BY <3>3 DEF OnRequest
    <3> HIDE DEF call
    <3> QED
      BY <2>u, <3>1, <3>3, <3>4, StartOK
  <2> QED
    BY <1>1, <2>1, <2>2, <2>3, <2>4, <2>5, <2>6, <2>7 DEF Arrives
<1>2. ASSUME NEW c \in Calls, Proceeds(c) PROVE CallsOK'
  <2>1. DOMAIN requests \subseteq DOMAIN requests'
    BY <1>2 DEF Proceeds, CreateChecksBalance, CreateIsRefused,
         CreateCommits, ApproveRefusesBalance, ApproveCallsHcm,
         ApproveHearsFromHcm, ApproveMarksSyncFailed, ApproveMarkFails,
         ApproveIsRefused, ApproveCommits, RejectIsRefused, RejectCommits,
         CancelHearsFromHcm, CancelIsRefused, CancelCommits, SyncCommits,
         TransactionAborts, SetStatus, tables
  <2>2. CASE \E code \in Replies : Reply(c, code)
    BY <2>1, <2>2, ReplyOK
  <2>3. CASE Running(c) /\ \E pc \in Places : GoTo(c, pc)
    BY <2>1, <2>3, GoToOK
  <2>4. ASSUME NEW r \in Requests, CreateCommits(c, r) PROVE CallsOK'
    <3> DEFINE call == [calls[c] EXCEPT !.pc = "done", !.reply = "OK",
                                        !.request = r]
    <3>1. calls' = [calls EXCEPT ![c] = call]
      BY <2>4 DEF CreateCommits, CallsOK, CallOK, IsCall
    <3>2. IsCall(call)
      BY DEF CallsOK, CallOK, IsCall, Places, Replies
    <3>3. call.pc = "done"
      BY DEF CallsOK, CallOK, IsCall
    <3>4. CallOK(c)'
      BY <3>1, <3>2, <3>3 DEF CallOK, Running, CallsOK
    <3>5. \A d \in Calls : d # c => CallOK(d)'
      BY <2>1, <3>1 DEF CallsOK, CallOK, Running
    <3>6. DOMAIN calls' = Calls
      BY <3>1 DEF CallsOK
    <3> QED
      BY <3>4, <3>5, <3>6 DEF CallsOK
  <2> QED
    BY <1>2, <2>2, <2>3, <2>4, RefusalTypes DEF Proceeds,
       CreateChecksBalance, CreateIsRefused, ApproveRefusesBalance,
       ApproveCallsHcm, ApproveHearsFromHcm, ApproveMarksSyncFailed,
       ApproveMarkFails, ApproveIsRefused, ApproveCommits, RejectIsRefused,
       RejectCommits, CancelHearsFromHcm, CancelIsRefused, CancelCommits,
       SyncCommits, TransactionAborts, At, Running, Replies, Places
<1>3. CASE Crash
  <2>1. ASSUME NEW d \in Calls PROVE CallOK(d)'
    <3>1. CASE Running(d)
      <4>1. calls'[d] = [calls[d] EXCEPT !.pc = "done", !.reply = "CRASHED"]
        BY <1>3, <3>1 DEF Crash
      <4>2. IsCall(calls'[d]) /\ calls'[d].pc = "done"
        BY <4>1 DEF CallsOK, CallOK, IsCall, Places, Replies
      <4> QED
        BY <4>2 DEF CallOK, Running, IsCall, IsCorpus
    <3>2. CASE ~ Running(d)
      <4>1. calls'[d] = calls[d] /\ UNCHANGED requests
        BY <1>3, <3>2 DEF Crash, tables
      <4> QED
        BY <4>1 DEF CallsOK, CallOK, Running
    <3> QED
      BY <3>1, <3>2
  <2> QED
    BY <1>3, <2>1 DEF Crash, CallsOK
<1>4. CASE HcmActs \/ UNCHANGED vars
  BY <1>4 DEF HcmActs, vars, tables, CallsOK, CallOK, Running
<1> QED
  BY <1>1, <1>2, <1>3, <1>4 DEF Next

LEMMA ServiceInvStep == ServiceInv /\ [Next]_vars => ServiceInv'
  BY ServiceUsesHcmClient, HcmInvStep, TablesStep, CallsStep
     DEF ServiceInv, HcmInv

LEMMA ServiceInvariant == Spec => []ServiceInv
  BY ServiceInitInv, ServiceInvStep, PTL DEF Spec

(* Every value a table, a handler or the HCM client holds has its type, in *)
(* every interleaving and whatever crashes.  In particular no column of a  *)
(* balance row ever goes below zero.                                       *)
THEOREM TypeCorrect == Spec => []TypeOK
<1>1. ServiceInv => TypeOK
  BY DEF ServiceInv, HcmInv, TablesOK, CallsOK, CallOK, TypeOK
<1> QED
  BY <1>1, ServiceInvariant, PTL

(* The HCM client keeps its promise inside the service, where five         *)
(* handlers use it and the process may die: a leave reported as applied    *)
(* was applied, and no call costs more than its attempts.                  *)
THEOREM HcmCallsAreTrue == Spec => []AnswersAreTrue
<1>1. ServiceInv => AnswersAreTrue
  BY DEF ServiceInv, HcmInv, ClientOK, AnswersAreTrue
<1> QED
  BY <1>1, ServiceInvariant, PTL
=============================================================================
