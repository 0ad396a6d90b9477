------------------------ MODULE OutboxWorker_proofs ------------------------
(***************************************************************************)
(* Delivery, for any number of workers, events and faults and any size of  *)
(* a batch.                                                                *)
(***************************************************************************)
EXTENDS OutboxWorker, TLAPS

(* What holds of one worker: its batch is what is left of a poll.  An      *)
(* event it has yet to hand over has not been handled by it; the current   *)
(* one is no longer pending once it is published; and of the events older  *)
(* than one of the batch only those in front of it can still be pending.   *)
InWork == {"publish", "handle", "complete", "fail", "count"}

BatchOK(w) ==
  LET batch == worker[w].batch
  IN  /\ batch # <<>> <=> worker[w].at \in InWork
      /\ \A i \in DOMAIN batch : batch[i] \in DOMAIN rows
      /\ \A i, j \in DOMAIN batch : batch[i] = batch[j] => i = j

NotYetHandled(w) ==
  LET batch == worker[w].batch
  IN  /\ \A i \in DOMAIN batch :
           i > 1 \/ worker[w].at \in {"publish", "handle"} =>
             handled[batch[i]][w] = 0
      /\ worker[w].at = "complete" => handled[batch[1]][w] = 1
      /\ worker[w].at \in {"handle", "complete"} =>
           rows[batch[1]].status # "PENDING"

OldestFirst(w) ==
  LET batch == worker[w].batch
  IN  \A i \in DOMAIN batch, e \in DOMAIN rows :
        /\ rows[e].createdAt < rows[batch[i]].createdAt
        /\ rows[e].status = "PENDING"
        => \E j \in DOMAIN batch : j < i /\ batch[j] = e

WorkersOK == \A w \in Workers : BatchOK(w) /\ NotYetHandled(w) /\ OldestFirst(w)

(* What holds of the rows. *)
RowsOK ==
  /\ \A e \in Events \ DOMAIN rows : ~ WasHandled(e)
  /\ \A e \in DOMAIN rows : rows[e].createdAt <= clock

IInv == TypeOK /\ RowsOK /\ WorkersOK /\ AtMostOnce /\ HandledInOrder

-----------------------------------------------------------------------------
LEMMA TailFacts ==
  ASSUME NEW S, NEW s \in Seq(S), s # <<>>
  PROVE  /\ Tail(s) \in Seq(S)
         /\ 1 \in DOMAIN s /\ Head(s) = s[1] /\ s[1] \in S
         /\ \A i \in DOMAIN Tail(s) : i + 1 \in DOMAIN s /\ Tail(s)[i] = s[i + 1]
         /\ \A i \in DOMAIN s : i # 1 => i - 1 \in DOMAIN Tail(s)
         /\ DOMAIN s \subseteq Nat \ {0} /\ DOMAIN Tail(s) \subseteq Nat \ {0}
OBVIOUS

LEMMA InitIInv == Init => IInv
<1> SUFFICES ASSUME Init PROVE IInv  OBVIOUS
<1>1. /\ rows = [e \in {} |-> <<>>] /\ DOMAIN rows = {} /\ clock = 0
      /\ worker = [w \in Workers |-> Fresh] /\ faults = 0
      /\ handled = [e \in Events |-> [w \in Workers |-> 0]]
  BY DEF Init
<1>2. Fresh \in [isRunning : BOOLEAN, at : Statements,
                 batch : Seq(Events), retries : Nat]
  BY DEF Fresh, Statements
<1>3. TypeOK
  BY <1>1, <1>2, WorkerAssumption DEF TypeOK, WorkerAssumption
<1>4. RowsOK /\ AtMostOnce /\ HandledInOrder
  BY <1>1 DEF RowsOK, AtMostOnce, HandledInOrder, WasHandled
<1>5. \A w \in Workers : worker[w].batch = <<>> /\ worker[w].at = "poll"
  BY <1>1 DEF Fresh
<1>6. WorkersOK
  BY <1>5 DEF WorkersOK, BatchOK, NotYetHandled, OldestFirst, InWork
<1> QED  BY <1>3, <1>4, <1>6 DEF IInv

-----------------------------------------------------------------------------
(* A step of w that hands nothing over leaves the other workers as they    *)
(* are, and moves no row back to PENDING.                                  *)
RowsMoveOn ==
  /\ DOMAIN rows' = DOMAIN rows
  /\ \A e \in DOMAIN rows :
       /\ rows'[e].createdAt = rows[e].createdAt
       /\ rows'[e].status = "PENDING" => rows[e].status = "PENDING"
       /\ rows'[e].status = "COMPLETED" =>
            rows[e].status = "COMPLETED" \/ WasHandled(e)

LEMMA OthersKeep ==
  ASSUME IInv, TypeOK', RowsMoveOn, handled' = handled, clock' = clock,
         NEW w \in Workers, \A v \in Workers \ {w} : worker'[v] = worker[v],
         BatchOK(w)', NotYetHandled(w)', OldestFirst(w)'
  PROVE  IInv'
<1>1. RowsOK'
  BY DEF IInv, RowsOK, RowsMoveOn, WasHandled
<1>2. AtMostOnce' /\ HandledInOrder'
  BY DEF IInv, AtMostOnce, HandledInOrder, RowsMoveOn, WasHandled
<1>3. ASSUME NEW v \in Workers \ {w}
      PROVE  BatchOK(v)' /\ NotYetHandled(v)' /\ OldestFirst(v)'
  <2>0. worker'[v] = worker[v] /\ BatchOK(v) /\ NotYetHandled(v)
          /\ OldestFirst(v)
    BY <1>3 DEF IInv, WorkersOK
  <2>1. BatchOK(v)'
    BY <2>0 DEF BatchOK, RowsMoveOn
  <2>2. NotYetHandled(v)'
    <3>1. worker[v].at \in InWork => worker[v].batch[1] \in DOMAIN rows
      <4>1. worker[v].batch \in Seq(Events)
        BY DEF IInv, TypeOK
      <4> QED  BY <2>0, <4>1, TailFacts DEF BatchOK
    <3> QED  BY <2>0, <3>1 DEF NotYetHandled, RowsMoveOn, InWork
  <2>3. OldestFirst(v)'
    BY <2>0 DEF OldestFirst, BatchOK, RowsMoveOn
  <2> QED  BY <2>1, <2>2, <2>3
<1> QED  BY <1>1, <1>2, <1>3 DEF IInv, WorkersOK

(* A worker without a batch. *)
LEMMA NoBatch ==
  ASSUME NEW w \in Workers, worker'[w].batch = <<>>,
         worker'[w].at \notin InWork
  PROVE  BatchOK(w)' /\ NotYetHandled(w)' /\ OldestFirst(w)'
BY DEF BatchOK, NotYetHandled, OldestFirst, InWork

(* The batch as it was, at another statement. *)
LEMMA SameBatch ==
  ASSUME NEW w \in Workers, BatchOK(w), NotYetHandled(w), OldestFirst(w),
         RowsMoveOn, handled' = handled,
         worker[w].at \in InWork, worker'[w].at \in InWork,
         worker'[w].batch = worker[w].batch,
         worker'[w].at \in {"handle", "fail", "count"},
         worker'[w].at = "handle" => /\ worker[w].at = "publish"
                                     /\ rows'[worker[w].batch[1]].status
                                          # "PENDING"
  PROVE  BatchOK(w)' /\ NotYetHandled(w)' /\ OldestFirst(w)'
<1>1. BatchOK(w)'
  BY DEF BatchOK, RowsMoveOn
<1>2. NotYetHandled(w)'
  BY DEF NotYetHandled, RowsMoveOn
<1>3. OldestFirst(w)'
  BY DEF OldestFirst, BatchOK, RowsMoveOn
<1> QED  BY <1>1, <1>2, <1>3

(* The current event is done with. *)
LEMMA RestOfBatch ==
  ASSUME NEW w \in Workers, worker[w].batch \in Seq(Events),
         BatchOK(w), NotYetHandled(w), OldestFirst(w),
         RowsMoveOn, handled' = handled, worker[w].at \in InWork,
         rows'[Current(w)].status # "PENDING",
         worker'[w].batch = Tail(worker[w].batch),
         worker'[w].at = IF Tail(worker[w].batch) = <<>> THEN "sleep"
                                                         ELSE "publish"
  PROVE  BatchOK(w)' /\ NotYetHandled(w)' /\ OldestFirst(w)'
<1>0. PICK batch, rest : batch = worker[w].batch /\ rest = Tail(batch)
  OBVIOUS
<1>1. batch # <<>> /\ batch \in Seq(Events) /\ Current(w) = Head(batch)
  BY <1>0 DEF BatchOK, Current
<1>2. /\ rest \in Seq(Events)
      /\ 1 \in DOMAIN batch /\ Current(w) = batch[1]
      /\ \A i \in DOMAIN rest : i + 1 \in DOMAIN batch /\ rest[i] = batch[i + 1]
      /\ \A i \in DOMAIN batch : i # 1 => i - 1 \in DOMAIN rest
      /\ DOMAIN rest \subseteq Nat \ {0} /\ DOMAIN batch \subseteq Nat \ {0}
  BY <1>0, <1>1, TailFacts
<1>3. /\ \A i \in DOMAIN batch : batch[i] \in DOMAIN rows
      /\ \A i, j \in DOMAIN batch : batch[i] = batch[j] => i = j
      /\ \A i \in DOMAIN batch : i > 1 => handled[batch[i]][w] = 0
  BY <1>0 DEF BatchOK, NotYetHandled
<1>4. BatchOK(w)'
  <2>1. \A i \in DOMAIN rest : rest[i] \in DOMAIN rows'
    BY <1>2, <1>3 DEF RowsMoveOn
  <2>2. \A i, j \in DOMAIN rest : rest[i] = rest[j] => i = j
    BY <1>2, <1>3
  <2>3. rest # <<>> <=> worker'[w].at \in InWork
    BY <1>0 DEF InWork
  <2> QED  BY <1>0, <2>1, <2>2, <2>3 DEF BatchOK
<1>5. NotYetHandled(w)'
  <2>1. \A i \in DOMAIN rest : i + 1 > 1
    BY <1>2
  <2>2. \A i \in DOMAIN rest : handled[rest[i]][w] = 0
    BY <1>2, <1>3, <2>1
  <2> QED  BY <1>0, <2>2 DEF NotYetHandled
<1>6. OldestFirst(w)'
  <2>a. worker'[w].batch = rest
    BY <1>0
  <2> SUFFICES ASSUME NEW i \in DOMAIN worker'[w].batch, NEW e \in DOMAIN rows',
                      rows'[e].createdAt < rows'[worker'[w].batch[i]].createdAt,
                      rows'[e].status = "PENDING"
               PROVE  \E j \in DOMAIN worker'[w].batch :
                        j < i /\ worker'[w].batch[j] = e
    BY DEF OldestFirst
  <2>b. /\ i \in DOMAIN rest
        /\ rows'[e].createdAt < rows'[rest[i]].createdAt
    BY <2>a
  <2> SUFFICES \E j \in DOMAIN rest : j < i /\ rest[j] = e
    BY <2>a
  <2>1. /\ e \in DOMAIN rows /\ rows[e].status = "PENDING"
        /\ i + 1 \in DOMAIN batch /\ rest[i] = batch[i + 1]
        /\ batch[i + 1] \in DOMAIN rows
    BY <1>2, <1>3, <2>b DEF RowsMoveOn
  <2>2. rows[e].createdAt < rows[batch[i + 1]].createdAt
    BY <2>1, <2>b DEF RowsMoveOn
  <2>3. PICK j \in DOMAIN batch : j < i + 1 /\ batch[j] = e
    BY <1>0, <2>1, <2>2 DEF OldestFirst
  <2>4. j # 1
    BY <1>2, <2>3
  <2>5. j - 1 \in DOMAIN rest
    BY <2>b, <1>2, <2>3, <2>4
  <2>6. i \in Nat /\ j \in Nat /\ j - 1 < i
    BY <2>b, <1>2, <2>3
  <2>7. rest[j - 1] = batch[(j - 1) + 1] /\ (j - 1) + 1 = j
    BY <1>2, <2>5, <2>6
  <2> QED  BY <2>3, <2>5, <2>6, <2>7
<1> QED  BY <1>4, <1>5, <1>6

-----------------------------------------------------------------------------
(* The steps, one by one. *)
LEMMA Current1 ==
  ASSUME IInv, NEW w \in Workers, worker[w].at \in InWork
  PROVE  /\ worker[w].batch \in Seq(Events) /\ worker[w].batch # <<>>
         /\ Current(w) = worker[w].batch[1]
         /\ 1 \in DOMAIN worker[w].batch
         /\ Current(w) \in DOMAIN rows /\ Current(w) \in Events
         /\ BatchOK(w) /\ NotYetHandled(w) /\ OldestFirst(w)
<1>1. BatchOK(w) /\ NotYetHandled(w) /\ OldestFirst(w)
  BY DEF IInv, WorkersOK
<1>2. worker[w].batch \in Seq(Events) /\ worker[w].batch # <<>>
  BY <1>1 DEF IInv, TypeOK, BatchOK
<1>3. /\ Current(w) = worker[w].batch[1] /\ worker[w].batch[1] \in Events
      /\ 1 \in DOMAIN worker[w].batch
  BY <1>2, TailFacts DEF Current
<1> QED  BY <1>1, <1>2, <1>3 DEF BatchOK

(* What a step does to the record of the worker that takes it. *)
WorkerRecord == [isRunning : BOOLEAN, at : Statements,
                 batch : Seq(Events), retries : Nat]

LEMMA StepAt ==
  ASSUME IInv, NEW w \in Workers, NEW at \in Statements,
         worker' = [worker EXCEPT ![w].at = at]
  PROVE  /\ worker' \in [Workers -> WorkerRecord]
         /\ worker'[w].at = at /\ worker'[w].batch = worker[w].batch
         /\ \A v \in Workers \ {w} : worker'[v] = worker[v]
BY DEF IInv, TypeOK, WorkerRecord

LEMMA RowsStay ==
  ASSUME rows' = rows PROVE RowsMoveOn
BY DEF RowsMoveOn

LEMMA StatusSet ==
  ASSUME IInv, NEW e \in DOMAIN rows, NEW status \in EventStatuses,
         SetStatus(e, status), status # "PENDING",
         status = "COMPLETED" => WasHandled(e)
  PROVE  RowsMoveOn /\ rows' \in [DOMAIN rows' -> Rows]
           /\ DOMAIN rows' \subseteq Events /\ rows'[e].status = status
<1>1. rows \in [DOMAIN rows -> Rows] /\ DOMAIN rows \subseteq Events
  BY DEF IInv, TypeOK
<1>2. /\ DOMAIN rows' = DOMAIN rows /\ rows' \in [DOMAIN rows -> Rows]
      /\ rows'[e].status = status /\ rows'[e].createdAt = rows[e].createdAt
      /\ \A f \in DOMAIN rows \ {e} : rows'[f] = rows[f]
  BY <1>1 DEF SetStatus, Rows
<1> QED  BY <1>1, <1>2 DEF RowsMoveOn

LEMMA InsertStep == ASSUME IInv, NEW S \in SUBSET Events, Insert(S) PROVE IInv'
<1>0. clock \in 0..LastStamp /\ LastStamp \in Nat /\ WorkerAssumption
  BY WorkerAssumption DEF IInv, TypeOK, WorkerAssumption
<1>1. /\ DOMAIN rows' = DOMAIN rows \cup S /\ S \cap DOMAIN rows = {}
      /\ \A e \in DOMAIN rows : rows'[e] = rows[e]
      /\ \A e \in S : rows'[e] = [status |-> "PENDING", createdAt |-> clock,
                                  retryCount |-> 0]
      /\ UNCHANGED <<clock, worker, handled, faults>>
      /\ rows' = [e \in DOMAIN rows' |-> rows'[e]]
  BY DEF Insert
<1>2. \A e \in DOMAIN rows' : rows'[e] \in Rows
  BY <1>0, <1>1 DEF IInv, TypeOK, Rows, EventStatuses
<1>3. TypeOK'
  <2>1. DOMAIN rows' \subseteq Events
    BY <1>1 DEF IInv, TypeOK
  <2>2. rows' \in [DOMAIN rows' -> Rows]
    BY <1>1, <1>2
  <2> QED  BY <1>1, <2>1, <2>2 DEF IInv, TypeOK
<1>4. \A e \in DOMAIN rows : rows[e].createdAt \in Nat /\ rows[e].createdAt <= clock
  BY <1>0 DEF IInv, TypeOK, RowsOK, Rows
<1>5. RowsOK'
  BY <1>0, <1>1, <1>4 DEF IInv, RowsOK, WasHandled
<1>6. AtMostOnce'
  <2>1. \A e \in S : \A w \in Workers : handled[e][w] <= 1
    BY <1>1 DEF IInv, RowsOK, WasHandled, TypeOK
  <2>2. \A e \in S : ~ WasHandled(e)
    BY <1>1 DEF IInv, RowsOK
  <2> QED  BY <1>1, <2>1, <2>2 DEF IInv, AtMostOnce, WasHandled
<1>7. HandledInOrder'
  <2> SUFFICES ASSUME NEW e \in DOMAIN rows', NEW f \in DOMAIN rows',
                      rows'[e].createdAt < rows'[f].createdAt, WasHandled(f)
               PROVE  rows'[e].status # "PENDING"
    BY <1>1 DEF HandledInOrder, WasHandled
  <2>1. f \in DOMAIN rows
    BY <1>1 DEF IInv, RowsOK
  <2>2. e \in DOMAIN rows
    BY <1>0, <1>1, <1>4, <2>1
  <2> QED  BY <1>1, <2>1, <2>2 DEF IInv, HandledInOrder
<1>8. ASSUME NEW w \in Workers
      PROVE  BatchOK(w)' /\ NotYetHandled(w)' /\ OldestFirst(w)'
  <2>0. BatchOK(w) /\ NotYetHandled(w) /\ OldestFirst(w) /\ worker' = worker
          /\ handled' = handled
    BY <1>1 DEF IInv, WorkersOK
  <2>1. BatchOK(w)'
    BY <1>1, <2>0 DEF BatchOK
  <2>2. NotYetHandled(w)'
    <3>1. worker[w].at \in InWork => worker[w].batch[1] \in DOMAIN rows
      BY Current1
    <3> QED  BY <1>1, <2>0, <3>1 DEF NotYetHandled, InWork
  <2>3. OldestFirst(w)'
    <3> SUFFICES ASSUME NEW i \in DOMAIN worker[w].batch, NEW e \in DOMAIN rows',
                        rows'[e].createdAt < rows'[worker[w].batch[i]].createdAt,
                        rows'[e].status = "PENDING"
                 PROVE  \E j \in DOMAIN worker[w].batch :
                          j < i /\ worker[w].batch[j] = e
      BY <2>0 DEF OldestFirst
    <3>1. worker[w].batch[i] \in DOMAIN rows
      BY <2>0 DEF BatchOK
    <3>2. e \in DOMAIN rows
      BY <1>0, <1>1, <1>4, <3>1
    <3> QED  BY <1>1, <2>0, <3>1, <3>2 DEF OldestFirst
  <2> QED  BY <2>1, <2>2, <2>3
<1> QED  BY <1>3, <1>5, <1>6, <1>7, <1>8 DEF IInv, WorkersOK

(* Only the clock goes on, or nothing changes. *)
LEMMA IdleStep == ASSUME IInv, Tick \/ UNCHANGED vars PROVE IInv'
<1>1. /\ UNCHANGED <<rows, worker, handled, faults>>
      /\ clock' \in 0..LastStamp /\ clock' >= clock
      /\ clock \in 0..LastStamp /\ LastStamp \in Nat
  BY WorkerAssumption DEF IInv, TypeOK, Tick, vars, WorkerAssumption
<1>2. TypeOK'
  BY <1>1 DEF IInv, TypeOK
<1>3. \A e \in DOMAIN rows : rows[e].createdAt \in Nat
  BY <1>1 DEF IInv, TypeOK, Rows
<1>4. RowsOK'
  BY <1>1, <1>3 DEF IInv, RowsOK, WasHandled
<1>5. AtMostOnce' /\ HandledInOrder' /\ WorkersOK'
  BY <1>1 DEF IInv, AtMostOnce, HandledInOrder, WasHandled, WorkersOK,
              BatchOK, NotYetHandled, OldestFirst
<1> QED  BY <1>2, <1>4, <1>5 DEF IInv

-----------------------------------------------------------------------------
(* A step that keeps the rows and the handlers' history, and after which w *)
(* has no batch or the batch it had.                                       *)
LEMMA QuietStep ==
  ASSUME IInv, NEW w \in Workers, worker' \in [Workers -> WorkerRecord],
         \A v \in Workers \ {w} : worker'[v] = worker[v],
         UNCHANGED <<rows, clock, handled>>, faults' \in 0..MaxFaults,
         BatchOK(w)', NotYetHandled(w)', OldestFirst(w)'
  PROVE  IInv'
<1>1. TypeOK'
  BY DEF IInv, TypeOK, WorkerRecord
<1> QED  BY <1>1, RowsStay, OthersKeep

LEMMA FaultTyped == ASSUME IInv, Fault PROVE faults' \in 0..MaxFaults
BY WorkerAssumption DEF IInv, TypeOK, Fault, WorkerAssumption

LEMMA PollStep == ASSUME IInv, NEW w \in Workers, Poll(w) PROVE IInv'
<1>1. PICK batch \in Batches :
        /\ IsPoll(batch)
        /\ worker' = [worker EXCEPT ![w].batch = batch,
                                    ![w].at = IF batch = <<>> THEN "sleep"
                                                              ELSE "publish"]
  BY DEF Poll
<1>2. /\ batch \in Seq(Events) /\ DOMAIN batch \subseteq Nat \ {0}
      /\ \A i \in DOMAIN batch : batch[i] \in Pending
  <2>1. PICK n \in 0..BatchSize : batch \in [1..n -> Pending]
    BY <1>1 DEF Batches
  <2>2. Pending \subseteq Events
    BY DEF Pending, IInv, TypeOK
  <2> QED  BY <2>1, <2>2, WorkerAssumption DEF WorkerAssumption
<1>3. /\ worker' \in [Workers -> WorkerRecord]
      /\ worker'[w].batch = batch
      /\ worker'[w].at = IF batch = <<>> THEN "sleep" ELSE "publish"
      /\ \A v \in Workers \ {w} : worker'[v] = worker[v]
  <2>1. PICK at \in Statements : at = IF batch = <<>> THEN "sleep" ELSE "publish"
    BY DEF Statements
  <2>2. worker' = [worker EXCEPT ![w].batch = batch, ![w].at = at]
    BY <1>1, <2>1
  <2>3. /\ worker' \in [Workers -> WorkerRecord]
        /\ worker'[w].at = at /\ worker'[w].batch = batch
        /\ \A v \in Workers \ {w} : worker'[v] = worker[v]
    BY <1>2, <2>2 DEF IInv, TypeOK, WorkerRecord
  <2> QED  BY <2>1, <2>3
<1>4. UNCHANGED <<rows, clock, handled, faults>> /\ faults \in 0..MaxFaults
  BY DEF Poll, IInv, TypeOK
<1>5. BatchOK(w)'
  <2>1. \A i, j \in DOMAIN batch : batch[i] = batch[j] => i = j
    BY <1>1 DEF IsPoll
  <2> QED  BY <1>2, <1>3, <1>4, <2>1 DEF BatchOK, Pending, InWork
<1>6. NotYetHandled(w)'
  <2>1. \A i \in DOMAIN batch : handled[batch[i]][w] = 0
    BY <1>2 DEF Pending, IInv, AtMostOnce, WasHandled, TypeOK
  <2> QED  BY <1>3, <1>4, <2>1 DEF NotYetHandled
<1>7. OldestFirst(w)'
  <2>0. worker'[w].batch = batch /\ rows' = rows
    BY <1>3, <1>4
  <2> SUFFICES ASSUME NEW i \in DOMAIN worker'[w].batch, NEW e \in DOMAIN rows',
                      rows'[e].createdAt < rows'[worker'[w].batch[i]].createdAt,
                      rows'[e].status = "PENDING"
               PROVE  \E j \in DOMAIN worker'[w].batch :
                        j < i /\ worker'[w].batch[j] = e
    BY DEF OldestFirst
  <2>1. /\ i \in DOMAIN batch /\ e \in Pending /\ batch[i] \in Pending
        /\ rows[e].createdAt < rows[batch[i]].createdAt
    BY <1>2, <2>0 DEF Pending
  <2>2. rows[e].createdAt \in Nat /\ rows[batch[i]].createdAt \in Nat
    BY <2>1 DEF Pending, IInv, TypeOK, Rows
  <2>3. PICK j \in DOMAIN batch : batch[j] = e
    <3>1. ~ (rows[batch[i]].createdAt <= rows[e].createdAt)
      BY <2>1, <2>2
    <3> QED  BY <1>1, <2>1, <3>1 DEF IsPoll
  <2>4. ~ (i < j) /\ i # j
    <3>1. ~ (rows[batch[i]].createdAt <= rows[batch[j]].createdAt)
      BY <2>1, <2>2, <2>3
    <3> QED  BY <1>1, <2>1, <2>2, <2>3, <3>1 DEF IsPoll
  <2>5. j < i
    BY <1>2, <2>1, <2>3, <2>4
  <2> QED  BY <2>0, <2>3, <2>5
<1> QED  BY <1>3, <1>4, <1>5, <1>6, <1>7, QuietStep

LEMMA BatchFailsStep == ASSUME IInv, NEW w \in Workers, BatchFails(w) PROVE IInv'
<1>1. /\ worker' \in [Workers -> WorkerRecord]
      /\ worker'[w].batch = <<>> /\ worker'[w].at = "sleep"
      /\ \A v \in Workers \ {w} : worker'[v] = worker[v]
  <2>1. <<>> \in Seq(Events) /\ "sleep" \in Statements
    BY DEF Statements
  <2> QED  BY <2>1 DEF BatchFails, IInv, TypeOK, WorkerRecord
<1>2. UNCHANGED <<rows, clock, handled>> /\ faults' \in 0..MaxFaults
  BY FaultTyped DEF BatchFails
<1>3. BatchOK(w)' /\ NotYetHandled(w)' /\ OldestFirst(w)'
  BY <1>1, NoBatch DEF InWork
<1> QED  BY <1>1, <1>2, <1>3, QuietStep

LEMMA RestartStep == ASSUME IInv, NEW w \in Workers, Restart(w) PROVE IInv'
<1>1. /\ worker' \in [Workers -> WorkerRecord]
      /\ worker'[w].batch = <<>> /\ worker'[w].at = "poll"
      /\ \A v \in Workers \ {w} : worker'[v] = worker[v]
  <2>1. Fresh \in WorkerRecord /\ Fresh.batch = <<>> /\ Fresh.at = "poll"
    BY DEF Fresh, WorkerRecord, Statements
  <2> QED  BY <2>1 DEF Restart, IInv, TypeOK, WorkerRecord
<1>2. UNCHANGED <<rows, clock, handled>> /\ faults' \in 0..MaxFaults
  BY FaultTyped DEF Restart
<1>3. BatchOK(w)' /\ NotYetHandled(w)' /\ OldestFirst(w)'
  BY <1>1, NoBatch DEF InWork
<1> QED  BY <1>1, <1>2, <1>3, QuietStep

LEMMA WakeStep == ASSUME IInv, NEW w \in Workers, Wake(w) PROVE IInv'
<1>1. PICK at \in {"poll", "ended"} : worker' = [worker EXCEPT ![w].at = at]
  BY Zenon DEF Wake, GoTo
<1>2. /\ worker' \in [Workers -> WorkerRecord]
      /\ worker'[w].at = at /\ worker'[w].batch = worker[w].batch
      /\ \A v \in Workers \ {w} : worker'[v] = worker[v]
  <2>1. at \in Statements
    BY DEF Statements
  <2> QED  BY <1>1, <2>1, StepAt
<1>3. worker[w].batch = <<>>
  BY DEF Wake, At, InWork, IInv, WorkersOK, BatchOK
<1>4. UNCHANGED <<rows, clock, handled, faults>> /\ faults \in 0..MaxFaults
  BY DEF Wake, IInv, TypeOK
<1>5. BatchOK(w)' /\ NotYetHandled(w)' /\ OldestFirst(w)'
  BY <1>2, <1>3, NoBatch DEF InWork
<1> QED  BY <1>2, <1>4, <1>5, QuietStep

LEMMA StopStep == ASSUME IInv, NEW w \in Workers, Stop(w) PROVE IInv'
<1>1. /\ worker' \in [Workers -> WorkerRecord]
      /\ worker'[w].at = worker[w].at /\ worker'[w].batch = worker[w].batch
      /\ \A v \in Workers \ {w} : worker'[v] = worker[v]
  BY DEF Stop, IInv, TypeOK, WorkerRecord
<1>2. UNCHANGED <<rows, clock, handled, faults>> /\ faults \in 0..MaxFaults
  BY DEF Stop, IInv, TypeOK
<1>3. BatchOK(w)' /\ NotYetHandled(w)' /\ OldestFirst(w)'
  <2>1. BatchOK(w) /\ NotYetHandled(w) /\ OldestFirst(w)
    BY DEF IInv, WorkersOK
  <2> QED  BY <1>1, <1>2, <2>1 DEF BatchOK, NotYetHandled, OldestFirst
<1> QED  BY <1>1, <1>2, <1>3, QuietStep

LEMMA PublishStep == ASSUME IInv, NEW w \in Workers, MarkPublished(w) PROVE IInv'
<1>1. /\ worker' = [worker EXCEPT ![w].at = "handle"]
      /\ UNCHANGED <<clock, handled, faults>>
      /\ SetStatus(Current(w), "PUBLISHED") /\ worker[w].at = "publish"
  BY DEF MarkPublished, GoTo, At
<1>2. /\ worker' \in [Workers -> WorkerRecord]
      /\ worker'[w].at = "handle" /\ worker'[w].batch = worker[w].batch
      /\ \A v \in Workers \ {w} : worker'[v] = worker[v]
  <2>1. "handle" \in Statements
    BY DEF Statements
  <2> QED  BY <1>1, <2>1, StepAt
<1>3. /\ Current(w) = worker[w].batch[1] /\ Current(w) \in DOMAIN rows
      /\ BatchOK(w) /\ NotYetHandled(w) /\ OldestFirst(w)
  BY <1>1, Current1 DEF InWork
<1>4. RowsMoveOn /\ rows' \in [DOMAIN rows' -> Rows]
        /\ DOMAIN rows' \subseteq Events /\ rows'[Current(w)].status = "PUBLISHED"
  <2>1. "PUBLISHED" \in EventStatuses
    BY DEF EventStatuses
  <2> QED  BY <1>1, <1>3, <2>1, StatusSet
<1>5. TypeOK'
  BY <1>1, <1>2, <1>4 DEF IInv, TypeOK, WorkerRecord
<1>6. BatchOK(w)' /\ NotYetHandled(w)' /\ OldestFirst(w)'
  BY <1>1, <1>2, <1>3, <1>4, SameBatch DEF InWork
<1> QED  BY <1>1, <1>2, <1>4, <1>5, <1>6, OthersKeep

LEMMA ProcessingFailsStep ==
  ASSUME IInv, NEW w \in Workers, ProcessingFails(w) PROVE IInv'
<1>1. /\ worker' = [worker EXCEPT ![w].at = "fail"]
      /\ UNCHANGED <<rows, clock, handled>> /\ faults' \in 0..MaxFaults
      /\ worker[w].at \in InWork
  BY FaultTyped DEF ProcessingFails, GoTo, At, InWork
<1>2. /\ worker' \in [Workers -> WorkerRecord]
      /\ worker'[w].at = "fail" /\ worker'[w].batch = worker[w].batch
      /\ \A v \in Workers \ {w} : worker'[v] = worker[v]
  <2>1. "fail" \in Statements
    BY DEF Statements
  <2> QED  BY <1>1, <2>1, StepAt
<1>3. BatchOK(w) /\ NotYetHandled(w) /\ OldestFirst(w)
  BY DEF IInv, WorkersOK
<1>4. BatchOK(w)' /\ NotYetHandled(w)' /\ OldestFirst(w)'
  BY <1>1, <1>2, <1>3, RowsStay, SameBatch DEF InWork
<1> QED  BY <1>1, <1>2, <1>4, QuietStep

LEMMA FindFailedStep == ASSUME IInv, NEW w \in Workers, FindFailed(w) PROVE IInv'
<1>1. /\ worker' = [worker EXCEPT ![w].retries = rows[Current(w)].retryCount,
                                  ![w].at = "count"]
      /\ UNCHANGED <<rows, clock, handled, faults>> /\ worker[w].at = "fail"
      /\ faults \in 0..MaxFaults
  BY DEF FindFailed, At, IInv, TypeOK
<1>2. PICK n \in Nat : n = rows[Current(w)].retryCount
  <2>1. Current(w) \in DOMAIN rows
    BY <1>1, Current1 DEF InWork
  <2> QED  BY <2>1 DEF IInv, TypeOK, Rows
<1>3. worker' = [worker EXCEPT ![w].retries = n, ![w].at = "count"]
  BY <1>1, <1>2
<1>4. /\ worker' \in [Workers -> WorkerRecord]
      /\ worker'[w].at = "count" /\ worker'[w].batch = worker[w].batch
      /\ \A v \in Workers \ {w} : worker'[v] = worker[v]
  <2>1. "count" \in Statements
    BY DEF Statements
  <2> QED  BY <1>3, <2>1 DEF IInv, TypeOK, WorkerRecord
<1>5. BatchOK(w) /\ NotYetHandled(w) /\ OldestFirst(w)
  BY DEF IInv, WorkersOK
<1>6. BatchOK(w)' /\ NotYetHandled(w)' /\ OldestFirst(w)'
  BY <1>1, <1>4, <1>5, RowsStay, SameBatch DEF InWork
<1> QED  BY <1>1, <1>4, <1>6, QuietStep

(* The two steps that end the processing of an event. *)
LEMMA NextEventTyped ==
  ASSUME IInv, NEW w \in Workers, NextEvent(w), worker[w].at \in InWork
  PROVE  /\ worker' \in [Workers -> WorkerRecord]
         /\ worker'[w].batch = Tail(worker[w].batch)
         /\ worker'[w].at = IF Tail(worker[w].batch) = <<>> THEN "sleep"
                                                            ELSE "publish"
         /\ \A v \in Workers \ {w} : worker'[v] = worker[v]
<1>1. PICK rest \in Seq(Events) : rest = Tail(worker[w].batch)
  BY Current1, TailFacts
<1>2. PICK at \in Statements : at = IF rest = <<>> THEN "sleep" ELSE "publish"
  BY DEF Statements
<1>3. worker' = [worker EXCEPT ![w].batch = rest, ![w].at = at]
  BY <1>1, <1>2 DEF NextEvent
<1>4. /\ worker' \in [Workers -> WorkerRecord]
      /\ worker'[w].at = at /\ worker'[w].batch = rest
      /\ \A v \in Workers \ {w} : worker'[v] = worker[v]
  BY <1>3 DEF IInv, TypeOK, WorkerRecord
<1> QED  BY <1>1, <1>2, <1>4

LEMMA CompleteStep == ASSUME IInv, NEW w \in Workers, MarkCompleted(w) PROVE IInv'
<1>1. /\ NextEvent(w) /\ UNCHANGED <<clock, handled, faults>>
      /\ SetStatus(Current(w), "COMPLETED") /\ worker[w].at = "complete"
      /\ worker[w].at \in InWork
  BY DEF MarkCompleted, At, InWork
<1>2. /\ Current(w) = worker[w].batch[1] /\ Current(w) \in DOMAIN rows
      /\ BatchOK(w) /\ NotYetHandled(w) /\ OldestFirst(w)
      /\ worker[w].batch \in Seq(Events)
  BY <1>1, Current1
<1>3. WasHandled(Current(w))
  BY <1>1, <1>2 DEF NotYetHandled, WasHandled
<1>4. RowsMoveOn /\ rows' \in [DOMAIN rows' -> Rows]
        /\ DOMAIN rows' \subseteq Events /\ rows'[Current(w)].status = "COMPLETED"
  <2>1. "COMPLETED" \in EventStatuses
    BY DEF EventStatuses
  <2> QED  BY <1>1, <1>2, <1>3, <2>1, StatusSet
<1>5. /\ worker' \in [Workers -> WorkerRecord]
      /\ worker'[w].batch = Tail(worker[w].batch)
      /\ worker'[w].at = IF Tail(worker[w].batch) = <<>> THEN "sleep"
                                                         ELSE "publish"
      /\ \A v \in Workers \ {w} : worker'[v] = worker[v]
  BY <1>1, NextEventTyped
<1>6. TypeOK'
  BY <1>1, <1>4, <1>5 DEF IInv, TypeOK, WorkerRecord
<1>7. BatchOK(w)' /\ NotYetHandled(w)' /\ OldestFirst(w)'
  BY <1>1, <1>2, <1>4, <1>5, RestOfBatch
<1> QED  BY <1>1, <1>4, <1>5, <1>6, <1>7, OthersKeep

LEMMA FailedStep == ASSUME IInv, NEW w \in Workers, MarkFailed(w) PROVE IInv'
<1>1. /\ NextEvent(w) /\ UNCHANGED <<clock, handled, faults>>
      /\ rows' = [rows EXCEPT ![Current(w)].status = "FAILED",
                              ![Current(w)].retryCount = worker[w].retries + 1]
      /\ worker[w].at \in InWork
  BY DEF MarkFailed, At, InWork
<1>2. PICK e \in DOMAIN rows, n \in Nat :
        e = Current(w) /\ n = worker[w].retries + 1
  BY <1>1, Current1 DEF IInv, TypeOK
<1>3. /\ Current(w) = worker[w].batch[1]
      /\ BatchOK(w) /\ NotYetHandled(w) /\ OldestFirst(w)
      /\ worker[w].batch \in Seq(Events)
  BY <1>1, Current1
<1>4. /\ DOMAIN rows' = DOMAIN rows /\ rows' \in [DOMAIN rows -> Rows]
      /\ rows'[e].status = "FAILED" /\ rows'[e].createdAt = rows[e].createdAt
      /\ \A f \in DOMAIN rows \ {e} : rows'[f] = rows[f]
  <2>1. rows' = [rows EXCEPT ![e].status = "FAILED", ![e].retryCount = n]
    BY <1>1, <1>2
  <2> QED  BY <2>1 DEF IInv, TypeOK, Rows, EventStatuses
<1>5. RowsMoveOn
  BY <1>4 DEF RowsMoveOn
<1>6. /\ worker' \in [Workers -> WorkerRecord]
      /\ worker'[w].batch = Tail(worker[w].batch)
      /\ worker'[w].at = IF Tail(worker[w].batch) = <<>> THEN "sleep"
                                                         ELSE "publish"
      /\ \A v \in Workers \ {w} : worker'[v] = worker[v]
  BY <1>1, NextEventTyped
<1>7. TypeOK'
  BY <1>1, <1>4, <1>6 DEF IInv, TypeOK, WorkerRecord
<1>8. BatchOK(w)' /\ NotYetHandled(w)' /\ OldestFirst(w)'
  BY <1>1, <1>2, <1>3, <1>4, <1>5, <1>6, RestOfBatch
<1> QED  BY <1>1, <1>5, <1>6, <1>7, <1>8, OthersKeep

(* The handler is run: the event is no longer pending, and nothing older   *)
(* is.                                                                     *)
LEMMA HandleStep == ASSUME IInv, NEW w \in Workers, ExecuteHandler(w) PROVE IInv'
<1>1. /\ worker' = [worker EXCEPT ![w].at = "complete"]
      /\ handled' = [handled EXCEPT ![Current(w)][w] = @ + 1]
      /\ UNCHANGED <<rows, clock, faults>> /\ worker[w].at = "handle"
  BY DEF ExecuteHandler, GoTo, At
<1>2. PICK e \in Events : /\ e = Current(w) /\ e = worker[w].batch[1]
                          /\ e \in DOMAIN rows
  BY <1>1, Current1 DEF InWork
<1>3. /\ worker[w].batch \in Seq(Events) /\ 1 \in DOMAIN worker[w].batch
      /\ BatchOK(w) /\ NotYetHandled(w) /\ OldestFirst(w)
  BY <1>1, Current1 DEF InWork
<1>4. /\ worker' \in [Workers -> WorkerRecord]
      /\ worker'[w].at = "complete" /\ worker'[w].batch = worker[w].batch
      /\ \A v \in Workers \ {w} : worker'[v] = worker[v]
  <2>1. "complete" \in Statements
    BY DEF Statements
  <2> QED  BY <1>1, <2>1, StepAt
<1>5. handled[e][w] = 0 /\ rows[e].status # "PENDING"
  BY <1>1, <1>2, <1>3 DEF NotYetHandled
<1>6. /\ handled' \in [Events -> [Workers -> Nat]] /\ handled'[e][w] = 1
      /\ \A f \in Events, v \in Workers :
           f # e \/ v # w => handled'[f][v] = handled[f][v]
  <2>1. handled' = [handled EXCEPT ![e][w] = @ + 1]
    BY <1>1, <1>2
  <2> QED  BY <1>5, <2>1 DEF IInv, TypeOK
<1>7. /\ DOMAIN rows \subseteq Events
      /\ \A f \in Events : f # e => (WasHandled(f)' <=> WasHandled(f))
      /\ \A f \in Events : WasHandled(f) => WasHandled(f)'
  <2>1. \A f \in Events : f # e => (WasHandled(f)' <=> WasHandled(f))
    BY <1>6 DEF WasHandled
  <2>2. WasHandled(e)'
    BY <1>6 DEF WasHandled
  <2> QED  BY <2>1, <2>2 DEF IInv, TypeOK
<1>8. TypeOK'
  BY <1>1, <1>4, <1>6 DEF IInv, TypeOK, WorkerRecord
<1>9. RowsOK'
  BY <1>1, <1>2, <1>7 DEF IInv, RowsOK
<1>10. AtMostOnce'
  <2>1. \A f \in DOMAIN rows, v \in Workers : handled'[f][v] <= 1
    BY <1>6, <1>7 DEF IInv, AtMostOnce
  <2>2. \A f \in DOMAIN rows : rows[f].status = "COMPLETED" => WasHandled(f)'
    BY <1>7 DEF IInv, AtMostOnce
  <2>3. \A f \in DOMAIN rows : rows[f].status = "PENDING" => ~ WasHandled(f)'
    BY <1>5, <1>7 DEF IInv, AtMostOnce
  <2> QED  BY <1>1, <2>1, <2>2, <2>3 DEF AtMostOnce
<1>11. HandledInOrder'
  <2>1. \A f \in DOMAIN rows :
          rows[f].createdAt < rows[e].createdAt => rows[f].status # "PENDING"
    <3>1. DOMAIN worker[w].batch \subseteq Nat \ {0}
      BY <1>3
    <3> QED  BY <1>2, <1>3, <3>1 DEF OldestFirst
  <2>2. \A f, g \in DOMAIN rows :
          rows[f].createdAt < rows[g].createdAt /\ WasHandled(g)' =>
            rows[f].status # "PENDING"
    BY <1>7, <2>1 DEF IInv, HandledInOrder
  <2> QED  BY <1>1, <2>2 DEF HandledInOrder
<1>12. ASSUME NEW v \in Workers
       PROVE  BatchOK(v)' /\ NotYetHandled(v)' /\ OldestFirst(v)'
  <2>1. /\ BatchOK(v) /\ NotYetHandled(v) /\ OldestFirst(v)
        /\ worker'[v].batch = worker[v].batch
        /\ worker[v].batch \in Seq(Events)
    BY <1>4 DEF IInv, WorkersOK, TypeOK
  <2>2. BatchOK(v)' /\ OldestFirst(v)'
    <3>1. worker[v].at \in InWork <=> worker'[v].at \in InWork
      BY <1>1, <1>4 DEF InWork
    <3> QED  BY <1>1, <2>1, <3>1 DEF BatchOK, OldestFirst
  <2>3. NotYetHandled(v)'
    <3>1. \A i \in DOMAIN worker[v].batch : worker[v].batch[i] \in Events
      BY <2>1
    <3>2. CASE v # w
      <4>1. worker'[v] = worker[v]
        BY <1>4, <3>2
      <4>2. \A i \in DOMAIN worker[v].batch :
              handled'[worker[v].batch[i]][v] = handled[worker[v].batch[i]][v]
        BY <1>6, <3>1, <3>2
      <4>3. worker[v].at = "complete" => 1 \in DOMAIN worker[v].batch
        BY Current1 DEF InWork
      <4> QED  BY <1>1, <2>1, <4>1, <4>2, <4>3 DEF NotYetHandled
    <3>3. CASE v = w
      <4>1. \A i \in DOMAIN worker[w].batch :
              i > 1 => handled'[worker[w].batch[i]][w] = 0
        <5>1. \A i \in DOMAIN worker[w].batch : i > 1 => worker[w].batch[i] # e
          BY <1>2, <1>3 DEF BatchOK
        <5> QED  BY <1>3, <1>6, <3>1, <3>3, <5>1 DEF NotYetHandled
      <4> QED  BY <1>1, <1>2, <1>4, <1>5, <1>6, <3>3, <4>1 DEF NotYetHandled
    <3> QED  BY <3>2, <3>3
  <2> QED  BY <2>1, <2>2, <2>3
<1> QED  BY <1>8, <1>9, <1>10, <1>11, <1>12 DEF IInv, WorkersOK

-----------------------------------------------------------------------------
LEMMA NextIInv == IInv /\ [Next]_vars => IInv'
<1> SUFFICES ASSUME IInv, [Next]_vars PROVE IInv'  OBVIOUS
<1>1. CASE \E S \in SUBSET Events : Insert(S)
  BY <1>1, InsertStep
<1>2. CASE Tick \/ UNCHANGED vars
  BY <1>2, IdleStep
<1>3. ASSUME NEW w \in Workers,
             WorkerStep(w) \/ BatchFails(w) \/ ProcessingFails(w)
               \/ Stop(w) \/ Restart(w)
      PROVE  IInv'
  <2>1. CASE Poll(w)             BY <2>1, PollStep
  <2>2. CASE MarkPublished(w)    BY <2>2, PublishStep
  <2>3. CASE ExecuteHandler(w)   BY <2>3, HandleStep
  <2>4. CASE MarkCompleted(w)    BY <2>4, CompleteStep
  <2>5. CASE FindFailed(w)       BY <2>5, FindFailedStep
  <2>6. CASE MarkFailed(w)       BY <2>6, FailedStep
  <2>7. CASE Wake(w)             BY <2>7, WakeStep
  <2>8. CASE BatchFails(w)       BY <2>8, BatchFailsStep
  <2>9. CASE ProcessingFails(w)  BY <2>9, ProcessingFailsStep
  <2>10. CASE Stop(w)            BY <2>10, StopStep
  <2>11. CASE Restart(w)         BY <2>11, RestartStep
  <2> QED  BY <1>3, <2>1, <2>2, <2>3, <2>4, <2>5, <2>6, <2>7, <2>8, <2>9,
              <2>10, <2>11 DEF WorkerStep
<1> QED  BY <1>1, <1>2, <1>3 DEF Next

(* What the batches hold and what is pending fit together in every state.  *)
LEMMA Inductive == Spec => []IInv
<1> QED  BY InitIInv, NextIInv, PTL DEF Spec

(* The rows, the workers and what they remember have their types.          *)
THEOREM TypeCorrect == Spec => []TypeOK
<1>1. IInv => TypeOK  BY DEF IInv
<1> QED  BY <1>1, Inductive, PTL

(* No process runs the handler of an event twice, however many workers     *)
(* poll the same rows, whatever fails and whichever process dies; a        *)
(* completed event was handled and a pending one was not.                  *)
THEOREM DeliveredAtMostOnce == Spec => []AtMostOnce
<1>1. IInv => AtMostOnce  BY DEF IInv
<1> QED  BY <1>1, Inductive, PTL

(* No event is handled while an older one is pending.                      *)
THEOREM DeliveredInOrder == Spec => []HandledInOrder
<1>1. IInv => HandledInOrder  BY DEF IInv
<1> QED  BY <1>1, Inductive, PTL
=============================================================================
