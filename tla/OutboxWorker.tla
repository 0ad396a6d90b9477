---------------------------- MODULE OutboxWorker ----------------------------
(***************************************************************************)
(* OutboxEventWorker: the loop that polls the outbox table for PENDING     *)
(* events and takes each one through PUBLISHED to COMPLETED, handing it to *)
(* its handler in between; an event whose processing throws is FAILED.     *)
(*                                                                         *)
(* Each statement of the worker is a step of its own: none runs in a       *)
(* transaction.  A server process has one worker (getOutboxEventWorker is  *)
(* a singleton); several processes on one database have several.           *)
(*                                                                         *)
(* The rows are inserted by the transactions of TimeOffService, which      *)
(* never look at them again (Insert).                                      *)
(***************************************************************************)
EXTENDS Naturals, Sequences, FiniteSets

CONSTANTS
  Workers,     \* one per server process
  Events,      \* ids of outbox rows
  BatchSize,   \* OUTBOX_BATCH_SIZE
  MaxFaults,   \* bound: statements that fail, processes that die
  LastStamp    \* bound: clock readings (milliseconds) of createdAt

ASSUME WorkerAssumption ==
  BatchSize \in Nat \ {0} /\ MaxFaults \in Nat /\ LastStamp \in Nat

VARIABLES
  rows,        \* table outboxEvents: status, createdAt and retryCount
  clock,       \* the millisecond it is
  worker,      \* worker[w]: local state of the loop
  handled,     \* history: how often each process executed an event's handler
  faults       \* how many faults there have been

vars == <<rows, clock, worker, handled, faults>>

EventStatuses == {"PENDING", "PUBLISHED", "COMPLETED", "FAILED"}

Rows == [status : EventStatuses, createdAt : 0..LastStamp, retryCount : Nat]

(* at: the statement the loop is about to execute; batch: the events the   *)
(* last poll returned and that are still to be processed, the current one  *)
(* first; retries: the retryCount markFailed has read; isRunning is tested *)
(* only between two batches.                                               *)
Statements == {"poll", "publish", "handle", "complete", "fail", "count",
               "sleep", "ended"}

Fresh == [isRunning |-> TRUE, at |-> "poll", batch |-> <<>>, retries |-> 0]

Init ==
  /\ rows = [e \in {} |-> <<>>]
  /\ clock = 0
  /\ worker = [w \in Workers |-> Fresh]
  /\ handled = [e \in Events |-> [w \in Workers |-> 0]]
  /\ faults = 0

-----------------------------------------------------------------------------
(* A transaction commits with an event, or with two (a sync that found     *)
(* drift).  createdAt is set by the process that inserts the row, in       *)
(* milliseconds: rows of one transaction, and even of two, can be equal.   *)
Insert(S) ==
  /\ S # {} /\ Cardinality(S) <= 2
  /\ S \cap DOMAIN rows = {}
  /\ rows' = [e \in DOMAIN rows \cup S |->
                IF e \in S THEN [status |-> "PENDING", createdAt |-> clock,
                                 retryCount |-> 0]
                           ELSE rows[e]]
  /\ UNCHANGED <<clock, worker, handled, faults>>

Tick ==
  /\ clock < LastStamp
  /\ clock' = clock + 1
  /\ UNCHANGED <<rows, worker, handled, faults>>

-----------------------------------------------------------------------------
\* Mutant: events that were published are polled again.
PendingOrPublished ==
  {e \in DOMAIN rows : rows[e].status \in {"PENDING", "PUBLISHED"}}

Pending == {e \in DOMAIN rows : rows[e].status = "PENDING"}

\* Mutant: findPending without ORDER BY.
IsPollUnsorted(batch) ==
  LET Polled == {batch[i] : i \in DOMAIN batch}
  IN  /\ Polled \subseteq Pending
      /\ \A i, j \in DOMAIN batch : batch[i] = batch[j] => i = j
      /\ Len(batch) = IF Cardinality(Pending) < BatchSize
                        THEN Cardinality(Pending) ELSE BatchSize

(* findPending: the oldest pending rows, at most BatchSize of them, ties   *)
(* in any order.                                                           *)
IsPoll(batch) ==
  LET Polled == {batch[i] : i \in DOMAIN batch}
  IN  /\ Polled \subseteq Pending
      /\ \A i, j \in DOMAIN batch : batch[i] = batch[j] => i = j
      /\ Len(batch) = IF Cardinality(Pending) < BatchSize
                        THEN Cardinality(Pending) ELSE BatchSize
      /\ \A i, j \in DOMAIN batch :
           i < j => rows[batch[i]].createdAt <= rows[batch[j]].createdAt
      /\ \A e \in Polled, f \in Pending \ Polled :
           rows[e].createdAt <= rows[f].createdAt

Batches == UNION {[1..n -> Pending] : n \in 0..BatchSize}

At(w, statement) == worker[w].at = statement

GoTo(w, statement) == worker' = [worker EXCEPT ![w].at = statement]

Current(w) == Head(worker[w].batch)

SetStatus(e, status) == rows' = [rows EXCEPT ![e].status = status]

(* Done with the current event: on to the next one, or to sleep. *)
NextEvent(w) ==
  LET rest == Tail(worker[w].batch)
  IN  worker' = [worker EXCEPT ![w].batch = rest,
                               ![w].at = IF rest = <<>> THEN "sleep"
                                                        ELSE "publish"]

Fault == faults < MaxFaults /\ faults' = faults + 1

Poll(w) ==
  /\ At(w, "poll")
  /\ \E batch \in Batches :
       /\ IsPoll(batch)
       /\ worker' = [worker EXCEPT ![w].batch = batch,
                                   ![w].at = IF batch = <<>> THEN "sleep"
                                                             ELSE "publish"]
  /\ UNCHANGED <<rows, clock, handled, faults>>

\* Mutant: an exception ends the loop.
BatchFailsForGood(w) ==
  /\ Fault
  /\ At(w, "poll") \/ At(w, "fail") \/ At(w, "count")
  /\ worker' = [worker EXCEPT ![w].batch = <<>>, ![w].at = "ended"]
  /\ UNCHANGED <<rows, clock, handled>>

(* The poll throws, and so does markFailed: caught outside the for loop,   *)
(* what is left of the batch is dropped until the next poll.               *)
BatchFails(w) ==
  /\ Fault
  /\ At(w, "poll") \/ At(w, "fail") \/ At(w, "count")
  /\ worker' = [worker EXCEPT ![w].batch = <<>>, ![w].at = "sleep"]
  /\ UNCHANGED <<rows, clock, handled>>

MarkPublished(w) ==
  /\ At(w, "publish")
  /\ SetStatus(Current(w), "PUBLISHED")
  /\ GoTo(w, "handle")
  /\ UNCHANGED <<clock, handled, faults>>

ExecuteHandler(w) ==
  /\ At(w, "handle")
  /\ handled' = [handled EXCEPT ![Current(w)][w] = @ + 1]
  /\ GoTo(w, "complete")
  /\ UNCHANGED <<rows, clock, faults>>

MarkCompleted(w) ==
  /\ At(w, "complete")
  /\ SetStatus(Current(w), "COMPLETED")
  /\ NextEvent(w)
  /\ UNCHANGED <<clock, handled, faults>>

(* markPublished, the handler or markCompleted throws. *)
ProcessingFails(w) ==
  /\ Fault
  /\ At(w, "publish") \/ At(w, "handle") \/ At(w, "complete")
  /\ GoTo(w, "fail")
  /\ UNCHANGED <<rows, clock, handled>>

(* markFailed reads the row, *)
FindFailed(w) ==
  /\ At(w, "fail")
  /\ worker' = [worker EXCEPT ![w].retries = rows[Current(w)].retryCount,
                              ![w].at = "count"]
  /\ UNCHANGED <<rows, clock, handled, faults>>

\* Mutant: retryCount - 1.
MarkFailedCountsDown(w) ==
  /\ At(w, "count")
  /\ rows' = [rows EXCEPT ![Current(w)].status = "FAILED",
                          ![Current(w)].retryCount = worker[w].retries - 1]
  /\ NextEvent(w)
  /\ UNCHANGED <<clock, handled, faults>>

(* and writes it, one failure more than it has read. *)
MarkFailed(w) ==
  /\ At(w, "count")
  /\ rows' = [rows EXCEPT ![Current(w)].status = "FAILED",
                          ![Current(w)].retryCount = worker[w].retries + 1]
  /\ NextEvent(w)
  /\ UNCHANGED <<clock, handled, faults>>

(* The end of the loop's body: the only place isRunning is tested. *)
Wake(w) ==
  /\ At(w, "sleep")
  /\ GoTo(w, IF worker[w].isRunning THEN "poll" ELSE "ended")
  /\ UNCHANGED <<rows, clock, handled, faults>>

(* SIGTERM or SIGINT: stop().  The handler that was installed for the      *)
(* signal replaces the default one, so the server goes on without worker.  *)
Stop(w) ==
  /\ worker[w].isRunning
  /\ worker' = [worker EXCEPT ![w].isRunning = FALSE]
  /\ UNCHANGED <<rows, clock, handled, faults>>

(* The process dies and is started again, with a new worker. *)
Restart(w) ==
  /\ Fault
  /\ worker' = [worker EXCEPT ![w] = Fresh]
  /\ UNCHANGED <<rows, clock, handled>>

WorkerStep(w) ==
  \/ Poll(w) \/ MarkPublished(w) \/ ExecuteHandler(w) \/ MarkCompleted(w)
  \/ FindFailed(w) \/ MarkFailed(w) \/ Wake(w)

Next ==
  \/ \E S \in SUBSET Events : Insert(S)
  \/ Tick
  \/ \E w \in Workers :
       WorkerStep(w) \/ BatchFails(w) \/ ProcessingFails(w)
         \/ Stop(w) \/ Restart(w)

Spec == Init /\ [][Next]_vars

(* The event loop keeps the worker going. *)
FairSpec == Spec /\ \A w \in Workers : WF_vars(WorkerStep(w))

-----------------------------------------------------------------------------
TypeOK ==
  /\ DOMAIN rows \subseteq Events
  /\ rows \in [DOMAIN rows -> Rows]
  /\ clock \in 0..LastStamp
  /\ worker \in [Workers -> [isRunning : BOOLEAN, at : Statements,
                             batch : Seq(Events), retries : Nat]]
  /\ handled \in [Events -> [Workers -> Nat]]
  /\ faults \in 0..MaxFaults

(* Delivery is at most once per process, across crashes and failures too:  *)
(* whatever other workers do to the rows, none hands an event to its       *)
(* handler a second time.  Nobody has handled what is still pending, and   *)
(* what is completed has been handled by somebody.                         *)
WasHandled(e) == \E w \in Workers : handled[e][w] > 0

AtMostOnce ==
  \A e \in DOMAIN rows :
    /\ \A w \in Workers : handled[e][w] <= 1
    /\ rows[e].status = "COMPLETED" => WasHandled(e)
    /\ rows[e].status = "PENDING" => ~ WasHandled(e)

(* docs/ADR.md:49, events are processed in creation order: an event is     *)
(* handled only when no older one is still waiting, not even for another   *)
(* worker.                                                                 *)
HandledInOrder ==
  \A e, f \in DOMAIN rows :
    rows[e].createdAt < rows[f].createdAt /\ WasHandled(f) =>
      rows[e].status # "PENDING"

(* No event waits for ever, unless its process was told to stop. *)
NeverLeftPending ==
  \A e \in Events :
    (e \in Pending) ~> (e \notin Pending \/ \A w \in Workers :
                                             ~ worker[w].isRunning)

HasStatus(e, status) == e \in DOMAIN rows /\ rows[e].status = status

(* docs/ADR.md:55: no event loss, guaranteed delivery.  A crash after      *)
(* markPublished leaves an event no poll will ever return: neither handled *)
(* nor on record as failed.                                                *)
EveryEventHandled ==
  \A e \in Events :
    (e \in DOMAIN rows)
      ~> (WasHandled(e) \/ HasStatus(e, "FAILED")
            \/ \A w \in Workers : ~ worker[w].isRunning)
=============================================================================
