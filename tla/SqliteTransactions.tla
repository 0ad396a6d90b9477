------------------------ MODULE SqliteTransactions ------------------------
(***************************************************************************)
(* The statements of the handlers' transactions under the locks of SQLite. *)
(*                                                                         *)
(* sequelize.transaction(f) opens a connection of its own and executes     *)
(* BEGIN DEFERRED, which locks nothing.  The first SELECT takes a SHARED   *)
(* lock on the database file, the first INSERT or UPDATE a RESERVED one,   *)
(* of which there is only one; what it writes stays in the connection.     *)
(* COMMIT needs the file for itself: while others read it waits with a     *)
(* PENDING lock, which lets no new reader in.  A statement that cannot     *)
(* have its lock is tried again a number of times and then throws          *)
(* SQLITE_BUSY, and the transaction is rolled back.                        *)
(*                                                                         *)
(* An UPDATE outside a transaction (updateStatus in the catch block of     *)
(* approve, the statements of the outbox worker) takes all these locks at  *)
(* once and gives them back when it ends.                                  *)
(***************************************************************************)
EXTENDS Naturals, FiniteSets

CONSTANTS
  Transactions,  \* the managed transactions and the single UPDATEs
  Rows           \* rows of the tables, each read and written as a whole

VARIABLES
  db,        \* what the file holds: how often each row has been rewritten
  lock,      \* lock[t]: the strongest lock of t's connection
  seen,      \* seen[t]: the rows t has read, with what it read
  written,   \* written[t]: the rows t has rewritten, not yet in the file
  outcome    \* "open" until t has committed or rolled back

vars == <<db, lock, seen, written, outcome>>

Locks == {"none", "shared", "reserved", "pending"}
Outcomes == {"open", "committed", "aborted"}

Nothing == [x \in {} |-> 0]

Init ==
  /\ db = [x \in Rows |-> 0]
  /\ lock = [t \in Transactions |-> "none"]
  /\ seen = [t \in Transactions |-> Nothing]
  /\ written = [t \in Transactions |-> {}]
  /\ outcome = [t \in Transactions |-> "open"]

-----------------------------------------------------------------------------
Held(t, L) == \E u \in Transactions \ {t} : lock[u] \in L

Open(t) == outcome[t] = "open"

MayRead(t) == lock[t] # "none" \/ ~ Held(t, {"pending"})

MayWrite(t) ==
  lock[t] \in {"reserved", "pending"} \/ ~ Held(t, {"reserved", "pending"})

\* Mutant: RESERVED is given to everyone who asks.
WriteBesideAnother(t, x) ==
  /\ Open(t)
  /\ x \in DOMAIN seen[t] \ written[t]
  /\ lock' = [lock EXCEPT ![t] = "reserved"]
  /\ written' = [written EXCEPT ![t] = @ \cup {x}]
  /\ UNCHANGED <<db, seen, outcome>>

(* findById, findOne, findAll with the transaction's options.  A row that  *)
(* is read a second time is what it was the first time.                    *)
Read(t, x) ==
  /\ Open(t) /\ x \notin DOMAIN seen[t]
  /\ MayRead(t)
  /\ seen' = [seen EXCEPT ![t] =
                [y \in DOMAIN seen[t] \cup {x} |->
                   IF y = x THEN db[x] ELSE seen[t][y]]]
  /\ lock' = [lock EXCEPT ![t] = IF @ = "none" THEN "shared" ELSE @]
  /\ UNCHANGED <<db, written, outcome>>

\* Mutant: an UPDATE of a row the transaction has not read.
WriteUnread(t, x) ==
  /\ Open(t) /\ lock[t] \in {"shared", "reserved"}
  /\ x \notin written[t]
  /\ MayWrite(t)
  /\ lock' = [lock EXCEPT ![t] = "reserved"]
  /\ written' = [written EXCEPT ![t] = @ \cup {x}]
  /\ UNCHANGED <<db, seen, outcome>>

(* An UPDATE or INSERT of a transaction that began by reading. *)
Write(t, x) ==
  /\ Open(t) /\ lock[t] \in {"shared", "reserved"}
  /\ x \in DOMAIN seen[t] \ written[t]
  /\ MayWrite(t)
  /\ lock' = [lock EXCEPT ![t] = "reserved"]
  /\ written' = [written EXCEPT ![t] = @ \cup {x}]
  /\ UNCHANGED <<db, seen, outcome>>

(* A row is rewritten from what was read, not from what it is now. *)
Rewritten(t) ==
  [x \in Rows |-> IF x \in written[t] THEN seen[t][x] + 1 ELSE db[x]]

End(t, how) ==
  /\ lock' = [lock EXCEPT ![t] = "none"]
  /\ outcome' = [outcome EXCEPT ![t] = how]
  /\ UNCHANGED <<seen, written>>

(* COMMIT while others read: not yet, and no new readers. *)
CommitWaits(t) ==
  /\ Open(t) /\ lock[t] = "reserved"
  /\ Held(t, {"shared"})
  /\ lock' = [lock EXCEPT ![t] = "pending"]
  /\ UNCHANGED <<db, seen, written, outcome>>

\* Mutant: COMMIT beside readers.
CommitBesideReaders(t) ==
  /\ Open(t) /\ lock[t] \in {"reserved", "pending"}
  /\ db' = Rewritten(t)
  /\ End(t, "committed")

(* Every handler's transaction ends with INSERTs, into outbox and audit    *)
(* log, so none commits without having written.                            *)
Commit(t) ==
  /\ Open(t) /\ lock[t] \in {"reserved", "pending"}
  /\ ~ Held(t, {"shared", "reserved", "pending"})
  /\ db' = Rewritten(t)
  /\ End(t, "committed")

(* An UPDATE by itself. *)
SingleUpdate(t, x) ==
  /\ Open(t) /\ lock[t] = "none"
  /\ ~ Held(t, {"shared", "reserved", "pending"})
  /\ seen' = [seen EXCEPT ![t] = [y \in {x} |-> db[y]]]
  /\ written' = [written EXCEPT ![t] = {x}]
  /\ db' = [db EXCEPT ![x] = @ + 1]
  /\ outcome' = [outcome EXCEPT ![t] = "committed"]
  /\ UNCHANGED lock

\* Mutant: a transaction that wants to write waits as long as it takes.
BlockedReader(t) == ~ MayRead(t)

(* The next statement of t may not have its lock now. *)
Blocked(t) ==
  \/ ~ MayRead(t)
  \/ lock[t] = "none" /\ Held(t, {"shared", "reserved", "pending"})
  \/ lock[t] = "shared" /\ ~ MayWrite(t)
  \/ lock[t] = "pending" /\ Held(t, {"shared"})

RollBack(t) == Open(t) /\ End(t, "aborted") /\ UNCHANGED db

(* SQLITE_BUSY, after the last retry. *)
Busy(t) == Blocked(t) /\ RollBack(t)

(* The handler throws: no such request, not enough days, a status that is  *)
(* not the expected one.                                                   *)
Refuse(t) == lock[t] # "none" /\ RollBack(t)

(* The process dies, the connections are gone with their locks. *)
Crash ==
  /\ \E t \in Transactions : lock[t] # "none"
  /\ outcome' = [t \in Transactions |-> IF lock[t] # "none" THEN "aborted"
                                                            ELSE outcome[t]]
  /\ lock' = [t \in Transactions |-> "none"]
  /\ UNCHANGED <<db, seen, written>>

Step(t) ==
  \/ \E x \in Rows : Read(t, x) \/ Write(t, x)
  \/ CommitWaits(t) \/ Commit(t) \/ Busy(t)

Next ==
  \/ \E t \in Transactions :
       Step(t) \/ Refuse(t) \/ \E x \in Rows : SingleUpdate(t, x)
  \/ Crash

Spec == Init /\ [][Next]_vars

(* A transaction that has begun is driven on by its handler: it awaits one *)
(* statement after the other, and a blocked one is not retried for ever.   *)
FairSpec == Spec /\ \A t \in Transactions :
                      WF_vars(lock[t] # "none" /\ Step(t))

-----------------------------------------------------------------------------
IsSeen(s) ==
  /\ s = [t \in Transactions |-> s[t]]
  /\ \A t \in Transactions : \E S \in SUBSET Rows : s[t] \in [S -> Nat]

TypeOK ==
  /\ db \in [Rows -> Nat]
  /\ lock \in [Transactions -> Locks]
  /\ written \in [Transactions -> SUBSET Rows]
  /\ outcome \in [Transactions -> Outcomes]
  /\ IsSeen(seen)
  /\ \A t \in Transactions : written[t] \subseteq DOMAIN seen[t]

(* A transaction that still runs decides on rows that nobody has changed   *)
(* since it read them, however many others have committed meanwhile.       *)
ReadsStayTrue ==
  \A t \in Transactions : Open(t) =>
    \A x \in DOMAIN seen[t] : seen[t][x] = db[x]

(* Two transactions never both have writes that could still be committed.  *)
OneWriter ==
  \A t, u \in Transactions :
    /\ Open(t) /\ written[t] # {}
    /\ Open(u) /\ written[u] # {}
    => t = u

(* Every transaction that has begun ends, though those that wait for each  *)
(* other's locks can only be parted by a rollback.                         *)
EveryTransactionEnds ==
  \A t \in Transactions : (lock[t] # "none") ~> ~ Open(t)

(* What TimeOffService assumes: a transaction is one step. *)
Basis == [t \in Transactions |-> IF outcome[t] = "committed" THEN seen[t]
                                                             ELSE Nothing]

Atomic == INSTANCE AtomicTransactions WITH basis <- Basis

TransactionsAreAtomic == Atomic!Spec
=============================================================================
