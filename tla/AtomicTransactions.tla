------------------------ MODULE AtomicTransactions ------------------------
(***************************************************************************)
(* What the handlers take for granted of a database transaction: it        *)
(* happens at one instant or not at all.  Everything it read is the        *)
(* database of that instant, and everything it wrote is computed from it.  *)
(***************************************************************************)
EXTENDS Naturals

CONSTANTS
  Transactions,  \* the managed transactions and the single UPDATEs
  Rows           \* rows of the tables

VARIABLES
  db,       \* how often each row has been rewritten
  outcome,  \* "open" until the transaction has committed or rolled back
  basis     \* what a transaction that committed had read

Init ==
  /\ db = [x \in Rows |-> 0]
  /\ outcome = [t \in Transactions |-> "open"]
  /\ basis = [t \in Transactions |-> [x \in {} |-> 0]]

Happens(t, R, W) ==
  /\ outcome[t] = "open"
  /\ W \subseteq R
  /\ db' = [x \in Rows |-> IF x \in W THEN db[x] + 1 ELSE db[x]]
  /\ outcome' = [outcome EXCEPT ![t] = "committed"]
  /\ basis' = [basis EXCEPT ![t] = [x \in R |-> db[x]]]

(* Some transactions come to nothing, all at once when the process dies. *)
ComeToNothing(T) ==
  /\ \A t \in T : outcome[t] = "open"
  /\ outcome' = [t \in Transactions |-> IF t \in T THEN "aborted"
                                                   ELSE outcome[t]]
  /\ UNCHANGED <<db, basis>>

Next ==
  \/ \E t \in Transactions : \E R, W \in SUBSET Rows : Happens(t, R, W)
  \/ \E T \in SUBSET Transactions : ComeToNothing(T)

Spec == Init /\ [][Next]_<<db, outcome, basis>>
=============================================================================
