--------------------- MODULE SqliteTransactions_proofs ---------------------
(***************************************************************************)
(* For any number of transactions and rows, the locks of SQLite make every *)
(* transaction one instant.  The argument: a commit that wrote finds no    *)
(* other lock, so whoever is still open has read nothing; hence what open  *)
(* transactions have read is never overwritten, and what a transaction     *)
(* writes back at its commit is computed from the rows of that instant.    *)
(***************************************************************************)
EXTENDS SqliteTransactions, TLAPS

(* Locks belong to open transactions, and reading takes one. *)
LocksOfTheOpen ==
  \A t \in Transactions :
    /\ lock[t] # "none" => Open(t)
    /\ Open(t) /\ DOMAIN seen[t] # {} => lock[t] # "none"
    /\ Open(t) /\ written[t] # {} => lock[t] \in {"reserved", "pending"}

OneReserved ==
  \A t, u \in Transactions :
    lock[t] \in {"reserved", "pending"} /\ lock[u] \in {"reserved", "pending"}
      => t = u

IInv == TypeOK /\ LocksOfTheOpen /\ OneReserved /\ ReadsStayTrue

Partial == UNION {[S -> Nat] : S \in SUBSET Rows}

LEMMA SeenIsPartial ==
  ASSUME NEW s
  PROVE  IsSeen(s) <=> s \in [Transactions -> Partial]
BY DEF IsSeen, Partial

(* What a transaction has read is a function on some of the rows. *)
LEMMA SeenType ==
  ASSUME TypeOK, NEW t \in Transactions
  PROVE  /\ seen[t] \in Partial
         /\ DOMAIN seen[t] \subseteq Rows
         /\ seen[t] \in [DOMAIN seen[t] -> Nat]
<1>1. seen[t] \in Partial
  BY SeenIsPartial DEF TypeOK
<1>2. PICK S \in SUBSET Rows : seen[t] \in [S -> Nat]
  BY <1>1 DEF Partial
<1> QED  BY <1>1, <1>2

LEMMA InitIInv == Init => IInv
<1> SUFFICES ASSUME Init PROVE IInv  OBVIOUS
<1>1. Nothing \in [{} -> Nat] /\ DOMAIN Nothing = {}
  BY DEF Nothing
<1>2. TypeOK
  <2>1. Nothing \in Partial
    BY <1>1 DEF Partial
  <2>2. IsSeen(seen)
    BY <2>1, SeenIsPartial DEF Init
  <2> QED  BY <2>2, <1>1 DEF Init, TypeOK, Locks, Outcomes
<1>3. LocksOfTheOpen /\ OneReserved
  BY <1>1 DEF Init, LocksOfTheOpen, OneReserved, Open
<1>4. ReadsStayTrue
  BY <1>1 DEF Init, ReadsStayTrue, Open
<1> QED  BY <1>2, <1>3, <1>4 DEF IInv

-----------------------------------------------------------------------------
(* One lemma for each action, on the inductive invariant. *)

LEMMA ReadIInv ==
  ASSUME IInv, NEW t \in Transactions, NEW x \in Rows, Read(t, x)
  PROVE  IInv'
<1> DEFINE S == DOMAIN seen[t] \cup {x}
           new == [y \in S |-> IF y = x THEN db[x] ELSE seen[t][y]]
<1>1. /\ seen[t] \in [DOMAIN seen[t] -> Nat] /\ DOMAIN seen[t] \subseteq Rows
  BY SeenType DEF IInv
<1>2. new \in [S -> Nat] /\ S \in SUBSET Rows
  BY <1>1 DEF IInv, TypeOK
<1>3. new \in Partial
  BY <1>2 DEF Partial
<1>4. /\ seen' = [seen EXCEPT ![t] = new]
      /\ lock' = [lock EXCEPT ![t] = IF @ = "none" THEN "shared" ELSE @]
      /\ UNCHANGED <<db, written, outcome>>
      /\ Open(t) /\ seen \in [Transactions -> Partial]
  BY SeenIsPartial DEF Read, IInv, TypeOK
<1> HIDE DEF new, S
<1>5. seen'[t] = new /\ \A u \in Transactions \ {t} : seen'[u] = seen[u]
  BY <1>4
<1>6. DOMAIN new = S /\ DOMAIN seen[t] \subseteq S
  BY <1>2 DEF S
<1>7. TypeOK'
  <2>1. seen' \in [Transactions -> Partial]
    BY <1>3, <1>4
  <2>2. \A u \in Transactions : written'[u] \subseteq DOMAIN seen'[u]
    BY <1>4, <1>5, <1>6 DEF IInv, TypeOK
  <2>3. lock' \in [Transactions -> Locks]
    BY <1>4 DEF IInv, TypeOK, Locks
  <2> QED  BY <2>1, <2>2, <2>3, <1>4, SeenIsPartial DEF IInv, TypeOK
<1>8. LocksOfTheOpen'
  BY <1>4, <1>5 DEF IInv, TypeOK, LocksOfTheOpen, Open
<1>9. OneReserved'
  BY <1>4 DEF IInv, TypeOK, OneReserved
<1>10. ReadsStayTrue'
  <2>1. \A y \in S : new[y] = db[y]
    BY <1>4 DEF new, S, IInv, ReadsStayTrue
  <2> QED  BY <2>1, <1>4, <1>5, <1>6 DEF IInv, ReadsStayTrue, Open
<1> QED  BY <1>7, <1>8, <1>9, <1>10 DEF IInv

LEMMA WriteIInv ==
  ASSUME IInv, NEW t \in Transactions, NEW x \in Rows, Write(t, x)
  PROVE  IInv'
<1>1. TypeOK'
  BY DEF Write, IInv, TypeOK, Locks
<1>2. LocksOfTheOpen'
  BY DEF Write, IInv, TypeOK, LocksOfTheOpen, Open
<1>3. OneReserved'
  BY DEF Write, MayWrite, Held, IInv, TypeOK, LocksOfTheOpen, OneReserved
<1>4. ReadsStayTrue'
  BY DEF Write, IInv, ReadsStayTrue, Open
<1> QED  BY <1>1, <1>2, <1>3, <1>4 DEF IInv

LEMMA CommitWaitsIInv ==
  ASSUME IInv, NEW t \in Transactions, CommitWaits(t)
  PROVE  IInv'
<1>1. TypeOK'
  BY DEF CommitWaits, IInv, TypeOK, Locks
<1>2. LocksOfTheOpen'
  BY DEF CommitWaits, IInv, TypeOK, LocksOfTheOpen, Open
<1>3. OneReserved'
  BY DEF CommitWaits, IInv, TypeOK, OneReserved
<1>4. ReadsStayTrue'
  BY DEF CommitWaits, IInv, ReadsStayTrue, Open
<1> QED  BY <1>1, <1>2, <1>3, <1>4 DEF IInv

(* A commit finds nobody who has read. *)
LEMMA NobodyElseHasRead ==
  ASSUME IInv, NEW t \in Transactions,
         ~ Held(t, {"shared", "reserved", "pending"})
  PROVE  \A u \in Transactions \ {t} :
           lock[u] = "none" /\ (Open(u) => DOMAIN seen[u] = {})
BY DEF IInv, TypeOK, Locks, Held, LocksOfTheOpen

LEMMA CommitIInv ==
  ASSUME IInv, NEW t \in Transactions, Commit(t)
  PROVE  IInv'
<1>1. /\ Open(t) /\ lock' = [lock EXCEPT ![t] = "none"]
      /\ outcome' = [outcome EXCEPT ![t] = "committed"]
      /\ db' = Rewritten(t) /\ UNCHANGED <<seen, written>>
      /\ \A u \in Transactions \ {t} :
           lock[u] = "none" /\ (Open(u) => DOMAIN seen[u] = {})
  BY NobodyElseHasRead DEF Commit, End
<1>2. TypeOK'
  <2>1. db' \in [Rows -> Nat]
    BY <1>1, SeenType DEF Rewritten, IInv, TypeOK
  <2> QED  BY <1>1, <2>1 DEF IInv, TypeOK, Locks, Outcomes
<1>3. LocksOfTheOpen' /\ OneReserved'
  BY <1>1 DEF IInv, TypeOK, LocksOfTheOpen, OneReserved, Open
<1>4. ReadsStayTrue'
  <2>1. \A u \in Transactions : Open(u)' => u # t /\ DOMAIN seen'[u] = {}
    BY <1>1 DEF IInv, TypeOK, Open
  <2> QED  BY <2>1 DEF ReadsStayTrue
<1> QED  BY <1>2, <1>3, <1>4 DEF IInv

LEMMA RollBackIInv ==
  ASSUME IInv, NEW t \in Transactions, RollBack(t)
  PROVE  IInv'
<1>1. TypeOK'
  BY DEF RollBack, End, IInv, TypeOK, Locks, Outcomes
<1>2. LocksOfTheOpen' /\ OneReserved'
  BY DEF RollBack, End, IInv, TypeOK, LocksOfTheOpen, OneReserved, Open
<1>3. ReadsStayTrue'
  BY DEF RollBack, End, IInv, TypeOK, ReadsStayTrue, Open
<1> QED  BY <1>1, <1>2, <1>3 DEF IInv

LEMMA SingleUpdateIInv ==
  ASSUME IInv, NEW t \in Transactions, NEW x \in Rows, SingleUpdate(t, x)
  PROVE  IInv'
<1> DEFINE new == [y \in {x} |-> db[y]]
<1>1. /\ Open(t) /\ lock[t] = "none" /\ lock' = lock
      /\ outcome' = [outcome EXCEPT ![t] = "committed"]
      /\ db' = [db EXCEPT ![x] = @ + 1]
      /\ seen' = [seen EXCEPT ![t] = new]
      /\ written' = [written EXCEPT ![t] = {x}]
      /\ \A u \in Transactions \ {t} :
           lock[u] = "none" /\ (Open(u) => DOMAIN seen[u] = {})
  BY NobodyElseHasRead DEF SingleUpdate
<1>2. new \in [{x} -> Nat] /\ DOMAIN new = {x}
  BY DEF IInv, TypeOK
<1>3. new \in Partial
  BY <1>2 DEF Partial
<1>4. seen \in [Transactions -> Partial]
  BY SeenIsPartial DEF IInv, TypeOK
<1> HIDE DEF new
<1>5. seen'[t] = new /\ \A u \in Transactions \ {t} : seen'[u] = seen[u]
  BY <1>1, <1>4
<1>6. TypeOK'
  <2>1. seen' \in [Transactions -> Partial]
    BY <1>1, <1>3, <1>4
  <2>2. \A u \in Transactions : written'[u] \subseteq DOMAIN seen'[u]
    BY <1>1, <1>2, <1>5 DEF IInv, TypeOK
  <2>3. /\ db' \in [Rows -> Nat] /\ outcome' \in [Transactions -> Outcomes]
        /\ written' \in [Transactions -> SUBSET Rows]
    BY <1>1 DEF IInv, TypeOK, Outcomes
  <2> QED  BY <1>1, <2>1, <2>2, <2>3, SeenIsPartial DEF IInv, TypeOK
<1>7. LocksOfTheOpen' /\ OneReserved'
  BY <1>1, <1>5 DEF IInv, TypeOK, LocksOfTheOpen, OneReserved, Open
<1>8. ReadsStayTrue'
  <2>1. \A u \in Transactions : Open(u)' => u # t /\ DOMAIN seen'[u] = {}
    BY <1>1, <1>5 DEF IInv, TypeOK, Open
  <2> QED  BY <2>1 DEF ReadsStayTrue
<1> QED  BY <1>6, <1>7, <1>8 DEF IInv

LEMMA CrashIInv == ASSUME IInv, Crash PROVE IInv'
<1>1. TypeOK'
  BY DEF Crash, IInv, TypeOK, Locks, Outcomes
<1>2. LocksOfTheOpen' /\ OneReserved'
  BY DEF Crash, IInv, TypeOK, LocksOfTheOpen, OneReserved, Open
<1>3. ReadsStayTrue'
  BY DEF Crash, IInv, TypeOK, ReadsStayTrue, LocksOfTheOpen, Open
<1> QED  BY <1>1, <1>2, <1>3 DEF IInv

LEMMA NextIInv == IInv /\ [Next]_vars => IInv'
<1> SUFFICES ASSUME IInv, [Next]_vars PROVE IInv'  OBVIOUS
<1>1. CASE \E t \in Transactions, x \in Rows : Read(t, x)
  BY <1>1, ReadIInv
<1>2. CASE \E t \in Transactions, x \in Rows : Write(t, x)
  BY <1>2, WriteIInv
<1>3. CASE \E t \in Transactions : CommitWaits(t)
  BY <1>3, CommitWaitsIInv
<1>4. CASE \E t \in Transactions : Commit(t)
  BY <1>4, CommitIInv
<1>5. CASE \E t \in Transactions : Busy(t) \/ Refuse(t)
  BY <1>5, RollBackIInv DEF Busy, Refuse
<1>6. CASE \E t \in Transactions, x \in Rows : SingleUpdate(t, x)
  BY <1>6, SingleUpdateIInv
<1>7. CASE Crash
  BY <1>7, CrashIInv
<1>8. CASE UNCHANGED vars
  BY <1>8 DEF vars, IInv, TypeOK, LocksOfTheOpen, OneReserved,
              ReadsStayTrue, Open
<1> QED  BY <1>1, <1>2, <1>3, <1>4, <1>5, <1>6, <1>7, <1>8 DEF Next, Step

LEMMA Inductive == Spec => []IInv
BY InitIInv, NextIInv, PTL DEF Spec

LEMMA IInvGivesOneWriter == IInv => OneWriter
BY DEF IInv, LocksOfTheOpen, OneReserved, OneWriter

(* The connections and the tables stay well typed. *)
THEOREM TypeCorrect == Spec => []TypeOK
BY Inductive, PTL DEF IInv

(* What a transaction of a handler has read (the status of a request, the  *)
(* columns of a balance, the key that is not there) is still so when it    *)
(* writes and when it commits, whoever else runs.                          *)
THEOREM ReadsAreTrue == Spec => []ReadsStayTrue
BY Inductive, PTL DEF IInv

(* Never two transactions with writes that could still be committed. *)
THEOREM WritersAreAlone == Spec => []OneWriter
BY Inductive, IInvGivesOneWriter, PTL

-----------------------------------------------------------------------------
(* The refinement: COMMIT is the instant of a transaction. *)

LEMMA InitAtomic == Init => Atomic!Init
BY DEF Init, Atomic!Init, Basis, Nothing

(* A step that leaves the file and the outcomes alone, and the reads of    *)
(* the committed, is a stutter.                                            *)
LEMMA Stutters ==
  ASSUME UNCHANGED <<db, outcome>>, TypeOK,
         NEW t \in Transactions, Open(t),
         \A u \in Transactions \ {t} : seen'[u] = seen[u]
  PROVE  UNCHANGED <<db, outcome, Basis>>
BY DEF Basis, Open

LEMMA CommitHappens ==
  ASSUME IInv, NEW t \in Transactions, Commit(t)
  PROVE  Atomic!Happens(t, DOMAIN seen[t], written[t])
<1>1. /\ Open(t) /\ outcome' = [outcome EXCEPT ![t] = "committed"]
      /\ db' = Rewritten(t) /\ UNCHANGED seen
      /\ \A x \in DOMAIN seen[t] : seen[t][x] = db[x]
      /\ written[t] \subseteq DOMAIN seen[t] /\ DOMAIN seen[t] \subseteq Rows
  BY SeenType DEF Commit, End, IInv, TypeOK, ReadsStayTrue
<1>2. db' = [x \in Rows |-> IF x \in written[t] THEN db[x] + 1 ELSE db[x]]
  BY <1>1 DEF Rewritten
<1>3. seen[t] = [x \in DOMAIN seen[t] |-> db[x]]
  BY <1>1, SeenType DEF IInv
<1>4. Basis' = [Basis EXCEPT ![t] = seen[t]]
  BY <1>1 DEF Basis, IInv, TypeOK
<1> QED  BY <1>1, <1>2, <1>3, <1>4 DEF Atomic!Happens, Open

LEMMA SingleUpdateHappens ==
  ASSUME IInv, NEW t \in Transactions, NEW x \in Rows, SingleUpdate(t, x)
  PROVE  Atomic!Happens(t, {x}, {x})
<1>1. /\ Open(t) /\ outcome' = [outcome EXCEPT ![t] = "committed"]
      /\ db' = [db EXCEPT ![x] = @ + 1]
      /\ seen' = [seen EXCEPT ![t] = [y \in {x} |-> db[y]]]
  BY DEF SingleUpdate
<1>2. db' = [y \in Rows |-> IF y \in {x} THEN db[y] + 1 ELSE db[y]]
  BY <1>1 DEF IInv, TypeOK
<1>3. Basis' = [Basis EXCEPT ![t] = [y \in {x} |-> db[y]]]
  <2>1. seen \in [Transactions -> Partial]
    BY SeenIsPartial DEF IInv, TypeOK
  <2> QED  BY <1>1, <2>1 DEF Basis, IInv, TypeOK
<1> QED  BY <1>1, <1>2, <1>3 DEF Atomic!Happens, Open

LEMMA RollBackComesToNothing ==
  ASSUME IInv, NEW t \in Transactions, RollBack(t)
  PROVE  Atomic!ComeToNothing({t})
<1>1. /\ Open(t) /\ outcome' = [outcome EXCEPT ![t] = "aborted"]
      /\ UNCHANGED <<db, seen>>
  BY DEF RollBack, End
<1>2. Basis' = Basis
  BY <1>1 DEF Basis, Open, IInv, TypeOK
<1>3. outcome' = [u \in Transactions |-> IF u \in {t} THEN "aborted"
                                                      ELSE outcome[u]]
  BY <1>1 DEF IInv, TypeOK
<1> QED  BY <1>1, <1>2, <1>3 DEF Atomic!ComeToNothing, Open

LEMMA CrashComesToNothing ==
  ASSUME IInv, Crash
  PROVE  Atomic!ComeToNothing({t \in Transactions : lock[t] # "none"})
<1> DEFINE T == {t \in Transactions : lock[t] # "none"}
<1>1. /\ UNCHANGED <<db, seen>>
      /\ outcome' = [t \in Transactions |-> IF t \in T THEN "aborted"
                                                       ELSE outcome[t]]
      /\ \A t \in T : outcome[t] = "open"
  BY DEF Crash, IInv, LocksOfTheOpen, Open
<1>2. Basis' = Basis
  BY <1>1 DEF Basis
<1> QED  BY <1>1, <1>2 DEF Atomic!ComeToNothing

LEMMA StepAtomic ==
  IInv /\ [Next]_vars => [Atomic!Next]_<<db, outcome, Basis>>
<1> SUFFICES ASSUME IInv, [Next]_vars
             PROVE  Atomic!Next \/ UNCHANGED <<db, outcome, Basis>>
  OBVIOUS
<1>0. TypeOK  BY DEF IInv
<1>1. ASSUME NEW t \in Transactions, NEW x \in Rows, Read(t, x)
      PROVE  UNCHANGED <<db, outcome, Basis>>
  <2>1. /\ Open(t) /\ UNCHANGED <<db, outcome>>
        /\ \A u \in Transactions \ {t} : seen'[u] = seen[u]
    BY <1>1 DEF Read, IInv, TypeOK
  <2> QED  BY <2>1, <1>0, Stutters
<1>2. ASSUME NEW t \in Transactions, NEW x \in Rows, Write(t, x)
      PROVE  UNCHANGED <<db, outcome, Basis>>
  BY <1>0, <1>2, Stutters DEF Write
<1>3. ASSUME NEW t \in Transactions, CommitWaits(t)
      PROVE  UNCHANGED <<db, outcome, Basis>>
  BY <1>0, <1>3, Stutters DEF CommitWaits
<1>4. ASSUME NEW t \in Transactions, Commit(t)
      PROVE  Atomic!Next
  <2>1. DOMAIN seen[t] \in SUBSET Rows /\ written[t] \in SUBSET Rows
    BY <1>0, SeenType DEF TypeOK
  <2> QED  BY <1>4, <2>1, CommitHappens DEF Atomic!Next
<1>5. ASSUME NEW t \in Transactions, NEW x \in Rows, SingleUpdate(t, x)
      PROVE  Atomic!Next
  BY <1>5, SingleUpdateHappens DEF Atomic!Next
<1>6. ASSUME NEW t \in Transactions, Busy(t) \/ Refuse(t)
      PROVE  Atomic!Next
  BY <1>6, RollBackComesToNothing DEF Busy, Refuse, Atomic!Next
<1>7. ASSUME Crash PROVE Atomic!Next
  BY <1>7, CrashComesToNothing DEF Atomic!Next
<1>8. CASE UNCHANGED vars
  BY <1>8 DEF vars, Basis
<1> QED
  BY <1>1, <1>2, <1>3, <1>4, <1>5, <1>6, <1>7, <1>8 DEF Next, Step

(* What TimeOffService takes for granted when it makes a transaction one   *)
(* step: whatever the statements of others in between, a transaction that  *)
(* commits has read and written the database of one instant, and any other *)
(* has done nothing.                                                       *)
THEOREM AtomicCorrect == Spec => TransactionsAreAtomic
BY InitAtomic, StepAtomic, Inductive, PTL
   DEF Spec, TransactionsAreAtomic, Atomic!Spec
=============================================================================
