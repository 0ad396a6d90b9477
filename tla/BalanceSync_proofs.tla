------------------------- MODULE BalanceSync_proofs -------------------------
(***************************************************************************)
(* What a posted corpus does to the balances, for any rows, any posted     *)
(* array and any number of posts of it.                                    *)
(***************************************************************************)
EXTENDS BalanceSync, WellFoundedInduction, TLAPS

(* The rows the first loop has been at, and the items the second has.      *)
VisitedRows == IF pc = "rows" THEN Locals \ left ELSE Locals

VisitedItems == IF pc = "rows" THEN {} ELSE DOMAIN Corpus \ left

RowOf(name) ==
  IF name \in DOMAIN Totals THEN Synced(before[name], Totals[name])
                            ELSE NotInCorpus(before[name])

HasDrifted(name) ==
  before[name].available # Reconciled(before[name], Totals[name])

(* The rows visited are those of the one step, in the table and in the     *)
(* report; the others are untouched.                                       *)
Progress ==
  /\ \A name \in VisitedRows : rows[name] = RowOf(name)
  /\ \A name \in Locals \ VisitedRows : rows[name] = before[name]
  /\ report.errors = {}
  /\ report.updates = VisitedRows \cap DOMAIN Totals
  /\ report.missing = VisitedRows \ DOMAIN Totals
  /\ report.mismatch = {name \in report.updates : HasDrifted(name)}
  /\ report.unknown > 0 <=>
       \E i \in VisitedItems : Corpus[i].name \notin Locals

(* Posts after the first one find the rows as the one before left them.    *)
Settled ==
  \A name \in Locals :
    IF name \in DOMAIN Totals
      THEN /\ before[name].available = Reconciled(before[name], Totals[name])
           /\ before[name].syncStatus = "SYNCED"
      ELSE before[name].syncStatus = "FAILED"

Reports == [updates : SUBSET Locals, errors : SUBSET Locals,
            missing : SUBSET Locals, mismatch : SUBSET Locals,
            unknown : Nat]

SyncInv ==
  /\ \/ body \in [route : {"sync"}, array : Arrays]
     \/ body \in [route : {"create"}, fields : Bodies]
  /\ rows \in [Locals -> BalanceRow] /\ before \in [Locals -> BalanceRow]
  /\ pc \in {"posted", "rows", "items", "done", "refused"}
  /\ report \in Reports
  /\ round \in Nat \ {0}
  /\ pc \in {"rows", "items", "done"} => Valid
  /\ pc \in {"rows", "items"} => body.route = "sync"
  /\ pc = "posted" => rows = before /\ report = NoReport
  /\ pc = "rows" => left \subseteq Locals
  /\ pc = "items" => left \subseteq DOMAIN Corpus
  /\ pc = "done" => left = {}
  /\ body.route = "sync" /\ pc \in {"rows", "items", "done"} => Progress
  /\ round > 1 => body.route = "sync" /\ Settled

-----------------------------------------------------------------------------
(* A set of numbers has a least element.                                   *)
LEMMA LeastOf ==
  ASSUME NEW S, S \subseteq Nat, S # {}
  PROVE  Min(S) \in S /\ \A y \in S : Min(S) <= y
<1>1. PICK x \in S : \A y \in S : <<y, x>> \notin OpToRel(<, Nat)
  BY NatLessThanWellFounded, WFMin
<1>2. \A y \in S : ~ (y < x)
  BY <1>1 DEF OpToRel
<1>3. \A y \in S : x <= y
  BY <1>2
<1> QED
  BY <1>3 DEF Min

(* The UPDATE of a row, field by field.                                    *)
LEMMA SyncedRow ==
  ASSUME NEW row \in BalanceRow, NEW total \in Nat
  PROVE  /\ Synced(row, total) \in BalanceRow
         /\ Synced(row, total).available = Reconciled(row, total)
         /\ Synced(row, total).reserved = row.reserved
         /\ Synced(row, total).syncStatus = "SYNCED"
         /\ Reconciled(row, total) \in Nat
         /\ Reconciled(Synced(row, total), total) = Reconciled(row, total)
<1>1. Reconciled(row, total) \in Nat
  BY DEF Reconciled, BalanceRow
<1>2. Synced(row, total).reserved = row.reserved
  BY DEF Synced, BalanceRow
<1>3. PICK new : new = Synced(row, total)
  OBVIOUS
<1>4. new \in [available : {Reconciled(row, total)}, reserved : {row.reserved},
               used : {row.used}, version : {row.version + 1},
               syncStatus : {"SYNCED"}]
  BY <1>3 DEF Synced, BalanceRow
<1>5. /\ row.reserved \in Nat /\ row.used \in Nat /\ row.version + 1 \in Nat
      /\ "SYNCED" \in SyncStatuses
  BY DEF BalanceRow, SyncStatuses
<1>6. new \in BalanceRow
  BY <1>1, <1>4, <1>5 DEF BalanceRow
<1>7. Reconciled(Synced(row, total), total) = Reconciled(row, total)
  BY <1>2 DEF Reconciled
<1> QED
  BY <1>1, <1>2, <1>3, <1>4, <1>6, <1>7

LEMMA MissingRow ==
  ASSUME NEW row \in BalanceRow
  PROVE  /\ NotInCorpus(row) \in BalanceRow
         /\ NotInCorpus(row).syncStatus = "FAILED"
         /\ row.syncStatus = "FAILED" => NotInCorpus(row) = row
  BY DEF NotInCorpus, BalanceRow, SyncStatuses

(* A row that is as the corpus has it gets a new version at most.          *)
LEMMA SyncedAgain ==
  ASSUME NEW row \in BalanceRow, NEW total \in Nat,
         row.available = Reconciled(row, total), row.syncStatus = "SYNCED"
  PROVE  Synced(row, total)
           = [row EXCEPT !.version = Synced(row, total).version]
  BY DEF Synced, BalanceRow

-----------------------------------------------------------------------------
(* What the validation lets through.                                       *)
LEMMA ValidCorpus ==
  ASSUME SyncInv, body.route = "sync", Valid
  PROVE  /\ DOMAIN Corpus \subseteq Nat
         /\ \A i \in DOMAIN Corpus :
              /\ Corpus[i].balance \in Nat
              /\ "" \notin {Corpus[i].name[k] : k \in 1..3}
<1>1. PICK a : a = body.array
  OBVIOUS
<1>2. body \in [route : {"sync"}, array : Arrays]
  BY DEF SyncInv
<1>3. PICK n \in 0..MaxItems : a \in [1..n -> Items]
  BY <1>1, <1>2 DEF Arrays
<1>4. MaxItems \in Nat /\ \A v \in Items :
        IsObject(v) => ToNumber(Total(v)).n \in Int
  BY SyncAssumption DEF SyncAssumption
<1>5. Corpus = [i \in 1..n |-> [name |-> NameOf(a[i]),
                                balance |-> ToNumber(Total(a[i])).n]]
  BY <1>1, <1>3 DEF Corpus, SyncCommand
<1>6. ASSUME NEW i \in 1..n
      PROVE  /\ Corpus[i].balance \in Nat
             /\ "" \notin {Corpus[i].name[k] : k \in 1..3}
  <2>1. /\ IsObject(a[i]) /\ NamesBalance(a[i])
        /\ IsNumber(Total(a[i]), 0)
    BY <1>1, <1>3 DEF Valid, SyncIsValid
  <2>2. a[i] \in Items
    BY <1>3
  <2>3. ToNumber(Total(a[i])).n \in Nat
    BY <1>4, <2>1, <2>2 DEF IsNumber
  <2>4. /\ Corpus[i].balance = ToNumber(Total(a[i])).n
        /\ Corpus[i].name = NameOf(a[i])
    BY <1>5
  <2>5. /\ Field(a[i], "employeeId").word # ""
        /\ Field(a[i], "locationId").word # ""
        /\ Field(a[i], "leaveTypeId").word # ""
    BY <2>1 DEF NamesBalance, IsString
  <2>6. \A k \in 1..3 : NameOf(a[i])[k] # ""
    <3>1. PICK name : name = NameOf(a[i])
      OBVIOUS
    <3>2. name[1] # "" /\ name[2] # "" /\ name[3] # ""
      BY <2>5, <3>1 DEF NameOf
    <3>3. \A k \in 1..3 : k = 1 \/ k = 2 \/ k = 3
      OBVIOUS
    <3>4. \A k \in 1..3 : name[k] # ""
      BY <3>2, <3>3
    <3> QED
      BY <3>1, <3>4
  <2> QED
    BY <2>3, <2>4, <2>6
<1>7. DOMAIN Corpus = 1..n
  BY <1>5
<1>8. DOMAIN Corpus \subseteq Nat
  BY <1>4, <1>7
<1> QED
  BY <1>6, <1>7, <1>8

(* find() finds the first item of a name the corpus has.                   *)
LEMMA FoundItem ==
  ASSUME SyncInv, body.route = "sync", Valid, NEW name
  PROVE  /\ Find(name) = {} <=> name \notin DOMAIN Totals
         /\ name \in DOMAIN Totals => /\ FoundTotal(name) = Totals[name]
                                      /\ Totals[name] \in Nat
<1> DEFINE S == {i \in DOMAIN Corpus : Corpus[i].name = name}
<1>1. S \subseteq Nat
  BY ValidCorpus
<1>2. name \in DOMAIN Totals <=> S # {}
  BY DEF Totals
<1>3. name \in DOMAIN Totals => Totals[name] = Corpus[Min(S)].balance
  BY DEF Totals
<1>4. Find(name) \subseteq S
  BY DEF Find
<1>5. CASE S # {}
  <2>1. Min(S) \in S /\ \A y \in S : Min(S) <= y
    BY <1>1, <1>5, LeastOf
  <2>2. PICK m : m = Min(S)
    OBVIOUS
  <2>3. m \in Find(name)
    BY <2>1, <2>2 DEF Find
  <2>4. ASSUME NEW i \in Find(name) PROVE i = m
    <3>1. i \in S /\ \A y \in S : i <= y
      BY <2>4 DEF Find
    <3>2. m \in S /\ i <= m /\ m <= i
      BY <2>1, <2>2, <3>1
    <3> QED
      BY <1>1, <3>1, <3>2
  <2>5. (CHOOSE i \in Find(name) : TRUE) = m
    BY <2>3, <2>4
  <2>6. Corpus[m].balance \in Nat
    BY <2>1, <2>2, ValidCorpus
  <2> QED
    BY <1>2, <1>3, <1>5, <2>2, <2>3, <2>5, <2>6 DEF FoundTotal
<1>6. CASE S = {}
  BY <1>2, <1>4, <1>6
<1> QED
  BY <1>5, <1>6

(* What is posted stays what it is.                                        *)
LEMMA SameCorpus ==
  ASSUME body' = body
  PROVE  /\ Corpus' = Corpus /\ Totals' = Totals /\ Valid' = Valid
         /\ \A name : Find(name)' = Find(name)
<1>1. Corpus' = Corpus
  BY DEF Corpus
<1> QED
  BY <1>1 DEF Totals, Valid, Find

-----------------------------------------------------------------------------
LEMMA SyncInitInv == SyncInit => SyncInv
<1> SUFFICES ASSUME SyncInit PROVE SyncInv
  OBVIOUS
<1>1. rows \in [Locals -> BalanceRow] /\ before = rows
  BY SyncAssumption DEF SyncAssumption, SyncInit
<1>2. report \in Reports /\ report = NoReport
  BY DEF SyncInit, NoReport, Reports
<1>3. \/ body \in [route : {"sync"}, array : Arrays]
      \/ body \in [route : {"create"}, fields : Bodies]
  BY DEF SyncInit
<1>4. pc = "posted" /\ round = 1
  BY DEF SyncInit
<1> QED
  BY <1>1, <1>2, <1>3, <1>4 DEF SyncInv

LEMMA ValidateStep ==
  ASSUME SyncInv, Validate
  PROVE  SyncInv'
<1>1. /\ pc = "posted" /\ pc' \in {"refused", "rows", "done"}
      /\ pc' \in {"rows", "done"} => Valid
      /\ pc' = "rows" => body.route = "sync" /\ left' = Locals
      /\ pc' = "done" => body.route # "sync" /\ left' = {}
      /\ UNCHANGED <<body, rows, before, report, round>>
  BY DEF Validate
<1>2. /\ Corpus' = Corpus /\ Totals' = Totals /\ Valid' = Valid
  BY <1>1, SameCorpus
<1>3. Settled' <=> Settled
  BY <1>1, <1>2 DEF Settled
<1>4. ASSUME pc' = "rows" PROVE Progress'
  <2>1. report' = NoReport /\ rows' = before' /\ VisitedRows' = {}
          /\ VisitedItems' = {}
    BY <1>1, <1>4 DEF SyncInv, VisitedRows, VisitedItems
  <2> QED
    BY <2>1 DEF Progress, NoReport
<1> QED
  BY <1>1, <1>2, <1>3, <1>4 DEF SyncInv

LEMMA EndOfRowsStep ==
  ASSUME SyncInv, EndOfRows
  PROVE  SyncInv'
<1>1. /\ pc = "rows" /\ left = {} /\ pc' = "items" /\ left' = DOMAIN Corpus
      /\ UNCHANGED <<body, rows, before, report, round>>
  BY DEF EndOfRows
<1>2. /\ Corpus' = Corpus /\ Totals' = Totals /\ Valid' = Valid
  BY <1>1, SameCorpus
<1>3. Settled' <=> Settled
  BY <1>1, <1>2 DEF Settled
<1>4. VisitedRows' = VisitedRows
  BY <1>1 DEF VisitedRows
<1>5. VisitedItems = {} /\ VisitedItems' = {}
  BY <1>1, <1>2 DEF VisitedItems
<1>6. Progress'
  BY <1>1, <1>2, <1>4, <1>5 DEF SyncInv, Progress, RowOf, HasDrifted
<1> QED
  BY <1>1, <1>2, <1>3, <1>6 DEF SyncInv

LEMMA EndOfItemsStep ==
  ASSUME SyncInv, EndOfItems
  PROVE  SyncInv'
<1>1. /\ pc = "items" /\ left = {} /\ pc' = "done"
      /\ UNCHANGED <<body, rows, before, left, report, round>>
  BY DEF EndOfItems
<1>2. /\ Corpus' = Corpus /\ Totals' = Totals /\ Valid' = Valid
  BY <1>1, SameCorpus
<1>3. Settled' <=> Settled
  BY <1>1, <1>2 DEF Settled
<1>4. VisitedRows' = VisitedRows /\ VisitedItems' = VisitedItems
  BY <1>1, <1>2 DEF VisitedRows, VisitedItems
<1>5. Progress'
  BY <1>1, <1>2, <1>4 DEF SyncInv, Progress, RowOf, HasDrifted
<1> QED
  BY <1>1, <1>2, <1>3, <1>5 DEF SyncInv

LEMMA VisitItemStep ==
  ASSUME SyncInv, VisitItem
  PROVE  SyncInv'
<1>1. PICK i : i = Min(left)
  OBVIOUS
<1>2. /\ pc = "items" /\ left # {} /\ left' = left \ {i}
      /\ report' = IF Corpus[i].name \in Locals THEN report
                   ELSE [report EXCEPT !.unknown = @ + 1]
      /\ UNCHANGED <<body, rows, before, pc, round>>
  BY <1>1 DEF VisitItem
<1>3. /\ Corpus' = Corpus /\ Totals' = Totals /\ Valid' = Valid
  BY <1>2, SameCorpus
<1>4. Settled' <=> Settled
  BY <1>2, <1>3 DEF Settled
<1>5. i \in left /\ i \in DOMAIN Corpus
  <2>1. left \subseteq DOMAIN Corpus /\ DOMAIN Corpus \subseteq Nat
    BY <1>2, ValidCorpus DEF SyncInv
  <2> QED
    BY <1>1, <1>2, <2>1, LeastOf
<1>6. VisitedRows' = VisitedRows /\ VisitedItems' = VisitedItems \cup {i}
  BY <1>2, <1>3, <1>5 DEF VisitedRows, VisitedItems
<1>7. report \in Reports /\ Progress
  BY <1>2 DEF SyncInv
<1>8. /\ report' \in Reports
      /\ report'.updates = report.updates /\ report'.errors = report.errors
      /\ report'.missing = report.missing /\ report'.mismatch = report.mismatch
      /\ report'.unknown > 0 <=>
           report.unknown > 0 \/ Corpus[i].name \notin Locals
  BY <1>2, <1>7 DEF Reports
<1>9. Progress'
  BY <1>2, <1>3, <1>6, <1>7, <1>8 DEF Progress, RowOf, HasDrifted
<1> QED
  BY <1>2, <1>3, <1>4, <1>8, <1>9 DEF SyncInv

LEMMA PostAgainStep ==
  ASSUME SyncInv, PostAgain
  PROVE  SyncInv'
<1>1. /\ pc = "done" /\ body.route = "sync" /\ pc' = "posted"
      /\ round' = round + 1 /\ before' = rows /\ report' = NoReport
      /\ UNCHANGED <<body, rows, left>>
  BY DEF PostAgain
<1>2. /\ Corpus' = Corpus /\ Totals' = Totals /\ Valid' = Valid
  BY <1>1, SameCorpus
<1>3. report' \in Reports
  BY <1>1 DEF NoReport, Reports
<1>4. Progress /\ Valid /\ VisitedRows = Locals
  BY <1>1 DEF SyncInv, VisitedRows
<1>5. ASSUME NEW name \in Locals
      PROVE  IF name \in DOMAIN Totals
               THEN /\ rows[name].available
                         = Reconciled(rows[name], Totals[name])
                    /\ rows[name].syncStatus = "SYNCED"
               ELSE rows[name].syncStatus = "FAILED"
  <2>1. before[name] \in BalanceRow /\ rows[name] = RowOf(name)
    BY <1>4 DEF SyncInv, Progress
  <2>2. CASE name \in DOMAIN Totals
    <3>1. Totals[name] \in Nat
      BY <1>1, <1>4, <2>2, FoundItem
    <3>2. rows[name] = Synced(before[name], Totals[name])
      BY <2>1, <2>2 DEF RowOf
    <3>3. PICK b \in BalanceRow, total \in Nat :
            b = before[name] /\ total = Totals[name]
      BY <2>1, <3>1
    <3>4. PICK new : new = Synced(b, total)
      OBVIOUS
    <3>5. /\ new.available = Reconciled(b, total)
          /\ new.syncStatus = "SYNCED"
          /\ Reconciled(new, total) = Reconciled(b, total)
      BY <3>4, SyncedRow
    <3>6. rows[name] = new
      BY <3>2, <3>3, <3>4
    <3> QED
      BY <2>2, <3>3, <3>5, <3>6
  <2>3. CASE name \notin DOMAIN Totals
    BY <2>1, <2>3, MissingRow DEF RowOf
  <2> QED
    BY <2>2, <2>3
<1>6. Settled'
  BY <1>1, <1>2, <1>5 DEF Settled
<1>7. pc' = "posted" /\ rows' = before' /\ round' \in Nat \ {0}
  BY <1>1 DEF SyncInv
<1> QED
  BY <1>1, <1>3, <1>6, <1>7 DEF SyncInv

LEMMA VisitRowStep ==
  ASSUME SyncInv, VisitRow
  PROVE  SyncInv'
<1>1. PICK name \in left :
        /\ pc = "rows"
        /\ rows' = [rows EXCEPT ![name] = RowAfter(name)]
        /\ report' = ReportAfter(name)
        /\ left' = left \ {name}
        /\ UNCHANGED <<body, before, pc, round>>
  BY DEF VisitRow
<1>2. /\ Corpus' = Corpus /\ Totals' = Totals /\ Valid' = Valid
  BY <1>1, SameCorpus
<1>3. Settled' <=> Settled
  BY <1>1, <1>2 DEF Settled
<1>4. /\ body.route = "sync" /\ Valid /\ Progress /\ left \subseteq Locals
      /\ rows \in [Locals -> BalanceRow] /\ before \in [Locals -> BalanceRow]
      /\ report \in Reports
  BY <1>1 DEF SyncInv
<1>5. /\ VisitedRows' = VisitedRows \cup {name} /\ name \notin VisitedRows
      /\ VisitedItems' = VisitedItems /\ name \in Locals
  BY <1>1, <1>4 DEF VisitedRows, VisitedItems
<1>6. rows[name] = before[name] /\ before[name] \in BalanceRow
  BY <1>4, <1>5 DEF Progress
<1>7. name \in DOMAIN Totals =>
        /\ Find(name) # {} /\ FoundTotal(name) = Totals[name]
        /\ Totals[name] \in Nat /\ ~ (Totals[name] < 0)
  BY <1>4, FoundItem
<1>8. name \notin DOMAIN Totals => Find(name) = {}
  BY <1>4, FoundItem
<1>9. RowAfter(name) = RowOf(name) /\ RowOf(name) \in BalanceRow
  <2>1. CASE name \in DOMAIN Totals
    <3>1. RowAfter(name) = Synced(before[name], Totals[name])
      BY <1>6, <1>7, <2>1 DEF RowAfter
    <3> QED
      BY <1>6, <1>7, <2>1, <3>1, SyncedRow DEF RowOf
  <2>2. CASE name \notin DOMAIN Totals
    <3>1. RowAfter(name) = NotInCorpus(before[name])
      BY <1>6, <1>8, <2>2 DEF RowAfter
    <3> QED
      BY <1>6, <2>2, <3>1, MissingRow DEF RowOf
  <2> QED
    BY <2>1, <2>2
<1>10. rows' \in [Locals -> BalanceRow]
  BY <1>1, <1>4, <1>9
<1>11. /\ \A n \in VisitedRows' : rows'[n] = RowOf(n)
       /\ \A n \in Locals \ VisitedRows' : rows'[n] = before[n]
  <2>1. ASSUME NEW n \in VisitedRows' PROVE rows'[n] = RowOf(n)
    <3>1. CASE n = name
      BY <1>1, <1>4, <1>5, <1>9, <3>1
    <3>2. CASE n # name
      <4>1. n \in VisitedRows /\ n \in Locals
        BY <1>5, <2>1, <3>2 DEF VisitedRows
      <4> QED
        BY <1>1, <1>4, <3>2, <4>1 DEF Progress
    <3> QED
      BY <3>1, <3>2
  <2>2. ASSUME NEW n \in Locals \ VisitedRows' PROVE rows'[n] = before[n]
    <3>1. n # name /\ n \in Locals \ VisitedRows
      BY <1>5, <2>2
    <3> QED
      BY <1>1, <1>4, <3>1 DEF Progress
  <2> QED
    BY <2>1, <2>2
<1>12. /\ report' \in Reports
       /\ report'.errors = report.errors /\ report'.unknown = report.unknown
       /\ report'.updates = report.updates
                             \cup (IF name \in DOMAIN Totals THEN {name} ELSE {})
       /\ report'.missing = report.missing
                             \cup (IF name \in DOMAIN Totals THEN {} ELSE {name})
       /\ report'.mismatch =
            report.mismatch \cup
              (IF name \in DOMAIN Totals /\ HasDrifted(name) THEN {name} ELSE {})
  <2>1. CASE name \notin DOMAIN Totals
    <3>1. report' = [report EXCEPT !.missing = @ \cup {name}]
      BY <1>1, <1>8, <2>1 DEF ReportAfter
    <3> QED
      BY <1>4, <1>5, <2>1, <3>1 DEF Reports
  <2>2. CASE name \in DOMAIN Totals
    <3>1. PICK drifts : drifts = IF HasDrifted(name) THEN {name} ELSE {}
      OBVIOUS
    <3>2. report' = [report EXCEPT !.updates = @ \cup {name},
                                   !.mismatch = @ \cup drifts]
      <4>1. CASE HasDrifted(name)
        <5>1. rows[name].available # Reconciled(rows[name], FoundTotal(name))
          BY <1>6, <1>7, <2>2, <4>1 DEF HasDrifted
        <5> QED
          BY <1>1, <1>7, <2>2, <3>1, <4>1, <5>1 DEF ReportAfter
      <4>2. CASE ~ HasDrifted(name)
        <5>1. rows[name].available = Reconciled(rows[name], FoundTotal(name))
          BY <1>6, <1>7, <2>2, <4>2 DEF HasDrifted
        <5>2. drifts = {}
          BY <3>1, <4>2
        <5>3. report' = [report EXCEPT !.updates = @ \cup {name},
                                       !.mismatch = @]
          BY <1>1, <1>7, <2>2, <5>1 DEF ReportAfter
        <5> QED
          BY <5>2, <5>3
      <4> QED
        BY <4>1, <4>2
    <3>3. drifts \subseteq Locals
      BY <1>5, <3>1
    <3>4. /\ report' \in Reports
          /\ report'.errors = report.errors
          /\ report'.unknown = report.unknown
          /\ report'.updates = report.updates \cup {name}
          /\ report'.missing = report.missing
          /\ report'.mismatch = report.mismatch \cup drifts
      BY <1>4, <1>5, <3>2, <3>3 DEF Reports
    <3> QED
      BY <2>2, <3>1, <3>4
  <2> QED
    BY <2>1, <2>2
<1>13. /\ \A n : RowOf(n)' = RowOf(n)
       /\ \A n : HasDrifted(n)' <=> HasDrifted(n)
  BY <1>1, <1>2 DEF RowOf, HasDrifted
<1>14. Progress'
  <2>1. /\ report'.errors = {}
        /\ report'.updates = VisitedRows' \cap DOMAIN Totals
        /\ report'.missing = VisitedRows' \ DOMAIN Totals
    BY <1>4, <1>5, <1>12 DEF Progress
  <2>2. report'.mismatch = {n \in report'.updates : HasDrifted(n)}
    BY <1>4, <1>5, <1>12 DEF Progress
  <2>3. report'.unknown > 0 <=>
          \E i \in VisitedItems' : Corpus[i].name \notin Locals
    BY <1>4, <1>5, <1>12 DEF Progress
  <2>4. (report.mismatch = {n \in report.updates : HasDrifted(n)})'
    BY <1>13, <2>2
  <2>5. (/\ \A n \in VisitedRows : rows[n] = RowOf(n)
         /\ \A n \in Locals \ VisitedRows : rows[n] = before[n])'
    BY <1>1, <1>11, <1>13
  <2>6. (report.unknown > 0 <=>
           \E i \in VisitedItems : Corpus[i].name \notin Locals)'
    BY <1>2, <2>3
  <2>7. (/\ report.errors = {}
         /\ report.updates = VisitedRows \cap DOMAIN Totals
         /\ report.missing = VisitedRows \ DOMAIN Totals)'
    BY <1>2, <2>1
  <2> QED
    BY <2>4, <2>5, <2>6, <2>7 DEF Progress
<1>15. left' \subseteq Locals
  BY <1>1, <1>4
<1> QED
  BY <1>1, <1>2, <1>3, <1>10, <1>12, <1>14, <1>15 DEF SyncInv

LEMMA SyncStep == SyncInv /\ [SyncNext]_syncVars => SyncInv'
<1> SUFFICES ASSUME SyncInv, [SyncNext]_syncVars PROVE SyncInv'
  OBVIOUS
<1>1. CASE UNCHANGED syncVars
  <2>1. UNCHANGED <<body, rows, before, pc, left, report, round>>
    BY <1>1 DEF syncVars
  <2>2. /\ Corpus' = Corpus /\ Totals' = Totals /\ Valid' = Valid
    BY <2>1, SameCorpus
  <2>3. Settled' <=> Settled
    BY <2>1, <2>2 DEF Settled
  <2>4. Progress' <=> Progress
    BY <2>1, <2>2 DEF Progress, VisitedRows, VisitedItems, RowOf, HasDrifted
  <2> QED
    BY <2>1, <2>2, <2>3, <2>4 DEF SyncInv
<1> QED
  BY <1>1, ValidateStep, VisitRowStep, EndOfRowsStep, VisitItemStep,
     EndOfItemsStep, PostAgainStep DEF SyncNext

LEMMA SyncInvariant == SyncSpec => []SyncInv
<1> QED
  BY SyncInitInv, SyncStep, PTL DEF SyncSpec

-----------------------------------------------------------------------------
(* Whatever is posted: only what the handlers count on gets past the       *)
(* validation, and rows keep their types.                                  *)
THEOREM SyncTypeCorrect == SyncSpec => []SyncTypeOK
<1>1. SyncInv => SyncTypeOK
  <2> SUFFICES ASSUME SyncInv PROVE SyncTypeOK
    OBVIOUS
  <2>1. ASSUME pc \in {"rows", "items", "done"}
        PROVE  IF body.route = "create"
                 THEN ToNumber(Field(body.fields, "days")).n >= 1
                 ELSE \A i \in DOMAIN Corpus :
                        /\ Corpus[i].balance >= 0
                        /\ "" \notin {Corpus[i].name[k] : k \in 1..3}
    <3>1. Valid
      BY <2>1 DEF SyncInv
    <3>2. CASE body.route = "create"
      BY <3>1, <3>2 DEF Valid, CreateIsValid, IsNumber
    <3>3. CASE body.route # "create"
      <4>1. body.route = "sync"
        BY <3>3 DEF SyncInv
      <4>2. \A i \in DOMAIN Corpus :
              /\ Corpus[i].balance \in Nat
              /\ "" \notin {Corpus[i].name[k] : k \in 1..3}
        BY <3>1, <4>1, ValidCorpus
      <4>3. \A n \in Nat : n >= 0
        OBVIOUS
      <4> QED
        BY <3>3, <4>2, <4>3
    <3> QED
      BY <3>2, <3>3
  <2> QED
    BY <2>1 DEF SyncTypeOK, SyncInv
<1> QED
  BY <1>1, SyncInvariant, PTL

(* In whatever order the rows are visited, and whatever names the array    *)
(* has twice or has for nobody, the two loops amount to the one step of    *)
(* the service model.                                                      *)
THEOREM OneStep == SyncSpec => []LoopsAreOneStep
<1>1. SyncInv => LoopsAreOneStep
  <2> SUFFICES ASSUME SyncInv, Synchronised PROVE LoopsAreOneStep
    BY DEF LoopsAreOneStep
  <2>1. /\ Progress /\ VisitedRows = Locals /\ VisitedItems = DOMAIN Corpus
    BY DEF SyncInv, Synchronised, VisitedRows, VisitedItems
  <2>2. \A name \in Locals : rows[name] = RowOf(name)
    BY <2>1 DEF Progress
  <2>3. report.missing # {} \/ report.unknown > 0 <=> DOMAIN Totals # Locals
    <3>1. DOMAIN Totals = {Corpus[i].name : i \in DOMAIN Corpus}
      BY DEF Totals
    <3>2. report.unknown > 0 <=> ~ (DOMAIN Totals \subseteq Locals)
      BY <2>1, <3>1 DEF Progress
    <3>3. report.missing # {} <=> ~ (Locals \subseteq DOMAIN Totals)
      BY <2>1 DEF Progress
    <3> QED
      BY <3>2, <3>3
  <2>4. report.mismatch # {} <=>
          \E name \in Locals \cap DOMAIN Totals : HasDrifted(name)
    BY <2>1 DEF Progress
  <2> QED
    BY <2>2, <2>3, <2>4 DEF LoopsAreOneStep, RowOf, HasDrifted, Drifted
<1> QED
  BY <1>1, SyncInvariant, PTL

(* The report accounts for every row once, and the days add up.            *)
THEOREM ReportIsComplete == SyncSpec => []ReportAddsUp
<1>1. SyncInv => ReportAddsUp
  <2> SUFFICES ASSUME SyncInv, Synchronised PROVE ReportAddsUp
    BY DEF ReportAddsUp
  <2>1. /\ Progress /\ VisitedRows = Locals /\ Valid /\ body.route = "sync"
        /\ before \in [Locals -> BalanceRow]
    BY DEF SyncInv, Synchronised, VisitedRows
  <2>2. ASSUME NEW name \in report.updates
        PROVE  IF rows[name].reserved <= Totals[name]
                 THEN rows[name].available + rows[name].reserved = Totals[name]
                 ELSE rows[name].available = 0
    <3>1. name \in Locals /\ name \in DOMAIN Totals
      BY <2>1 DEF Progress
    <3>2. Totals[name] \in Nat
      BY <2>1, <3>1, FoundItem
    <3>3. PICK b \in BalanceRow, total \in Nat :
            b = before[name] /\ total = Totals[name]
      BY <2>1, <3>1, <3>2
    <3>4. rows[name] = Synced(b, total)
      BY <2>1, <3>1, <3>3 DEF Progress, RowOf
    <3>5. PICK new : new = Synced(b, total)
      OBVIOUS
    <3>6. new.available = Reconciled(b, total) /\ new.reserved = b.reserved
      BY <3>5, SyncedRow
    <3>7. b.reserved \in Nat
      BY DEF BalanceRow
    <3>8. IF new.reserved <= total THEN new.available + new.reserved = total
                                   ELSE new.available = 0
      BY <3>6, <3>7 DEF Reconciled
    <3> QED
      BY <3>3, <3>4, <3>5, <3>8
  <2>3. /\ report.errors = {}
        /\ report.updates = Locals \cap DOMAIN Totals
        /\ report.missing = Locals \ report.updates
        /\ report.mismatch \subseteq report.updates
    BY <2>1 DEF Progress
  <2> QED
    BY <2>2, <2>3 DEF ReportAddsUp
<1> QED
  BY <1>1, SyncInvariant, PTL

(* The same corpus once more corrects nothing.                             *)
THEOREM SyncIsIdempotent == SyncSpec => []SecondSyncIsQuiet
<1>1. SyncInv => SecondSyncIsQuiet
  <2> SUFFICES ASSUME SyncInv, Synchronised, round > 1
               PROVE  SecondSyncIsQuiet
    BY DEF SecondSyncIsQuiet
  <2>1. /\ Progress /\ VisitedRows = Locals /\ Valid /\ body.route = "sync"
        /\ before \in [Locals -> BalanceRow] /\ Settled
    BY DEF SyncInv, Synchronised, VisitedRows
  <2>2. report.mismatch = {}
    BY <2>1 DEF Progress, Settled, HasDrifted
  <2>3. ASSUME NEW name \in Locals
        PROVE  rows[name] = [before[name] EXCEPT !.version = rows[name].version]
    <3>1. PICK b \in BalanceRow : b = before[name]
      BY <2>1
    <3>2. rows[name] = RowOf(name)
      BY <2>1 DEF Progress
    <3>3. CASE name \in DOMAIN Totals
      <4>1. PICK total \in Nat : total = Totals[name]
        BY <2>1, <3>3, FoundItem
      <4>2. rows[name] = Synced(b, total)
        BY <3>1, <3>2, <3>3, <4>1 DEF RowOf
      <4>3. b.available = Reconciled(b, total) /\ b.syncStatus = "SYNCED"
        BY <2>1, <3>1, <3>3, <4>1 DEF Settled
      <4>4. Synced(b, total) = [b EXCEPT !.version = Synced(b, total).version]
        BY <4>3, SyncedAgain
      <4> QED
        BY <3>1, <4>2, <4>4
    <3>4. CASE name \notin DOMAIN Totals
      <4>1. b.syncStatus = "FAILED"
        BY <2>1, <3>1, <3>4 DEF Settled
      <4>2. rows[name] = b
        BY <3>1, <3>2, <3>4, <4>1, MissingRow DEF RowOf
      <4>3. b = [b EXCEPT !.version = b.version]
        BY DEF BalanceRow
      <4> QED
        BY <3>1, <4>2, <4>3
    <3> QED
      BY <3>3, <3>4
  <2> QED
    BY <2>2, <2>3 DEF SecondSyncIsQuiet
<1> QED
  BY <1>1, SyncInvariant, PTL
=============================================================================
