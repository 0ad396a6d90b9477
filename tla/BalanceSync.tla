---------------------------- MODULE BalanceSync ----------------------------
(***************************************************************************)
(* What a posted corpus does to the balances, item by item: the validation *)
(* of the body, the loop of SyncBalancesFromHcmHandler over the local      *)
(* rows, and its loop over the posted items.  TimeOffService has the whole *)
(* of it as one step on a function from balances to totals; here the       *)
(* corpus is the array it really is, with items twice, items of balances   *)
(* nobody has, and values of every JSON type.                              *)
(***************************************************************************)
EXTENDS BalanceLedger, Validation, FiniteSetsExt

CONSTANTS
  Locals,    \* names of the rows of the table
  Rows,      \* what a row may hold
  Items,     \* what an element of the posted array may be
  MaxItems,  \* length of the longest posted array
  Bodies,    \* bodies posted to create a request
  Rounds     \* how often the same corpus is posted

ASSUME SyncAssumption ==
  /\ IsFiniteSet(Locals)
  /\ Rows \subseteq BalanceRow
  /\ MaxItems \in Nat /\ Rounds \in Nat
  /\ \A v \in Items : IsObject(v) => ToNumber(Total(v)).n \in Int

VARIABLES
  body,      \* the body of the request
  rows,      \* table balances
  before,    \* history: the table when the current round began
  pc,        \* "posted", "rows", "items", "done" or "refused"
  left,      \* the rows or the items the loop has still to visit
  report,    \* syncReport: updates, errors, drifts
  round      \* how many times it has been posted

syncVars == <<body, rows, before, pc, left, report, round>>

NoReport == [updates |-> {}, errors |-> {}, missing |-> {}, mismatch |-> {},
             unknown |-> 0]

Arrays == UNION {[1..n -> Items] : n \in 0..MaxItems}

SyncInit ==
  /\ \/ \E a \in Arrays : body = [route |-> "sync", array |-> a]
     \/ \E b \in Bodies : body = [route |-> "create", fields |-> b]
  /\ rows \in [Locals -> Rows]
  /\ before = rows
  /\ pc = "posted" /\ left = {} /\ report = NoReport /\ round = 1

-----------------------------------------------------------------------------
Corpus == SyncCommand(body.array)

Valid == IF body.route = "sync" THEN SyncIsValid(body.array)
                                ELSE CreateIsValid(body.fields)

(* The validation.  A valid create command is none of this module's        *)
(* business any more.                                                      *)
Validate ==
  /\ pc = "posted"
  /\ pc' = IF ~ Valid THEN "refused"
           ELSE IF body.route = "sync" THEN "rows" ELSE "done"
  /\ left' = IF pc' = "rows" THEN Locals ELSE {}
  /\ UNCHANGED <<body, rows, before, report, round>>

\* Mutant: an item that comes later replaces one that came before.
FindLast(name) == {i \in DOMAIN Corpus :
  Corpus[i].name = name /\ \A j \in DOMAIN Corpus :
                             Corpus[j].name = name => j <= i}

(* command.balances.find: the first item of that name, if there is one. *)
Find(name) == {i \in DOMAIN Corpus :
  Corpus[i].name = name /\ \A j \in DOMAIN Corpus :
                             Corpus[j].name = name => i <= j}

FoundTotal(name) == Corpus[CHOOSE i \in Find(name) : TRUE].balance

\* Mutant: days on reservation are not taken off.
RowAfterUnreserved(name) ==
  CASE Find(name) = {} -> NotInCorpus(rows[name])
    [] OTHER -> [Synced(rows[name], FoundTotal(name))
                  EXCEPT !.available = FoundTotal(name)]

(* One iteration of the loop over localBalances: what it writes *)
RowAfter(name) ==
  CASE Find(name) = {} -> NotInCorpus(rows[name])
    [] Find(name) # {} /\ FoundTotal(name) < 0 -> rows[name]
    [] OTHER -> Synced(rows[name], FoundTotal(name))

(* and what it reports. *)
ReportAfter(name) ==
  CASE Find(name) = {} -> [report EXCEPT !.missing = @ \cup {name}]
    [] Find(name) # {} /\ FoundTotal(name) < 0 ->
         [report EXCEPT !.errors = @ \cup {name}]
    [] OTHER ->
         [report EXCEPT
           !.updates = @ \cup {name},
           !.mismatch = IF rows[name].available
                             = Reconciled(rows[name], FoundTotal(name))
                          THEN @ ELSE @ \cup {name}]

VisitRow ==
  /\ pc = "rows"
  /\ \E name \in left :
       /\ rows' = [rows EXCEPT ![name] = RowAfter(name)]
       /\ report' = ReportAfter(name)
       /\ left' = left \ {name}
  /\ UNCHANGED <<body, before, pc, round>>

EndOfRows ==
  /\ pc = "rows" /\ left = {}
  /\ pc' = "items" /\ left' = DOMAIN Corpus
  /\ UNCHANGED <<body, rows, before, report, round>>

(* One iteration of the loop over command.balances: MISSING_LOCALLY. *)
VisitItem ==
  /\ pc = "items" /\ left # {}
  /\ LET i == Min(left)
     IN  /\ report' = IF Corpus[i].name \in Locals THEN report
                      ELSE [report EXCEPT !.unknown = @ + 1]
         /\ left' = left \ {i}
  /\ UNCHANGED <<body, rows, before, pc, round>>

EndOfItems ==
  /\ pc = "items" /\ left = {}
  /\ pc' = "done"
  /\ UNCHANGED <<body, rows, before, left, report, round>>

(* The administrator posts the same corpus again. *)
PostAgain ==
  /\ pc = "done" /\ body.route = "sync" /\ round < Rounds
  /\ pc' = "posted" /\ round' = round + 1
  /\ before' = rows /\ report' = NoReport
  /\ UNCHANGED <<body, rows, left>>

SyncNext ==
  \/ Validate \/ VisitRow \/ EndOfRows \/ VisitItem \/ EndOfItems
  \/ PostAgain

SyncSpec == SyncInit /\ [][SyncNext]_syncVars

-----------------------------------------------------------------------------
Synchronised == pc = "done" /\ body.route = "sync"

(* What gets past the validation is what the handlers count on: a create   *)
(* command asks for half a day or more, a corpus names its balances and    *)
(* has no negative total; and rows keep their types.                       *)
SyncTypeOK ==
  /\ rows \in [Locals -> BalanceRow]
  /\ pc \in {"posted", "rows", "items", "done", "refused"}
  /\ pc \in {"rows", "items", "done"} =>
       IF body.route = "create"
         THEN ToNumber(Field(body.fields, "days")).n >= 1
         ELSE \A i \in DOMAIN Corpus :
                Corpus[i].balance >= 0 /\ "" \notin {Corpus[i].name[k] : k \in 1..3}

(* The two loops amount to the one step of TimeOffService: each row is     *)
(* reconciled with the first item that names it, and a drift is reported   *)
(* exactly when names differ on the two sides or an available is not what  *)
(* the item makes it.  In whatever order the rows are visited.             *)
Totals ==
  LET Named == {Corpus[i].name : i \in DOMAIN Corpus}
  IN  [name \in Named |->
         Corpus[Min({i \in DOMAIN Corpus : Corpus[i].name = name})].balance]

Drifted ==
  report.missing # {} \/ report.mismatch # {} \/ report.unknown > 0

LoopsAreOneStep ==
  Synchronised =>
    /\ \A name \in Locals :
         rows[name] = IF name \in DOMAIN Totals
                        THEN Synced(before[name], Totals[name])
                        ELSE NotInCorpus(before[name])
    /\ Drifted <=>
         \/ DOMAIN Totals # Locals
         \/ \E name \in Locals \cap DOMAIN Totals :
              before[name].available # Reconciled(before[name], Totals[name])

(* The report accounts for every row once, nothing that passed the         *)
(* validation is an error, and the days on reservation and those available *)
(* add up to the HCM's total, unless more are on reservation than the HCM  *)
(* has.                                                                    *)
ReportAddsUp ==
  Synchronised =>
    /\ report.errors = {}
    /\ report.updates = Locals \cap DOMAIN Totals
    /\ report.missing = Locals \ report.updates
    /\ report.mismatch \subseteq report.updates
    /\ \A name \in report.updates :
         LET row == rows[name]
         IN  IF row.reserved <= Totals[name]
               THEN row.available + row.reserved = Totals[name]
               ELSE row.available = 0

(* A corpus that is posted again corrects nothing: what it reports is what *)
(* it cannot correct, names the other side lacks.                          *)
SecondSyncIsQuiet ==
  Synchronised /\ round > 1 =>
    /\ report.mismatch = {}
    /\ \A name \in Locals :
         rows[name] = [before[name] EXCEPT !.version = rows[name].version]
=============================================================================
