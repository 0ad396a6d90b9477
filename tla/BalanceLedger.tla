--------------------------- MODULE BalanceLedger ---------------------------
(***************************************************************************)
(* The rows of the `balances` table and the UPDATE statements of           *)
(* BalanceRepository.  Every one of those statements has the form          *)
(*                                                                         *)
(*     UPDATE balances SET ..., version = version + 1                      *)
(*     WHERE id = :id AND version = :expectedVersion AND column >= :days   *)
(*                                                                         *)
(* and throws when it affects no row.  An operator CanX is the WHERE       *)
(* clause, the operator X is the SET clause.                               *)
(*                                                                         *)
(* Days are counted in half days, the smallest length a request may have   *)
(* (CreateTimeOffRequestDto rejects less than 0.5), so columns are         *)
(* integers.  The module has no state.                                     *)
(***************************************************************************)
EXTENDS Integers, FiniteSets

SyncStatuses == {"PENDING", "SYNCED", "FAILED"}

BalanceRow == [available : Nat, reserved : Nat, used : Nat,
               version : Nat, syncStatus : SyncStatuses]

(* A balance as it is first stored: nothing reserved, nothing used. *)
NewBalance(days) ==
  [available |-> days, reserved |-> 0, used |-> 0,
   version |-> 0, syncStatus |-> "SYNCED"]

-----------------------------------------------------------------------------
\* Mutant: CanReserve without its test of the days left.
CanReserveUnguarded(row, days, expectedVersion) ==
  row.version = expectedVersion

(* reserveBalance: available -> reserved, when a request is created. *)
CanReserve(row, days, expectedVersion) ==
  row.version = expectedVersion /\ row.available >= days

\* Mutant: Reserve that forgets version + 1.
ReserveSameVersion(row, days) ==
  [row EXCEPT !.available = @ - days, !.reserved = @ + days]

Reserve(row, days) ==
  [row EXCEPT !.available = @ - days, !.reserved = @ + days,
              !.version = @ + 1]

(* releaseReservedBalance: reserved -> available, on reject and on the     *)
(* cancellation of a pending request.                                      *)
CanReleaseReserved(row, days, expectedVersion) ==
  row.version = expectedVersion /\ row.reserved >= days

\* Mutant: ReleaseReserved that gives nothing back to available.
ReleaseReservedForGood(row, days) ==
  [row EXCEPT !.reserved = @ - days, !.version = @ + 1]

ReleaseReserved(row, days) ==
  [row EXCEPT !.available = @ + days, !.reserved = @ - days,
              !.version = @ + 1]

(* consumeReservedBalance: reserved -> used, on approval. *)
CanConsume(row, days, expectedVersion) ==
  row.version = expectedVersion /\ row.reserved >= days

ConsumeReserved(row, days) ==
  [row EXCEPT !.reserved = @ - days, !.used = @ + days, !.version = @ + 1]

(* releaseUsedBalance: used -> available, on the cancellation of an        *)
(* approved request.                                                       *)
CanReleaseUsed(row, days, expectedVersion) ==
  row.version = expectedVersion /\ row.used >= days

ReleaseUsed(row, days) ==
  [row EXCEPT !.used = @ - days, !.available = @ + days, !.version = @ + 1]

-----------------------------------------------------------------------------
(* What SyncBalancesFromHcm writes to a row for which the posted corpus    *)
(* has a total: days that are reserved here have not reached the HCM yet,  *)
(* so they are taken off its total, but never below zero.                  *)
Reconciled(row, hcmTotal) ==
  IF hcmTotal >= row.reserved THEN hcmTotal - row.reserved ELSE 0

Synced(row, hcmTotal) ==
  [row EXCEPT !.available = Reconciled(row, hcmTotal),
              !.syncStatus = "SYNCED", !.version = @ + 1]

(* A row the corpus does not have: update() of the base repository, which  *)
(* touches neither the columns nor the version.                            *)
NotInCorpus(row) == [row EXCEPT !.syncStatus = "FAILED"]

-----------------------------------------------------------------------------
(* The sum of days[r] over the requests R: the number of pairs of a        *)
(* request and one of its days.                                            *)
DayPairs(R, days) == UNION {{r} \X (1..days[r]) : r \in R}

TotalDays(R, days) == Cardinality(DayPairs(R, days))
=============================================================================
