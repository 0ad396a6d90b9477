----------------------------- MODULE LeaveBook -----------------------------
(***************************************************************************)
(* What the time-off service promises to those who use it, with nothing of *)
(* how it does it: a book of requests, and the days each balance has free. *)
(* There are no handlers, no reads that may be stale, no versions, no HCM; *)
(* every entry of the book changes in one step.  TimeOffService implements *)
(* this module: whatever its handlers do at the same time, an observer of  *)
(* the tables sees the steps below, one after the other.                   *)
(***************************************************************************)
EXTENDS Integers

CONSTANTS Requests, Balances, Commands, InitialDays, EmployeeLeave

VARIABLES
  book,   \* the requests there are: what was asked, its status, and whether
          \* the service has lost hold of it (it is shown as SYNC_FAILED)
  free    \* free[b]: days that can still be asked for

bookVars == <<book, free>>

Init ==
  /\ book = [r \in {} |-> <<>>]
  /\ free \in [Balances -> InitialDays]

(* A request the service has lost hold of blocks no period and is decided  *)
(* no more, but the days it holds stay taken.                              *)
Open(r) == book[r].status \in {"PENDING", "APPROVED"} /\ ~ book[r].lost

Meet(cmd1, cmd2) ==
  /\ EmployeeLeave[cmd1.balance] = EmployeeLeave[cmd2.balance]
  /\ cmd1.from <= cmd2.to
  /\ cmd1.to >= cmd2.from

Submit(r, cmd) ==
  /\ r \notin DOMAIN book
  /\ free[cmd.balance] >= cmd.days
  /\ \A s \in DOMAIN book : Open(s) => ~ Meet(book[s].cmd, cmd)
  /\ book' = [s \in DOMAIN book \cup {r} |->
                IF s = r
                  THEN [cmd |-> cmd, status |-> "PENDING", lost |-> FALSE]
                  ELSE book[s]]
  /\ free' = [free EXCEPT ![cmd.balance] = @ - cmd.days]

Approve(r) ==
  /\ r \in DOMAIN book
  /\ book[r].status = "PENDING" /\ ~ book[r].lost
  /\ book' = [book EXCEPT ![r].status = "APPROVED"]
  /\ UNCHANGED free

GiveBack(r, status) ==
  /\ book' = [book EXCEPT ![r].status = status]
  /\ free' = [free EXCEPT ![book[r].cmd.balance] = @ + book[r].cmd.days]

Reject(r) ==
  /\ r \in DOMAIN book
  /\ book[r].status = "PENDING" /\ ~ book[r].lost
  /\ GiveBack(r, "REJECTED")

Cancel(r) ==
  /\ r \in DOMAIN book
  /\ Open(r)
  /\ GiveBack(r, "CANCELLED")

(* An approval's HCM call failed: the entry is put aside, whatever has     *)
(* been decided about it in the meantime.                                  *)
Lose(r) ==
  /\ r \in DOMAIN book
  /\ book' = [book EXCEPT ![r].lost = TRUE]
  /\ UNCHANGED free

(* A sync resets the free days to what the HCM's totals leave. *)
Adjust ==
  /\ free' \in [Balances -> Nat]
  /\ UNCHANGED book

Next ==
  \/ \E r \in Requests :
       \/ \E cmd \in Commands : Submit(r, cmd)
       \/ Approve(r) \/ Reject(r) \/ Cancel(r) \/ Lose(r)
  \/ Adjust

Spec == Init /\ [][Next]_bookVars
=============================================================================
