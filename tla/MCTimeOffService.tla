-------------------------- MODULE MCTimeOffService --------------------------
(***************************************************************************)
(* Small instances of TimeOffService.  Calls and Requests are sets of      *)
(* model values and interchangeable; the create commands of a run are one  *)
(* of the sets below.                                                      *)
(***************************************************************************)
EXTENDS TimeOffService, TLC

CONSTANTS lahore, newyork, k1

Symmetric == Permutations(Calls) \cup Permutations(Requests)

Cmd(b, from, to, days, key) ==
  [balance |-> b, from |-> from, to |-> to, days |-> days, key |-> key]

(* Two employees' worth of balances are not needed: balances interact only *)
(* through the overlap rule, so both rows belong to one employee and leave *)
(* type.                                                                   *)
OnePerson == [b \in Balances |-> "annual leave of EMP001"]

(* Requests on one balance that do not overlap and do not fit both when    *)
(* two days are available; a key is sent with two different commands.      *)
Rivals == {Cmd(lahore, 1, 1, 1, k1), Cmd(lahore, 2, 3, 2, NoKey),
           Cmd(lahore, 2, 2, 1, k1)}

(* One request that can only exist once. *)
Single == {Cmd(lahore, 1, 2, 1, NoKey)}

(* One request under a key, which may be sent twice. *)
Keyed == {Cmd(lahore, 1, 1, 1, k1)}

(* Periods that overlap at one day, on two locations' balances, and one    *)
(* that ends before it starts.                                             *)
TwoLocations == {Cmd(lahore, 1, 2, 1, NoKey), Cmd(newyork, 2, 3, 1, NoKey),
                 Cmd(newyork, 2, 1, 1, NoKey)}
=============================================================================
