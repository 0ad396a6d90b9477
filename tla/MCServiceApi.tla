---------------------------- MODULE MCServiceApi ----------------------------
(***************************************************************************)
(* A small instance of ServiceApi: two employees, a manager, an            *)
(* administrator and a caller of a role the service does not know.  The    *)
(* balance belongs to the first employee.                                  *)
(***************************************************************************)
EXTENDS ServiceApi, TLC

CONSTANTS lahore, k1

Symmetric == Permutations(Calls)

Owners == [b \in Balances |-> "emp"]

OnePerson == [b \in Balances |-> "annual leave of emp"]

Keyed == {[balance |-> lahore, from |-> 1, to |-> 2, days |-> 1, key |-> k1]}

(* A good token for each user, and one with each thing that can be wrong. *)
Good(sub, role) ==
  [scheme |-> "Bearer", alg |-> "HS256", signature |-> "ours",
   exp |-> "future", claims |-> [sub |-> sub, role |-> role]]

Admin == Good("adm", "ADMIN")

AllTokens ==
  {Good("emp", "EMPLOYEE"), Good("other", "EMPLOYEE"), Good("mgr", "MANAGER"),
   Admin, Good("guest", "GUEST"),
   [Admin EXCEPT !.scheme = "Basic"], [Admin EXCEPT !.alg = "none"],
   [Admin EXCEPT !.signature = "another"], [Admin EXCEPT !.exp = "past"],
   Good("", "ADMIN"), Good("adm", "")}
=============================================================================
