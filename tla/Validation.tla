----------------------------- MODULE Validation -----------------------------
(***************************************************************************)
(* The validation of request bodies, over the kinds of JSON values whose   *)
(* treatment differs.  Numbers count half days, like everywhere else.      *)
(*                                                                         *)
(* A value is a record with its type and what the validation can see of    *)
(* it: a text without its surrounding blanks (word), what Number() makes   *)
(* of it, and whether Date.parse() takes it.                               *)
(***************************************************************************)
EXTENDS Integers, Sequences

Finite(n) == [finite |-> TRUE, n |-> n]
NotFinite == [finite |-> FALSE, n |-> 0]   \* NaN, and Infinity for 1e999

Absent == [type |-> "absent"]
Null == [type |-> "null"]
Flag(b) == [type |-> "flag", on |-> b]
Num(n) == [type |-> "number", number |-> Finite(n)]
TooBig == [type |-> "number", number |-> NotFinite]
Text(word, number, date) ==
  [type |-> "text", word |-> word, number |-> number, date |-> date]
Word(w) == Text(w, NotFinite, FALSE)
Blank == Text("", Finite(0), FALSE)
Empty == [type |-> "text", word |-> "", number |-> Finite(0), date |-> FALSE,
          length |-> 0]
List(number) == [type |-> "list", number |-> number]
Object(fields) == [type |-> "object", fields |-> fields]

(* Number(): null, "" and [] are 0, true is 1, undefined and {} are NaN. *)
ToNumber(v) ==
  CASE v.type = "null" -> Finite(0)
    [] v.type = "flag" -> Finite(IF v.on THEN 2 ELSE 0)
    [] v.type \in {"number", "text", "list"} -> v.number
    [] v.type \in {"absent", "object"} -> NotFinite

-----------------------------------------------------------------------------
(* Each of these holds of the values that are let through. *)

IsObject(v) == v.type = "object"

Field(body, f) == IF f \in DOMAIN body.fields THEN body.fields[f] ELSE Absent

IsString(v) == v.type = "text" /\ v.word # ""

IsOptionalString(v) == v.type \in {"absent", "null", "text"}

\* Mutant: IsNumber without the minimum.
IsAnyNumber(v, minimum) == ToNumber(v).finite

IsNumber(v, minimum) == ToNumber(v).finite /\ ToNumber(v).n >= minimum

IsDateString(v) == IsString(v) /\ v.date

NamesBalance(body) ==
  \A f \in {"employeeId", "locationId", "leaveTypeId"} :
    IsString(Field(body, f))

(* validateCreateTimeOffRequest.  No two fields are compared. *)
CreateIsValid(body) ==
  /\ IsObject(body)
  /\ NamesBalance(body)
  /\ IsDateString(Field(body, "startDate"))
  /\ IsDateString(Field(body, "endDate"))
  /\ IsNumber(Field(body, "days"), 1)
  /\ IsOptionalString(Field(body, "reason"))
  /\ IsOptionalString(Field(body, "idempotencyKey"))

(* The key of the command, if it has one.  A text of blanks is a key, "":  *)
(* the handler neither looks it up nor stores it, but the request's UNIQUE *)
(* column takes it once only.                                              *)
KeysOf(body) ==
  LET v == Field(body, "idempotencyKey")
  IN  IF v.type = "text" /\ v # Empty THEN {v.word} ELSE {}

(* validateApproval, whose body may be missing, and validateRejection *)
ApprovalIsValid(body) ==
  \/ body.type = "absent"
  \/ IsObject(body) /\ IsOptionalString(Field(body, "notes"))

RejectionIsValid(body) == IsObject(body) /\ IsString(Field(body, "reason"))

(* balance ?? availableBalance *)
Total(item) ==
  LET balance == Field(item, "balance")
  IN  IF balance.type \in {"absent", "null"}
        THEN Field(item, "availableBalance") ELSE balance

(* validateSyncBalances: the array is taken whole or not at all. *)
SyncIsValid(posted) ==
  \A i \in DOMAIN posted :
    /\ IsObject(posted[i])
    /\ NamesBalance(posted[i])
    /\ IsNumber(Total(posted[i]), 0)

NameOf(item) == <<Field(item, "employeeId").word,
                  Field(item, "locationId").word,
                  Field(item, "leaveTypeId").word>>

SyncCommand(posted) ==
  [i \in DOMAIN posted |->
     [name |-> NameOf(posted[i]), balance |-> ToNumber(Total(posted[i])).n]]

(* validateCreateBalance; no route creates balances. *)
CreateBalanceIsValid(body) ==
  /\ IsObject(body)
  /\ NamesBalance(body)
  /\ IsNumber(Field(body, "availableBalance"), 0)
  /\ \A f \in {"reservedBalance", "usedBalance"} :
       Field(body, f).type = "absent" \/ IsNumber(Field(body, f), 0)
=============================================================================
