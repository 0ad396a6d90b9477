--------------------------- MODULE MCBalanceSync ---------------------------
(***************************************************************************)
(* Two rows, and arrays of up to three items: names of a row, of no row    *)
(* and of nothing, and a value of each kind that Number() treats its way.  *)
(***************************************************************************)
EXTENDS BalanceSync

Row(available, reserved) ==
  [NewBalance(available) EXCEPT !.reserved = reserved]

Name(w) == <<w, "lahore", "annual">>

TwoRows == {Name("a"), Name("b")}

Contents == {Row(2, 0), Row(0, 2)}

Item(w, balance, available) ==
  Object([employeeId |-> w, locationId |-> Word("lahore"),
          leaveTypeId |-> Word("annual"),
          balance |-> balance, availableBalance |-> available])

Values == {Null, Flag(TRUE), Num(1), Num(-1), TooBig, Blank,
           Text("4", Finite(4), TRUE), Word("four"), List(Finite(0)),
           Object(<<>>)}

SomeItems ==
  {Item(Word("a"), v, Absent) : v \in Values}
    \cup {Item(w, v, Num(2)) : w \in {Word("a"), Word("b"), Word("c")},
                               v \in {Absent, Null, Num(0)}}
    \cup {Item(w, Num(0), Absent) : w \in {Blank, Num(1), Absent}}
    \cup {Null, Num(1), List(Finite(0)), Object(<<>>)}

Create(start, end, days, key) ==
  Object([employeeId |-> Word("a"), locationId |-> Word("lahore"),
          leaveTypeId |-> Word("annual"), startDate |-> start,
          endDate |-> end, days |-> days, idempotencyKey |-> key])

Date(w) == Text(w, NotFinite, TRUE)

SomeBodies ==
  {Create(Date("monday"), Date("friday"), v, Absent) : v \in Values}
    \cup {Create(Date("friday"), end, Num(2), k) :
            end \in {Date("monday"), Word("soon"), Blank, Absent},
            k \in {Absent, Blank, Word("k1"), Num(1)}}
    \cup {Object([employeeId |-> Word("a")])}
=============================================================================
