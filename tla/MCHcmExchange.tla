--------------------------- MODULE MCHcmExchange ---------------------------
(***************************************************************************)
(* A small instance of HcmExchange: a row the HCM has, and one of an       *)
(* employee it does not know.                                              *)
(***************************************************************************)
EXTENDS HcmExchange

CONSTANTS lahore, nowhere, r1

MixedArguments ==
  [op : {"getBalance"}, balance : {lahore}]
    \cup [op : {"validate"}, balance : {lahore, nowhere}, days : {1}]
    \cup [op : {"apply"}, request : {r1}, balance : {lahore}, days : {1, -1}]
    \cup [op : {"fullSync"}, corpus : [{lahore} -> {2}]]
=============================================================================
