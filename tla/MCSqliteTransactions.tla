----------------------- MODULE MCSqliteTransactions -----------------------
(***************************************************************************)
(* Three transactions on two rows.                                         *)
(***************************************************************************)
EXTENDS SqliteTransactions, TLC
=============================================================================
