----------------------------- MODULE MCStartup -----------------------------
(***************************************************************************)
(* A server, a migration in development and a seed on two tables, of which *)
(* the first is seeded.  (A migration that alters nothing does what the    *)
(* server does, up to the last table.)                                     *)
(***************************************************************************)
EXTENDS Startup

CONSTANTS server, alter, seed

KindOf == [p \in Processes |-> CASE p = server -> "server"
                                 [] p = alter -> "alter"
                                 [] p = seed -> "seed"]

TwoTables == <<"employees", "outboxEvents">>

OneSeeded == <<"employees">>

Indexed == [t \in {"employees", "outboxEvents"} |->
              IF t = "employees" THEN {"externalId", "email"}
                                 ELSE {"status_createdAt"}]
=============================================================================
