------------------------------ MODULE Startup ------------------------------
(***************************************************************************)
(* The processes that bring the service up on one database: servers,       *)
(* db:migrate and db:seed, started by an operator in any order, at the     *)
(* same time, again and again, and dying anywhere.                         *)
(*                                                                         *)
(* A server and a migration both bring the schema up to date, table by     *)
(* table (sequelize.sync): CREATE TABLE IF NOT EXISTS, then list the       *)
(* table's indexes, then create those that are missing.  Between the last  *)
(* two another process may have created them, and CREATE INDEX fails.      *)
(*                                                                         *)
(* With NODE_ENV=development a migration also alters what is there         *)
(* (migrate.js:34).  SQLite cannot alter a column, so that Sequelize, for  *)
(* one column after the other, copies the table to a backup table, drops   *)
(* it, creates it, copies the rows back and drops the backup: six          *)
(* statements that no transaction holds together.  DROP TABLE takes the    *)
(* indexes along.                                                          *)
(***************************************************************************)
EXTENDS Integers, Sequences

CONSTANTS
  Processes,  \* the processes an operator starts
  Kind,       \* what each runs; "alter": a migration in development
  Schema,     \* the tables, in the order sync() creates them
  IndexesOf,  \* the indexes of each table
  Seeded,     \* the tables db:seed fills, in its order
  MaxFaults   \* bound: connections refused and processes killed

TableNames == {Schema[i] : i \in DOMAIN Schema}

Kinds == {"server", "migrate", "alter", "seed"}

ASSUME StartupAssumption ==
  /\ Kind \in [Processes -> Kinds]
  /\ Schema \in Seq(TableNames) \ {<<>>}
  /\ Seeded \in Seq(TableNames) \ {<<>>}
  /\ DOMAIN IndexesOf = TableNames
  /\ \A s, t \in TableNames :
       /\ IndexesOf[t] # {}
       /\ s # t => IndexesOf[s] \cap IndexesOf[t] = {}
  /\ MaxFaults \in Nat

VARIABLES
  tables,   \* tables that exist
  indexes,  \* indexes that exist
  rows,     \* tables that hold the rows of the seed
  aside,    \* tables that have a backup table
  kept,     \* tables whose backup holds the rows of the seed
  process,  \* process[p]: where process p is
  faults,   \* history: how many faults there have been
  dropped,  \* history: tables an alteration has dropped, not complete since
  emptied   \* history: tables whose rows went with it, not back since

database == <<tables, indexes, rows, aside, kept, dropped, emptied>>

startVars == <<database, process, faults>>

(* next: the table a loop has come to; missing: the indexes showIndex has  *)
(* not found; worker: the outbox worker has been started.                  *)
Fresh == [pc |-> "off", next |-> 1, missing |-> {}, worker |-> FALSE]

Ended == {"off", "exit0", "exit1"}

StartupInit ==
  /\ tables = {} /\ indexes = {} /\ rows = {} /\ aside = {} /\ kept = {}
  /\ process = [p \in Processes |-> Fresh]
  /\ faults = 0 /\ dropped = {} /\ emptied = {}

GoTo(p, pc) == process' = [process EXCEPT ![p].pc = pc]

Exits(p, pc) == process' = [process EXCEPT ![p] = [Fresh EXCEPT !.pc = pc]]

Fails(p) == Exits(p, "exit1")

Table(p) == Schema[process[p].next]

Complete(t) == t \in tables /\ IndexesOf[t] \subseteq indexes

-----------------------------------------------------------------------------
(* The operator starts a process, or one that has ended once more.         *)
Launch(p) ==
  /\ process[p].pc \in Ended
  /\ Exits(p, "connect")
  /\ UNCHANGED <<database, faults>>

(* initializeDatabase: authenticate. *)
Connect(p) ==
  /\ process[p].pc = "connect"
  /\ GoTo(p, IF Kind[p] = "seed" THEN "insert" ELSE "table")
  /\ UNCHANGED <<database, faults>>

Fault(p) ==
  /\ faults < MaxFaults
  /\ faults' = faults + 1
  /\ Fails(p)
  /\ UNCHANGED database

ConnectFails(p) == process[p].pc = "connect" /\ Fault(p)

(* Any process may be killed, or a statement of its may fail, such as the  *)
(* DROP of a table that rows of another refer to.                          *)
Killed(p) == process[p].pc \notin Ended \cup {"connect"} /\ Fault(p)

-----------------------------------------------------------------------------
(* sequelize.sync() *)

\* Mutant: CREATE TABLE without IF NOT EXISTS.
CreateTableOnce(p) ==
  /\ process[p].pc = "table"
  /\ IF Table(p) \in tables THEN Fails(p) ELSE GoTo(p, "show")
  /\ tables' = tables \cup {Table(p)}
  /\ UNCHANGED <<indexes, rows, aside, kept, faults, dropped, emptied>>

(* A table that is there already is altered in development.                *)
CreateTable(p) ==
  /\ process[p].pc = "table"
  /\ tables' = tables \cup {Table(p)}
  /\ GoTo(p, IF Kind[p] = "alter" /\ Table(p) \in tables THEN "alter"
                                                         ELSE "show")
  /\ UNCHANGED <<indexes, rows, aside, kept, faults, dropped, emptied>>

(* Of a table that is not there the list is empty. *)
ShowIndexes(p) ==
  /\ process[p].pc = "show"
  /\ process' = [process EXCEPT ![p].pc = "index",
                                ![p].missing = IndexesOf[Table(p)] \ indexes]
  /\ UNCHANGED <<database, faults>>

(* addIndex: an error for one that exists by now, and without the table.   *)
AddIndex(p) ==
  /\ process[p].pc = "index"
  /\ UNCHANGED <<tables, rows, aside, kept, faults, emptied>>
  /\ \E i \in process[p].missing :
       IF i \in indexes \/ Table(p) \notin tables
         THEN Fails(p) /\ UNCHANGED <<indexes, dropped>>
         ELSE /\ process' = [process EXCEPT ![p].missing = @ \ {i}]
              /\ indexes' = indexes \cup {i}
              /\ dropped' = {t \in dropped : ~ Complete(t)'}

SyncedBy(kind) == IF kind = "server" THEN "worker" ELSE "exit0"

NextTable(p) ==
  /\ process[p].pc = "index" /\ process[p].missing = {}
  /\ process' = [process EXCEPT
       ![p].pc = IF process[p].next < Len(Schema) THEN "table"
                                                  ELSE SyncedBy(Kind[p]),
       ![p].next = IF process[p].next < Len(Schema) THEN @ + 1 ELSE @]
  /\ UNCHANGED <<database, faults>>

Sync(p) == CreateTable(p) \/ ShowIndexes(p) \/ AddIndex(p) \/ NextTable(p)

-----------------------------------------------------------------------------
(* sync({ alter: true }): changeColumn on a table that was there. *)

(* Describe the table, CREATE TABLE IF NOT EXISTS of the backup. *)
SetAside(p) ==
  /\ process[p].pc = "alter"
  /\ IF Table(p) \notin tables
       THEN Fails(p) /\ UNCHANGED aside
       ELSE GoTo(p, "copy") /\ aside' = aside \cup {Table(p)}
  /\ UNCHANGED <<tables, indexes, rows, kept, faults, dropped, emptied>>

(* INSERT ... SELECT, an error for rows that are there with their keys, as *)
(* after a migration that was killed between two of these statements.      *)
CanCopy(t) == t \in tables \cap aside /\ t \notin rows \cap kept

CopyAside(p) ==
  /\ process[p].pc = "copy"
  /\ IF ~ CanCopy(Table(p))
       THEN Fails(p) /\ UNCHANGED kept
       ELSE GoTo(p, "drop") /\ kept' = kept \cup ({Table(p)} \cap rows)
  /\ UNCHANGED <<tables, indexes, rows, aside, faults, dropped, emptied>>

DropTable(p) ==
  LET t == Table(p)
  IN  /\ process[p].pc = "drop"
      /\ IF t \notin tables
           THEN Fails(p) /\ UNCHANGED <<tables, indexes, rows, dropped, emptied>>
           ELSE /\ GoTo(p, "make")
                /\ tables' = tables \ {t}
                /\ indexes' = indexes \ IndexesOf[t]
                /\ rows' = rows \ {t}
                /\ dropped' = dropped \cup {t}
                /\ emptied' = emptied \cup ({t} \cap rows)
      /\ UNCHANGED <<aside, kept, faults>>

MakeAgain(p) ==
  /\ process[p].pc = "make"
  /\ tables' = tables \cup {Table(p)}
  /\ GoTo(p, "back")
  /\ UNCHANGED <<indexes, rows, aside, kept, faults, dropped, emptied>>

CopyBack(p) ==
  /\ process[p].pc = "back"
  /\ IF ~ CanCopy(Table(p))
       THEN Fails(p) /\ UNCHANGED <<rows, emptied>>
       ELSE /\ GoTo(p, "tidy")
            /\ rows' = rows \cup ({Table(p)} \cap kept)
            /\ emptied' = emptied \ rows'
  /\ UNCHANGED <<tables, indexes, aside, kept, faults, dropped>>

(* DROP of the backup; then the next column, or the indexes. *)
DropAside(p) ==
  /\ process[p].pc = "tidy"
  /\ IF Table(p) \notin aside
       THEN Fails(p) /\ UNCHANGED <<aside, kept>>
       ELSE /\ \E pc \in {"alter", "show"} : GoTo(p, pc)
            /\ aside' = aside \ {Table(p)} /\ kept' = kept \ {Table(p)}
  /\ UNCHANGED <<tables, indexes, rows, faults, dropped, emptied>>

Alter(p) ==
  \/ SetAside(p) \/ CopyAside(p) \/ DropTable(p)
  \/ MakeAgain(p) \/ CopyBack(p) \/ DropAside(p)

-----------------------------------------------------------------------------
(* db:seed: one INSERT OR IGNORE per table; it creates no table. *)

(* What follows on an INSERT. *)
NextInsert(p) ==
  process' = [process EXCEPT
    ![p].pc = IF process[p].next < Len(Seeded) THEN "insert" ELSE "exit0",
    ![p].next = IF process[p].next < Len(Seeded) THEN @ + 1 ELSE @]

\* Mutant: an error of bulkCreate is logged only.
InsertOrSkip(p) ==
  LET t == Seeded[process[p].next]
  IN  /\ process[p].pc = "insert"
      /\ rows' = rows \cup ({t} \cap tables) /\ emptied' = emptied \ rows'
      /\ NextInsert(p)
      /\ UNCHANGED <<tables, indexes, aside, kept, faults, dropped>>

Insert(p) ==
  LET t == Seeded[process[p].next]
  IN  /\ process[p].pc = "insert"
      /\ IF t \notin tables
           THEN Fails(p) /\ UNCHANGED <<rows, emptied>>
           ELSE /\ NextInsert(p)
                /\ rows' = rows \cup {t} /\ emptied' = emptied \ {t}
      /\ UNCHANGED <<tables, indexes, aside, kept, faults, dropped>>

-----------------------------------------------------------------------------
(* bootstrap(): NestFactory.create has awaited the sync. *)

(* initializeEventProcessing; the worker polls from now on. *)
StartWorker(p) ==
  /\ process[p].pc = "worker"
  /\ process' = [process EXCEPT ![p].pc = "listen", ![p].worker = TRUE]
  /\ UNCHANGED <<database, faults>>

Listen(p) ==
  /\ process[p].pc = "listen"
  /\ GoTo(p, "up")
  /\ UNCHANGED <<database, faults>>

Proceed(p) ==
  Connect(p) \/ Sync(p) \/ Alter(p) \/ Insert(p) \/ StartWorker(p) \/ Listen(p)

StartupNext ==
  \E p \in Processes :
    Launch(p) \/ Proceed(p) \/ ConnectFails(p) \/ Killed(p)

StartupSpec == StartupInit /\ [][StartupNext]_startVars

(* What runs goes on.  Nothing need ever be started, nor started again:    *)
(* docker-compose.yml has no restart policy.                               *)
FairStartupSpec ==
  StartupSpec /\ \A p \in Processes : WF_startVars(Proceed(p))

-----------------------------------------------------------------------------
(* Whatever died, collided or was repeated before: to a server that        *)
(* accepts requests or polls for events all tables are there with their    *)
(* indexes, and so they are when a migration has ended well, and the rows  *)
(* of the seed when a seed has; but for a table that a migration in        *)
(* development has dropped meanwhile and that is not complete again.       *)
SuccessMeansReady ==
  /\ rows \subseteq tables /\ kept \subseteq aside
  /\ \A p \in Processes :
       /\ process[p].worker \/ process[p].pc = "up"
            \/ (Kind[p] \in {"migrate", "alter"} /\ process[p].pc = "exit0") =>
            \A t \in TableNames : Complete(t) \/ t \in dropped
       /\ Kind[p] = "seed" /\ process[p].pc = "exit0" =>
            \A i \in DOMAIN Seeded : Seeded[i] \in rows \cup emptied

(* The last fault has been, and nobody but p is under way. *)
Alone(p) ==
  /\ faults = MaxFaults
  /\ \A q \in Processes \ {p} : process[q].pc \in Ended \cup {"up"}

Able(p) ==
  CASE Kind[p] = "seed" -> \A i \in DOMAIN Seeded : Seeded[i] \in tables
    [] OTHER -> Kind[p] # "alter"

Succeeded(p) == process[p].pc = IF Kind[p] = "server" THEN "up" ELSE "exit0"

(* Nothing a killed process leaves behind, be it a table without all of    *)
(* its indexes or no table where there was one, is beyond repair: a server *)
(* or a migration that is started while nobody else starts, and is left    *)
(* alone, comes through; so does a seed once its tables are there.  A      *)
(* migration in development does not: it trips over the backup of another. *)
AloneComesThrough ==
  \A p \in Processes :
    process[p].pc = "connect" /\ Alone(p) /\ Able(p)
      ~> Succeeded(p) \/ ~ Alone(p)
=============================================================================
