---------------------------- MODULE Startup_proofs ----------------------------
(***************************************************************************)
(* That what has come up is complete, for any number of servers,           *)
(* migrations, in development or not, and seeds, and any tables.           *)
(***************************************************************************)
EXTENDS Startup, TLAPS

(* The property speaks of processes that have come through.  It is         *)
(* inductive together with how far a loop has come.  All that a process    *)
(* has found out about a table is that but for some missing indexes it is  *)
(* complete, or an alteration has dropped it and it is not complete yet.   *)
Known(t, missing) ==
  \/ t \in dropped
  \/ t \in tables /\ IndexesOf[t] \ missing \subseteq indexes

SyncedUpTo(n) == \A i \in 1..n : Known(Schema[i], {})

SeededUpTo(n) == \A i \in 1..n : Seeded[i] \in rows \cup emptied

Altering == {"alter", "copy", "drop", "make", "back", "tidy"}

Looping == {"table", "show", "index"} \cup Altering

PhasesOf(kind) ==
  {"off", "connect", "exit1"} \cup
  (CASE kind = "server" -> {"table", "show", "index", "worker", "listen", "up"}
     [] kind = "migrate" -> {"table", "show", "index", "exit0"}
     [] kind = "alter" -> Looping \cup {"exit0"}
     [] kind = "seed" -> {"insert", "exit0"})

IsProcess(k, kind) ==
  /\ k \in [pc : PhasesOf(kind), next : Nat \ {0}, missing : {k.missing},
            worker : {k.worker}]
  /\ k.worker => k.pc \in {"listen", "up"}
  /\ k.pc = "connect" => k.next = 1
  /\ k.pc \in Looping => k.next <= Len(Schema)
  /\ k.pc = "insert" => k.next <= Len(Seeded)

ProcessOK(k, kind) ==
  /\ IsProcess(k, kind)
  /\ k.pc \in Looping => SyncedUpTo(k.next - 1)
  /\ k.pc \in Altering \cup {"show"} =>
       Known(Schema[k.next], IndexesOf[Schema[k.next]])
  /\ k.pc = "index" => Known(Schema[k.next], k.missing)
  /\ k.pc \in {"worker", "listen", "up"} => SyncedUpTo(Len(Schema))
  /\ kind \in {"migrate", "alter"} /\ k.pc = "exit0" => SyncedUpTo(Len(Schema))
  /\ k.pc = "insert" => SeededUpTo(k.next - 1)
  /\ kind = "seed" /\ k.pc = "exit0" => SeededUpTo(Len(Seeded))

StartInv ==
  /\ rows \subseteq tables /\ kept \subseteq aside
  /\ process = [p \in Processes |-> process[p]]
  /\ \A p \in Processes : ProcessOK(process[p], Kind[p])

(* What was found out stays true.                                          *)
StaysKnown ==
  /\ \A t \in TableNames : \A missing :
       Known(t, missing) => Known(t, missing)'
  /\ rows \cup emptied \subseteq rows' \cup emptied'

-----------------------------------------------------------------------------
LEMMA Schemas ==
  /\ Len(Schema) \in Nat \ {0} /\ Len(Seeded) \in Nat \ {0}
  /\ \A i \in 1..Len(Schema) : Schema[i] \in TableNames
  /\ DOMAIN Schema = 1..Len(Schema) /\ DOMAIN Seeded = 1..Len(Seeded)
  /\ \A p \in Processes : Kind[p] \in {"server", "migrate", "alter", "seed"}
  BY StartupAssumption DEF StartupAssumption, Kinds

(* The database is left alone, or a table, an index or rows are added.     *)
LEMMA Added ==
  ASSUME tables \subseteq tables', indexes \subseteq indexes',
         rows \cup emptied \subseteq rows' \cup emptied', UNCHANGED dropped
  PROVE  StaysKnown
  BY DEF StaysKnown, Known

LEMMA Untouched ==
  ASSUME UNCHANGED database
  PROVE  /\ StaysKnown
         /\ UNCHANGED <<tables, indexes, rows, aside, kept, dropped, emptied>>
<1>1. UNCHANGED <<tables, indexes, rows, aside, kept, dropped, emptied>>
  BY DEF database
<1> QED
  BY <1>1, Added

(* An index more may make a table complete.                                *)
LEMMA IndexAdded ==
  ASSUME NEW i, indexes' = indexes \cup {i},
         dropped' = {t \in dropped : ~ Complete(t)'},
         UNCHANGED <<tables, rows, emptied>>
  PROVE  StaysKnown
<1>1. ASSUME NEW t, NEW missing, Known(t, missing)
      PROVE  Known(t, missing)'
  <2>1. CASE t \in dropped
    BY <2>1 DEF Known, Complete
  <2>2. CASE t \in tables /\ IndexesOf[t] \ missing \subseteq indexes
    BY <2>2 DEF Known
  <2> QED
    BY <1>1, <2>1, <2>2 DEF Known
<1> QED
  BY <1>1 DEF StaysKnown

(* A table that is dropped takes nothing of another along.                 *)
LEMMA Dropped ==
  ASSUME NEW t \in TableNames,
         tables' = tables \ {t}, indexes' = indexes \ IndexesOf[t],
         rows' = rows \ {t}, dropped' = dropped \cup {t},
         emptied' = emptied \cup ({t} \cap rows)
  PROVE  StaysKnown
<1>1. ASSUME NEW s \in TableNames, NEW missing, Known(s, missing)
      PROVE  Known(s, missing)'
  <2>1. CASE s = t
    BY <2>1 DEF Known
  <2>2. CASE s # t
    <3>1. IndexesOf[s] \cap IndexesOf[t] = {}
      BY <2>2, StartupAssumption DEF StartupAssumption
    <3> QED
      BY <1>1, <2>2, <3>1 DEF Known
  <2> QED
    BY <2>1, <2>2
<1> QED
  BY <1>1 DEF StaysKnown

(* What a process has found done stays done.                               *)
LEMMA OthersKeep ==
  ASSUME NEW k, NEW kind, ProcessOK(k, kind), StaysKnown
  PROVE  ProcessOK(k, kind)'
<1>1. IsProcess(k, kind)' /\ (k.pc \in Looping => k.next \in 1..Len(Schema))
      /\ k.next \in Nat \ {0}
  BY Schemas DEF ProcessOK, IsProcess
<1>2. ASSUME NEW n \in Nat, n <= Len(Schema), SyncedUpTo(n)
      PROVE  SyncedUpTo(n)'
  <2>1. \A i \in 1..n : Schema[i] \in TableNames
    BY <1>2, Schemas
  <2> QED
    BY <1>2, <2>1 DEF SyncedUpTo, StaysKnown
<1>3. ASSUME NEW n, SeededUpTo(n) PROVE SeededUpTo(n)'
  BY <1>3 DEF SeededUpTo, StaysKnown
<1>4. k.pc \in Looping => SyncedUpTo(k.next - 1)'
  <2> SUFFICES ASSUME k.pc \in Looping PROVE SyncedUpTo(k.next - 1)'
    OBVIOUS
  <2>1. k.next - 1 \in Nat /\ k.next - 1 <= Len(Schema)
    BY <1>1, Schemas
  <2>2. SyncedUpTo(k.next - 1)
    BY DEF ProcessOK
  <2> QED
    BY <1>2, <2>1, <2>2
<1>5. k.pc \in Looping => Schema[k.next] \in TableNames
  BY <1>1, Schemas
<1>6. k.pc \in Altering \cup {"show"} =>
        Known(Schema[k.next], IndexesOf[Schema[k.next]])'
  BY <1>5 DEF ProcessOK, StaysKnown, Looping
<1>7. k.pc = "index" => Known(Schema[k.next], k.missing)'
  BY <1>5 DEF ProcessOK, StaysKnown, Looping
<1>8. SyncedUpTo(Len(Schema)) => SyncedUpTo(Len(Schema))'
  BY <1>2, Schemas
<1> QED
  BY <1>1, <1>3, <1>4, <1>6, <1>7, <1>8 DEF ProcessOK

(* One process moves.                                                      *)
LEMMA OneMoves ==
  ASSUME StartInv, NEW p \in Processes, NEW k,
         process' = [process EXCEPT ![p] = k],
         ProcessOK(k, Kind[p])', StaysKnown,
         rows' \subseteq tables', kept' \subseteq aside'
  PROVE  StartInv'
<1>1. ASSUME NEW q \in Processes PROVE ProcessOK(process[q], Kind[q])'
  <2>1. CASE q = p
    BY <2>1 DEF StartInv
  <2>2. CASE q # p
    <3>1. process'[q] = process[q]
      BY <2>2 DEF StartInv
    <3>2. ProcessOK(process[q], Kind[q])
      BY DEF StartInv
    <3> QED
      BY <3>1, <3>2, OthersKeep
  <2> QED
    BY <2>1, <2>2
<1>2. process' = [q \in Processes |-> process'[q]]
  BY DEF StartInv
<1> QED
  BY <1>1, <1>2 DEF StartInv

LEMMA Goes ==
  ASSUME StartInv, NEW p \in Processes, NEW pc, GoTo(p, pc)
  PROVE  \E k : /\ process' = [process EXCEPT ![p] = k]
                /\ k \in [pc : {pc}, next : {process[p].next},
                          missing : {process[p].missing},
                          worker : {process[p].worker}]
<1>1. PICK k0 : k0 = process[p]
  OBVIOUS
<1>2. IsProcess(k0, Kind[p])
  BY <1>1 DEF StartInv, ProcessOK
<1>3. PICK k : k = [k0 EXCEPT !.pc = pc]
  OBVIOUS
<1>4. k \in [pc : {pc}, next : {k0.next}, missing : {k0.missing},
             worker : {k0.worker}]
  BY <1>2, <1>3 DEF IsProcess
<1>5. process' = [process EXCEPT ![p] = k]
  BY <1>1, <1>3 DEF GoTo, StartInv
<1> QED
  BY <1>1, <1>4, <1>5

LEMMA FreshOK ==
  ASSUME NEW p \in Processes, NEW pc \in {"off", "connect", "exit1"}
  PROVE  /\ ProcessOK([Fresh EXCEPT !.pc = pc], Kind[p])
         /\ ProcessOK([Fresh EXCEPT !.pc = pc], Kind[p])'
<1>1. PICK k : k = [Fresh EXCEPT !.pc = pc]
  OBVIOUS
<1>2. k = [pc |-> pc, next |-> 1, missing |-> {}, worker |-> FALSE]
  BY <1>1 DEF Fresh
<1>3. ~ k.worker
  BY <1>2
<1>4. k.pc = pc /\ k.next = 1
  BY <1>2
<1>5. k \in [pc : PhasesOf(Kind[p]), next : Nat \ {0}, missing : {k.missing},
             worker : {k.worker}]
  <2>1. pc \in PhasesOf(Kind[p])
    BY DEF PhasesOf
  <2> QED
    BY <1>2, <2>1
<1>6. IsProcess(k, Kind[p])
  BY <1>3, <1>4, <1>5 DEF IsProcess, Looping, Altering
<1>7. ProcessOK(k, Kind[p]) /\ ProcessOK(k, Kind[p])'
  BY <1>4, <1>6 DEF ProcessOK, Looping, Altering
<1> QED
  BY <1>1, <1>7

(* A step from one place of the loop over the tables to another.           *)
LEMMA LoopGoes ==
  ASSUME StartInv, NEW p \in Processes, NEW pc \in Altering \cup {"show"},
         GoTo(p, pc), process[p].pc \in Looping, pc \in PhasesOf(Kind[p]),
         NEW t, t = Table(p), StaysKnown, Known(t, IndexesOf[t])',
         rows' \subseteq tables', kept' \subseteq aside'
  PROVE  StartInv'
<1>1. PICK k0 : k0 = process[p]
  OBVIOUS
<1>2. ProcessOK(k0, Kind[p]) /\ k0.pc \in Looping
  BY <1>1 DEF StartInv
<1>3. PICK k : /\ process' = [process EXCEPT ![p] = k]
               /\ k \in [pc : {pc}, next : {k0.next}, missing : {k0.missing},
                         worker : {k0.worker}]
  BY <1>1, Goes
<1>4. /\ k.pc = pc /\ k.next = k0.next /\ k.worker = k0.worker
      /\ k.next \in Nat \ {0} /\ k.next <= Len(Schema)
  BY <1>2, <1>3 DEF ProcessOK, IsProcess
<1>5. ~ k.worker
  BY <1>2, <1>4 DEF ProcessOK, IsProcess, Looping, Altering
<1>6. /\ pc \in Looping
      /\ pc \notin {"table", "index", "worker", "listen", "up", "exit0",
                   "connect", "insert"}
  BY DEF Looping, Altering
<1>7. IsProcess(k, Kind[p])
  BY <1>3, <1>4, <1>5, <1>6 DEF IsProcess
<1>8. SyncedUpTo(k.next - 1)'
  <2>1. ProcessOK(k0, Kind[p])'
    BY <1>2, OthersKeep
  <2> QED
    BY <1>2, <1>4, <2>1 DEF ProcessOK
<1>9. Known(Schema[k.next], IndexesOf[Schema[k.next]])'
  <2>1. t = Schema[k.next]
    BY <1>1, <1>4 DEF Table
  <2> QED
    BY <2>1
<1>10. ProcessOK(k, Kind[p])'
  BY <1>4, <1>6, <1>7, <1>8, <1>9 DEF ProcessOK
<1> QED
  BY <1>3, <1>10, OneMoves

(* A step that ends the process.                                           *)
LEMMA Failing ==
  ASSUME StartInv, NEW p \in Processes, NEW pc \in {"connect", "exit1"},
         Exits(p, pc), StaysKnown,
         rows' \subseteq tables', kept' \subseteq aside'
  PROVE  StartInv'
<1>1. PICK k : k = [Fresh EXCEPT !.pc = pc]
  OBVIOUS
<1>2. ProcessOK(k, Kind[p])'
  BY <1>1, FreshOK
<1>3. process' = [process EXCEPT ![p] = k]
  BY <1>1 DEF Exits
<1> QED
  BY <1>2, <1>3, OneMoves

LEMMA StartInitInv == StartupInit => StartInv
<1> SUFFICES ASSUME StartupInit PROVE StartInv
  OBVIOUS
<1>1. [Fresh EXCEPT !.pc = "off"] = Fresh
  BY DEF Fresh
<1>2. \A p \in Processes : ProcessOK(Fresh, Kind[p])
  BY <1>1, FreshOK
<1> QED
  BY <1>2 DEF StartupInit, StartInv

LEMMA EndsStep ==
  ASSUME StartInv, NEW p \in Processes,
         Launch(p) \/ ConnectFails(p) \/ Killed(p)
  PROVE  StartInv'
<1>1. PICK pc \in {"connect", "exit1"} : Exits(p, pc)
  BY DEF Launch, ConnectFails, Killed, Fault, Fails
<1>2. UNCHANGED database
  BY DEF Launch, ConnectFails, Killed, Fault
<1>3. StaysKnown /\ rows' \subseteq tables' /\ kept' \subseteq aside'
  BY <1>2, Untouched DEF StartInv
<1> QED
  BY <1>1, <1>3, Failing

LEMMA ConnectStep ==
  ASSUME StartInv, NEW p \in Processes, Connect(p)
  PROVE  StartInv'
<1>1. /\ ProcessOK(process[p], Kind[p]) /\ process[p].pc = "connect"
      /\ GoTo(p, IF Kind[p] = "seed" THEN "insert" ELSE "table")
  BY DEF StartInv, Connect
<1>u. StaysKnown /\ rows' \subseteq tables' /\ kept' \subseteq aside'
  BY Untouched DEF StartInv, Connect
<1>2. PICK pc : pc = IF Kind[p] = "seed" THEN "insert" ELSE "table"
  OBVIOUS
<1>3. PICK k : /\ process' = [process EXCEPT ![p] = k]
               /\ k \in [pc : {pc}, next : {process[p].next},
                         missing : {process[p].missing},
                         worker : {process[p].worker}]
  BY <1>1, <1>2, Goes
<1>4. k.next = 1 /\ k.pc = pc /\ k.worker = process[p].worker
  BY <1>1, <1>3 DEF ProcessOK, IsProcess
<1>5. ~ k.worker
  BY <1>1, <1>4 DEF ProcessOK, IsProcess
<1>6. k \in [pc : PhasesOf(Kind[p]), next : Nat \ {0}, missing : {k.missing},
             worker : {k.worker}]
  <2>1. pc \in PhasesOf(Kind[p])
    BY <1>2, Schemas DEF PhasesOf, Looping
  <2> QED
    BY <1>3, <1>4, <2>1
<1>7. IsProcess(k, Kind[p])
  BY <1>2, <1>4, <1>5, <1>6, Schemas DEF IsProcess
<1>8. ProcessOK(k, Kind[p])'
  BY <1>2, <1>4, <1>7
     DEF ProcessOK, SyncedUpTo, SeededUpTo, Looping, Altering
<1> QED
  BY <1>u, <1>3, <1>8, OneMoves

LEMMA CreateStep ==
  ASSUME StartInv, NEW p \in Processes, CreateTable(p)
  PROVE  StartInv'
<1>1. /\ ProcessOK(process[p], Kind[p]) /\ process[p].pc = "table"
      /\ tables' = tables \cup {Table(p)}
      /\ UNCHANGED <<indexes, rows, aside, kept, dropped, emptied>>
  BY DEF StartInv, CreateTable
<1>2. StaysKnown /\ rows' \subseteq tables' /\ kept' \subseteq aside'
  BY <1>1, Added DEF StartInv
<1>t. PICK t : t = Table(p)
  OBVIOUS
<1>3. Known(t, IndexesOf[t])'
  BY <1>1, <1>t DEF Known
<1>4. process[p].pc \in PhasesOf(Kind[p])
  BY <1>1 DEF ProcessOK, IsProcess
<1>5. PICK pc \in {"alter", "show"} :
        GoTo(p, pc) /\ (pc = "alter" => Kind[p] = "alter")
  BY DEF CreateTable
<1>6. pc \in PhasesOf(Kind[p])
  BY <1>1, <1>4, <1>5, Schemas DEF PhasesOf, Looping, Altering
<1>7. pc \in Altering \cup {"show"} /\ process[p].pc \in Looping
  BY <1>1, <1>5 DEF Looping, Altering
<1> QED
  BY <1>t, <1>2, <1>3, <1>5, <1>6, <1>7, LoopGoes

LEMMA ShowStep ==
  ASSUME StartInv, NEW p \in Processes, ShowIndexes(p)
  PROVE  StartInv'
<1>1. PICK k0 : k0 = process[p]
  OBVIOUS
<1>2. ProcessOK(k0, Kind[p]) /\ k0.pc = "show"
  BY <1>1 DEF StartInv, ShowIndexes
<1>u. StaysKnown /\ rows' \subseteq tables' /\ kept' \subseteq aside'
      /\ UNCHANGED <<tables, indexes, dropped>>
  BY Untouched DEF StartInv, ShowIndexes
<1>3. PICK missing : missing = IndexesOf[Schema[k0.next]] \ indexes
  OBVIOUS
<1>4. PICK k : k = [k0 EXCEPT !.pc = "index", !.missing = missing]
  OBVIOUS
<1>5. process' = [process EXCEPT ![p] = k]
  BY <1>1, <1>3, <1>4 DEF ShowIndexes, StartInv, Table
<1>6. k \in [pc : {"index"}, next : {k0.next}, missing : {missing},
             worker : {k0.worker}]
  BY <1>2, <1>4 DEF ProcessOK, IsProcess
<1>7. /\ k.pc = "index" /\ k.next = k0.next /\ k.worker = k0.worker
      /\ k.missing = missing /\ k.next \in Nat \ {0} /\ k.next <= Len(Schema)
  BY <1>2, <1>6 DEF ProcessOK, IsProcess, Looping
<1>8. ~ k.worker
  BY <1>2, <1>7 DEF ProcessOK, IsProcess
<1>9. Known(Schema[k.next], k.missing)'
  <2>1. Known(Schema[k0.next], IndexesOf[Schema[k0.next]])
    BY <1>2 DEF ProcessOK
  <2> QED
    BY <1>u, <1>3, <1>7, <2>1 DEF Known
<1>10. k0.pc \in PhasesOf(Kind[p])
  BY <1>2 DEF ProcessOK, IsProcess
<1>11. "index" \in PhasesOf(Kind[p])
  BY <1>2, <1>10, Schemas DEF PhasesOf, Looping
<1>12. IsProcess(k, Kind[p])
  BY <1>6, <1>7, <1>8, <1>11 DEF IsProcess
<1>13. SyncedUpTo(k.next - 1)'
  BY <1>u, <1>2, <1>7 DEF ProcessOK, SyncedUpTo, Known, Looping
<1>14. ProcessOK(k, Kind[p])'
  BY <1>7, <1>9, <1>12, <1>13 DEF ProcessOK, Altering
<1> QED
  BY <1>u, <1>5, <1>14, OneMoves

LEMMA IndexStep ==
  ASSUME StartInv, NEW p \in Processes, AddIndex(p)
  PROVE  StartInv'
<1>1. PICK k0 : k0 = process[p]
  OBVIOUS
<1>2. /\ ProcessOK(k0, Kind[p]) /\ k0.pc = "index"
      /\ UNCHANGED <<tables, rows, aside, kept, emptied>>
  BY <1>1 DEF StartInv, AddIndex
<1>r. rows' \subseteq tables' /\ kept' \subseteq aside'
  BY <1>2 DEF StartInv
<1>3. PICK i : /\ i \in k0.missing
               /\ IF i \in indexes \/ Table(p) \notin tables
                    THEN Fails(p) /\ UNCHANGED <<indexes, dropped>>
                    ELSE /\ process' = [process EXCEPT ![p].missing = @ \ {i}]
                         /\ indexes' = indexes \cup {i}
                         /\ dropped' = {t \in dropped : ~ Complete(t)'}
  BY <1>1 DEF AddIndex
<1>4. CASE i \in indexes \/ Table(p) \notin tables
  <2>1. Exits(p, "exit1") /\ UNCHANGED <<indexes, dropped>>
    BY <1>3, <1>4 DEF Fails
  <2>2. StaysKnown
    BY <1>2, <2>1, Added
  <2> QED
    BY <1>r, <2>1, <2>2, Failing
<1>5. CASE ~ (i \in indexes \/ Table(p) \notin tables)
  <2>1. /\ process' = [process EXCEPT ![p].missing = @ \ {i}]
        /\ indexes' = indexes \cup {i}
        /\ dropped' = {t \in dropped : ~ Complete(t)'}
    BY <1>3, <1>5
  <2>2. StaysKnown
    BY <1>2, <2>1, IndexAdded
  <2>3. PICK missing : missing = k0.missing \ {i}
    OBVIOUS
  <2>4. PICK k : k = [k0 EXCEPT !.missing = missing]
    OBVIOUS
  <2>5. process' = [process EXCEPT ![p] = k]
    BY <1>1, <2>1, <2>3, <2>4 DEF StartInv
  <2>6. k \in [pc : {k0.pc}, next : {k0.next}, missing : {missing},
               worker : {k0.worker}]
    BY <1>2, <2>4 DEF ProcessOK, IsProcess
  <2>7. /\ k.pc = "index" /\ k.next = k0.next /\ k.worker = k0.worker
        /\ k.missing = missing /\ k.next \in Nat \ {0}
        /\ k.next <= Len(Schema) /\ ~ k0.worker
        /\ k0.pc \in PhasesOf(Kind[p])
    BY <1>2, <2>6 DEF ProcessOK, IsProcess, Looping
  <2>8. IsProcess(k, Kind[p])
    BY <1>2, <2>6, <2>7 DEF IsProcess
  <2>9. ProcessOK(k0, Kind[p])'
    BY <1>2, <2>2, OthersKeep
  <2>10. Known(Schema[k0.next], k0.missing)' /\ SyncedUpTo(k0.next - 1)'
    BY <1>2, <2>9 DEF ProcessOK, Looping
  <2>11. Known(Schema[k.next], k.missing)'
    BY <2>1, <2>3, <2>7, <2>10 DEF Known
  <2>12. ProcessOK(k, Kind[p])'
    BY <2>7, <2>8, <2>10, <2>11 DEF ProcessOK, Altering
  <2> QED
    BY <1>r, <2>2, <2>5, <2>12, OneMoves
<1> QED
  BY <1>4, <1>5

LEMMA NextTableStep ==
  ASSUME StartInv, NEW p \in Processes, NextTable(p)
  PROVE  StartInv'
<1>1. PICK k0 : k0 = process[p]
  OBVIOUS
<1>2. ProcessOK(k0, Kind[p]) /\ k0.pc = "index" /\ k0.missing = {}
  BY <1>1 DEF StartInv, NextTable
<1>u. StaysKnown /\ rows' \subseteq tables' /\ kept' \subseteq aside'
  BY Untouched DEF StartInv, NextTable
<1>3. PICK pc : pc = IF k0.next < Len(Schema) THEN "table"
                                              ELSE SyncedBy(Kind[p])
  OBVIOUS
<1>4. PICK next : next = IF k0.next < Len(Schema) THEN k0.next + 1
                                                  ELSE k0.next
  OBVIOUS
<1>5. PICK k : k = [k0 EXCEPT !.pc = pc, !.next = next]
  OBVIOUS
<1>6. process' = [process EXCEPT ![p] = k]
  BY <1>1, <1>3, <1>4, <1>5 DEF NextTable, StartInv
<1>7. k \in [pc : {pc}, next : {next}, missing : {k0.missing},
             worker : {k0.worker}]
  BY <1>2, <1>5 DEF ProcessOK, IsProcess
<1>8. k.pc = pc /\ k.next = next /\ k.worker = k0.worker
  BY <1>7
<1>9. /\ ~ k.worker /\ k0.pc \in PhasesOf(Kind[p]) /\ k0.next \in Nat \ {0}
      /\ k0.next <= Len(Schema)
  BY <1>2, <1>8 DEF ProcessOK, IsProcess, Looping
<1>10. /\ pc \in PhasesOf(Kind[p])
       /\ Kind[p] \in {"server", "migrate", "alter"}
  BY <1>2, <1>3, <1>9, Schemas DEF PhasesOf, SyncedBy, Looping
<1>11. /\ next \in Nat \ {0}
       /\ pc = "table" => next <= Len(Schema) /\ next = k0.next + 1
       /\ pc # "table" => k0.next = Len(Schema)
       /\ pc \in {"table", "worker", "exit0"}
  <2>1. CASE k0.next < Len(Schema)
    <3>1. pc = "table" /\ next = k0.next + 1
      BY <1>3, <1>4, <2>1
    <3> QED
      BY <1>9, <2>1, <3>1, Schemas
  <2>2. CASE ~ (k0.next < Len(Schema))
    <3>1. pc \in {"worker", "exit0"} /\ next = k0.next
      BY <1>3, <1>4, <2>2 DEF SyncedBy
    <3>2. k0.next = Len(Schema)
      BY <1>9, <2>2, Schemas
    <3> QED
      BY <1>9, <3>1, <3>2
  <2> QED
    BY <2>1, <2>2
<1>12. IsProcess(k, Kind[p])
  BY <1>7, <1>8, <1>9, <1>10, <1>11 DEF IsProcess, Looping, Altering
<1>13. SyncedUpTo(k0.next)'
  <2>1. ProcessOK(k0, Kind[p])'
    BY <1>u, <1>2, OthersKeep
  <2>2. SyncedUpTo(k0.next - 1)' /\ Known(Schema[k0.next], {})'
    BY <1>2, <2>1 DEF ProcessOK, Looping
  <2> QED
    BY <1>9, <2>2 DEF SyncedUpTo
<1>14. ProcessOK(k, Kind[p])'
  <2>1. pc = "table" => SyncedUpTo(k.next - 1)'
    BY <1>8, <1>9, <1>11, <1>13
  <2>2. pc # "table" => SyncedUpTo(Len(Schema))'
    BY <1>11, <1>13
  <2> QED
    BY <1>8, <1>10, <1>11, <1>12, <2>1, <2>2 DEF ProcessOK, Looping, Altering
<1> QED
  BY <1>u, <1>6, <1>14, OneMoves

(* The statements of an alteration fail or go on to the next.              *)
LEMMA AlterStep ==
  ASSUME StartInv, NEW p \in Processes, Alter(p)
  PROVE  StartInv'
<1>1. PICK t : t = Table(p)
  OBVIOUS
<1>2. /\ ProcessOK(process[p], Kind[p]) /\ process[p].pc \in Altering
      /\ rows \subseteq tables /\ kept \subseteq aside
  BY DEF StartInv, Alter, SetAside, CopyAside, DropTable, MakeAgain, CopyBack,
         DropAside, Altering
<1>3. /\ Known(t, IndexesOf[t]) /\ t \in TableNames
      /\ Kind[p] = "alter"
  <2>1. /\ process[p].next \in Nat \ {0} /\ process[p].next <= Len(Schema)
        /\ process[p].pc \in PhasesOf(Kind[p])
    BY <1>2 DEF ProcessOK, IsProcess, Looping
  <2>2. Known(t, IndexesOf[t])
    BY <1>1, <1>2 DEF ProcessOK, Table
  <2>3. t \in TableNames
    BY <1>1, <2>1, Schemas DEF Table
  <2> QED
    BY <1>2, <2>1, <2>2, <2>3, Schemas DEF PhasesOf, Altering
<1>4. Altering \cup {"show"} \subseteq PhasesOf(Kind[p]) /\ process[p].pc \in Looping
  BY <1>2, <1>3 DEF PhasesOf, Looping
<1>5. StaysKnown
  <2>1. CASE SetAside(p) \/ CopyAside(p) \/ MakeAgain(p) \/ CopyBack(p)
               \/ DropAside(p)
    <3>1. /\ tables \subseteq tables' /\ UNCHANGED <<indexes, dropped>>
          /\ rows \cup emptied \subseteq rows' \cup emptied'
      BY <2>1 DEF SetAside, CopyAside, MakeAgain, CopyBack, DropAside
    <3> QED
      BY <3>1, Added
  <2>2. CASE DropTable(p)
    <3>1. CASE t \notin tables
      BY <1>1, <2>2, <3>1, Added DEF DropTable
    <3>2. CASE t \in tables
      BY <1>1, <1>3, <2>2, <3>2, Dropped DEF DropTable
    <3> QED
      BY <3>1, <3>2
  <2> QED
    BY <2>1, <2>2 DEF Alter
<1>6. rows' \subseteq tables' /\ kept' \subseteq aside'
  BY <1>2 DEF Alter, SetAside, CopyAside, DropTable, MakeAgain, CopyBack,
              DropAside, CanCopy
<1>7. Known(t, IndexesOf[t])'
  BY <1>3, <1>5 DEF StaysKnown
<1>8. \/ Exits(p, "exit1")
      \/ \E pc \in Altering \cup {"show"} : GoTo(p, pc)
  BY DEF Alter, SetAside, CopyAside, DropTable, MakeAgain, CopyBack,
         DropAside, Fails, Altering
<1>9. CASE Exits(p, "exit1")
  BY <1>5, <1>6, <1>9, Failing
<1>10. ASSUME NEW pc \in Altering \cup {"show"}, GoTo(p, pc) PROVE StartInv'
  BY <1>1, <1>4, <1>5, <1>6, <1>7, <1>10, LoopGoes
<1> QED
  BY <1>8, <1>9, <1>10

LEMMA InsertStep ==
  ASSUME StartInv, NEW p \in Processes, Insert(p)
  PROVE  StartInv'
<1>1. PICK k0 : k0 = process[p]
  OBVIOUS
<1>2. /\ ProcessOK(k0, Kind[p]) /\ k0.pc = "insert"
      /\ UNCHANGED <<tables, indexes, aside, kept, dropped>>
  BY <1>1 DEF StartInv, Insert
<1>r. StaysKnown /\ rows' \subseteq tables' /\ kept' \subseteq aside'
  <2>1. /\ rows \cup emptied \subseteq rows' \cup emptied'
        /\ rows' \subseteq rows \cup tables
    BY DEF Insert
  <2> QED
    BY <1>2, <2>1, Added DEF StartInv
<1>3. CASE Seeded[k0.next] \notin tables
  BY <1>1, <1>3, <1>r, Failing DEF Insert, Fails
<1>4. CASE Seeded[k0.next] \in tables
  <2>1. PICK pc : pc = IF k0.next < Len(Seeded) THEN "insert" ELSE "exit0"
    OBVIOUS
  <2>2. PICK next : next = IF k0.next < Len(Seeded) THEN k0.next + 1
                                                    ELSE k0.next
    OBVIOUS
  <2>3. PICK k : k = [k0 EXCEPT !.pc = pc, !.next = next]
    OBVIOUS
  <2>4. /\ process' = [process EXCEPT ![p] = k]
        /\ rows' = rows \cup {Seeded[k0.next]}
    BY <1>1, <1>4, <2>1, <2>2, <2>3 DEF Insert, NextInsert, StartInv
  <2>5. k \in [pc : {pc}, next : {next}, missing : {k0.missing},
               worker : {k0.worker}]
    BY <1>2, <2>3 DEF ProcessOK, IsProcess
  <2>6. k.pc = pc /\ k.next = next /\ k.worker = k0.worker
    BY <2>5
  <2>7. ~ k.worker
    BY <1>2, <2>6 DEF ProcessOK, IsProcess
  <2>8. /\ k0.pc \in PhasesOf(Kind[p]) /\ k0.next \in Nat \ {0}
        /\ k0.next <= Len(Seeded)
    BY <1>2 DEF ProcessOK, IsProcess
  <2>9. pc \in PhasesOf(Kind[p]) /\ Kind[p] = "seed"
    BY <1>2, <2>1, <2>8, Schemas DEF PhasesOf, Looping, Altering
  <2>10. /\ next \in Nat \ {0}
         /\ pc = "insert" => next <= Len(Seeded) /\ next = k0.next + 1
         /\ pc = "exit0" => k0.next = Len(Seeded)
         /\ pc \in {"insert", "exit0"}
    <3>1. CASE k0.next < Len(Seeded)
      <4>1. pc = "insert" /\ next = k0.next + 1
        BY <2>1, <2>2, <3>1
      <4> QED
        BY <2>8, <3>1, <4>1, Schemas
    <3>2. CASE ~ (k0.next < Len(Seeded))
      <4>1. pc = "exit0" /\ next = k0.next
        BY <2>1, <2>2, <3>2
      <4>2. k0.next = Len(Seeded)
        BY <2>8, <3>2, Schemas
      <4> QED
        BY <2>8, <4>1, <4>2
    <3> QED
      BY <3>1, <3>2
  <2>11. IsProcess(k, Kind[p])
    BY <2>5, <2>6, <2>7, <2>9, <2>10 DEF IsProcess, Looping, Altering
  <2>12. SeededUpTo(k0.next)'
    <3>1. ProcessOK(k0, Kind[p])'
      BY <1>2, <1>r, OthersKeep
    <3>2. SeededUpTo(k0.next - 1)'
      BY <1>2, <3>1 DEF ProcessOK
    <3> QED
      BY <2>4, <2>8, <3>2 DEF SeededUpTo
  <2>13. ProcessOK(k, Kind[p])'
    <3>1. pc = "insert" => SeededUpTo(k.next - 1)'
      BY <2>6, <2>8, <2>10, <2>12
    <3>2. pc = "exit0" => SeededUpTo(Len(Seeded))'
      BY <2>10, <2>12
    <3> QED
      BY <2>6, <2>9, <2>10, <2>11, <3>1, <3>2
         DEF ProcessOK, Looping, Altering
  <2> QED
    BY <1>r, <2>4, <2>13, OneMoves
<1> QED
  BY <1>3, <1>4

LEMMA ServeStep ==
  ASSUME StartInv, NEW p \in Processes, StartWorker(p) \/ Listen(p)
  PROVE  StartInv'
<1>1. PICK k0 : k0 = process[p]
  OBVIOUS
<1>2. /\ ProcessOK(k0, Kind[p]) /\ k0.pc \in {"worker", "listen"}
  BY <1>1 DEF StartInv, StartWorker, Listen
<1>r. StaysKnown /\ rows' \subseteq tables' /\ kept' \subseteq aside'
  BY Untouched DEF StartInv, StartWorker, Listen
<1>3. PICK k : /\ process' = [process EXCEPT ![p] = k]
               /\ k \in [pc : {"listen", "up"}, next : {k0.next},
                         missing : {k0.missing}, worker : {k.worker}]
  <2>1. CASE StartWorker(p)
    <3>1. PICK k : k = [k0 EXCEPT !.pc = "listen", !.worker = TRUE]
      OBVIOUS
    <3>2. k \in [pc : {"listen"}, next : {k0.next}, missing : {k0.missing},
                 worker : {TRUE}]
      BY <1>2, <3>1 DEF ProcessOK, IsProcess
    <3>3. process' = [process EXCEPT ![p] = k]
      BY <1>1, <2>1, <3>1 DEF StartWorker, StartInv
    <3>4. k \in [pc : {"listen", "up"}, next : {k0.next},
                 missing : {k0.missing}, worker : {k.worker}]
      BY <3>2
    <3> QED
      BY <3>3, <3>4
  <2>2. CASE Listen(p)
    <3>1. GoTo(p, "up")
      BY <2>2 DEF Listen
    <3>2. PICK k : /\ process' = [process EXCEPT ![p] = k]
                   /\ k \in [pc : {"up"}, next : {process[p].next},
                             missing : {process[p].missing},
                             worker : {process[p].worker}]
      BY <3>1, Goes
    <3>3. k \in [pc : {"listen", "up"}, next : {k0.next},
                 missing : {k0.missing}, worker : {k.worker}]
      BY <1>1, <3>2
    <3> QED
      BY <3>2, <3>3
  <2> QED
    BY <2>1, <2>2
<1>4. /\ k0.pc \in PhasesOf(Kind[p]) /\ k0.next \in Nat \ {0}
      /\ SyncedUpTo(Len(Schema))
  BY <1>2 DEF ProcessOK, IsProcess
<1>5. k.pc \in PhasesOf(Kind[p]) /\ Kind[p] = "server"
  BY <1>2, <1>3, <1>4, Schemas DEF PhasesOf, Looping, Altering
<1>6. k.pc \in {"listen", "up"} /\ k.next = k0.next
  BY <1>3
<1>7. IsProcess(k, Kind[p])
  BY <1>3, <1>4, <1>5, <1>6 DEF IsProcess, Looping, Altering
<1>8. ProcessOK(k, Kind[p])'
  <2>1. ProcessOK(k0, Kind[p])'
    BY <1>2, <1>r, OthersKeep
  <2>2. SyncedUpTo(Len(Schema))'
    BY <1>2, <2>1 DEF ProcessOK
  <2> QED
    BY <1>5, <1>6, <1>7, <2>2 DEF ProcessOK, Looping, Altering
<1> QED
  BY <1>r, <1>3, <1>8, OneMoves

LEMMA StartStep == StartInv /\ [StartupNext]_startVars => StartInv'
<1> SUFFICES ASSUME StartInv, [StartupNext]_startVars PROVE StartInv'
  OBVIOUS
<1>1. CASE UNCHANGED startVars
  <2>1. UNCHANGED <<database, process>>
    BY <1>1 DEF startVars
  <2>2. /\ StaysKnown
        /\ UNCHANGED <<tables, indexes, rows, aside, kept, dropped, emptied>>
    BY <2>1, Untouched
  <2>3. \A p \in Processes : ProcessOK(process[p], Kind[p])'
    BY <2>1, <2>2, OthersKeep DEF StartInv
  <2> QED
    BY <2>1, <2>2, <2>3 DEF StartInv
<1> QED
  BY <1>1, EndsStep, ConnectStep, CreateStep, ShowStep, IndexStep,
     NextTableStep, AlterStep, InsertStep, ServeStep
     DEF StartupNext, Proceed, Sync

LEMMA StartInvariant == StartupSpec => []StartInv
<1> QED
  BY StartInitInv, StartStep, PTL DEF StartupSpec

(* Whatever has come up, and in whatever order processes were started,     *)
(* collided or died before: a server that serves has all tables with their *)
(* indexes, and a migration or a seed that ended well has left all of its  *)
(* work; but for tables that a migration in development has dropped and    *)
(* nobody has completed since.                                             *)
THEOREM ReadyWhenUp == StartupSpec => []SuccessMeansReady
<1>1. StartInv => SuccessMeansReady
  <2> SUFFICES ASSUME StartInv PROVE SuccessMeansReady
    OBVIOUS
  <2>1. SyncedUpTo(Len(Schema)) =>
          \A t \in TableNames : Complete(t) \/ t \in dropped
    BY Schemas DEF SyncedUpTo, TableNames, Known, Complete
  <2>2. ASSUME NEW p \in Processes,
               \/ process[p].worker \/ process[p].pc = "up"
               \/ Kind[p] \in {"migrate", "alter"} /\ process[p].pc = "exit0"
        PROVE  \A t \in TableNames : Complete(t) \/ t \in dropped
    BY <2>1, <2>2 DEF StartInv, ProcessOK, IsProcess
  <2>3. ASSUME NEW p \in Processes,
               Kind[p] = "seed", process[p].pc = "exit0"
        PROVE  \A i \in DOMAIN Seeded : Seeded[i] \in rows \cup emptied
    BY <2>3, Schemas DEF StartInv, ProcessOK, SeededUpTo
  <2> QED
    BY <2>2, <2>3 DEF SuccessMeansReady, StartInv
<1> QED
  BY <1>1, StartInvariant, PTL
=============================================================================
