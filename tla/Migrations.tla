----------------------------- MODULE Migrations -----------------------------
(***************************************************************************)
(* internal/platform/migrations/runner.go in the containers that run it:   *)
(* `disparago migrate && exec disparago`, started again whenever it ends   *)
(* (restart: unless-stopped).  Several containers may start on one         *)
(* database at the same time.                                              *)
(*                                                                         *)
(* A file and its row in schema_migrations are written in one transaction. *)
(* What an open transaction did is seen by nobody, so it is not state: the *)
(* program counter of its container says what it did.  The locks its       *)
(* statements take only delay the others and are left out, but for the     *)
(* primary key of schema_migrations.                                       *)
(***************************************************************************)
EXTENDS Naturals, Sequences

CONSTANTS
  Containers,     \* the containers of the service
  LastMigration,  \* the files are numbered 1..LastMigration in name order
  MaxFaults       \* bound on failed calls, stops and crashes

ASSUME MigrationAssumption == LastMigration \in Nat \ {0} /\ MaxFaults \in Nat

VARIABLES
  history,        \* the files whose statements were committed, in that order
  recorded,       \* table schema_migrations
  boot,           \* of each container: where its start is, and at which file
  faults          \* how many faults there have been

schemaVars == <<history, recorded>>
migrationVars == <<history, recorded, boot>>

Files == 1..LastMigration

\* The runner's next statement; "bootstrap" is the start of the service itself.
MigratePC == {"ensure", "check", "execute", "record", "commit"}
BootPC == MigratePC \union {"down", "bootstrap", "up"}

Down == [pc |-> "down", at |-> 1]

MigrationsTypeOK ==
  /\ history \in Seq(Files)
  /\ recorded \subseteq Files
  /\ boot \in [Containers -> [pc: BootPC, at: 1..(LastMigration + 1)]]
  /\ faults \in 0..MaxFaults

MigrationsInit ==
  /\ history = << >>
  /\ recorded = {}
  /\ boot = [p \in Containers |-> Down]
  /\ faults = 0

------------------------------------------------------------------------------
Fault == faults < MaxFaults /\ faults' = faults + 1

BootAt(p, pc) == boot[p].pc = pc
BootTo(p, pc) == boot' = [boot EXCEPT ![p].pc = pc]
BootEnds(p) == boot' = [boot EXCEPT ![p] = Down]

\* main, called as `disparago migrate`
StartContainer(p) ==
  /\ BootAt(p, "down")
  /\ BootTo(p, "ensure")
  /\ UNCHANGED <<schemaVars, faults>>

\* CREATE TABLE IF NOT EXISTS schema_migrations
EnsureTable(p) ==
  /\ BootAt(p, "ensure")
  /\ BootTo(p, "check")
  /\ UNCHANGED <<schemaVars, faults>>

\* Mutant: schema_migrations is not looked at.
AlreadyAppliedNever(p) ==
  /\ BootAt(p, "check")
  /\ IF boot[p].at > LastMigration THEN BootTo(p, "bootstrap") ELSE BootTo(p, "execute")
  /\ UNCHANGED <<schemaVars, faults>>

\* Mutant: the loop stops before the last file.
AlreadyAppliedShort(p) ==
  /\ BootAt(p, "check")
  /\ IF boot[p].at >= LastMigration THEN BootTo(p, "bootstrap")
     ELSE IF boot[p].at \in recorded
     THEN boot' = [boot EXCEPT ![p].at = @ + 1]
     ELSE BootTo(p, "execute")
  /\ UNCHANGED <<schemaVars, faults>>

\* Mutant: the loop goes one file too far.
AlreadyAppliedLong(p) ==
  /\ BootAt(p, "check")
  /\ IF boot[p].at > LastMigration + 1 THEN BootTo(p, "bootstrap")
     ELSE IF boot[p].at \in recorded
     THEN boot' = [boot EXCEPT ![p].at = @ + 1]
     ELSE BootTo(p, "execute")
  /\ UNCHANGED <<schemaVars, faults>>

\* The next file of the loop; after the last one Run returns and the shell goes on
\* to the service.
AlreadyApplied(p) ==
  /\ BootAt(p, "check")
  /\ IF boot[p].at > LastMigration THEN BootTo(p, "bootstrap")
     ELSE IF boot[p].at \in recorded
     THEN boot' = [boot EXCEPT ![p].at = @ + 1]
     ELSE BootTo(p, "execute")
  /\ UNCHANGED <<schemaVars, faults>>

\* The statements of a file another container brought into effect since the check
\* may be refused: 000007 adds constraints, which exist then; most files say
\* IF NOT EXISTS.
ExecuteMigration(p) ==
  /\ BootAt(p, "execute")
  /\ \/ BootTo(p, "record")
     \/ (\E i \in DOMAIN history : history[i] = boot[p].at) /\ BootEnds(p)
  /\ UNCHANGED <<schemaVars, faults>>

\* Mutant: INSERT ... ON CONFLICT DO NOTHING.
RecordMigrationTolerant(p) ==
  /\ BootAt(p, "record")
  /\ BootTo(p, "commit")
  /\ UNCHANGED <<schemaVars, faults>>

\* The INSERT waits for an open transaction that inserted the same name, and is
\* refused when the name is there.
RecordMigration(p) ==
  /\ BootAt(p, "record")
  /\ \A q \in Containers \ {p} : ~(BootAt(q, "commit") /\ boot[q].at = boot[p].at)
  /\ IF boot[p].at \in recorded THEN BootEnds(p) ELSE BootTo(p, "commit")
  /\ UNCHANGED <<schemaVars, faults>>

\* Mutant: the row is written after the statements were committed, on its own.
CommitMigrationApart(p) ==
  /\ BootAt(p, "commit")
  /\ history' = Append(history, boot[p].at)
  /\ \/ /\ recorded' = recorded \union {boot[p].at}
        /\ boot' = [boot EXCEPT ![p] = [pc |-> "check", at |-> boot[p].at + 1]]
        /\ UNCHANGED faults
     \/ UNCHANGED recorded /\ BootEnds(p) /\ Fault

\* The answer of the commit may be lost.
CommitMigration(p) ==
  /\ BootAt(p, "commit")
  /\ history' = Append(history, boot[p].at)
  /\ recorded' = recorded \union {boot[p].at}
  /\ \/ /\ boot' = [boot EXCEPT ![p] = [pc |-> "check", at |-> boot[p].at + 1]]
        /\ UNCHANGED faults
     \/ BootEnds(p) /\ Fault

\* A call fails, the container is stopped or crashes: an open transaction is undone.
MigrationFails(p) ==
  /\ boot[p].pc \in MigratePC
  /\ BootEnds(p)
  /\ Fault
  /\ UNCHANGED schemaVars

MigrationStep(p) ==
  \/ StartContainer(p) \/ EnsureTable(p) \/ AlreadyApplied(p) \/ ExecuteMigration(p)
  \/ RecordMigration(p) \/ CommitMigration(p) \/ MigrationFails(p)
=============================================================================
