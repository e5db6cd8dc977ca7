---------------------------- MODULE SchemaHistory ----------------------------
(***************************************************************************)
(* What the migrations runner promises, whoever runs it and however often  *)
(* it is interrupted: the files in migrations/ take effect one after the   *)
(* other in the order of their names, each of them once, and               *)
(* schema_migrations names a file from the moment it took effect.          *)
(***************************************************************************)
EXTENDS Naturals, Sequences

CONSTANT LastMigration    \* the files are numbered 1..LastMigration in name order

VARIABLES
  history,    \* the files that took effect, in the order they did
  recorded    \* the files named in schema_migrations

SchemaInit == history = << >> /\ recorded = {}

TakeEffect ==
  /\ Len(history) < LastMigration
  /\ history' = Append(history, Len(history) + 1)
  /\ recorded' = recorded \union {Len(history) + 1}

SchemaSpec == SchemaInit /\ [][TakeEffect]_<<history, recorded>>
=============================================================================
