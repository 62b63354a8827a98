------------------------------- MODULE PolicyDB -------------------------------
(***************************************************************************)
(* The authority database of proctorEXE: the tables of include/app/mysql.h *)
(* as sets of rows, and one operator per SQL statement the program sends   *)
(* (app/mysql.c, app/operation.c and server/queryDB.c).  MySQL itself is   *)
(* external: a statement is atomic, because every session is in autocommit *)
(* mode, and AUTO_INCREMENT gives no id twice while the MySQL server runs  *)
(* (a restart of version 5.7 may give the last ids again).                 *)
(*                                                                         *)
(* A program's name is left out, nothing looks at it.  So are the rows of  *)
(* table audit: no code writes one.                                        *)
(***************************************************************************)
EXTENDS Integers, Sequences, FiniteSets

CONSTANTS
  Paths,      \* the paths of programs and directories
  Actions,    \* the actions of rules
  MaxProgram, \* bound: programs ever inserted
  MaxPolicy   \* bound: rules ever inserted

ASSUME PolicyDBAssumption == MaxProgram \in Nat /\ MaxPolicy \in Nat

VARIABLES
  exists,     \* has the database been created?
  tables,     \* the tables created
  program,    \* the rows of table program
  policy,     \* the rows of table policy
  nextProgram, nextPolicy  \* AUTO_INCREMENT

dbVars == <<exists, tables, program, policy, nextProgram, nextPolicy>>

AllTables == {"program", "policy", "audit"}
Auths == {"Y", "N"}

ProgramRows == [id : 1..MaxProgram, path : Paths]
PolicyRows ==
  [id : 1..MaxPolicy, prog_id : 1..MaxProgram, action : Actions, auth : Auths]

DBTypeOK ==
  /\ exists \in BOOLEAN
  /\ tables \subseteq AllTables
  /\ program \subseteq ProgramRows
  /\ policy \subseteq PolicyRows
  /\ nextProgram \in 1..MaxProgram + 1
  /\ nextPolicy \in 1..MaxPolicy + 1

EmptyDB ==
  /\ program = {} /\ policy = {}
  /\ nextProgram = 1 /\ nextPolicy = 1

------------------------------------------------------------------------------
(* SELECT id FROM <table> WHERE id = i *)
HasId(table, i) == \E row \in table : row.id = i

(* INSERT INTO program VALUES (0, name, path) *)
InsertProgram(path) ==
  /\ "program" \in tables /\ nextProgram <= MaxProgram
  /\ program' = program \cup {[id |-> nextProgram, path |-> path]}
  /\ nextProgram' = nextProgram + 1
  /\ UNCHANGED <<exists, tables, policy, nextPolicy>>

(* INSERT INTO policy VALUES (0, id, action, auth), which fails if the      *)
(* foreign key names no program.                                            *)
InsertPolicy(prog_id, action, auth) ==
  /\ "policy" \in tables /\ nextPolicy <= MaxPolicy
  /\ HasId(program, prog_id)
  /\ policy' = policy \cup {[id |-> nextPolicy, prog_id |-> prog_id,
                             action |-> action, auth |-> auth]}
  /\ nextPolicy' = nextPolicy + 1
  /\ UNCHANGED <<exists, tables, program, nextProgram>>

(* UPDATE program SET name, path WHERE id = i: no row, no effect. *)
UpdateProgramRow(i, path) ==
  /\ "program" \in tables
  /\ program' = {IF row.id = i THEN [row EXCEPT !.path = path] ELSE row : row \in program}
  /\ UNCHANGED <<exists, tables, policy, nextProgram, nextPolicy>>

(* REPLACE INTO in place of UPDATE. *)
UpdatePolicyRow_Replaces(i, action, auth) ==
  /\ "policy" \in tables /\ program # {}
  /\ \E p \in program :
       policy' = {row \in policy : row.id # i} \cup
                 {[id |-> i, prog_id |-> p.id, action |-> action, auth |-> auth]}
  /\ UNCHANGED <<exists, tables, program, nextProgram, nextPolicy>>

(* UPDATE policy SET action, auth WHERE id = i *)
UpdatePolicyRow(i, action, auth) ==
  /\ "policy" \in tables
  /\ policy' = {IF row.id = i THEN [row EXCEPT !.action = action, !.auth = auth]
                ELSE row : row \in policy}
  /\ UNCHANGED <<exists, tables, program, nextProgram, nextPolicy>>

(* DELETE FROM policy WHERE id = i *)
DeletePolicyRow(i) ==
  /\ "policy" \in tables
  /\ policy' = {row \in policy : row.id # i}
  /\ UNCHANGED <<exists, tables, program, nextProgram, nextPolicy>>

(* Table policy without its foreign key. *)
DeleteProgramRow_KeepsRules(i) ==
  /\ "program" \in tables
  /\ program' = {row \in program : row.id # i}
  /\ UNCHANGED <<exists, tables, policy, nextProgram, nextPolicy>>

(* DELETE FROM program WHERE id = i, and ON DELETE CASCADE. *)
DeleteProgramRow(i) ==
  /\ "program" \in tables
  /\ program' = {row \in program : row.id # i}
  /\ policy' = {row \in policy : row.prog_id # i}
  /\ UNCHANGED <<exists, tables, nextProgram, nextPolicy>>

=============================================================================
