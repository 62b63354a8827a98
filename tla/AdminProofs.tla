----------------------------- MODULE AdminProofs -----------------------------
(***************************************************************************)
(* Theorems about AdminConsole, for any number of consoles, programs and   *)
(* rules: the types, the foreign key of the rules, and the bootstrap of    *)
(* the tables by one console.                                              *)
(***************************************************************************)
EXTENDS AdminConsole, TLAPS

------------------------------------------------------------------------------
(* Types. *)

(* Every statement keeps the tables well typed. *)
LEMMA StatementTypes ==
  ASSUME DBTypeOK
  PROVE  /\ \A path \in Paths : InsertProgram(path) => DBTypeOK'
         /\ \A i \in 1..MaxProgram, action \in Actions, auth \in Auths :
              InsertPolicy(i, action, auth) => DBTypeOK'
         /\ \A i : \A path \in Paths : UpdateProgramRow(i, path) => DBTypeOK'
         /\ \A i : \A action \in Actions, auth \in Auths :
              UpdatePolicyRow(i, action, auth) => DBTypeOK'
         /\ \A i : DeletePolicyRow(i) => DBTypeOK'
         /\ \A i : DeleteProgramRow(i) => DBTypeOK'
PROOF
  <1>1. ASSUME NEW path \in Paths, InsertProgram(path) PROVE DBTypeOK'
    BY <1>1, PolicyDBAssumption DEF DBTypeOK, InsertProgram, ProgramRows
  <1>2. ASSUME NEW i \in 1..MaxProgram, NEW action \in Actions, NEW auth \in Auths,
               InsertPolicy(i, action, auth)
        PROVE  DBTypeOK'
    BY <1>2, PolicyDBAssumption DEF DBTypeOK, InsertPolicy, PolicyRows
  <1>3. ASSUME NEW i, NEW path \in Paths, UpdateProgramRow(i, path) PROVE DBTypeOK'
    BY <1>3 DEF DBTypeOK, UpdateProgramRow, ProgramRows
  <1>4. ASSUME NEW i, NEW action \in Actions, NEW auth \in Auths,
               UpdatePolicyRow(i, action, auth)
        PROVE  DBTypeOK'
    BY <1>4 DEF DBTypeOK, UpdatePolicyRow, PolicyRows
  <1>5. ASSUME NEW i, DeletePolicyRow(i) PROVE DBTypeOK'
    BY <1>5 DEF DBTypeOK, DeletePolicyRow
  <1>6. ASSUME NEW i, DeleteProgramRow(i) PROVE DBTypeOK'
    BY <1>6 DEF DBTypeOK, DeleteProgramRow
  <1> QED BY <1>1, <1>2, <1>3, <1>4, <1>5, <1>6

LEMMA TypeInit == Init => TypeOK
PROOF
  <1> SUFFICES ASSUME Init PROVE TypeOK
    OBVIOUS
  <1>1. nextProgram \in 1..MaxProgram + 1 /\ nextPolicy \in 1..MaxPolicy + 1
    BY PolicyDBAssumption DEF Init, EmptyDB
  <1>2. DBTypeOK
    BY <1>1 DEF Init, EmptyDB, DBTypeOK
  <1> QED BY <1>2 DEF Init, TypeOK, ConsolePCs, Cmds

LEMMA TypeStep ==
  ASSUME TypeOK, [Next]_vars
  PROVE  TypeOK'
PROOF
  <1>0. DBTypeOK
    BY DEF TypeOK
  <1>1. ASSUME NEW c \in Consoles, AddProgram(c) PROVE TypeOK'
    BY <1>0, <1>1, StatementTypes DEF TypeOK, AddProgram
  <1>2. ASSUME NEW c \in Consoles, AddRule(c) PROVE TypeOK'
    BY <1>0, <1>2, StatementTypes DEF TypeOK, AddRule
  <1>3. ASSUME NEW c \in Consoles, \E name \in CheckedCmds : EndsCmd(c, name)
        PROVE  cpc' \in [Consoles -> ConsolePCs] /\ sel' = sel /\ cmd' \in [Consoles -> Cmds]
    BY <1>3 DEF TypeOK, EndsCmd, Goto, ConsolePCs, Cmds
  <1>4. ASSUME NEW c \in Consoles,
               UpdateRule(c) \/ UpdateProgram(c) \/ DeleteRule(c) \/ DeleteProgram(c) \/ Refused(c)
        PROVE  TypeOK'
    <2>1. \E name \in CheckedCmds : EndsCmd(c, name)
      BY <1>4 DEF UpdateRule, UpdateProgram, DeleteRule, DeleteProgram, Refused, CheckedCmds
    <2>2. DBTypeOK'
      BY <1>0, <1>4, StatementTypes DEF UpdateRule, UpdateProgram, DeleteRule,
         DeleteProgram, Refused, dbVars, DBTypeOK
    <2> QED BY <1>3, <2>1, <2>2 DEF TypeOK
  <1>5. ASSUME NEW c \in Consoles, CheckRuleId(c) \/ CheckProgramId(c) PROVE TypeOK'
    <2>1. cpc' \in [Consoles -> ConsolePCs]
      BY <1>5 DEF TypeOK, CheckRuleId, CheckProgramId, Goto, ConsolePCs
    <2>2. cmd' \in [Consoles -> Cmds]
      BY <1>5, PolicyDBAssumption DEF TypeOK, CheckRuleId, CheckProgramId, Cmds, CheckedCmds
    <2> QED BY <1>0, <1>5, <2>1, <2>2 DEF TypeOK, DBTypeOK, CheckRuleId, CheckProgramId, dbVars
  <1>6. ASSUME NEW c \in Consoles,
               LoginFails(c) \/ DbExists(c) \/ CreateDb(c) \/ UseDb(c) \/ CreateTable(c)
               \/ Quit(c) \/ Start(c)
        PROVE  TypeOK'
    <2>1. cpc' \in [Consoles -> ConsolePCs]
      BY <1>6 DEF TypeOK, LoginFails, DbExists, CreateDb, UseDb, CreateTable, Quit, Start,
         Goto, ConsolePCs, CreatingPCs, AfterTable, AllTables
    <2>2. CreateTable(c) => tables' \subseteq AllTables
      BY <1>0 DEF DBTypeOK, CreateTable
    <2>3. DBTypeOK'
      BY <1>0, <1>6, <2>2 DEF DBTypeOK, LoginFails, DbExists, CreateDb, UseDb, CreateTable,
         Quit, Start, dbVars
    <2>4. sel' \in [Consoles -> BOOLEAN] /\ cmd' \in [Consoles -> Cmds]
      BY <1>6 DEF TypeOK, LoginFails, DbExists, CreateDb, UseDb, CreateTable, Quit, Start, Cmds
    <2> QED BY <2>1, <2>3, <2>4 DEF TypeOK
  <1>7. ASSUME UNCHANGED vars PROVE TypeOK'
    BY <1>7 DEF TypeOK, DBTypeOK, vars, dbVars
  <1> QED BY <1>1, <1>2, <1>4, <1>5, <1>6, <1>7 DEF Next, ConsoleStep

(* The rows, and what the consoles know, have the types of the tables.       *)
THEOREM AdminTypeCorrect == Spec => []TypeOK
PROOF
  <1>1. Init => TypeOK
    BY TypeInit
  <1>2. TypeOK /\ [Next]_vars => TypeOK'
    BY TypeStep
  <1> QED BY <1>1, <1>2, PTL DEF Spec

------------------------------------------------------------------------------
(* The foreign key of the rules. *)

LEMMA RulesStep ==
  ASSUME TypeOK, RulesHaveProgram, [Next]_vars
  PROVE  RulesHaveProgram'
PROOF
  <1>1. ASSUME NEW path, InsertProgram(path) PROVE RulesHaveProgram'
    BY <1>1 DEF RulesHaveProgram, InsertProgram, HasId
  <1>2. ASSUME NEW i, NEW action, NEW auth, InsertPolicy(i, action, auth)
        PROVE  RulesHaveProgram'
    BY <1>2 DEF RulesHaveProgram, InsertPolicy, HasId
  <1>3. ASSUME NEW i, NEW path, UpdateProgramRow(i, path) PROVE RulesHaveProgram'
    <2>1. ASSUME NEW j, HasId(program, j) PROVE HasId(program', j)
      <3>1. PICK row \in program : row.id = j
        BY <2>1 DEF HasId
      <3> DEFINE new == IF row.id = i THEN [row EXCEPT !.path = path] ELSE row
      <3>2. new \in program'
        BY <1>3, <3>1 DEF UpdateProgramRow
      <3>3. new.id = j
        BY <3>1 DEF TypeOK, DBTypeOK, ProgramRows
      <3> QED BY <3>2, <3>3 DEF HasId
    <2> QED BY <1>3, <2>1 DEF RulesHaveProgram, UpdateProgramRow, HasId
  <1>4. ASSUME NEW i, NEW action, NEW auth, UpdatePolicyRow(i, action, auth)
        PROVE  RulesHaveProgram'
    <2>1. ASSUME NEW rule \in policy' PROVE \E old \in policy : rule.prog_id = old.prog_id
      <3>1. PICK old \in policy :
              rule = IF old.id = i THEN [old EXCEPT !.action = action, !.auth = auth] ELSE old
        BY <1>4 DEF UpdatePolicyRow
      <3>2. rule.prog_id = old.prog_id
        BY <3>1 DEF TypeOK, DBTypeOK, PolicyRows
      <3> QED BY <3>2
    <2>2. program' = program
      BY <1>4 DEF UpdatePolicyRow
    <2> QED BY <2>1, <2>2 DEF RulesHaveProgram, HasId
  <1>5. ASSUME NEW i, DeletePolicyRow(i) PROVE RulesHaveProgram'
    BY <1>5 DEF RulesHaveProgram, DeletePolicyRow, HasId
  <1>6. ASSUME NEW i, DeleteProgramRow(i) PROVE RulesHaveProgram'
    BY <1>6 DEF RulesHaveProgram, DeleteProgramRow, HasId
  <1>7. ASSUME UNCHANGED <<program, policy>> PROVE RulesHaveProgram'
    BY <1>7 DEF RulesHaveProgram, HasId
  <1>8. ASSUME NEW c \in Consoles, ConsoleStep(c) PROVE RulesHaveProgram'
    BY <1>8, <1>1, <1>2, <1>3, <1>4, <1>5, <1>6, <1>7
       DEF ConsoleStep, LoginFails, DbExists, CreateDb, UseDb, CreateTable, AddProgram,
           AddRule, CheckRuleId, CheckProgramId, UpdateRule, UpdateProgram, DeleteRule,
           DeleteProgram, Refused, Quit, Start, dbVars
  <1> QED BY <1>7, <1>8 DEF Next, vars, dbVars

(* The cascade of the foreign key, and the check of the key when a rule is   *)
(* added, leave no rule without its program, whatever the consoles do.       *)
THEOREM RulesKeepProgram == Spec => []RulesHaveProgram
PROOF
  <1>1. Init => RulesHaveProgram
    BY DEF Init, EmptyDB, RulesHaveProgram
  <1>2. TypeOK /\ RulesHaveProgram /\ [Next]_vars => RulesHaveProgram'
    BY RulesStep
  <1> QED BY <1>1, <1>2, AdminTypeCorrect, PTL DEF Spec

------------------------------------------------------------------------------
(* The bootstrap. *)

(* The tables a console that creates them finds. *)
TablesBefore(at) ==
  CASE at \in {"use_new", "program"} -> {}
    [] at = "policy" -> {"program"}
    [] at = "audit"  -> {"program", "policy"}

(* A console creates tables only in a database that it created itself, and   *)
(* finds exactly those that it created before.                               *)
BootstrapInv ==
  /\ ~exists => tables = {}
  /\ \A c \in Consoles : cpc[c] \in CreatingPCs =>
       /\ exists
       /\ \A d \in Consoles \ {c} : cpc[d] \notin CreatingPCs
       /\ tables = TablesBefore(cpc[c])

LEMMA BootstrapStep ==
  ASSUME TypeOK, BootstrapInv, [Next]_vars
  PROVE  BootstrapInv'
PROOF
  <1>1. ASSUME NEW c \in Consoles, CreateDb(c) PROVE BootstrapInv'
    BY <1>1 DEF TypeOK, BootstrapInv, CreateDb, Goto, CreatingPCs, TablesBefore
  <1>2. ASSUME NEW c \in Consoles, UseDb(c) PROVE BootstrapInv'
    BY <1>2 DEF TypeOK, BootstrapInv, UseDb, Goto, CreatingPCs, TablesBefore, dbVars
  <1>3. ASSUME NEW c \in Consoles, CreateTable(c) PROVE BootstrapInv'
    BY <1>3 DEF TypeOK, BootstrapInv, CreateTable, AfterTable, CreatingPCs, TablesBefore, AllTables
  <1>4. ASSUME UNCHANGED <<exists, tables>>,
               \A c \in Consoles : cpc'[c] \in CreatingPCs => cpc'[c] = cpc[c]
        PROVE  BootstrapInv'
    BY <1>4 DEF BootstrapInv
  <1>5. ASSUME NEW c \in Consoles, ConsoleStep(c), ~CreateDb(c), ~UseDb(c), ~CreateTable(c)
        PROVE  BootstrapInv'
    <2>1. UNCHANGED <<exists, tables>>
      BY <1>5 DEF ConsoleStep, LoginFails, DbExists, AddProgram, AddRule, CheckRuleId,
         CheckProgramId, UpdateRule, UpdateProgram, DeleteRule, DeleteProgram, Refused,
         Quit, Start, dbVars, InsertProgram, InsertPolicy, UpdateProgramRow,
         UpdatePolicyRow, DeletePolicyRow, DeleteProgramRow
    <2>2. \A d \in Consoles : cpc'[d] \in CreatingPCs => cpc'[d] = cpc[d]
      BY <1>5 DEF TypeOK, ConsoleStep, LoginFails, DbExists, AddProgram, AddRule,
         CheckRuleId, CheckProgramId, UpdateRule, UpdateProgram, DeleteRule,
         DeleteProgram, Refused, Quit, Start, Goto, EndsCmd, CreatingPCs
    <2> QED BY <1>4, <2>1, <2>2
  <1>6. ASSUME UNCHANGED vars PROVE BootstrapInv'
    BY <1>4, <1>6 DEF vars, dbVars
  <1> QED BY <1>1, <1>2, <1>3, <1>5, <1>6 DEF Next

(* CREATE DATABASE succeeds once, and so the tables have one creator.        *)
THEOREM OneConsoleBootstraps == Spec => []OneBootstrapper
PROOF
  <1>1. Init => BootstrapInv
    BY DEF Init, BootstrapInv, CreatingPCs
  <1>2. TypeOK /\ BootstrapInv /\ [Next]_vars => BootstrapInv'
    BY BootstrapStep
  <1>3. BootstrapInv => OneBootstrapper
    BY DEF BootstrapInv, OneBootstrapper, TablesBefore, CreatingPCs, AllTables
  <1> QED BY <1>1, <1>2, <1>3, AdminTypeCorrect, PTL DEF Spec

------------------------------------------------------------------------------
(* Removed rules. *)

(* A rule is in the table for the first time or was in it one step before:   *)
(* an UPDATE whose row is gone changes no row.                               *)
THEOREM NoRuleComesBack == Spec => RemovedStaysRemoved
PROOF
  <1>1. ASSUME TypeOK, [Next]_vars
        PROVE  \A rule \in policy' : HasId(policy, rule.id) \/ rule.id >= nextPolicy
    <2>1. ASSUME NEW i, NEW action, NEW auth, InsertPolicy(i, action, auth)
          PROVE  \A rule \in policy' : HasId(policy, rule.id) \/ rule.id >= nextPolicy
      BY <1>1, <2>1 DEF InsertPolicy, HasId, TypeOK, DBTypeOK
    <2>2. ASSUME NEW i, NEW action, NEW auth, UpdatePolicyRow(i, action, auth)
          PROVE  \A rule \in policy' : HasId(policy, rule.id)
      BY <1>1, <2>2 DEF UpdatePolicyRow, HasId, TypeOK, DBTypeOK, PolicyRows
    <2>3. ASSUME policy' \subseteq policy
          PROVE  \A rule \in policy' : HasId(policy, rule.id)
      BY <2>3 DEF HasId
    <2>4. ASSUME NEW c \in Consoles, ConsoleStep(c), ~AddRule(c), ~UpdateRule(c)
          PROVE  policy' \subseteq policy
      BY <2>4 DEF ConsoleStep, LoginFails, DbExists, CreateDb, UseDb, CreateTable,
         AddProgram, CheckRuleId, CheckProgramId, UpdateProgram, DeleteRule,
         DeleteProgram, Refused, Quit, Start, dbVars, InsertProgram, UpdateProgramRow,
         DeletePolicyRow, DeleteProgramRow
    <2>5. ASSUME UNCHANGED vars PROVE policy' \subseteq policy
      BY <2>5 DEF vars, dbVars
    <2> QED BY <1>1, <2>1, <2>2, <2>3, <2>4, <2>5 DEF Next, AddRule, UpdateRule
  <1> QED BY <1>1, AdminTypeCorrect, PTL DEF Spec, RemovedStaysRemoved

=============================================================================
