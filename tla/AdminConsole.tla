----------------------------- MODULE AdminConsole -----------------------------
(***************************************************************************)
(* The administrator's consoles: start_config.c, mysql.c and operation.c   *)
(* of src/src/app.  A console logs in, which creates the database if it is *)
(* not there, and then carries out commands.  Several consoles may run at  *)
(* once, each may be killed at any point, and each SQL statement may fail. *)
(*                                                                         *)
(* Not modelled: the commands that only show something, and the parsing of *)
(* commands.  A command that is refused before its last statement leaves   *)
(* everything as it was.                                                   *)
(***************************************************************************)
EXTENDS PolicyDB

CONSTANT
  Consoles    \* runs of the program that got past is_root

VARIABLES
  cpc,        \* per console: where it is
  sel,        \* per console: is a database selected on its connection?
  cmd         \* per console: the command under way and the id it checked

vars == <<dbVars, cpc, sel, cmd>>

NoCmd == [name |-> "none", id |-> 0]
CheckedCmds == {"updateRule", "updateProgram", "deleteRule", "deleteProgram"}
Cmds == [name : CheckedCmds, id : 1..(MaxProgram + MaxPolicy)] \cup {NoCmd}

CreatingPCs == {"use_new", "program", "policy", "audit"}
ConsolePCs == {"login", "create", "use", "panel", "change", "off"} \cup CreatingPCs

TypeOK ==
  /\ DBTypeOK
  /\ cpc \in [Consoles -> ConsolePCs]
  /\ sel \in [Consoles -> BOOLEAN]
  /\ cmd \in [Consoles -> Cmds]

Init ==
  /\ exists = FALSE /\ tables = {} /\ EmptyDB
  /\ cpc = [c \in Consoles |-> "login"]
  /\ sel = [c \in Consoles |-> FALSE]
  /\ cmd = [c \in Consoles |-> NoCmd]

Goto(c, from, to) == cpc[c] = from /\ cpc' = [cpc EXCEPT ![c] = to]

------------------------------------------------------------------------------
(* login_to_db and connect_to_db.  login_proc opens the panel whatever they *)
(* return.                                                                  *)

LoginFails(c) ==
  /\ Goto(c, "login", "panel")
  /\ UNCHANGED <<dbVars, sel, cmd>>

(* db_exists: a query that fails counts as "no". *)
DbExists(c) ==
  /\ \/ exists /\ Goto(c, "login", "use")
     \/ Goto(c, "login", "create")
  /\ UNCHANGED <<dbVars, sel, cmd>>

(* CREATE DATABASE IF NOT EXISTS *)
CreateDb_IfNotExists(c) ==
  /\ \/ Goto(c, "create", "use_new") /\ exists' = TRUE
     \/ Goto(c, "create", "panel") /\ UNCHANGED exists
  /\ UNCHANGED <<tables, program, policy, nextProgram, nextPolicy, sel, cmd>>

(* create_db; if it fails connect_to_db does nothing more. *)
CreateDb(c) ==
  /\ \/ ~exists /\ Goto(c, "create", "use_new") /\ exists' = TRUE
     \/ Goto(c, "create", "panel") /\ UNCHANGED exists
  /\ UNCHANGED <<tables, program, policy, nextProgram, nextPolicy, sel, cmd>>

(* use_db; if it fails it closes the connection. *)
UseDb(c) ==
  /\ \/ /\ \/ Goto(c, "use", "panel")
           \/ Goto(c, "use_new", "program")
        /\ sel' = [sel EXCEPT ![c] = TRUE]
     \/ /\ Goto(c, "use", "panel") \/ Goto(c, "use_new", "panel")
        /\ UNCHANGED sel
  /\ UNCHANGED <<dbVars, cmd>>

(* create_table, for program, policy and audit in this order; an error ends *)
(* the bootstrap.                                                           *)
AfterTable(table) ==
  CASE table = "program" -> "policy"
    [] table = "policy"  -> "audit"
    [] table = "audit"   -> "panel"

CreateTable(c) ==
  /\ cpc[c] \in AllTables
  /\ \/ /\ cpc[c] \notin tables
        /\ tables' = tables \cup {cpc[c]}
        /\ cpc' = [cpc EXCEPT ![c] = AfterTable(cpc[c])]
     \/ /\ cpc' = [cpc EXCEPT ![c] = "panel"]
        /\ UNCHANGED tables
  /\ UNCHANGED <<exists, program, policy, nextProgram, nextPolicy, sel, cmd>>

------------------------------------------------------------------------------
(* The commands of control_panel.  addProgram and addRule are one statement. *)

AddProgram(c) ==
  /\ cpc[c] = "panel" /\ sel[c]
  /\ \E path \in Paths : InsertProgram(path)
  /\ UNCHANGED <<cpc, sel, cmd>>

(* The test of the action index dropped: switchAction gives NULL for it. *)
AddRule_AnyAction(c) ==
  /\ cpc[c] = "panel" /\ sel[c]
  /\ \E i \in 1..MaxProgram, action \in Actions \cup {"(null)"}, auth \in Auths :
       InsertPolicy(i, action, auth)
  /\ UNCHANGED <<cpc, sel, cmd>>

AddRule(c) ==
  /\ cpc[c] = "panel" /\ sel[c]
  /\ \E i \in 1..MaxProgram, action \in Actions, auth \in Auths :
       InsertPolicy(i, action, auth)
  /\ UNCHANGED <<cpc, sel, cmd>>

(* The others ask first whether the id exists, and read the rest of their    *)
(* input before they act.                                                    *)
CheckRuleId(c) ==
  /\ Goto(c, "panel", "change") /\ sel[c]
  /\ "policy" \in tables
  /\ \E name \in {"updateRule", "deleteRule"}, i \in 1..MaxPolicy :
       HasId(policy, i) /\ cmd' = [cmd EXCEPT ![c] = [name |-> name, id |-> i]]
  /\ UNCHANGED <<dbVars, sel>>

CheckProgramId(c) ==
  /\ Goto(c, "panel", "change") /\ sel[c]
  /\ "program" \in tables
  /\ \E name \in {"updateProgram", "deleteProgram"}, i \in 1..MaxProgram :
       HasId(program, i) /\ cmd' = [cmd EXCEPT ![c] = [name |-> name, id |-> i]]
  /\ UNCHANGED <<dbVars, sel>>

(* Back at the prompt. *)
EndsCmd(c, name) ==
  /\ cmd[c].name = name
  /\ Goto(c, "change", "panel")
  /\ cmd' = [cmd EXCEPT ![c] = NoCmd]
  /\ UNCHANGED sel

UpdateRule(c) ==
  /\ EndsCmd(c, "updateRule")
  /\ \E action \in Actions, auth \in Auths : UpdatePolicyRow(cmd[c].id, action, auth)

UpdateProgram(c) ==
  /\ EndsCmd(c, "updateProgram")
  /\ \E path \in Paths : UpdateProgramRow(cmd[c].id, path)

DeleteRule(c) ==
  /\ EndsCmd(c, "deleteRule")
  /\ DeletePolicyRow(cmd[c].id)

DeleteProgram(c) ==
  /\ EndsCmd(c, "deleteProgram")
  /\ DeleteProgramRow(cmd[c].id)

(* An invalid action or authority, or a statement that fails. *)
Refused(c) ==
  /\ \E name \in CheckedCmds : EndsCmd(c, name)
  /\ UNCHANGED dbVars

(* quit, or the console is killed: the connection is closed.  A console is   *)
(* started anew.                                                             *)
Quit(c) ==
  /\ cpc[c] # "off"
  /\ cpc' = [cpc EXCEPT ![c] = "off"]
  /\ sel' = [sel EXCEPT ![c] = FALSE]
  /\ cmd' = [cmd EXCEPT ![c] = NoCmd]
  /\ UNCHANGED dbVars

Start(c) ==
  /\ Goto(c, "off", "login")
  /\ UNCHANGED <<dbVars, sel, cmd>>

ConsoleStep(c) ==
  \/ LoginFails(c)
  \/ DbExists(c)
  \/ CreateDb(c)
  \/ UseDb(c)
  \/ CreateTable(c)
  \/ AddProgram(c)
  \/ AddRule(c)
  \/ CheckRuleId(c)
  \/ CheckProgramId(c)
  \/ UpdateRule(c)
  \/ UpdateProgram(c)
  \/ DeleteRule(c)
  \/ DeleteProgram(c)
  \/ Refused(c)
  \/ Quit(c)
  \/ Start(c)

Next == \E c \in Consoles : ConsoleStep(c)

Spec == Init /\ [][Next]_vars

------------------------------------------------------------------------------
(* Properties. *)

(* "related rules will be removed together!" (deleteProgram): no rule is     *)
(* left of a program that is gone, whichever console removes it while        *)
(* another one adds, changes or removes rules.                               *)
RulesHaveProgram == \A rule \in policy : HasId(program, rule.prog_id)

(* At most one console creates the tables, and none of them is there before  *)
(* that console creates it, so that no CREATE TABLE fails because of another *)
(* console.                                                                  *)
OneBootstrapper ==
  \A c \in Consoles : cpc[c] \in CreatingPCs =>
    /\ \A d \in Consoles \ {c} : cpc[d] \notin CreatingPCs
    /\ cpc[c] \in AllTables => cpc[c] \notin tables

(* A rule that was removed stays removed: a console that checked its id      *)
(* before, and changes it after, brings nothing back.                        *)
RemovedStaysRemoved ==
  [][\A rule \in policy' : HasId(policy, rule.id) \/ rule.id >= nextPolicy]_vars

=============================================================================
