------------------------------- MODULE RetAuth -------------------------------
(***************************************************************************)
(* ret_auth, the server's look-up of a program's authority: get_path,      *)
(* path_to_dirList and the queries of src/src/server/queryDB.c, while      *)
(* consoles edit the database.  One process calls ret_auth, one call at a  *)
(* time.  The database is there with its tables when it starts; how it     *)
(* came to be is the business of AdminConsole.                             *)
(*                                                                         *)
(* A path is the sequence of its names.  The wildcards of LIKE are left    *)
(* out, no name holds one, and so is its blindness to case.                *)
(***************************************************************************)
EXTENDS PolicyDB

CONSTANTS
  Exes,        \* the executables of the processes asked about
  Misread,     \* what else get_path may make of the listing of /proc
  AskedActions, \* the action indices asked about
  MaxConns     \* connections MySQL grants this process

ASSUME RetAuthAssumption ==
  /\ \A p \in Exes \cup Paths \cup Misread : p \in Seq(STRING) /\ p # <<>>
  /\ AskedActions \subseteq Int
  /\ Actions \subseteq {"create", "open", "read", "write", "delete"}
  /\ MaxConns \in Nat

(* switchAction; an index that it refuses becomes "(null)" in the query. *)
switchAction(i) ==
  CASE i = 0 -> "create"
    [] i = 1 -> "open"
    [] i = 2 -> "read"
    [] i = 3 -> "write"
    [] i = 4 -> "delete"
    [] OTHER -> "(null)"

DEFAULT_AUTH == 1

VARIABLES
  pc,
  exe, action,   \* whose authority is asked, and for what
  link,          \* the connection of the call: none, no database, or usable
  conns,         \* connections the process holds, those it lost included
  path, node,    \* the path, and the element of its dirList, 0 for its head
  prog_id,
  ret,
  failed,        \* history: has a step of the call failed since it began?
  edited,        \* history: have the programs on the way changed since then?
  held           \* history: the answers it has held since then

callVars == <<pc, exe, action, link, conns, path, node, prog_id, ret>>
histVars == <<failed, edited, held>>
vars == <<dbVars, callVars, histVars>>

NoPath == <<>>

TypeOK ==
  /\ DBTypeOK
  /\ pc \in {"idle", "login", "path", "program", "policy", "return", "smashed"}
  /\ exe \in Exes \cup {NoPath}
  /\ action \in AskedActions \cup {0}
  /\ link \in {"none", "connected", "selected"}
  /\ conns \in 0..MaxConns
  /\ path \in Exes \cup Misread \cup {NoPath}
  /\ node \in Nat
  /\ prog_id \in 0..MaxProgram
  /\ ret \in {-1, 0, 1}
  /\ failed \in BOOLEAN /\ edited \in BOOLEAN
  /\ held \subseteq {0, 1}

Init ==
  /\ exists = TRUE /\ tables = AllTables /\ EmptyDB
  /\ pc = "idle"
  /\ exe = NoPath /\ action = 0 /\ link = "none" /\ conns = 0
  /\ path = NoPath /\ node = 0 /\ prog_id = 0 /\ ret = 1
  /\ failed = FALSE /\ edited = FALSE /\ held = {}

Goto(from, to) == pc = from /\ pc' = to

------------------------------------------------------------------------------
(* What the database answers for an executable and an action at one time:    *)
(* what the rules say of the programs registered under its own path or, if   *)
(* there is none, under the nearest directory above it that has any, and the *)
(* default where they say nothing.                                           *)

Upwards(e) == {SubSeq(e, 1, n) : n \in 1..Len(e)}

OnTheWay(e) == {row \in program : row.path \in Upwards(e)}

Nearest(e) ==
  {row \in OnTheWay(e) :
    \A other \in OnTheWay(e) : Len(other.path) <= Len(row.path)}

RulesFor(prog, a) ==
  {rule \in policy : rule.prog_id = prog.id /\ rule.action = switchAction(a)}

Answers(prog, a) ==
  IF RulesFor(prog, a) = {} THEN {DEFAULT_AUTH}
  ELSE {IF rule.auth = "Y" THEN 1 ELSE 0 : rule \in RulesFor(prog, a)}

Decisions(e, a) ==
  IF Nearest(e) = {} THEN {DEFAULT_AUTH}
  ELSE UNION {Answers(prog, a) : prog \in Nearest(e)}

------------------------------------------------------------------------------
(* path_to_dirList: after a head that was never given a name, the path       *)
(* itself and the directories above it, up to the one below the root.        *)

(* The list the wrong way round. *)
path_to_dirList_RootFirst(p) == [i \in 1..Len(p) |-> SubSeq(p, 1, i)]

path_to_dirList(p) == [i \in 1..Len(p) |-> SubSeq(p, 1, Len(p) + 1 - i)]

(* The call begins.  The history variables are those of the last call's end. *)
Ask ==
  /\ Goto("idle", "login")
  /\ \E e \in Exes, i \in AskedActions : exe' = e /\ action' = i
  /\ held' = Decisions(exe', action')
  /\ UNCHANGED <<dbVars, link, conns, path, node, prog_id, ret, failed, edited>>

(* login_to_db, whose result is ignored: MySQL refuses the connection; or    *)
(* the database cannot be asked for and is not selected; or it cannot be     *)
(* selected and the connection is closed; or all is well.                    *)
Login ==
  /\ Goto("login", "path")
  /\ \/ conns < MaxConns /\ link' = "selected" /\ conns' = conns + 1 /\ UNCHANGED failed
     \/ conns < MaxConns /\ link' = "connected" /\ conns' = conns + 1 /\ failed' = TRUE
     \/ UNCHANGED <<link, conns>> /\ failed' = TRUE
  /\ UNCHANGED <<dbVars, exe, action, path, node, prog_id, ret, edited, held>>

(* mysql_close of a handle that may never have been connected. *)
CloseLink_Unguarded == link' = "none" /\ conns' = conns - 1

CloseLink == link' = "none" /\ conns' = IF link = "none" THEN conns ELSE conns - 1

(* get_path: the link in /proc names the executable; but the last word of the *)
(* line may not be its path (a deleted file, a thread of the kernel), and the *)
(* first line with "exe" in it may be the one of the working directory;       *)
GetPath ==
  /\ Goto("path", "program")
  /\ \/ path' = exe /\ UNCHANGED failed
     \/ path' \in Misread /\ failed' = TRUE
  /\ node' = 0
  /\ UNCHANGED <<dbVars, exe, action, link, conns, prog_id, ret, edited, held>>

(* or the file it was written to cannot be opened, *)
GetPathFails ==
  /\ Goto("path", "return")
  /\ ret' = -1
  /\ failed' = TRUE
  /\ CloseLink
  /\ UNCHANGED <<dbVars, exe, action, path, node, prog_id, edited, held>>

(* or the process is gone and the file is empty: the loop that looks for the *)
(* end of the line writes past the end of path.                              *)
GetPathSmashes ==
  /\ Goto("path", "smashed")
  /\ UNCHANGED <<dbVars, exe, action, link, conns, path, node, prog_id, ret, histVars>>

(* A query that fails ends the call; the connection is not closed. *)
QueryFails ==
  /\ pc \in {"program", "policy"}
  /\ pc' = "return"
  /\ ret' = -1
  /\ failed' = TRUE
  /\ link' = "none"
  /\ UNCHANGED <<dbVars, exe, action, conns, path, node, prog_id, edited, held>>

(* node = head inside the loop. *)
QueryProgram_Restarts ==
  /\ pc = "program" /\ link = "selected"
  /\ LET dirs == path_to_dirList(path)
         rows == {row \in program : row.path = dirs[1]}
     IN  /\ node' = 1
         /\ \/ /\ rows # {}
               /\ \E row \in rows : prog_id' = row.id
               /\ pc' = "policy"
            \/ rows = {} /\ UNCHANGED <<pc, prog_id>>
  /\ UNCHANGED <<dbVars, exe, action, conns, path, link, ret, histVars>>

(* One turn of the loop over the dirList.  It moves on before it looks, so    *)
(* that the head is skipped, and ends with the first name that programs are   *)
(* registered under, or with the list.  Which of several rows comes first is  *)
(* MySQL's choice.                                                            *)
QueryProgram ==
  /\ pc = "program" /\ link = "selected"
  /\ LET dirs == path_to_dirList(path)
         rows == {row \in program : row.path = dirs[node + 1]}
     IN  /\ node' = node + 1
         /\ \/ /\ rows # {}
               /\ \E row \in rows : prog_id' = row.id
               /\ pc' = "policy"
               /\ UNCHANGED <<link, ret>>
            \/ /\ rows = {} /\ node + 1 < Len(dirs)
               /\ UNCHANGED <<pc, prog_id, link, ret>>
            \/ /\ rows = {} /\ node + 1 = Len(dirs)
               /\ pc' = "return"
               /\ ret' = DEFAULT_AUTH
               /\ link' = "none"
               /\ UNCHANGED prog_id
  /\ UNCHANGED <<dbVars, exe, action, conns, path, histVars>>

(* The rule of that program for the action, or the default. *)
QueryPolicy ==
  /\ Goto("policy", "return") /\ link = "selected"
  /\ LET rows == {row \in policy : row.prog_id = prog_id /\ row.action = switchAction(action)}
     IN  \/ rows = {} /\ ret' = DEFAULT_AUTH
         \/ \E row \in rows : ret' = IF row.auth = "Y" THEN 1 ELSE 0
  /\ link' = "none"
  /\ UNCHANGED <<dbVars, exe, action, conns, path, node, prog_id, histVars>>

(* The caller has its answer, and the stack frame is gone. *)
Return ==
  /\ Goto("return", "idle")
  /\ exe' = NoPath /\ action' = 0 /\ path' = NoPath /\ node' = 0 /\ prog_id' = 0
  /\ ret' = 1
  /\ failed' = FALSE /\ edited' = FALSE /\ held' = {}
  /\ UNCHANGED <<dbVars, link, conns>>

(* A new life of the process: its connections went with the old one. *)
Restart ==
  /\ pc' = "idle"
  /\ exe' = NoPath /\ action' = 0 /\ path' = NoPath /\ node' = 0 /\ prog_id' = 0
  /\ ret' = 1 /\ link' = "none" /\ conns' = 0
  /\ failed' = FALSE /\ edited' = FALSE /\ held' = {}
  /\ UNCHANGED dbVars

RetAuthRuns ==
  \/ Login
  \/ GetPath
  \/ QueryProgram
  \/ QueryPolicy
  \/ link # "selected" /\ QueryFails
  \/ Return

RetAuthFails ==
  \/ GetPathFails
  \/ GetPathSmashes
  \/ QueryFails

(* What the consoles do: any statement on any row, at any time. *)
Edit ==
  /\ \/ \E p \in Paths : InsertProgram(p)
     \/ \E i \in 1..MaxProgram, a \in Actions, auth \in Auths : InsertPolicy(i, a, auth)
     \/ \E i \in 1..MaxProgram, p \in Paths : UpdateProgramRow(i, p)
     \/ \E i \in 1..MaxPolicy, a \in Actions, auth \in Auths : UpdatePolicyRow(i, a, auth)
     \/ \E i \in 1..MaxPolicy : DeletePolicyRow(i)
     \/ \E i \in 1..MaxProgram : DeleteProgramRow(i)
  /\ UNCHANGED callVars
  /\ \/ pc \in {"idle", "smashed"} /\ UNCHANGED histVars
     \/ /\ pc \notin {"idle", "smashed"}
        /\ edited' = (edited \/ OnTheWay(exe)' # OnTheWay(exe))
        /\ held' = held \cup Decisions(exe, action)'
        /\ UNCHANGED failed

Next == Ask \/ RetAuthRuns \/ RetAuthFails \/ Restart \/ Edit

Spec == Init /\ [][Next]_vars

(* MySQL answers every statement, and the process runs on.  No statement     *)
(* waits for a console: all sessions are in autocommit mode.  Nothing makes  *)
(* a call begin, a step fail, the process start anew, or a console edit.     *)
FairSpec == Spec /\ WF_vars(RetAuthRuns)

------------------------------------------------------------------------------
(* Properties. *)

Answered == pc = "return" /\ ~failed

(* ret_auth walks from the executable up to the root in as many queries as   *)
(* there are names, and asks for the rule in one more.  Its answer is what   *)
(* the rules said of the nearest program at some moment of the call, though  *)
(* rules come, change and go meanwhile, and programs elsewhere; only edits   *)
(* of the programs on the way it goes can make it one that never was.        *)
AnswerOfOneMoment == Answered /\ ~edited => ret \in held

(* Every call ends with an answer or an error, unless the process dies of it, *)
(* however the database changes on the way up.                                *)
AuthReturns == pc = "login" ~> pc \in {"idle", "smashed"}

=============================================================================
