------------------------------- MODULE PrmHook -------------------------------
(***************************************************************************)
(* The hooked system calls of src/src/kernel2/prm_hook.c.  The threads of  *)
(* one process share a descriptor table; what a hook learns of check_      *)
(* privilege is what PrivilegeCheck promises.  The kernel's own system     *)
(* calls are external: each is one step that takes effect or fails.        *)
(*                                                                         *)
(* Not modelled: the reference that get_info_from_fd takes with fdget and  *)
(* never gives back, and the contents of the files.                        *)
(***************************************************************************)
EXTENDS PrivilegeCheck

CONSTANTS
  UidOf,      \* the user each thread runs as
  Fds,        \* descriptors of the shared table
  Files,
  FileType,   \* per file: FILE_REG, FILE_DIR, or another kind
  NoFile,     \* a descriptor that is not open
  NoFd

ASSUME PrmHookAssumption ==
  /\ UidOf \in [Callers -> Uids]
  /\ FileType \in [Files -> {"FILE_REG", "FILE_DIR", "FILE_CHR"}]
  /\ NoFile \notin Files
  /\ NoFd \notin Fds
  /\ Requests = {c \in PosedChecks : \E t \in Callers : c.uid = UidOf[t]}

VARIABLES
  table,      \* the process's descriptor table
  hpc,        \* per thread: user mode, or where in the hook
  call,       \* the system call
  fd,         \* its descriptor: an argument, or what real_openat returned
  ino,        \* the file get_info_from_fd found behind the descriptor
  told,       \* what check_privilege returned and stored: check_ret is told.ret
  p_result,
  touched,    \* the file the real call worked on
  sysret      \* how the call ended

hookVars == <<table, hpc, call, fd, ino, told, p_result, touched, sysret>>
vars == <<pcVars, hookVars>>

AllAnswers == {NoAnswer, Offline} \cup UNION {Answers(r) : r \in Requests}

Calls == {"openat", "read", "write", "reboot", "socket", "execve"}

TypeOK ==
  /\ asked \in [Callers -> Requests \cup {NoCheck}]
  /\ \A t \in Callers : answer[t] \in AllAnswers
  /\ strays \subseteq Results
  /\ table \in [Fds -> Files \cup {NoFile}]
  /\ hpc \in [Callers -> {"user", "info", "check", "decide", "exit"}]
  /\ call \in [Callers -> Calls \cup {"none"}]
  /\ fd \in [Callers -> Fds \cup {NoFd}]
  /\ ino \in [Callers -> Files \cup {NoFile}]
  /\ \A t \in Callers : told[t] \in AllAnswers
  /\ p_result \in [Callers -> {Unset} \cup Results]
  /\ touched \in [Callers -> Files \cup {NoFile}]
  /\ sysret \in [Callers -> {"none", "done", "error", "blocked"}]

Init ==
  /\ PCInit
  /\ table = [d \in Fds |-> NoFile]
  /\ hpc = [t \in Callers |-> "user"]
  /\ call = [t \in Callers |-> "none"]
  /\ fd = [t \in Callers |-> NoFd]
  /\ ino = [t \in Callers |-> NoFile]
  /\ told = [t \in Callers |-> NoAnswer]
  /\ p_result = [t \in Callers |-> Unset]
  /\ touched = [t \in Callers |-> NoFile]
  /\ sysret = [t \in Callers |-> "none"]

Enter(t, c, to) ==
  /\ hpc[t] = "user"
  /\ hpc' = [hpc EXCEPT ![t] = to]
  /\ call' = [call EXCEPT ![t] = c]

Goto(t, to) == hpc' = [hpc EXCEPT ![t] = to]
LetPass(t)  == p_result' = [p_result EXCEPT ![t] = PASS]

------------------------------------------------------------------------------
(* The call of check_privilege, or the default of the code that skips it. *)

Check(t, p_type) == Ask(t, [p_type |-> p_type, uid |-> UidOf[t]])

CheckReturned_FailsClosed(t) ==
  /\ hpc[t] = "check"
  /\ Leave(t)
  /\ told' = [told EXCEPT ![t] = answer[t]]
  /\ p_result' = [p_result EXCEPT ![t] =
       IF answer[t].ret = "SUCCESS" THEN answer[t].result ELSE NOTPASS]
  /\ Goto(t, "decide")
  /\ UNCHANGED <<table, call, fd, ino, touched, sysret>>

(* A check that did not succeed lets the call pass. *)
CheckReturned(t) ==
  /\ hpc[t] = "check"
  /\ Leave(t)
  /\ told' = [told EXCEPT ![t] = answer[t]]
  /\ p_result' = [p_result EXCEPT ![t] =
       IF answer[t].ret = "SUCCESS" THEN answer[t].result ELSE PASS]
  /\ Goto(t, "decide")
  /\ UNCHANGED <<table, call, fd, ino, touched, sysret>>

------------------------------------------------------------------------------
(* openat, read and write. *)

(* real_openat comes first; if it fails there is nothing to check. *)
EnterOpenat(t) ==
  \/ /\ Enter(t, "openat", "decide")
     /\ LetPass(t)
     /\ UNCHANGED <<pcVars, table, fd, ino, told, touched, sysret>>
  \/ /\ Enter(t, "openat", "info")
     /\ \E d \in Fds, f \in Files :
          /\ table[d] = NoFile
          /\ table' = [table EXCEPT ![d] = f]
          /\ fd' = [fd EXCEPT ![t] = d]
     /\ UNCHANGED <<pcVars, ino, told, p_result, touched, sysret>>

EnterReadWrite(t) ==
  \E name \in {"read", "write"}, d \in Fds :
    /\ Enter(t, name, "info")
    /\ fd' = [fd EXCEPT ![t] = d]
    /\ UNCHANGED <<pcVars, table, ino, told, p_result, touched, sysret>>

PType(type) ==
  CASE type = "FILE_REG" -> "P_REG"
    [] type = "FILE_DIR" -> "P_DIR"
    [] OTHER -> "P_U"

(* get_info_from_fd, and the check if the descriptor names a regular file or *)
(* a directory.                                                              *)
GetInfo(t) ==
  /\ hpc[t] = "info"
  /\ ino' = [ino EXCEPT ![t] = table[fd[t]]]
  /\ LET p_type == IF table[fd[t]] = NoFile THEN "P_U"
                   ELSE PType(FileType[table[fd[t]]])
     IN \/ /\ p_type = "P_U"
           /\ LetPass(t)
           /\ Goto(t, "decide")
           /\ UNCHANGED pcVars
        \/ /\ p_type # "P_U"
           /\ Check(t, p_type)
           /\ Goto(t, "check")
           /\ UNCHANGED p_result
  /\ UNCHANGED <<table, call, fd, told, touched, sysret>>

------------------------------------------------------------------------------
(* reboot, socket and execve. *)

AsksForReboot_AnyUser(t) == TRUE

AsksForReboot(t) == UidOf[t] = RootUid

EnterReboot(t) ==
  /\ \/ /\ AsksForReboot(t)
        /\ Enter(t, "reboot", "check")
        /\ Check(t, "P_REBOOT")
        /\ UNCHANGED p_result
     \/ /\ ~AsksForReboot(t)
        /\ Enter(t, "reboot", "decide")
        /\ LetPass(t)
        /\ UNCHANGED pcVars
  /\ UNCHANGED <<table, fd, ino, told, touched, sysret>>

EnterSocket(t) ==
  /\ Enter(t, "socket", "check")
  /\ Check(t, "P_NET")
  /\ UNCHANGED <<table, fd, ino, told, p_result, touched, sysret>>

(* Asks only if the path can be copied and is that of dmesg. *)
EnterExecve(t) ==
  /\ \/ /\ Enter(t, "execve", "check")
        /\ Check(t, "P_DEMESG")
        /\ UNCHANGED p_result
     \/ /\ Enter(t, "execve", "decide")
        /\ LetPass(t)
        /\ UNCHANGED pcVars
  /\ UNCHANGED <<table, fd, ino, told, touched, sysret>>

------------------------------------------------------------------------------
(* The end of a hook. *)

(* openat has nothing left to do but return: the descriptor, if it has one. *)
OpenatReturns(t) ==
  /\ hpc[t] = "decide" /\ call[t] = "openat"
  /\ sysret' = [sysret EXCEPT ![t] =
       CASE p_result[t] = NOTPASS -> "blocked"
         [] fd[t] = NoFd          -> "error"
         [] OTHER                 -> "done"]
  /\ Goto(t, "exit")
  /\ UNCHANGED <<pcVars, table, call, fd, ino, told, p_result, touched>>

Blocked_OnlyIfUnset(t) == p_result[t] = Unset

Blocked(t) == p_result[t] = NOTPASS

Block(t) ==
  /\ hpc[t] = "decide" /\ call[t] # "openat"
  /\ Blocked(t)
  /\ sysret' = [sysret EXCEPT ![t] = "blocked"]
  /\ Goto(t, "exit")
  /\ UNCHANGED <<pcVars, table, call, fd, ino, told, p_result, touched>>

(* The real read or write looks the descriptor up again.  Any of the calls   *)
(* may fail for the kernel's own reasons.                                    *)
RealCall(t) ==
  /\ hpc[t] = "decide" /\ call[t] # "openat"
  /\ ~Blocked(t)
  /\ LET file == IF fd[t] = NoFd THEN NoFile ELSE table[fd[t]]
     IN \/ /\ sysret' = [sysret EXCEPT ![t] = "done"]
           /\ call[t] \in {"read", "write"} => file # NoFile
           /\ touched' = [touched EXCEPT ![t] = file]
        \/ /\ sysret' = [sysret EXCEPT ![t] = "error"]
           /\ UNCHANGED touched
  /\ Goto(t, "exit")
  /\ UNCHANGED <<pcVars, table, call, fd, ino, told, p_result>>

(* Back in user mode. *)
Exit(t) ==
  /\ hpc[t] = "exit"
  /\ Goto(t, "user")
  /\ call' = [call EXCEPT ![t] = "none"]
  /\ fd' = [fd EXCEPT ![t] = NoFd]
  /\ ino' = [ino EXCEPT ![t] = NoFile]
  /\ told' = [told EXCEPT ![t] = NoAnswer]
  /\ p_result' = [p_result EXCEPT ![t] = Unset]
  /\ touched' = [touched EXCEPT ![t] = NoFile]
  /\ sysret' = [sysret EXCEPT ![t] = "none"]
  /\ UNCHANGED <<pcVars, table>>

(* close is not hooked. *)
Close(t) ==
  /\ hpc[t] = "user"
  /\ \E d \in Fds : table[d] # NoFile /\ table' = [table EXCEPT ![d] = NoFile]
  /\ UNCHANGED <<pcVars, hpc, call, fd, ino, told, p_result, touched, sysret>>

(* The rest of check_privilege. *)
CheckRuns(t) == GetAnswer(t) /\ UNCHANGED hookVars

HookStep(t) ==
  \/ EnterOpenat(t)
  \/ EnterReadWrite(t)
  \/ EnterReboot(t)
  \/ EnterSocket(t)
  \/ EnterExecve(t)
  \/ GetInfo(t)
  \/ CheckReturned(t)
  \/ OpenatReturns(t)
  \/ Block(t)
  \/ RealCall(t)
  \/ Exit(t)
  \/ Close(t)
  \/ CheckRuns(t)

Next ==
  \/ \E t \in Callers : HookStep(t)
  \/ Forget /\ UNCHANGED hookVars

Spec == Init /\ [][Next]_vars

------------------------------------------------------------------------------
(* Properties. *)

(* A user who is denied regular files reads or writes one only if the check  *)
(* of that very call was not answered in time, or a late answer to another   *)
(* check reached it, whatever other threads do to the descriptor table.  The *)
(* file must be the one the hook looked at: a descriptor that another thread *)
(* reuses between the check and the real call is out of the hooks' sight.    *)
DenialIsEnforced ==
  \A t \in Callers :
    /\ UidOf[t] = DeniedUid
    /\ touched[t] # NoFile /\ touched[t] = ino[t] /\ FileType[ino[t]] = "FILE_REG"
    /\ told[t].ret = "SUCCESS"
    => \/ told[t].result = PASS /\ PASS \in told[t].late
       \/ told[t].result = Unset /\ (told[t].down_ret = "ETIME" \/ told[t].late # {})

(* No call is blocked but by a verdict of the server: on the call itself, or *)
(* on a check that was given up and whose answer came late.  A dead, slow or *)
(* missing server lets every call pass; and so do, of themselves, files that *)
(* are not regular, dmesg, reboot, and every user but the denied one.        *)
BlockedOnlyByVerdict ==
  \A t \in Callers : sysret[t] = "blocked" =>
    /\ told[t].ret = "SUCCESS" /\ told[t].result = NOTPASS
    /\ \/ NOTPASS \in told[t].late
       \/ UidOf[t] = DeniedUid /\ call[t] = "socket"
       \/ /\ UidOf[t] = DeniedUid /\ call[t] \in {"openat", "read", "write"}
          /\ FileType[ino[t]] = "FILE_REG"

=============================================================================
