----------------------------- MODULE PrmSelfCheck -----------------------------
(***************************************************************************)
(* The channel when the server's standard output is a regular file: main,  *)
(* connect's caller and msg_handle of src/src/server/netlink.c print, the  *)
(* hook of write exempts the server in neither version of the module, and  *)
(* so the server's thread is itself a caller of check_privilege, or of     *)
(* admissionReq.  While it waits there, its server does nothing else,      *)
(* neither receive the check nor die.                                      *)
(***************************************************************************)
EXTENDS AdmissionReq

CONSTANT OwnThread   \* per server: the caller that is the server's own thread

ASSUME OwnThreadAssumption ==
  /\ OwnThread \in [Servers -> Callers]
  /\ \A s1, s2 \in Servers : OwnThread[s1] = OwnThread[s2] => s1 = s2

ServerThreads == {OwnThread[s] : s \in Servers}

InCall(s) == pc[OwnThread[s]] # "idle"

(* Where the server prints: after socket_init, after connect, after every     *)
(* message, and in msg_handle ahead of the answer.  Which printf empties the  *)
(* buffer of stdout is open.                                                  *)
Prints(s) == spc[s] \in {"bound", "loop", "handle"}

Begins(t) == Call(t) /\ UNCHANGED version

FlushStdout(s) == Prints(s) /\ Begins(OwnThread[s])

(* What the server does at its own user-mode pace, or the handler for it. *)
ServerWaits_Not(s) == FALSE

ServerWaits(s) == InCall(s)

SelfNext ==
  \/ \E t \in Callers \ ServerThreads : Begins(t)
  \/ \E t \in Callers : RunsCall(t)
  \/ \E c \in Cells : OverwriteAll(c)
  \/ \E s \in Servers : FlushStdout(s) \/ (~ServerWaits(s) /\ Serves(s))

SelfSpec == BothInit /\ [][SelfNext]_allVars

(* A server never gets an answer to its own check, from neither version: each *)
(* one costs a timeout and counts as a failure of the connection.  Holds for  *)
(* one server.                                                                *)
OwnCheckFails ==
  \A s \in Servers :
    pc[OwnThread[s]] = "return" => ret[OwnThread[s]] \in {"SERVEROFFLINE", "ERROR"}

(* The present version keeps the promise of PrivilegeCheck to every hook,     *)
(* that of the server's own write included, whatever else is written to the   *)
(* cells it has freed and whichever of them kmalloc hands out again.          *)
PresentKeepsPromise ==
  [][version = "kernel2" => [Abstract!PCNext]_(Abstract!pcVars)]_allVars

(* In the present version no check is answered twice, though the server may  *)
(* fill its own queue with its own checks while it handles another, whose    *)
(* message it handles again after the failed recv.                           *)
PresentAnswersOnce == version = "kernel2" => AnsweredOnce

=============================================================================
