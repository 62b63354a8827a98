------------------------------ MODULE PrmPolicy ------------------------------
(***************************************************************************)
(* What the kernel module and the server process share: the values of the  *)
(* header "Same in both kernel mode and user mode" (kernel2/prm_netlink.h  *)
(* and server/netlink.h), and the decision msg_handle takes on a privilege *)
(* check (server/netlink.c).  A check names a privilege type and a user.   *)
(* The inode number travels with it, but no code of the server reads it.   *)
(***************************************************************************)
EXTENDS Integers

CONSTANT
  Uids   \* the user ids that make system calls

ASSUME UidsAssumption == Uids \subseteq Nat

RootUid == 0

(* prm_msg.p_type. *)
PTypes == {"P_U", "P_STDIN", "P_STDOUT", "P_STDERR", "P_REG", "P_REBOOT",
           "P_NET", "P_DEMESG", "P_DIR"}

(* prm_msg.result_type.  Unset is what memset leaves in sem_msg.data.      *)
Unset   == 0
NOTPASS == 1
PASS    == 2
Results == {NOTPASS, PASS}

(* A privilege check as the kernel module poses it. *)
Checks == [p_type : PTypes, uid : Uids]

(***************************************************************************)
(* The checks the hooks can pose: my_sys_reboot asks only for root, every  *)
(* other hook asks for whoever makes the call.                             *)
(***************************************************************************)
PosedChecks ==
  {c \in Checks : /\ c.p_type \in {"P_REG", "P_DIR", "P_REBOOT", "P_NET", "P_DEMESG"}
                  /\ c.p_type = "P_REBOOT" => c.uid = RootUid}

(***************************************************************************)
(* The branches of msg_handle: files, sockets and reboot are refused to    *)
(* user 1001, everything else passes.                                      *)
(***************************************************************************)
DeniedUid == 1001

Verdict(check) ==
  IF check.p_type \in {"P_NET", "P_REBOOT", "P_REG"} /\ check.uid = DeniedUid
  THEN NOTPASS
  ELSE PASS

=============================================================================
