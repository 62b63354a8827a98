----------------------------- MODULE AdmissionReq -----------------------------
(***************************************************************************)
(* The channel of the module's first version, src/src/kernel/netlink.c,    *)
(* beside the present one.  admissionReq is check_privilege, and           *)
(* nl_data_ready is netlink_message_handle, but for the end of a call:     *)
(* admissionReq frees the cell first, whatever came of the wait, and then  *)
(* reads status and data from the freed memory.                            *)
(*                                                                         *)
(* version says which of the two modules is loaded.  The server is the     *)
(* same.  It reads the action of a message of the first version (OPEN 1,   *)
(* READ 2, WRITE 3) where the present one has the user, so that a check    *)
(* of the first version is one of the "users" 1 to 3.                      *)
(***************************************************************************)
EXTENDS PrmChannel

VARIABLE version

allVars == <<vars, version>>

Versions == {"kernel", "kernel2"}

Actions == 1..3

BothInit ==
  /\ Init
  /\ version \in Versions
  /\ version = "kernel" => \A r \in Requests : r.uid \in Actions

(* kfree(ptr), between the wait and the test of the status. *)
KfreeFirst(t) ==
  /\ pc[t] = "status" /\ mem[ptr[t]] = "used"
  /\ mem' = [mem EXCEPT ![ptr[t]] = "freed"]
  /\ UNCHANGED <<pid, fail_count, index, status, data, sem, callerVars,
                 serverVars, netVars>>

(* The test, of memory that is free.  ReadData is then a read of it, too. *)
ReadFreedStatus(t) ==
  /\ pc[t] = "status" /\ mem[ptr[t]] = "freed"
  /\ IF status[ptr[t]] = "LOADED"
     THEN pc' = [pc EXCEPT ![t] = "data"] /\ UNCHANGED ret
     ELSE /\ pc' = [pc EXCEPT ![t] = "return"]
          /\ ret' = [ret EXCEPT ![t] = "ERROR"]
  /\ UNCHANGED <<pid, fail_count, index, heapVars, req, ptr, reg, down_ret,
                 result, late, serverVars, netVars>>

admissionReq(t) ==
  \/ AllocSemMsg(t)
  \/ SendCheck(t)
  \/ DownAcquired(t)
  \/ DownTimedOut(t)
  \/ LoadFailCount(t)
  \/ StoreFailCount(t)
  \/ TestFailCount(t)
  \/ DropConnection(t)
  \/ ResetFailCount(t)
  \/ KfreeFirst(t)
  \/ ReadFreedStatus(t)
  \/ ReadData(t)
  \/ Return(t)

RunsCall(t) ==
  /\ IF version = "kernel" THEN admissionReq(t) ELSE CallRuns(t)
  /\ UNCHANGED version

(* nl_data_ready, in the sendto of its server, is the handler of PrmChannel,  *)
(* unless the sendto fails.                                                  *)
nl_data_ready(s) ==
  \/ ConnectSetPid(s)
  \/ ConnectUnsent(s)
  \/ ConnectConfirm(s)
  \/ ConnectResetFail(s)
  \/ DisconnectSetPid(s)
  \/ DisconnectUnsent(s)
  \/ DisconnectResetFail(s)
  \/ HandleMsg(s)
  \/ AnswerUnsent(s)
  \/ ResultSetStatus(s)
  \/ ResultSetData(s)
  \/ ResultUp(s)

InUserMode(s) ==
  \/ SocketInit(s)
  \/ ConnectRecv(s)
  \/ Recv(s)
  \/ SocketRelease(s)
  \/ Crash(s)

Serves(s) == (nl_data_ready(s) \/ InUserMode(s)) /\ UNCHANGED version

(* Whoever gets the freed memory writes over all of it. *)
OverwriteAll(c) ==
  /\ mem[c] = "freed"
  /\ status' = [status EXCEPT ![c] = "other"]
  /\ \E d \in {Unset} \cup Results : data' = [data EXCEPT ![c] = d]
  /\ UNCHANGED <<pid, fail_count, index, mem, sem, callerVars, serverVars,
                 netVars, version>>

------------------------------------------------------------------------------
(* What a comment of the source says and the code does not do. *)

(* "Same values as prm_msg.result_type" (struct sem_msg of the first         *)
(* version): a call that its own answer has woken has a verdict to return.   *)
WokenResultIsAVerdict ==
  \A t \in Callers :
    /\ version = "kernel"
    /\ pc[t] = "return" /\ ret[t] = "SUCCESS" /\ down_ret[t] = "ok" /\ late[t] = {}
    => result[t] \in Results

=============================================================================
