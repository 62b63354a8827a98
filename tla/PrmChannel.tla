------------------------------ MODULE PrmChannel ------------------------------
(***************************************************************************)
(* The privilege-check channel between the kernel module and the server    *)
(* process: check_privilege and netlink_message_handle of                  *)
(* src/src/kernel2/prm_netlink.c, and main, connect, recv, msg_handle and  *)
(* disconnect of src/src/server/netlink.c, over a netlink socket.          *)
(*                                                                         *)
(* A caller is a thread inside a hooked system call.  A server is one life *)
(* of a server process, so a restart is another element of Servers.        *)
(* netlink_message_handle runs inside the server's sendto, on the server's *)
(* own thread, so its steps are steps of the server and run beside the     *)
(* callers.  Every access to memory that two threads share is a step; the  *)
(* initialisation of a cell nobody else knows of yet is one step.          *)
(*                                                                         *)
(* late is history: no guard and no value of another variable depends on   *)
(* it.  It collects, as a call takes its cell, the checks that were given  *)
(* up in that cell and are not yet forgotten.                              *)
(*                                                                         *)
(* Not modelled: a kmalloc that fails, the unloading of the module, and    *)
(* reconnect of the server, which nothing calls.                           *)
(*                                                                         *)
(* A definition X_Foo in front of X is X with a fault, for the runs that   *)
(* show that a property notices it; no specification uses it.              *)
(***************************************************************************)
EXTENDS PrmPolicy, Sequences, FiniteSets

CONSTANTS
  Callers,        \* threads that call check_privilege
  Servers,        \* lives of server processes, identified by their pid
  Cells,          \* addresses kmalloc returns for a struct sem_msg
  Requests,       \* the checks that callers pose, a subset of PosedChecks
  NoServer,       \* the pid -1: no server is connected
  NoCell,         \* the null pointer
  NoCheck,        \* no call in progress
  RcvBuf,         \* messages a server's socket buffers before it overruns
  MaxIndex,       \* bound: messages the kernel module numbers in one run
  KmallocReuses,  \* may kmalloc return an address that was freed before?
  ServersLeave    \* may a server run the tail of main, after its loop?

ASSUME ChannelAssumption ==
  /\ Requests \subseteq PosedChecks
  /\ NoServer \notin Servers
  /\ NoCell \notin Cells
  /\ NoCheck \notin Requests
  /\ RcvBuf \in Nat \ {0}
  /\ MaxIndex \in Nat
  /\ KmallocReuses \in BOOLEAN
  /\ ServersLeave \in BOOLEAN

FailLimit == 3    \* timeouts after which check_privilege drops the connection

VARIABLES
  (* static variables of prm_netlink.c *)
  pid,            \* the connected server, or NoServer
  fail_count,
  index,
  (* the heap of struct sem_msg *)
  mem,            \* per cell: never allocated, allocated, or freed
  status,         \* per cell: SEM_STATUS_READY, SEM_STATUS_LOADED, or other bits
  data,           \* per cell
  sem,            \* per cell: the count of the semaphore
  (* per caller: the locals of check_privilege *)
  pc, req, ptr,
  reg,            \* the value of fail_count loaded for fail_count += 1
  down_ret,       \* what down_timeout returned
  ret, result,
  late,           \* history: the earlier checks whose answers may meet this call
  (* per server *)
  spc,
  buf,            \* the message buffer of main
  connect_ret,    \* what connect returned
  inbox,          \* the receive queue of its socket
  overrun         \* its congestion: none, ENOBUFS pending, or ENOBUFS reported

heapVars   == <<mem, status, data, sem>>
callerVars == <<pc, req, ptr, reg, down_ret, ret, result, late>>
serverVars == <<spc, buf, connect_ret>>
netVars    == <<inbox, overrun>>
vars == <<pid, fail_count, index, heapVars, callerVars, serverVars, netVars>>

------------------------------------------------------------------------------
(* Messages from the kernel module.  NoMsg is a buffer nothing was received *)
(* into: its type is none of the types msg_handle and connect look for.     *)

CheckMsgs    == [type : {"CHECK"}, req : Requests, ptr : Cells]
ConfirmMsg   == [type |-> "CONNECT_CONFIRM"]
NoMsg        == [type |-> "none"]
Messages     == CheckMsgs \cup {ConfirmMsg}

(* A socket takes messages from socket_init until the process is gone. *)
HasSocket(d) == d \in Servers /\ spc[d] \notin {"off", "dead"}

(* A socket that overran takes nothing more until its queue is empty. *)
Takes(d) == Len(inbox[d]) < RcvBuf /\ overrun[d] = "no"

(***************************************************************************)
(* nlmsg_unicast to port d, whose result k2u_send returns and no caller    *)
(* looks at: the message is queued, or lost because the queue is full (the *)
(* socket then reports ENOBUFS once), or lost because nobody has the port. *)
(***************************************************************************)
k2u_send(d, m) ==
  \/ /\ HasSocket(d) /\ Takes(d)
     /\ inbox' = [inbox EXCEPT ![d] = Append(@, m)]
     /\ UNCHANGED overrun
  \/ /\ HasSocket(d) /\ ~Takes(d)
     /\ overrun' = [overrun EXCEPT ![d] = IF @ = "no" THEN "pending" ELSE @]
     /\ UNCHANGED inbox
  \/ /\ ~HasSocket(d)
     /\ UNCHANGED netVars

(* recvfrom: the pending error first, *)
RecvFails(s) ==
  /\ overrun[s] = "pending"
  /\ overrun' = [overrun EXCEPT ![s] = "reported"]
  /\ UNCHANGED inbox

(* else the oldest message. *)
RecvTakes(s) ==
  /\ overrun[s] # "pending" /\ inbox[s] # <<>>
  /\ inbox' = [inbox EXCEPT ![s] = Tail(@)]
  /\ overrun' = [overrun EXCEPT ![s] = IF Tail(inbox[s]) = <<>> THEN "no" ELSE @]

(* What is on its way to a server or in its buffer, and the checks in it that *)
(* name a cell: handler and server go by the address alone.                   *)
Mail == {buf[s] : s \in Servers}
        \cup UNION {{inbox[s][i] : i \in 1 .. Len(inbox[s])} : s \in Servers}

About(m, c) == m.type = "CHECK" /\ m.ptr = c

ChecksAbout(c) == {m.req : m \in {x \in Mail : About(x, c)}}

(* The addresses kmalloc may return. *)
FreeCells ==
  {c \in Cells : mem[c] = "fresh" \/ (KmallocReuses /\ mem[c] = "freed")}

(* The bounds: a call or a connection begins only if the number and the     *)
(* cell it will take are left, so that none stops half-way for want of one. *)
Allocating == {t \in Callers : pc[t] = "alloc"}
Confirming == {s \in Servers : spc[s] = "k_confirm"}
NumbersLeft ==
  index + Cardinality(Allocating) + Cardinality(Confirming) < MaxIndex
CellsLeft == Cardinality(FreeCells) > Cardinality(Allocating)

------------------------------------------------------------------------------
CallerPCs == {"idle", "alloc", "send", "down", "load", "store", "test",
              "drop", "reset", "status", "data", "free", "return"}

ServerPCs == {"off", "bound", "k_confirm", "k_reset", "await", "loop",
              "handle", "k_loaded", "k_data", "k_up", "k_bye", "leaving", "dead"}

Typed ==
  /\ pid \in Servers \cup {NoServer}
  /\ fail_count \in Nat
  /\ index \in Nat
  /\ mem \in [Cells -> {"fresh", "used", "freed"}]
  /\ status \in [Cells -> {"READY", "LOADED", "other"}]
  /\ data \in [Cells -> {Unset} \cup Results]
  /\ sem \in [Cells -> Nat]
  /\ pc \in [Callers -> CallerPCs]
  /\ req \in [Callers -> Requests \cup {NoCheck}]
  /\ ptr \in [Callers -> Cells \cup {NoCell}]
  /\ reg \in [Callers -> Nat]
  /\ down_ret \in [Callers -> {"ok", "ETIME"}]
  /\ ret \in [Callers -> {"none", "SERVEROFFLINE", "ERROR", "SUCCESS"}]
  /\ result \in [Callers -> {Unset} \cup Results]
  /\ late \in [Callers -> SUBSET Requests]
  /\ spc \in [Servers -> ServerPCs]
  /\ buf \in [Servers -> Messages \cup {NoMsg}]
  /\ connect_ret \in [Servers -> {"none", "SUCCESS", "ERROR"}]
  /\ inbox \in [Servers -> Seq(Messages)]
  /\ overrun \in [Servers -> {"no", "pending", "reported"}]

(* What the locals of a call and of the handler name, where they are used. *)
UsesCell(t) == pc[t] \notin {"idle", "alloc", "return"}

InHandler(s) == spc[s] \in {"k_loaded", "k_data", "k_up"}

LocalsOK ==
  /\ \A t \in Callers :
       /\ pc[t] # "idle" => req[t] \in Requests
       /\ UsesCell(t) => ptr[t] \in Cells
  /\ \A s \in Servers : InHandler(s) => buf[s] \in CheckMsgs

TypeOK == Typed /\ LocalsOK

Init ==
  /\ pid = NoServer
  /\ fail_count = 0
  /\ index = 0
  /\ mem = [c \in Cells |-> "fresh"]
  /\ status = [c \in Cells |-> "other"]
  /\ data = [c \in Cells |-> Unset]
  /\ sem = [c \in Cells |-> 0]
  /\ pc = [t \in Callers |-> "idle"]
  /\ req = [t \in Callers |-> NoCheck]
  /\ ptr = [t \in Callers |-> NoCell]
  /\ reg = [t \in Callers |-> 0]
  /\ down_ret = [t \in Callers |-> "ok"]
  /\ ret = [t \in Callers |-> "none"]
  /\ result = [t \in Callers |-> Unset]
  /\ late = [t \in Callers |-> {}]
  /\ spc = [s \in Servers |-> "off"]
  /\ buf = [s \in Servers |-> NoMsg]
  /\ connect_ret = [s \in Servers |-> "none"]
  /\ inbox = [s \in Servers |-> <<>>]
  /\ overrun = [s \in Servers |-> "no"]

------------------------------------------------------------------------------
(* check_privilege. *)

Goto(t, from, to) == pc[t] = from /\ pc' = [pc EXCEPT ![t] = to]

(* The entry of the call and the test for a connected server. *)
CheckOnline(t, r) ==
  /\ pc[t] = "idle"
  /\ req' = [req EXCEPT ![t] = r]
  /\ \/ /\ pid = NoServer
        /\ pc' = [pc EXCEPT ![t] = "return"]
        /\ ret' = [ret EXCEPT ![t] = "SERVEROFFLINE"]
     \/ /\ pid # NoServer /\ NumbersLeft /\ CellsLeft
        /\ pc' = [pc EXCEPT ![t] = "alloc"]
        /\ UNCHANGED ret
  /\ UNCHANGED <<pid, fail_count, index, heapVars, ptr, reg, down_ret, result,
                 late, serverVars, netVars>>

(* No sema_init. *)
InitSemMsg_NoSemaInit(c) ==
  /\ status' = [status EXCEPT ![c] = "READY"]
  /\ data' = [data EXCEPT ![c] = Unset]
  /\ UNCHANGED sem

(* memset, status READY and sema_init, of a cell that may hold the bits of an *)
(* earlier check.                                                             *)
InitSemMsg(c) ==
  /\ status' = [status EXCEPT ![c] = "READY"]
  /\ data' = [data EXCEPT ![c] = Unset]
  /\ sem' = [sem EXCEPT ![c] = 0]

(* kmalloc, and the message's number. *)
AllocSemMsg(t) ==
  /\ Goto(t, "alloc", "send")
  /\ index' = index + 1
  /\ \E c \in FreeCells :
       /\ ptr' = [ptr EXCEPT ![t] = c]
       /\ mem' = [mem EXCEPT ![c] = "used"]
       /\ InitSemMsg(c)
       /\ late' = [late EXCEPT ![t] = ChecksAbout(c)]
  /\ UNCHANGED <<pid, fail_count, req, reg, down_ret, ret, result,
                 serverVars, netVars>>

(* k2u_send reads pid anew: the server may be another one by now, or none. *)
SendCheck(t) ==
  /\ Goto(t, "send", "down")
  /\ k2u_send(pid, [type |-> "CHECK", req |-> req[t], ptr |-> ptr[t]])
  /\ UNCHANGED <<pid, fail_count, index, heapVars, req, ptr, reg, down_ret, ret,
                 result, late, serverVars>>

(* down_timeout returns 0. *)
DownAcquired(t) ==
  /\ Goto(t, "down", "status")
  /\ sem[ptr[t]] > 0
  /\ sem' = [sem EXCEPT ![ptr[t]] = @ - 1]
  /\ UNCHANGED <<pid, fail_count, index, mem, status, data, req, ptr, reg,
                 down_ret, ret, result, late, serverVars, netVars>>

(* down in place of down_timeout, as the line commented out has it. *)
DownTimedOut_Never(t) == FALSE /\ UNCHANGED vars

(* SEM_WAIT_CYCLE jiffies passed: down_timeout returns -ETIME. *)
DownTimedOut(t) ==
  /\ Goto(t, "down", "load")
  /\ sem[ptr[t]] = 0
  /\ down_ret' = [down_ret EXCEPT ![t] = "ETIME"]
  /\ UNCHANGED <<pid, fail_count, index, heapVars, req, ptr, reg, ret, result,
                 late, serverVars, netVars>>

(* fail_count += 1 takes no lock: a load and a store. *)
LoadFailCount(t) ==
  /\ Goto(t, "load", "store")
  /\ reg' = [reg EXCEPT ![t] = fail_count]
  /\ UNCHANGED <<pid, fail_count, index, heapVars, req, ptr, down_ret, ret,
                 result, late, serverVars, netVars>>

StoreFailCount(t) ==
  /\ Goto(t, "store", "test")
  /\ fail_count' = reg[t] + 1
  /\ reg' = [reg EXCEPT ![t] = 0]
  /\ UNCHANGED <<pid, index, heapVars, req, ptr, down_ret, ret, result,
                 late, serverVars, netVars>>

TooManyFailures_OffByOne == fail_count > FailLimit

TooManyFailures == fail_count >= FailLimit

TestFailCount(t) ==
  /\ pc[t] = "test"
  /\ pc' = [pc EXCEPT ![t] = IF TooManyFailures THEN "drop" ELSE "status"]
  /\ UNCHANGED <<pid, fail_count, index, heapVars, req, ptr, reg, down_ret, ret,
                 result, late, serverVars, netVars>>

(* pid = -1, whichever server pid names by now. *)
DropConnection(t) ==
  /\ Goto(t, "drop", "reset")
  /\ pid' = NoServer
  /\ UNCHANGED <<fail_count, index, heapVars, req, ptr, reg, down_ret, ret,
                 result, late, serverVars, netVars>>

(* The two values of the reset exchanged. *)
ResetFailCount_Exchanged(t) ==
  /\ Goto(t, "reset", "status")
  /\ fail_count' = -1
  /\ UNCHANGED <<pid, index, heapVars, req, ptr, reg, down_ret, ret, result,
                 late, serverVars, netVars>>

ResetFailCount(t) ==
  /\ Goto(t, "reset", "status")
  /\ fail_count' = 0
  /\ UNCHANGED <<pid, index, heapVars, req, ptr, reg, down_ret, ret, result,
                 late, serverVars, netVars>>

(* kfree ahead of the test, the order of kernel/netlink.c. *)
ReadStatus_FreesFirst(t) ==
  /\ pc[t] = "status"
  /\ pc' = [pc EXCEPT ![t] = IF status[ptr[t]] = "LOADED" THEN "data" ELSE "free"]
  /\ mem' = [mem EXCEPT ![ptr[t]] = "freed"]
  /\ UNCHANGED <<pid, fail_count, index, status, data, sem, req, ptr, reg,
                 down_ret, ret, result, late, serverVars, netVars>>

ReadStatus(t) ==
  /\ pc[t] = "status"
  /\ pc' = [pc EXCEPT ![t] = IF status[ptr[t]] = "LOADED" THEN "data" ELSE "free"]
  /\ UNCHANGED <<pid, fail_count, index, heapVars, req, ptr, reg, down_ret, ret,
                 result, late, serverVars, netVars>>

(* The successful return, which leaves the cell allocated. *)
ReadData(t) ==
  /\ Goto(t, "data", "return")
  /\ result' = [result EXCEPT ![t] = data[ptr[t]]]
  /\ ret' = [ret EXCEPT ![t] = "SUCCESS"]
  /\ UNCHANGED <<pid, fail_count, index, heapVars, req, ptr, reg, down_ret,
                 late, serverVars, netVars>>

(* kfree and the unsuccessful return.  kfree leaves the cell's bits alone. *)
FreeSemMsg(t) ==
  /\ Goto(t, "free", "return")
  /\ mem' = [mem EXCEPT ![ptr[t]] = "freed"]
  /\ ret' = [ret EXCEPT ![t] = "ERROR"]
  /\ UNCHANGED <<pid, fail_count, index, status, data, sem, req, ptr, reg,
                 down_ret, result, late, serverVars, netVars>>

(* The hook has acted on ret and result: the stack frame is gone. *)
Return(t) ==
  /\ Goto(t, "return", "idle")
  /\ req' = [req EXCEPT ![t] = NoCheck]
  /\ ptr' = [ptr EXCEPT ![t] = NoCell]
  /\ down_ret' = [down_ret EXCEPT ![t] = "ok"]
  /\ ret' = [ret EXCEPT ![t] = "none"]
  /\ result' = [result EXCEPT ![t] = Unset]
  /\ late' = [late EXCEPT ![t] = {}]
  /\ UNCHANGED <<pid, fail_count, index, heapVars, reg, serverVars, netVars>>

Call(t) == \E r \in Requests : CheckOnline(t, r)

CallRuns(t) ==
  \/ AllocSemMsg(t)
  \/ SendCheck(t)
  \/ DownAcquired(t)
  \/ DownTimedOut(t)
  \/ LoadFailCount(t)
  \/ StoreFailCount(t)
  \/ TestFailCount(t)
  \/ DropConnection(t)
  \/ ResetFailCount(t)
  \/ ReadStatus(t)
  \/ ReadData(t)
  \/ FreeSemMsg(t)
  \/ Return(t)

(* Another user of kmalloc writes over a freed cell. *)
Overwrite(c) ==
  /\ mem[c] = "freed"
  /\ status' = [status EXCEPT ![c] = "other"]
  /\ UNCHANGED <<pid, fail_count, index, mem, data, sem, callerVars, serverVars,
                 netVars>>

------------------------------------------------------------------------------
(* The server process. *)

SGoto(s, from, to) == spc[s] = from /\ spc' = [spc EXCEPT ![s] = to]

SocketInit(s) ==
  /\ SGoto(s, "off", "bound")
  /\ UNCHANGED <<pid, fail_count, index, heapVars, callerVars, buf, connect_ret,
                 netVars>>

(* connect sends CONNECT; the kernel's handler makes the sender the server, *)
ConnectSetPid(s) ==
  /\ NumbersLeft
  /\ SGoto(s, "bound", "k_confirm")
  /\ pid' = s
  /\ UNCHANGED <<fail_count, index, heapVars, callerVars, buf, connect_ret,
                 netVars>>

(* unless the message could not be sent: then connect returns an error, and  *)
(* main enters its loop all the same.                                        *)
ConnectUnsent(s) ==
  /\ SGoto(s, "bound", "loop")
  /\ connect_ret' = [connect_ret EXCEPT ![s] = "ERROR"]
  /\ UNCHANGED <<pid, fail_count, index, heapVars, callerVars, buf, netVars>>

(* No confirmation. *)
ConnectConfirm_Forgotten(s) ==
  /\ SGoto(s, "k_confirm", "k_reset")
  /\ UNCHANGED <<pid, fail_count, index, heapVars, callerVars, buf, connect_ret,
                 netVars>>

(* The handler confirms to whoever pid names by now, *)
ConnectConfirm(s) ==
  /\ SGoto(s, "k_confirm", "k_reset")
  /\ index' = index + 1
  /\ k2u_send(pid, ConfirmMsg)
  /\ UNCHANGED <<pid, fail_count, heapVars, callerVars, buf, connect_ret>>

(* and forgets earlier failures. *)
ConnectResetFail(s) ==
  /\ SGoto(s, "k_reset", "await")
  /\ fail_count' = 0
  /\ UNCHANGED <<pid, index, heapVars, callerVars, buf, connect_ret, netVars>>

(* connect takes one message, or the pending error, for the answer; after   *)
(* an error it looks at a buffer nothing has written.  main ignores what     *)
(* connect returns and enters its loop.                                      *)
ConnectRecv(s) ==
  /\ SGoto(s, "await", "loop")
  /\ \E type \in {"CHECK", "CONNECT_CONFIRM"} :
       /\ \/ RecvFails(s)
          \/ RecvTakes(s) /\ type = Head(inbox[s]).type
       /\ connect_ret' = [connect_ret EXCEPT ![s] =
                            IF type = "CONNECT_CONFIRM" THEN "SUCCESS" ELSE "ERROR"]
  /\ UNCHANGED <<pid, fail_count, index, heapVars, callerVars, buf>>

(* recv in the loop.  A failed recv leaves the last message in the buffer,  *)
(* and main hands the buffer to msg_handle all the same.                    *)
Recv(s) ==
  /\ SGoto(s, "loop", "handle")
  /\ \/ RecvFails(s) /\ UNCHANGED buf
     \/ RecvTakes(s) /\ buf' = [buf EXCEPT ![s] = Head(inbox[s])]
  /\ UNCHANGED <<pid, fail_count, index, heapVars, callerVars, connect_ret>>

(* The test left out. *)
AwaitsResult_Unchecked(c) == TRUE

(* msg_handle decides a check and sends RESULT; the kernel's handler looks  *)
(* whether the cell the answer names still waits for one.                   *)
AwaitsResult(c) == status[c] = "READY"

HandleMsg(s) ==
  /\ spc[s] = "handle"
  /\ spc' = [spc EXCEPT ![s] =
               IF buf[s].type = "CHECK" /\ AwaitsResult(buf[s].ptr)
               THEN "k_loaded" ELSE "loop"]
  /\ UNCHANGED <<pid, fail_count, index, heapVars, callerVars, buf, connect_ret,
                 netVars>>

(* msg_handle does not look at what send returned: the check stays unanswered. *)
AnswerUnsent(s) ==
  /\ SGoto(s, "handle", "loop")
  /\ buf[s].type = "CHECK"
  /\ UNCHANGED <<pid, fail_count, index, heapVars, callerVars, buf, connect_ret,
                 netVars>>

(* up ahead of the data. *)
ResultSetStatus_WakesFirst(s) ==
  /\ SGoto(s, "k_loaded", "k_data")
  /\ status' = [status EXCEPT ![buf[s].ptr] = "LOADED"]
  /\ sem' = [sem EXCEPT ![buf[s].ptr] = 1]
  /\ UNCHANGED <<pid, fail_count, index, mem, data, callerVars, buf,
                 connect_ret, netVars>>

(* The handler's three writes for a RESULT, in the order of the source. *)
ResultSetStatus(s) ==
  /\ SGoto(s, "k_loaded", "k_data")
  /\ status' = [status EXCEPT ![buf[s].ptr] = "LOADED"]
  /\ UNCHANGED <<pid, fail_count, index, mem, data, sem, callerVars, buf,
                 connect_ret, netVars>>

ResultSetData(s) ==
  /\ SGoto(s, "k_data", "k_up")
  /\ data' = [data EXCEPT ![buf[s].ptr] = Verdict(buf[s].req)]
  /\ UNCHANGED <<pid, fail_count, index, mem, status, sem, callerVars, buf,
                 connect_ret, netVars>>

ResultUp(s) ==
  /\ SGoto(s, "k_up", "loop")
  /\ sem' = [sem EXCEPT ![buf[s].ptr] = @ + 1]
  /\ UNCHANGED <<pid, fail_count, index, mem, status, data, callerVars, buf,
                 connect_ret, netVars>>

(* The tail of main: disconnect, whose message closes the connection         *)
(* whichever server holds it, and then socket_release.                       *)
DisconnectSetPid(s) ==
  /\ ServersLeave
  /\ SGoto(s, "loop", "k_bye")
  /\ pid' = NoServer
  /\ UNCHANGED <<fail_count, index, heapVars, callerVars, buf, connect_ret,
                 netVars>>

DisconnectUnsent(s) ==
  /\ ServersLeave
  /\ SGoto(s, "loop", "leaving")
  /\ UNCHANGED <<pid, fail_count, index, heapVars, callerVars, buf, connect_ret,
                 netVars>>

DisconnectResetFail(s) ==
  /\ SGoto(s, "k_bye", "leaving")
  /\ fail_count' = 0
  /\ UNCHANGED <<pid, index, heapVars, callerVars, buf, connect_ret, netVars>>

(* The process is gone, and its socket and queue with it.  The kernel        *)
(* module is not told.                                                       *)
Close(s) ==
  /\ spc' = [spc EXCEPT ![s] = "dead"]
  /\ buf' = [buf EXCEPT ![s] = NoMsg]
  /\ connect_ret' = [connect_ret EXCEPT ![s] = "none"]
  /\ inbox' = [inbox EXCEPT ![s] = <<>>]
  /\ overrun' = [overrun EXCEPT ![s] = "no"]
  /\ UNCHANGED <<pid, fail_count, index, heapVars, callerVars>>

SocketRelease(s) == spc[s] = "leaving" /\ Close(s)

(* A process dies in user mode or asleep, not in the kernel's handler. *)
Crash(s) == spc[s] \in {"bound", "await", "loop", "handle"} /\ Close(s)

ServerRuns(s) ==
  \/ ConnectSetPid(s)
  \/ ConnectUnsent(s)
  \/ ConnectConfirm(s)
  \/ ConnectResetFail(s)
  \/ ConnectRecv(s)
  \/ Recv(s)
  \/ HandleMsg(s)
  \/ AnswerUnsent(s)
  \/ ResultSetStatus(s)
  \/ ResultSetData(s)
  \/ ResultUp(s)
  \/ DisconnectResetFail(s)
  \/ SocketRelease(s)

ServerStep(s) ==
  \/ SocketInit(s)
  \/ ServerRuns(s)
  \/ DisconnectSetPid(s)
  \/ DisconnectUnsent(s)
  \/ Crash(s)

Next ==
  \/ \E t \in Callers : Call(t) \/ CallRuns(t)
  \/ \E c \in Cells : Overwrite(c)
  \/ \E s \in Servers : ServerStep(s)

Spec == Init /\ [][Next]_vars

(***************************************************************************)
(* The scheduler runs every thread that can run, and down_timeout returns. *)
(* Nothing makes a thread call, a server start or leave, or a server crash.*)
(***************************************************************************)
Fairness ==
  /\ \A t \in Callers : WF_vars(CallRuns(t))
  /\ \A s \in Servers : WF_vars(ServerRuns(s))

FairSpec == Spec /\ Fairness

------------------------------------------------------------------------------
(* Properties. *)

(* Three timeouts close the connection: the count never stays at the limit   *)
(* without a caller on its way to the reset, however the unlocked increments *)
(* of fail_count interleave.                                                 *)
FailCountSettled ==
  fail_count >= FailLimit =>
    \E t \in Callers : pc[t] \in {"test", "drop", "reset"}

(* The cell of a call is allocated as long as check_privilege uses it, and   *)
(* no other call has the same one.                                           *)
CellOwned ==
  \A t \in Callers : UsesCell(t) =>
    /\ mem[ptr[t]] = "used"
    /\ \A u \in Callers \ {t} : UsesCell(u) => ptr[u] # ptr[t]

(* No check is answered twice, though a server may handle a message again    *)
(* after a failed recv, and may be one of several: up is called at most once *)
(* for a call that no earlier check can disturb.  A call that waits in the   *)
(* cell of a check that was given up, and not forgotten, is the exception.   *)
Woken(t) == pc[t] \in {"status", "data", "free"} /\ down_ret[t] = "ok"

AnsweredOnce ==
  \A t \in Callers : UsesCell(t) /\ late[t] = {} =>
    sem[ptr[t]] <= IF Woken(t) THEN 0 ELSE 1

(* check_privilege tells a hook the verdict of the caller's own check if the *)
(* answer came in time, and reports an error only after a timeout.  Only the *)
(* answers to checks that were given up in the same cell, and were still on  *)
(* their way when the call began, can bring it anything else: the verdict of *)
(* one of them, or a wake-up with nothing to read.                           *)
Verdicts(checks) == {Verdict(r) : r \in checks}

ExactVerdict ==
  \A t \in Callers : pc[t] = "return" =>
    /\ ret[t] = "ERROR" => down_ret[t] = "ETIME" \/ late[t] # {}
    /\ ret[t] = "SUCCESS" =>
         \/ result[t] \in {Verdict(req[t])} \cup Verdicts(late[t])
         \/ result[t] = Unset /\ (down_ret[t] = "ETIME" \/ late[t] # {})

(* The channel keeps the promise of PrivilegeCheck to the hooks, however     *)
(* many servers come and go and whichever addresses kmalloc returns.  What   *)
(* may still come late: the checks on their way about a cell that is free,   *)
(* and those that a call in progress may meet.                               *)
StrayChecks ==
  {r \in Requests : \/ \E c \in Cells : mem[c] = "freed" /\ r \in ChecksAbout(c)
                    \/ \E t \in Callers : r \in late[t]}

Abstract == INSTANCE PrivilegeCheck WITH
  asked  <- req,
  answer <- [t \in Callers |->
              [ret |-> ret[t], result |-> result[t],
               down_ret |-> IF pc[t] = "return" THEN down_ret[t] ELSE "ok",
               late |-> IF pc[t] = "return" THEN Verdicts(late[t]) ELSE {}]],
  strays <- Verdicts(StrayChecks)

KeepsPromise == Abstract!PCSpec

(* Every system call that asks for a privilege gets an outcome, whatever     *)
(* becomes of the server.                                                    *)
CheckReturns == \A t \in Callers : pc[t] # "idle" ~> pc[t] = "idle"

(* connect gets something to return, even if the connection is dropped       *)
(* before it is confirmed: the checks that timed out are in the queue then.  *)
(* Holds for one server at a time.                                           *)
ConnectReturns == \A s \in Servers : spc[s] = "k_confirm" ~> spc[s] \in {"loop", "dead"}

------------------------------------------------------------------------------
(* What comments of the source say and the code does not do. *)

(* "same values as prm_msg.result_type" (struct sem_msg): a successful check *)
(* has a verdict for its result.                                             *)
ResultIsAVerdict ==
  \A t \in Callers : pc[t] = "return" /\ ret[t] = "SUCCESS" => result[t] \in Results

(* "message identifier" (prm_msg.sem_msg_ptr): an answer finds the check it  *)
(* is the answer to.                                                         *)
OwnVerdict ==
  \A t \in Callers :
    pc[t] = "return" /\ ret[t] = "SUCCESS" /\ result[t] \in Results
      => result[t] = Verdict(req[t])

=============================================================================
