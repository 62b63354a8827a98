--------------------------- MODULE PrmChannelProofs ---------------------------
(***************************************************************************)
(* Proofs about PrmChannel, for any number of callers, servers and cells.  *)
(***************************************************************************)
EXTENDS PrmChannel, SequenceTheorems, TLAPS

------------------------------------------------------------------------------
(* Type correctness. *)

(* Messages and their parts, for the provers. *)
LEMMA MessageTypes ==
  /\ \A m \in Messages : m.type = "CHECK" => m \in CheckMsgs
  /\ \A m \in CheckMsgs : m \in Messages /\ m.req \in Requests /\ m.ptr \in Cells
  /\ ConfirmMsg \in Messages
  /\ NoMsg.type # "CHECK"
PROOF
  BY DEF Messages, CheckMsgs, ConfirmMsg, NoMsg

LEMMA VerdictType == \A r : Verdict(r) \in Results
PROOF
  BY DEF Verdict, Results, PASS, NOTPASS

(* A message of the right type leaves the sockets well-typed. *)
LEMMA SendType ==
  ASSUME Typed, NEW d, NEW m \in Messages, k2u_send(d, m)
  PROVE  /\ inbox' \in [Servers -> Seq(Messages)]
         /\ overrun' \in [Servers -> {"no", "pending", "reported"}]
PROOF
  <1>1. CASE HasSocket(d) /\ Takes(d)
    <2>1. d \in Servers /\ inbox[d] \in Seq(Messages)
      BY <1>1 DEF HasSocket, Typed
    <2>2. Append(inbox[d], m) \in Seq(Messages)
      BY <2>1, AppendProperties
    <2>3. inbox' = [inbox EXCEPT ![d] = Append(inbox[d], m)] /\ overrun' = overrun
      BY <1>1 DEF k2u_send
    <2> QED BY <2>1, <2>2, <2>3 DEF Typed
  <1>2. CASE HasSocket(d) /\ ~Takes(d)
    <2>1. /\ overrun' = [overrun EXCEPT ![d] = IF overrun[d] = "no" THEN "pending"
                                               ELSE overrun[d]]
          /\ inbox' = inbox /\ d \in Servers
      BY <1>2 DEF k2u_send, HasSocket
    <2> QED BY <2>1 DEF Typed
  <1>3. CASE ~HasSocket(d)
    BY <1>3 DEF Typed, k2u_send, netVars
  <1> QED BY <1>1, <1>2, <1>3

LEMMA RecvType ==
  ASSUME Typed, NEW s \in Servers, RecvTakes(s)
  PROVE  /\ inbox' \in [Servers -> Seq(Messages)]
         /\ overrun' \in [Servers -> {"no", "pending", "reported"}]
         /\ Head(inbox[s]) \in Messages
PROOF
  <1>1. inbox[s] \in Seq(Messages) /\ inbox[s] # <<>>
    BY DEF Typed, RecvTakes
  <1>2. Head(inbox[s]) \in Messages /\ Tail(inbox[s]) \in Seq(Messages)
    BY <1>1, HeadTailProperties
  <1>3. /\ inbox' = [inbox EXCEPT ![s] = Tail(inbox[s])]
        /\ overrun' = [overrun EXCEPT ![s] = IF Tail(inbox[s]) = <<>> THEN "no"
                                             ELSE overrun[s]]
    BY DEF RecvTakes
  <1> QED BY <1>2, <1>3 DEF Typed

(* The checks on their way about a cell are requests. *)
LEMMA ChecksAboutType ==
  ASSUME Typed, NEW c PROVE ChecksAbout(c) \subseteq Requests
PROOF
  <1>1. ASSUME NEW m \in Mail PROVE m \in Messages \cup {NoMsg}
    <2>1. ASSUME NEW s \in Servers PROVE buf[s] \in Messages \cup {NoMsg}
      BY DEF Typed
    <2>2. ASSUME NEW s \in Servers, NEW i \in 1 .. Len(inbox[s])
          PROVE  inbox[s][i] \in Messages
      <3>1. inbox[s] \in Seq(Messages)
        BY DEF Typed
      <3> QED BY <3>1, ElementOfSeq
    <2> QED BY <2>1, <2>2 DEF Mail
  <1>2. \A m \in Mail : About(m, c) => m.req \in Requests
    BY <1>1, MessageTypes DEF About
  <1> QED BY <1>2 DEF ChecksAbout

LEMMA TypeInit == ChannelAssumption /\ Init => TypeOK
PROOF
  <1> SUFFICES ASSUME ChannelAssumption, Init PROVE TypeOK
    OBVIOUS
  <1>1. <<>> \in Seq(Messages)
    BY EmptySeq
  <1>2. Typed
    BY <1>1 DEF Init, Typed, ChannelAssumption, CallerPCs, ServerPCs
  <1>3. LocalsOK
    BY DEF Init, LocalsOK, UsesCell, InHandler
  <1> QED BY <1>2, <1>3 DEF TypeOK

LEMMA TypeCalls ==
  ASSUME ChannelAssumption, TypeOK, NEW t \in Callers, Call(t) \/ CallRuns(t)
  PROVE  TypeOK'
PROOF
  <1> USE DEF TypeOK, Typed, LocalsOK, UsesCell, InHandler, Goto, heapVars,
              serverVars, netVars, CallerPCs, Results
  <1>1. ASSUME NEW r \in Requests, CheckOnline(t, r) PROVE TypeOK'
    <2>1. /\ pc' \in [Callers -> CallerPCs]
          /\ req' \in [Callers -> Requests \cup {NoCheck}]
          /\ ret' \in [Callers -> {"none", "SERVEROFFLINE", "ERROR", "SUCCESS"}]
      <3>1. /\ pc' = [pc EXCEPT ![t] = "return"] \/ pc' = [pc EXCEPT ![t] = "alloc"]
            /\ req' = [req EXCEPT ![t] = r]
            /\ ret' = [ret EXCEPT ![t] = "SERVEROFFLINE"] \/ ret' = ret
        BY <1>1, Zenon DEF CheckOnline
      <3> QED BY <3>1, ZenonT(30)
    <2>2. Typed'
      BY <1>1, <2>1 DEF CheckOnline
    <2>3. \A u \in Callers : UsesCell(u)' => UsesCell(u)
      BY <1>1 DEF CheckOnline
    <2>4. LocalsOK'
      BY <1>1, <2>3 DEF CheckOnline
    <2> QED BY <2>2, <2>4
  <1>2. CASE AllocSemMsg(t)
    <2>1. PICK c \in Cells :
            /\ ptr' = [ptr EXCEPT ![t] = c] /\ mem' = [mem EXCEPT ![c] = "used"]
            /\ InitSemMsg(c) /\ late' = [late EXCEPT ![t] = ChecksAbout(c)]
      BY <1>2 DEF AllocSemMsg, FreeCells
    <2>2. late' \in [Callers -> SUBSET Requests]
      BY <2>1, ChecksAboutType
    <2>3. Typed'
      BY <1>2, <2>1, <2>2 DEF AllocSemMsg, InitSemMsg
    <2>4. LocalsOK'
      BY <1>2, <2>1 DEF AllocSemMsg
    <2> QED BY <2>3, <2>4
  <1>3. CASE SendCheck(t)
    <2>1. [type |-> "CHECK", req |-> req[t], ptr |-> ptr[t]] \in Messages
      BY <1>3 DEF SendCheck, Messages, CheckMsgs
    <2>2. /\ inbox' \in [Servers -> Seq(Messages)]
          /\ overrun' \in [Servers -> {"no", "pending", "reported"}]
      BY <1>3, <2>1, SendType DEF SendCheck
    <2> QED BY <1>3, <2>2 DEF SendCheck
  <1>4. CASE DownAcquired(t)
    <2>1. sem' \in [Cells -> Nat]
      <3>1. ptr[t] \in Cells /\ sem[ptr[t]] \in Nat /\ sem[ptr[t]] > 0
        BY <1>4 DEF DownAcquired
      <3>2. sem[ptr[t]] - 1 \in Nat
        BY <3>1
      <3>3. sem' = [sem EXCEPT ![ptr[t]] = sem[ptr[t]] - 1]
        BY <1>4 DEF DownAcquired
      <3> QED BY <3>2, <3>3
    <2>2. Typed'
      BY <1>4, <2>1 DEF DownAcquired
    <2>3. LocalsOK'
      BY <1>4 DEF DownAcquired
    <2> QED BY <2>2, <2>3
  <1>5. CASE DownTimedOut(t)
    BY <1>5 DEF DownTimedOut
  <1>6. CASE LoadFailCount(t)
    BY <1>6 DEF LoadFailCount
  <1>7. CASE StoreFailCount(t)
    BY <1>7 DEF StoreFailCount
  <1>8. CASE TestFailCount(t)
    BY <1>8 DEF TestFailCount
  <1>9. CASE DropConnection(t)
    BY <1>9 DEF DropConnection
  <1>10. CASE ResetFailCount(t)
    BY <1>10 DEF ResetFailCount
  <1>11. CASE ReadStatus(t)
    BY <1>11 DEF ReadStatus
  <1>12. CASE ReadData(t)
    BY <1>12, ZenonT(30) DEF ReadData
  <1>13. CASE FreeSemMsg(t)
    BY <1>13, ZenonT(30) DEF FreeSemMsg
  <1>14. CASE Return(t)
    BY <1>14 DEF Return
  <1> QED
    BY <1>1, <1>2, <1>3, <1>4, <1>5, <1>6, <1>7, <1>8, <1>9, <1>10, <1>11,
       <1>12, <1>13, <1>14 DEF Call, CallRuns

LEMMA TypeServers ==
  ASSUME ChannelAssumption, TypeOK, NEW s \in Servers, ServerStep(s)
  PROVE  TypeOK'
PROOF
  <1> USE DEF TypeOK, Typed, LocalsOK, UsesCell, InHandler, SGoto, heapVars,
              callerVars, netVars, ServerPCs
  <1>1. CASE SocketInit(s)
    BY <1>1 DEF SocketInit
  <1>2. CASE ConnectSetPid(s)
    BY <1>2 DEF ConnectSetPid
  <1>3. CASE ConnectConfirm(s)
    <2>1. /\ inbox' \in [Servers -> Seq(Messages)]
          /\ overrun' \in [Servers -> {"no", "pending", "reported"}]
      BY <1>3, MessageTypes, SendType DEF ConnectConfirm
    <2>2. Typed'
      <3>1. index' \in Nat /\ spc' \in [Servers -> ServerPCs]
        BY <1>3 DEF ConnectConfirm
      <3>2. UNCHANGED <<pid, fail_count, heapVars, callerVars, buf, connect_ret>>
        BY <1>3 DEF ConnectConfirm
      <3> QED BY <2>1, <3>1, <3>2
    <2>3. LocalsOK'
      BY <1>3 DEF ConnectConfirm
    <2> QED BY <2>2, <2>3
  <1>4. CASE ConnectResetFail(s)
    BY <1>4 DEF ConnectResetFail
  <1>5. CASE ConnectRecv(s)
    <2>1. /\ inbox' \in [Servers -> Seq(Messages)]
          /\ overrun' \in [Servers -> {"no", "pending", "reported"}]
      <3>1. CASE RecvFails(s)
        BY <3>1 DEF RecvFails
      <3>2. CASE RecvTakes(s)
        BY <3>2, RecvType
      <3> QED BY <1>5, <3>1, <3>2, Zenon DEF ConnectRecv
    <2>2. connect_ret' \in [Servers -> {"none", "SUCCESS", "ERROR"}]
      BY <1>5 DEF ConnectRecv
    <2>3. Typed'
      BY <1>5, <2>1, <2>2 DEF ConnectRecv
    <2>4. LocalsOK'
      BY <1>5 DEF ConnectRecv
    <2> QED BY <2>3, <2>4
  <1>6. CASE Recv(s)
    <2>1. /\ inbox' \in [Servers -> Seq(Messages)]
          /\ overrun' \in [Servers -> {"no", "pending", "reported"}]
          /\ buf' \in [Servers -> Messages \cup {NoMsg}]
      <3>1. CASE RecvFails(s) /\ UNCHANGED buf
        BY <3>1 DEF RecvFails
      <3>2. CASE RecvTakes(s) /\ buf' = [buf EXCEPT ![s] = Head(inbox[s])]
        BY <3>2, RecvType
      <3> QED BY <1>6, <3>1, <3>2 DEF Recv
    <2>2. \A u \in Servers : InHandler(u)' => InHandler(u) /\ buf'[u] = buf[u]
      BY <1>6 DEF Recv
    <2> QED BY <1>6, <2>1, <2>2 DEF Recv
  <1>7. CASE HandleMsg(s)
    BY <1>7, MessageTypes DEF HandleMsg
  <1>8. CASE ResultSetStatus(s)
    BY <1>8 DEF ResultSetStatus
  <1>9. CASE ResultSetData(s)
    BY <1>9, VerdictType DEF ResultSetData
  <1>10. CASE ResultUp(s)
    <2>1. sem' \in [Cells -> Nat]
      BY <1>10, MessageTypes DEF ResultUp
    <2>2. Typed'
      BY <1>10, <2>1 DEF ResultUp
    <2>3. LocalsOK'
      BY <1>10 DEF ResultUp
    <2> QED BY <2>2, <2>3
  <1>11. CASE DisconnectSetPid(s)
    BY <1>11 DEF DisconnectSetPid
  <1>12. CASE DisconnectResetFail(s)
    BY <1>12 DEF DisconnectResetFail
  <1>13. CASE Close(s)
    BY <1>13, EmptySeq DEF Close
  <1>14. CASE ConnectUnsent(s)
    BY <1>14 DEF ConnectUnsent
  <1>15. CASE AnswerUnsent(s)
    BY <1>15 DEF AnswerUnsent
  <1>16. CASE DisconnectUnsent(s)
    BY <1>16 DEF DisconnectUnsent
  <1> QED
    BY <1>1, <1>2, <1>3, <1>4, <1>5, <1>6, <1>7, <1>8, <1>9, <1>10, <1>11,
       <1>12, <1>13, <1>14, <1>15, <1>16 DEF ServerStep, ServerRuns, SocketRelease, Crash

LEMMA TypeOverwrite ==
  ASSUME TypeOK, NEW c \in Cells, Overwrite(c)
  PROVE  TypeOK'
PROOF
  BY DEF Overwrite, TypeOK, Typed, LocalsOK, UsesCell, InHandler, callerVars,
         serverVars, netVars

LEMMA TypeStutter == TypeOK /\ UNCHANGED vars => TypeOK'
PROOF
  BY DEF vars, TypeOK, Typed, LocalsOK, UsesCell, InHandler, heapVars, callerVars,
         serverVars, netVars

LEMMA TypeStep == ChannelAssumption /\ TypeOK /\ [Next]_vars => TypeOK'
PROOF
  BY TypeCalls, TypeServers, TypeOverwrite, TypeStutter DEF Next

(* Every variable keeps the type of the field or local it stands for; a call *)
(* in progress has its arguments and, once allocated, its cell, and the      *)
(* kernel's handler works on a check.                                        *)
THEOREM TypeCorrect == Spec => []TypeOK
PROOF
  BY ChannelAssumption, TypeInit, TypeStep, PTL DEF Spec

------------------------------------------------------------------------------
(* The count of failures. *)

LEMMA FailCountStep ==
  ASSUME TypeOK, FailCountSettled, [Next]_vars
  PROVE  FailCountSettled'
PROOF
  <1> DEFINE Late(t) == pc[t] \in {"test", "drop", "reset"}
  <1>1. SUFFICES ASSUME fail_count' >= FailLimit
                 PROVE  \E t \in Callers : Late(t)'
    BY DEF FailCountSettled
  <1>2. CASE fail_count' = fail_count
    <2>1. fail_count >= FailLimit
      BY <1>1, <1>2
    <2>2. PICK t \in Callers : Late(t)
      BY <2>1 DEF FailCountSettled
    <2>3. CASE pc' = pc
      BY <2>2, <2>3
    <2>4. ASSUME NEW u \in Callers, Call(u) \/ CallRuns(u) PROVE Late(t)'
      <3>1. CASE u # t
        BY <2>2, <2>4, <3>1 DEF TypeOK, Typed, Call, CallRuns, CheckOnline, AllocSemMsg,
           SendCheck, DownAcquired, DownTimedOut, LoadFailCount, StoreFailCount,
           TestFailCount, DropConnection, ResetFailCount, ReadStatus, ReadData,
           FreeSemMsg, Return, Goto
      <3>2. CASE u = t /\ (TestFailCount(t) \/ DropConnection(t))
        BY <2>1, <3>2 DEF TestFailCount, TooManyFailures, DropConnection, Goto,
           TypeOK, Typed
      <3>3. CASE u = t /\ ResetFailCount(t)
        BY <1>1, <3>3 DEF ResetFailCount, FailLimit
      <3>4. CASE u = t /\ ~(TestFailCount(t) \/ DropConnection(t) \/ ResetFailCount(t))
        BY <2>2, <2>4, <3>4 DEF Call, CallRuns, CheckOnline, AllocSemMsg,
           SendCheck, DownAcquired, DownTimedOut, LoadFailCount, StoreFailCount,
           ReadStatus, ReadData, FreeSemMsg, Return, Goto
      <3> QED BY <3>1, <3>2, <3>3, <3>4
    <2>5. ASSUME NEW s \in Servers, ServerStep(s) PROVE pc' = pc
      BY <2>5 DEF ServerStep, ServerRuns, SocketInit, ConnectUnsent,
         ConnectSetPid, ConnectConfirm,
         ConnectResetFail, ConnectRecv, Recv, HandleMsg, ResultSetStatus,
         ResultSetData, ResultUp, DisconnectSetPid,
         AnswerUnsent, DisconnectUnsent, DisconnectResetFail,
         SocketRelease, Crash, Close, callerVars
    <2>6. ASSUME NEW c \in Cells, Overwrite(c) PROVE pc' = pc
      BY <2>6 DEF Overwrite, callerVars
    <2>7. CASE UNCHANGED vars
      BY <2>2, <2>7 DEF vars, callerVars
    <2> QED BY <2>2, <2>3, <2>4, <2>5, <2>6, <2>7 DEF Next
  <1>3. CASE fail_count' # fail_count
    <2>1. ASSUME NEW u \in Callers, Call(u) \/ CallRuns(u)
          PROVE  StoreFailCount(u) \/ fail_count' = 0
      BY <1>3, <2>1 DEF Call, CallRuns, CheckOnline, AllocSemMsg, SendCheck,
         DownAcquired, DownTimedOut, LoadFailCount, TestFailCount, DropConnection,
         ResetFailCount, ReadStatus, ReadData, FreeSemMsg, Return
    <2>2. ASSUME NEW s \in Servers, ServerStep(s) PROVE fail_count' = 0
      BY <1>3, <2>2 DEF ServerStep, ServerRuns, SocketInit, ConnectUnsent,
         ConnectSetPid,
         ConnectConfirm, ConnectResetFail, ConnectRecv, Recv, HandleMsg,
         ResultSetStatus, ResultSetData, ResultUp, DisconnectSetPid,

         AnswerUnsent, DisconnectUnsent, DisconnectResetFail, SocketRelease, Crash, Close
    <2>3. ASSUME NEW c \in Cells, Overwrite(c) PROVE FALSE
      BY <1>3, <2>3 DEF Overwrite
    <2>4. fail_count' # 0
      BY <1>1 DEF FailLimit
    <2>5. PICK u \in Callers : StoreFailCount(u)
      BY <1>3, <2>1, <2>2, <2>3, <2>4 DEF Next, vars
    <2>6. Late(u)'
      BY <2>5 DEF StoreFailCount, Goto, TypeOK, Typed
    <2> QED BY <2>6
  <1> QED BY <1>2, <1>3

(* The count of timeouts does not stay at the limit of check_privilege       *)
(* without a caller on its way to drop the connection and reset it, though   *)
(* fail_count += 1 and the resets of four other places take no lock.         *)
THEOREM FailCountSettles == Spec => []FailCountSettled
PROOF
  <1>1. Init => FailCountSettled
    BY DEF Init, FailCountSettled, FailLimit
  <1>2. TypeOK /\ FailCountSettled /\ [Next]_vars => FailCountSettled'
    BY FailCountStep
  <1> QED BY <1>1, <1>2, TypeCorrect, PTL DEF Spec

------------------------------------------------------------------------------
(* Who owns a cell. *)

LEMMA CellOwnedStep ==
  ASSUME TypeOK, CellOwned, [Next]_vars
  PROVE  CellOwned'
PROOF
  <1> USE DEF CellOwned, UsesCell
  <1>1. ASSUME NEW t \in Callers, AllocSemMsg(t) PROVE CellOwned'
    <2>1. PICK c \in FreeCells :
            /\ ptr' = [ptr EXCEPT ![t] = c]
            /\ mem' = [mem EXCEPT ![c] = "used"]
      BY <1>1 DEF AllocSemMsg
    <2>2. c \in Cells /\ mem[c] # "used"
      BY <2>1 DEF FreeCells
    <2>3. pc[t] = "alloc" /\ pc' = [pc EXCEPT ![t] = "send"]
      BY <1>1 DEF AllocSemMsg, Goto
    <2> QED BY <2>1, <2>2, <2>3 DEF TypeOK, Typed, LocalsOK
  <1>2. ASSUME NEW t \in Callers, FreeSemMsg(t) PROVE CellOwned'
    <2>1. pc[t] = "free" /\ pc' = [pc EXCEPT ![t] = "return"]
      BY <1>2 DEF FreeSemMsg, Goto
    <2>2. mem' = [mem EXCEPT ![ptr[t]] = "freed"] /\ ptr' = ptr
      BY <1>2 DEF FreeSemMsg
    <2>3. ASSUME NEW u \in Callers, UsesCell(u)'
          PROVE  UsesCell(u) /\ u # t /\ ptr[u] # ptr[t]
      BY <2>1, <2>3 DEF TypeOK, Typed
    <2>4. \A u \in Callers : UsesCell(u)' => mem'[ptr[u]] = "used"
      BY <2>2, <2>3 DEF TypeOK, Typed, LocalsOK
    <2> QED BY <2>2, <2>3, <2>4
  <1>3. ASSUME NEW t \in Callers, Return(t) PROVE CellOwned'
    BY <1>3 DEF Return, Goto, TypeOK, Typed, LocalsOK, heapVars
  <1>4. ASSUME UNCHANGED <<mem, ptr>>, \A t \in Callers : UsesCell(t)' => UsesCell(t)
        PROVE  CellOwned'
    BY <1>4
  <1>5. ASSUME NEW t \in Callers, Call(t) \/ CallRuns(t),
               ~AllocSemMsg(t), ~FreeSemMsg(t), ~Return(t)
        PROVE  UNCHANGED <<mem, ptr>> /\ \A u \in Callers : UsesCell(u)' => UsesCell(u)
    BY <1>5 DEF TypeOK, Typed, Call, CallRuns, CheckOnline, SendCheck, DownAcquired,
       DownTimedOut, LoadFailCount, StoreFailCount, TestFailCount, DropConnection,
       ResetFailCount, ReadStatus, ReadData, Goto, heapVars
  <1>6. ASSUME NEW s \in Servers, ServerStep(s) PROVE UNCHANGED <<mem, ptr, pc>>
    BY <1>6 DEF ServerStep, ServerRuns, SocketInit, ConnectUnsent,
       ConnectSetPid, ConnectConfirm,
       ConnectResetFail, ConnectRecv, Recv, HandleMsg, ResultSetStatus,
       ResultSetData, ResultUp, DisconnectSetPid,
       AnswerUnsent, DisconnectUnsent, DisconnectResetFail,
       SocketRelease, Crash, Close, callerVars, heapVars
  <1>7. ASSUME NEW c \in Cells, Overwrite(c) PROVE UNCHANGED <<mem, ptr, pc>>
    BY <1>7 DEF Overwrite, callerVars
  <1>8. CASE UNCHANGED vars
    BY <1>4, <1>8 DEF vars, callerVars, heapVars
  <1> QED BY <1>1, <1>2, <1>3, <1>4, <1>5, <1>6, <1>7, <1>8 DEF Next

(* check_privilege never touches a cell it has freed, nor one that another   *)
(* call has: holds even if kmalloc hands out a freed address at once.        *)
THEOREM CellsAreOwned == Spec => []CellOwned
PROOF
  <1>1. Init => CellOwned
    BY DEF Init, CellOwned, UsesCell
  <1>2. TypeOK /\ CellOwned /\ [Next]_vars => CellOwned'
    BY CellOwnedStep
  <1> QED BY <1>1, <1>2, TypeCorrect, PTL DEF Spec

=============================================================================
