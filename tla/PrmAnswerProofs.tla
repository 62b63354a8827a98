--------------------------- MODULE PrmAnswerProofs ---------------------------
(***************************************************************************)
(* Proofs that a call of check_privilege learns the verdict on its own     *)
(* check unless an earlier one in the same cell disturbs it, that          *)
(* PrmChannel implements PrivilegeCheck, and that no check is answered     *)
(* twice, whether or not kmalloc hands out freed cells.                    *)
(***************************************************************************)
EXTENDS PrmChannelProofs

------------------------------------------------------------------------------
(* Whose answer a cell holds: the parts of the inductive invariant.          *)

(* A call whose cell no earlier check had, or none that is not forgotten. *)
Undisturbed(t) == UsesCell(t) /\ late[t] = {}

(* No message names a cell that was never allocated. *)
FreshUnknown ==
  \A c \in Cells : mem[c] = "fresh" => \A m \in Mail : ~About(m, c)

(* Every message that names the cell of a call carries the call's check, or  *)
(* one that was on its way when the call got the cell.                       *)
MessagesAgree ==
  \A t \in Callers : UsesCell(t) =>
    \A m \in Mail : About(m, ptr[t]) => m.req \in {req[t]} \cup late[t]

(* What the cell of a call can hold: nothing or the verdict of one of these. *)
Readable(t) == {Unset, Verdict(req[t])} \cup Verdicts(late[t])

CellHoldsData == \A t \in Callers : UsesCell(t) => data[ptr[t]] \in Readable(t)

(* If the call is undisturbed, the verdict is there for certain once up has  *)
(* been called or is about to be.                                            *)
Answered(t) == status[ptr[t]] = "LOADED" /\ data[ptr[t]] = Verdict(req[t])

HandlerWritesAnswer(t) ==
  \A s \in Servers : InHandler(s) /\ buf[s].ptr = ptr[t] =>
    /\ spc[s] = "k_data" => status[ptr[t]] = "LOADED"
    /\ spc[s] = "k_up" => Answered(t)

CellHoldsAnswer ==
  \A t \in Callers : Undisturbed(t) =>
    /\ sem[ptr[t]] > 0 => Answered(t)
    /\ HandlerWritesAnswer(t)
    /\ pc[t] \in {"status", "data"} /\ down_ret[t] = "ok" => Answered(t)

(* The locals of a call, by where it is. *)
LateOrDisturbed(t) == down_ret[t] = "ETIME" \/ late[t] # {}

Outcome(t) ==
  \/ ret[t] = "SERVEROFFLINE" /\ result[t] = Unset /\ down_ret[t] = "ok" /\ late[t] = {}
  \/ ret[t] = "ERROR" /\ result[t] = Unset /\ LateOrDisturbed(t)
  \/ ret[t] = "SUCCESS" /\ result[t] \in {Verdict(req[t])} \cup Verdicts(late[t])
  \/ ret[t] = "SUCCESS" /\ result[t] = Unset /\ LateOrDisturbed(t)

Progress(t) ==
  /\ pc[t] = "idle" <=> req[t] = NoCheck
  /\ pc[t] \in {"idle", "alloc"} => late[t] = {}
  /\ pc[t] \in {"idle", "alloc", "send", "down"} => down_ret[t] = "ok"
  /\ pc[t] \in {"load", "store", "test", "drop", "reset"} => down_ret[t] = "ETIME"
  /\ pc[t] = "free" => LateOrDisturbed(t)
  /\ pc[t] # "return" => ret[t] = "none" /\ result[t] = Unset
  /\ pc[t] = "return" => Outcome(t)

CallProgress == \A t \in Callers : Progress(t)

AnswerInv ==
  /\ TypeOK /\ CellOwned /\ FreshUnknown /\ MessagesAgree
  /\ CellHoldsData /\ CellHoldsAnswer /\ CallProgress

------------------------------------------------------------------------------
(* Messages come from k2u_send only. *)

LEMMA MailSent ==
  ASSUME Typed, NEW d, NEW m \in Messages, k2u_send(d, m), buf' = buf
  PROVE  Mail' \subseteq Mail \cup {m}
PROOF
  <1>1. CASE HasSocket(d) /\ Takes(d)
    <2>1. d \in Servers /\ inbox[d] \in Seq(Messages)
      BY <1>1 DEF HasSocket, Typed
    <2>2. inbox' = [inbox EXCEPT ![d] = Append(inbox[d], m)]
      BY <1>1 DEF k2u_send
    <2>3. ASSUME NEW s \in Servers, NEW i \in 1 .. Len(inbox'[s])
          PROVE  \/ i \in 1 .. Len(inbox[s]) /\ inbox'[s][i] = inbox[s][i]
                 \/ inbox'[s][i] = m
      <3>1. CASE s = d
        BY <2>1, <2>2, <2>3, <3>1, AppendProperties DEF Typed
      <3>2. CASE s # d
        BY <2>2, <2>3, <3>2 DEF Typed
      <3> QED BY <3>1, <3>2
    <2> QED BY <2>3 DEF Mail
  <1>2. CASE ~(HasSocket(d) /\ Takes(d))
    BY <1>2 DEF k2u_send, netVars, Mail
  <1> QED BY <1>1, <1>2

LEMMA MailReceived ==
  ASSUME Typed, NEW s \in Servers, RecvFails(s) \/ RecvTakes(s)
  PROVE  /\ \A u \in Servers : \A i \in 1 .. Len(inbox'[u]) :
              \E j \in 1 .. Len(inbox[u]) : inbox'[u][i] = inbox[u][j]
         /\ RecvTakes(s) => Head(inbox[s]) \in Mail
PROOF
  <1>1. CASE RecvFails(s)
    BY <1>1 DEF RecvFails, RecvTakes
  <1>2. CASE RecvTakes(s)
    <2>1. /\ inbox[s] \in Seq(Messages) /\ inbox[s] # <<>>
          /\ inbox' = [inbox EXCEPT ![s] = Tail(inbox[s])]
      BY <1>2 DEF RecvTakes, Typed
    <2>2. /\ Len(Tail(inbox[s])) = Len(inbox[s]) - 1
          /\ \A i \in 1 .. Len(Tail(inbox[s])) : Tail(inbox[s])[i] = inbox[s][i+1]
      BY <2>1, HeadTailProperties
    <2>3. Len(inbox[s]) \in Nat /\ Len(inbox[s]) > 0 /\ Head(inbox[s]) = inbox[s][1]
      BY <2>1, EmptySeq, LenProperties
    <2>4. ASSUME NEW u \in Servers, NEW i \in 1 .. Len(inbox'[u])
          PROVE  \E j \in 1 .. Len(inbox[u]) : inbox'[u][i] = inbox[u][j]
      <3>1. CASE u = s
        <4>1. i \in 1 .. Len(Tail(inbox[s])) /\ inbox'[u] = Tail(inbox[s])
          BY <2>1, <2>4, <3>1 DEF Typed
        <4>2. i + 1 \in 1 .. Len(inbox[s])
          BY <2>2, <2>3, <4>1
        <4> QED BY <2>2, <3>1, <4>1, <4>2
      <3>2. CASE u # s
        BY <2>1, <2>4, <3>2 DEF Typed
      <3> QED BY <3>1, <3>2
    <2>5. Head(inbox[s]) \in Mail
      BY <2>3 DEF Mail
    <2> QED BY <2>4, <2>5
  <1> QED BY <1>1, <1>2

LEMMA MailServers ==
  ASSUME TypeOK, NEW s \in Servers, ServerStep(s)
  PROVE  Mail' \subseteq Mail \cup {NoMsg, ConfirmMsg}
PROOF
  <1> USE DEF TypeOK
  <1>1. CASE ConnectConfirm(s)
    BY <1>1, MailSent, MessageTypes DEF ConnectConfirm
  <1>2. CASE ConnectRecv(s)
    <2>1. buf' = buf /\ (RecvFails(s) \/ RecvTakes(s))
      BY <1>2 DEF ConnectRecv
    <2>2. \A u \in Servers : \A i \in 1 .. Len(inbox'[u]) : inbox'[u][i] \in Mail
      BY <2>1, MailReceived DEF Mail
    <2> QED BY <2>1, <2>2 DEF Mail
  <1>3. CASE Recv(s)
    <2>1. /\ RecvFails(s) \/ RecvTakes(s)
          /\ \A u \in Servers : buf'[u] = buf[u] \/ (RecvTakes(s) /\ buf'[u] = Head(inbox[s]))
      BY <1>3 DEF Recv, Typed
    <2>2. \A u \in Servers : buf'[u] \in Mail
      BY <2>1, MailReceived DEF Mail
    <2>3. \A u \in Servers : \A i \in 1 .. Len(inbox'[u]) : inbox'[u][i] \in Mail
      BY <2>1, MailReceived DEF Mail
    <2> QED BY <2>2, <2>3 DEF Mail
  <1>4. CASE Close(s)
    <2>1. /\ \A u \in Servers : buf'[u] \in {buf[u], NoMsg}
          /\ \A u \in Servers : inbox'[u] = inbox[u] \/ inbox'[u] = <<>>
      BY <1>4 DEF Close, Typed
    <2>2. \A u \in Servers : \A i \in 1 .. Len(inbox'[u]) :
            i \in 1 .. Len(inbox[u]) /\ inbox'[u][i] = inbox[u][i]
      BY <2>1
    <2> QED BY <2>1, <2>2 DEF Mail
  <1>5. CASE /\ ServerStep(s) /\ ~ConnectConfirm(s) /\ ~ConnectRecv(s)
             /\ ~Recv(s) /\ ~Close(s)
    BY <1>5 DEF ServerStep, ServerRuns, SocketInit, ConnectUnsent,
       ConnectSetPid, ConnectResetFail,
       HandleMsg, ResultSetStatus, ResultSetData, ResultUp, DisconnectSetPid,
       AnswerUnsent, DisconnectUnsent, DisconnectResetFail, SocketRelease, Crash, netVars, Mail
  <1> QED BY <1>1, <1>2, <1>3, <1>4, <1>5

LEMMA NotAbout == \A c : ~About(NoMsg, c) /\ ~About(ConfirmMsg, c)
PROOF
  BY DEF About, NoMsg, ConfirmMsg

(* The only step that brings a new check on its way. *)
LEMMA MailCalls ==
  ASSUME TypeOK, NEW t \in Callers, Call(t) \/ CallRuns(t)
  PROVE  \/ Mail' = Mail
         \/ /\ pc[t] = "send" /\ UNCHANGED <<mem, ptr, req>>
            /\ pc' = [pc EXCEPT ![t] = "down"]
            /\ Mail' \subseteq Mail \cup
                 {[type |-> "CHECK", req |-> req[t], ptr |-> ptr[t]]}
PROOF
  <1>1. CASE SendCheck(t)
    <2>1. [type |-> "CHECK", req |-> req[t], ptr |-> ptr[t]] \in Messages
      BY <1>1 DEF SendCheck, Goto, TypeOK, LocalsOK, UsesCell, Messages, CheckMsgs
    <2>2. Mail' \subseteq Mail \cup
            {[type |-> "CHECK", req |-> req[t], ptr |-> ptr[t]]}
      BY <1>1, <2>1, MailSent DEF SendCheck, serverVars, TypeOK
    <2> QED BY <1>1, <2>2 DEF SendCheck, Goto, heapVars
  <1>2. CASE ~SendCheck(t)
    <2>1. UNCHANGED <<inbox, buf>>
      BY <1>2 DEF Call, CallRuns, CheckOnline, AllocSemMsg, DownAcquired, DownTimedOut,
         LoadFailCount, StoreFailCount, TestFailCount, DropConnection,
         ResetFailCount, ReadStatus, ReadData, FreeSemMsg, Return, netVars, serverVars
    <2> QED BY <2>1 DEF Mail
  <1> QED BY <1>1, <1>2

(* What the steps of servers and of other users of kmalloc leave alone. *)
LEMMA ServersLeaveCalls ==
  ASSUME NEW s \in Servers, ServerStep(s)
  PROVE  UNCHANGED <<mem, callerVars>>
PROOF
  BY DEF ServerStep, ServerRuns, SocketInit, ConnectUnsent,
     ConnectSetPid, ConnectConfirm,
     ConnectResetFail, ConnectRecv, Recv, HandleMsg, ResultSetStatus,
     ResultSetData, ResultUp, DisconnectSetPid,
     AnswerUnsent, DisconnectUnsent, DisconnectResetFail,
     SocketRelease, Crash, Close, callerVars, heapVars

------------------------------------------------------------------------------
(* Messages and cells. *)

(* A caller keeps its cell and its check, or takes a free cell. *)
TakesCell(t, c) ==
  /\ c \in Cells /\ mem[c] \in {"fresh", "freed"}
  /\ ptr' = [ptr EXCEPT ![t] = c]
  /\ mem' = [mem EXCEPT ![c] = "used"]
  /\ InitSemMsg(c)
  /\ late' = [late EXCEPT ![t] = ChecksAbout(c)]
  /\ pc[t] = "alloc" /\ pc' = [pc EXCEPT ![t] = "send"]
  /\ UNCHANGED <<req, down_ret, spc, buf, inbox>>

LEMMA AllocTakes ==
  ASSUME NEW t \in Callers, AllocSemMsg(t)
  PROVE  \E c \in Cells : TakesCell(t, c)
PROOF
  BY DEF AllocSemMsg, Goto, FreeCells, TakesCell, serverVars, netVars

LEMMA CallKeepsCell ==
  ASSUME TypeOK, NEW t \in Callers, Call(t) \/ CallRuns(t)
  PROVE  /\ \A u \in Callers : UsesCell(u)' =>
              \/ /\ UsesCell(u) /\ ptr'[u] = ptr[u] /\ req'[u] = req[u]
                 /\ late'[u] = late[u]
              \/ u = t /\ AllocSemMsg(t) /\ TakesCell(t, ptr'[t])
         /\ \A c \in Cells : mem'[c] = "fresh" => mem[c] = "fresh"
PROOF
  <1>1. CASE AllocSemMsg(t)
    <2>1. PICK c \in Cells : TakesCell(t, c)
      BY <1>1, AllocTakes
    <2>2. ptr'[t] = c
      BY <2>1 DEF TakesCell, TypeOK, Typed
    <2>3. ASSUME NEW u \in Callers, UsesCell(u)', u # t
          PROVE  UsesCell(u) /\ ptr'[u] = ptr[u] /\ req'[u] = req[u] /\ late'[u] = late[u]
      BY <2>1, <2>3 DEF TakesCell, TypeOK, Typed, UsesCell
    <2>4. \A x \in Cells : mem'[x] = "fresh" => mem[x] = "fresh"
      BY <2>1 DEF TakesCell, TypeOK, Typed
    <2> QED BY <1>1, <2>1, <2>2, <2>3, <2>4
  <1>2. CASE FreeSemMsg(t)
    BY <1>2 DEF FreeSemMsg, Goto, TypeOK, Typed, UsesCell
  <1>3. CASE Return(t)
    BY <1>3 DEF Return, Goto, heapVars, TypeOK, Typed, UsesCell
  <1>4. CASE (Call(t) \/ CallRuns(t)) /\ ~AllocSemMsg(t) /\ ~FreeSemMsg(t) /\ ~Return(t)
    BY <1>4 DEF Call, CallRuns, CheckOnline, SendCheck, DownAcquired, DownTimedOut,
       LoadFailCount, StoreFailCount, TestFailCount, DropConnection,
       ResetFailCount, ReadStatus, ReadData, Goto, heapVars, TypeOK, Typed,
       UsesCell
  <1> QED BY <1>1, <1>2, <1>3, <1>4

LEMMA FreshUnknownStep ==
  ASSUME TypeOK, CellOwned, FreshUnknown, [Next]_vars
  PROVE  FreshUnknown'
PROOF
  <1>1. ASSUME NEW t \in Callers, Call(t) \/ CallRuns(t) PROVE FreshUnknown'
    <2>1. \A c \in Cells : mem'[c] = "fresh" => mem[c] = "fresh"
      BY <1>1, CallKeepsCell
    <2>2. CASE Mail' = Mail
      BY <2>1, <2>2 DEF FreshUnknown
    <2>3. CASE /\ pc[t] = "send"
               /\ Mail' \subseteq Mail \cup
                    {[type |-> "CHECK", req |-> req[t], ptr |-> ptr[t]]}
      <3>1. mem[ptr[t]] = "used"
        BY <2>3 DEF CellOwned, UsesCell
      <3> QED BY <2>1, <2>3, <3>1 DEF FreshUnknown, About
    <2> QED BY <1>1, <2>2, <2>3, MailCalls
  <1>2. ASSUME NEW s \in Servers, ServerStep(s) PROVE FreshUnknown'
    <2>1. mem' = mem /\ Mail' \subseteq Mail \cup {NoMsg, ConfirmMsg}
      BY <1>2, MailServers, ServersLeaveCalls
    <2> QED BY <2>1, NotAbout DEF FreshUnknown
  <1>3. ASSUME NEW c \in Cells, Overwrite(c) PROVE FreshUnknown'
    BY <1>3 DEF Overwrite, FreshUnknown, Mail, netVars, serverVars
  <1>4. CASE UNCHANGED vars
    BY <1>4 DEF vars, FreshUnknown, Mail, netVars, serverVars, heapVars
  <1> QED BY <1>1, <1>2, <1>3, <1>4 DEF Next

LEMMA MessagesAgreeStep ==
  ASSUME TypeOK, CellOwned, FreshUnknown, MessagesAgree, [Next]_vars
  PROVE  MessagesAgree'
PROOF
  <1>1. ASSUME NEW t \in Callers, Call(t) \/ CallRuns(t) PROVE MessagesAgree'
    <2> SUFFICES ASSUME NEW u \in Callers, UsesCell(u)', NEW m \in Mail', About(m, ptr'[u])
                 PROVE  m.req \in {req'[u]} \cup late'[u]
      BY DEF MessagesAgree, About
    <2>1. CASE UsesCell(u) /\ ptr'[u] = ptr[u] /\ req'[u] = req[u] /\ late'[u] = late[u]
      <3>1. CASE m \in Mail
        BY <2>1, <3>1 DEF MessagesAgree
      <3>2. CASE /\ pc[t] = "send"
                 /\ m = [type |-> "CHECK", req |-> req[t], ptr |-> ptr[t]]
        <4>1. UsesCell(t) /\ ptr[t] = ptr[u]
          BY <2>1, <3>2 DEF UsesCell, About
        <4>2. u = t
          BY <2>1, <4>1 DEF CellOwned
        <4> QED BY <2>1, <3>2, <4>2
      <3> QED BY <1>1, <3>1, <3>2, MailCalls
    <2>2. CASE u = t /\ TakesCell(t, ptr'[t])
      <3>1. Mail' = Mail
        BY <2>2 DEF TakesCell, Mail
      <3>2. late'[u] = ChecksAbout(ptr'[u])
        BY <2>2 DEF TakesCell, TypeOK, Typed
      <3> QED BY <2>2, <3>1, <3>2 DEF ChecksAbout
    <2> QED BY <1>1, <2>1, <2>2, CallKeepsCell
  <1>2. ASSUME NEW s \in Servers, ServerStep(s) PROVE MessagesAgree'
    <2>1. /\ UNCHANGED <<pc, ptr, req, late>>
          /\ Mail' \subseteq Mail \cup {NoMsg, ConfirmMsg}
      BY <1>2, MailServers, ServersLeaveCalls DEF callerVars
    <2> QED BY <2>1, NotAbout DEF MessagesAgree, UsesCell
  <1>3. ASSUME NEW c \in Cells, Overwrite(c) PROVE MessagesAgree'
    BY <1>3 DEF Overwrite, MessagesAgree, UsesCell, Mail, netVars, serverVars, callerVars
  <1>4. CASE UNCHANGED vars
    BY <1>4 DEF vars, MessagesAgree, UsesCell, Mail, netVars, serverVars, callerVars
  <1> QED BY <1>1, <1>2, <1>3, <1>4 DEF Next

------------------------------------------------------------------------------
(* What the handler writes. *)

(* A handler that works on a cell holds a check about it: of the call that   *)
(* has the cell, or one that may meet it.                                    *)
LEMMA HandlerHasCheck ==
  ASSUME TypeOK, MessagesAgree, NEW t \in Callers, UsesCell(t),
         NEW s \in Servers, InHandler(s), buf[s].ptr = ptr[t]
  PROVE  buf[s].req \in {req[t]} \cup late[t]
PROOF
  <1>1. buf[s] \in CheckMsgs /\ buf[s] \in Mail
    BY DEF TypeOK, LocalsOK, Mail
  <1>2. About(buf[s], ptr[t])
    BY <1>1 DEF About, CheckMsgs
  <1> QED BY <1>1, <1>2 DEF MessagesAgree

(* No handler works on a cell that no message names. *)
LEMMA HandlerKnown ==
  ASSUME TypeOK, NEW s \in Servers, InHandler(s)
  PROVE  buf[s].ptr \in Cells /\ ChecksAbout(buf[s].ptr) # {}
PROOF
  <1>1. buf[s] \in CheckMsgs /\ buf[s] \in Mail
    BY DEF TypeOK, LocalsOK, Mail
  <1>2. About(buf[s], buf[s].ptr) /\ buf[s].ptr \in Cells
    BY <1>1 DEF About, CheckMsgs
  <1> QED BY <1>1, <1>2 DEF ChecksAbout

LEMMA HoldsDataStep ==
  ASSUME AnswerInv, [Next]_vars
  PROVE  CellHoldsData'
PROOF
  <1>0. TypeOK /\ Typed /\ LocalsOK /\ CellOwned /\ MessagesAgree /\ CellHoldsData
    BY DEF AnswerInv, TypeOK
  <1>1. ASSUME NEW t \in Callers, Call(t) \/ CallRuns(t) PROVE CellHoldsData'
    <2> SUFFICES ASSUME NEW u \in Callers, UsesCell(u)'
                 PROVE  data'[ptr'[u]] \in Readable(u)'
      BY DEF CellHoldsData
    <2>1. CASE u = t /\ TakesCell(t, ptr'[t])
      <3>1. data'[ptr'[u]] = Unset
        BY <1>0, <2>1 DEF TakesCell, InitSemMsg, Typed
      <3> QED BY <3>1 DEF Readable
    <2>2. CASE UsesCell(u) /\ ptr'[u] = ptr[u] /\ req'[u] = req[u] /\ late'[u] = late[u]
      <3>1. data'[ptr[u]] = data[ptr[u]]
        <4>1. CASE AllocSemMsg(t)
          <5>1. PICK c \in Cells : TakesCell(t, c)
            BY <4>1, AllocTakes
          <5>2. ptr[u] # c /\ ptr[u] \in Cells
            BY <1>0, <2>2, <5>1 DEF TakesCell, CellOwned, LocalsOK
          <5> QED BY <1>0, <5>1, <5>2 DEF TakesCell, InitSemMsg, Typed
        <4>2. CASE ~AllocSemMsg(t)
          BY <1>1, <4>2 DEF Call, CallRuns, CheckOnline, SendCheck, DownAcquired,
             DownTimedOut, LoadFailCount, StoreFailCount, TestFailCount,
             DropConnection, ResetFailCount, ReadStatus, ReadData, FreeSemMsg, Return,
             heapVars
        <4> QED BY <4>1, <4>2
      <3>2. Readable(u)' = Readable(u)
        BY <2>2 DEF Readable, Verdicts
      <3> QED BY <1>0, <2>2, <3>1, <3>2 DEF CellHoldsData
    <2> QED BY <1>0, <1>1, <2>1, <2>2, CallKeepsCell
  <1>2. ASSUME NEW s \in Servers, ServerStep(s) PROVE CellHoldsData'
    <2>1. UNCHANGED <<pc, req, ptr, late>>
      BY <1>2, ServersLeaveCalls DEF callerVars
    <2>2. CASE ResultSetData(s)
      <3>1. /\ InHandler(s)
            /\ data' = [data EXCEPT ![buf[s].ptr] = Verdict(buf[s].req)]
        BY <2>2 DEF ResultSetData, SGoto, InHandler
      <3>2. ASSUME NEW t \in Callers, UsesCell(t) PROVE data'[ptr[t]] \in Readable(t)
        <4>1. CASE buf[s].ptr = ptr[t]
          <5>1. buf[s].req \in {req[t]} \cup late[t]
            BY <1>0, <3>1, <3>2, <4>1, HandlerHasCheck
          <5>2. ptr[t] \in Cells
            BY <1>0, <3>2 DEF LocalsOK
          <5>3. data'[ptr[t]] = Verdict(buf[s].req)
            BY <1>0, <3>1, <4>1, <5>2 DEF Typed
          <5> QED BY <5>1, <5>3 DEF Readable, Verdicts
        <4>2. CASE buf[s].ptr # ptr[t]
          <5>1. data'[ptr[t]] = data[ptr[t]]
            BY <1>0, <3>1, <3>2, <4>2 DEF Typed, LocalsOK
          <5> QED BY <1>0, <3>2, <5>1 DEF CellHoldsData
        <4> QED BY <4>1, <4>2
      <3> QED BY <2>1, <3>2 DEF CellHoldsData, UsesCell, Readable, Verdicts
    <2>3. CASE ~ResultSetData(s)
      <3>1. data' = data
        BY <1>2, <2>3 DEF ServerStep, ServerRuns, SocketInit, ConnectUnsent,
           ConnectSetPid, ConnectConfirm, ConnectResetFail, ConnectRecv, Recv, HandleMsg,
           AnswerUnsent, ResultSetStatus, ResultUp, DisconnectSetPid, DisconnectUnsent,
           DisconnectResetFail, SocketRelease, Crash, Close, heapVars
      <3> QED BY <1>0, <2>1, <3>1 DEF CellHoldsData, UsesCell, Readable, Verdicts
    <2> QED BY <2>2, <2>3
  <1>3. ASSUME UNCHANGED <<data, callerVars>> PROVE CellHoldsData'
    BY <1>0, <1>3 DEF callerVars, CellHoldsData, UsesCell, Readable, Verdicts
  <1> QED BY <1>1, <1>2, <1>3 DEF Next, Overwrite, vars, heapVars

LEMMA HoldsAnswerServers ==
  ASSUME AnswerInv, NEW s \in Servers, ServerStep(s)
  PROVE  CellHoldsAnswer'
PROOF
  <1>0. UNCHANGED <<mem, pc, req, ptr, down_ret, late>>
    BY ServersLeaveCalls DEF callerVars
  <1> SUFFICES ASSUME NEW t \in Callers, Undisturbed(t)
               PROVE  /\ sem'[ptr[t]] > 0 => Answered(t)'
                      /\ HandlerWritesAnswer(t)'
                      /\ pc[t] \in {"status", "data"} /\ down_ret[t] = "ok"
                           => Answered(t)'
    BY <1>0 DEF CellHoldsAnswer, Undisturbed, UsesCell
  <1>1. /\ sem[ptr[t]] > 0 => Answered(t)
        /\ HandlerWritesAnswer(t)
        /\ pc[t] \in {"status", "data"} /\ down_ret[t] = "ok" => Answered(t)
    BY DEF AnswerInv, CellHoldsAnswer
  <1>2. ptr[t] \in Cells /\ Typed /\ UsesCell(t) /\ late[t] = {}
    BY DEF AnswerInv, TypeOK, LocalsOK, Undisturbed
  <1>3. CASE ResultSetStatus(s)
    <2>1. /\ spc[s] = "k_loaded" /\ spc' = [spc EXCEPT ![s] = "k_data"]
          /\ status' = [status EXCEPT ![buf[s].ptr] = "LOADED"]
          /\ UNCHANGED <<data, sem, buf>>
      BY <1>3 DEF ResultSetStatus, SGoto
    <2>2. status'[ptr[t]] = status[ptr[t]] \/ status'[ptr[t]] = "LOADED"
      BY <1>2, <2>1 DEF Typed
    <2>3. Answered(t) => Answered(t)'
      BY <1>0, <2>1, <2>2 DEF Answered
    <2>4. HandlerWritesAnswer(t)'
      BY <1>0, <1>1, <1>2, <2>1, <2>2, <2>3 DEF HandlerWritesAnswer, InHandler, Typed
    <2> QED BY <1>1, <2>1, <2>3, <2>4
  <1>4. CASE ResultSetData(s)
    <2>1. /\ spc[s] = "k_data" /\ spc' = [spc EXCEPT ![s] = "k_up"]
          /\ data' = [data EXCEPT ![buf[s].ptr] = Verdict(buf[s].req)]
          /\ UNCHANGED <<status, sem, buf>>
      BY <1>4 DEF ResultSetData, SGoto
    <2>2. InHandler(s)
      BY <2>1 DEF InHandler
    <2>3. CASE buf[s].ptr = ptr[t]
      <3>1. data'[ptr[t]] = Verdict(req[t])
        BY <1>2, <2>1, <2>2, <2>3, HandlerHasCheck DEF AnswerInv, Typed
      <3>2. status[ptr[t]] = "LOADED"
        BY <1>1, <2>1, <2>2, <2>3 DEF HandlerWritesAnswer
      <3>3. Answered(t)'
        BY <1>0, <2>1, <3>1, <3>2 DEF Answered
      <3>4. HandlerWritesAnswer(t)'
        BY <3>3 DEF HandlerWritesAnswer, Answered
      <3> QED BY <3>1, <3>3, <3>4
    <2>4. CASE buf[s].ptr # ptr[t]
      <3>1. data'[ptr[t]] = data[ptr[t]]
        BY <1>2, <2>1, <2>4 DEF Typed
      <3>2. Answered(t) => Answered(t)'
        BY <1>0, <2>1, <3>1 DEF Answered
      <3>3. HandlerWritesAnswer(t)'
        BY <1>0, <1>1, <1>2, <2>1, <2>4, <3>2 DEF HandlerWritesAnswer, InHandler, Typed
      <3> QED BY <1>1, <2>1, <3>1, <3>2, <3>3
    <2> QED BY <2>3, <2>4
  <1>5. CASE ResultUp(s)
    <2>1. /\ spc[s] = "k_up" /\ spc' = [spc EXCEPT ![s] = "loop"]
          /\ sem' = [sem EXCEPT ![buf[s].ptr] = @ + 1]
          /\ UNCHANGED <<status, data, buf>>
      BY <1>5 DEF ResultUp, SGoto
    <2>2. Answered(t) <=> Answered(t)'
      BY <1>0, <2>1 DEF Answered
    <2>3. sem'[ptr[t]] > 0 => Answered(t)
      <3>1. CASE buf[s].ptr = ptr[t]
        BY <1>1, <2>1, <3>1 DEF HandlerWritesAnswer, InHandler
      <3>2. CASE buf[s].ptr # ptr[t]
        BY <1>1, <1>2, <2>1, <3>2 DEF Typed
      <3> QED BY <3>1, <3>2
    <2>4. HandlerWritesAnswer(t)'
      BY <1>0, <1>1, <1>2, <2>1, <2>2 DEF HandlerWritesAnswer, InHandler, Typed
    <2> QED BY <1>1, <2>1, <2>2, <2>3, <2>4
  <1>6. CASE ~ResultSetStatus(s) /\ ~ResultSetData(s) /\ ~ResultUp(s)
    <2>1. UNCHANGED <<status, data, sem>>
      BY <1>6 DEF ServerStep, ServerRuns, SocketInit, ConnectUnsent,
         ConnectSetPid, ConnectConfirm,
         ConnectResetFail, ConnectRecv, Recv, HandleMsg, DisconnectSetPid,
         AnswerUnsent, DisconnectUnsent, DisconnectResetFail, SocketRelease, Crash,
         Close, heapVars
    <2>2. \A u \in Servers : spc'[u] \in {"k_data", "k_up"} =>
            spc'[u] = spc[u] /\ buf'[u] = buf[u]
      BY <1>2, <1>6 DEF ServerStep, ServerRuns, SocketInit, ConnectUnsent,
         ConnectSetPid,
         ConnectConfirm, ConnectResetFail, ConnectRecv, Recv, HandleMsg,
         DisconnectSetPid,
         AnswerUnsent, DisconnectUnsent, DisconnectResetFail, SocketRelease, Crash,
         Close, SGoto, Typed
    <2>3. Answered(t) <=> Answered(t)'
      BY <1>0, <2>1 DEF Answered
    <2>4. HandlerWritesAnswer(t)'
      BY <1>0, <1>1, <2>1, <2>2, <2>3 DEF HandlerWritesAnswer, InHandler
    <2> QED BY <1>1, <2>1, <2>3, <2>4
  <1> QED BY <1>3, <1>4, <1>5, <1>6

------------------------------------------------------------------------------
(* What a call reads. *)

LEMMA CallProgressStep ==
  ASSUME ChannelAssumption, AnswerInv, [Next]_vars
  PROVE  CallProgress'
PROOF
  <1>0. Typed /\ LocalsOK /\ CallProgress /\ CellHoldsAnswer /\ CellHoldsData
    BY DEF AnswerInv, TypeOK
  <1>1. ASSUME NEW t \in Callers, Call(t) \/ CallRuns(t) PROVE CallProgress'
    <2>1. \A u \in Callers : Progress(u)
      BY <1>0 DEF CallProgress
    <2>2. ASSUME NEW u \in Callers, u # t PROVE Progress(u)'
      <3>1. /\ pc'[u] = pc[u] /\ req'[u] = req[u] /\ down_ret'[u] = down_ret[u]
            /\ ret'[u] = ret[u] /\ result'[u] = result[u] /\ late'[u] = late[u]
        BY <1>0, <1>1, <2>2 DEF Call, CallRuns, CheckOnline, AllocSemMsg, SendCheck,
           DownAcquired, DownTimedOut, LoadFailCount, StoreFailCount, TestFailCount,
           DropConnection, ResetFailCount, ReadStatus, ReadData, FreeSemMsg, Return,
           Goto, Typed
      <3> QED BY <2>1, <3>1 DEF Progress, Outcome, LateOrDisturbed, Verdicts
    <2>3. Progress(t)'
      <3> USE <1>0, <2>1 DEF Progress, Goto, Outcome, LateOrDisturbed, Typed
      <3>1. ASSUME NEW r \in Requests, CheckOnline(t, r) PROVE Progress(t)'
        BY <3>1 DEF CheckOnline, ChannelAssumption
      <3>2. CASE AllocSemMsg(t) \/ SendCheck(t)
        BY <3>2 DEF AllocSemMsg, SendCheck
      <3>3. CASE DownAcquired(t)
        BY <3>3 DEF DownAcquired
      <3>4. CASE DownTimedOut(t)
        BY <3>4 DEF DownTimedOut
      <3>5. CASE \/ LoadFailCount(t) \/ StoreFailCount(t) \/ TestFailCount(t)
                 \/ DropConnection(t) \/ ResetFailCount(t)
        BY <3>5 DEF LoadFailCount, StoreFailCount, TestFailCount, DropConnection,
           ResetFailCount
      <3>6. CASE ReadStatus(t)
        <4>1. pc[t] = "status" /\ (~LateOrDisturbed(t) => status[ptr[t]] = "LOADED")
          <5>1. pc[t] = "status" /\ down_ret[t] \in {"ok", "ETIME"}
            BY <3>6 DEF ReadStatus
          <5>2. CASE LateOrDisturbed(t)
            BY <5>1, <5>2
          <5>3. CASE ~LateOrDisturbed(t)
            <6>1. Undisturbed(t) /\ down_ret[t] = "ok"
              BY <5>1, <5>3 DEF Undisturbed, UsesCell
            <6> QED BY <5>1, <6>1 DEF CellHoldsAnswer, Answered
          <5> QED BY <5>2, <5>3
        <4>2. /\ down_ret[t] \in {"ok", "ETIME"}
              /\ UNCHANGED <<req, down_ret, ret, result, late>>
          BY <3>6 DEF ReadStatus
        <4>3. pc' = [pc EXCEPT ![t] = IF status[ptr[t]] = "LOADED" THEN "data" ELSE "free"]
          BY <3>6 DEF ReadStatus
        <4> QED BY <4>1, <4>2, <4>3
      <3>7. CASE ReadData(t)
        <4>1. /\ data[ptr[t]] \in Readable(t)
              /\ ~LateOrDisturbed(t) => data[ptr[t]] = Verdict(req[t])
          <5>1. pc[t] = "data" /\ down_ret[t] \in {"ok", "ETIME"}
            BY <3>7 DEF ReadData
          <5>2. data[ptr[t]] \in Readable(t)
            BY <5>1 DEF CellHoldsData, UsesCell
          <5>3. ASSUME ~LateOrDisturbed(t) PROVE data[ptr[t]] = Verdict(req[t])
            <6>1. Undisturbed(t) /\ down_ret[t] = "ok"
              BY <5>1, <5>3 DEF Undisturbed, UsesCell
            <6> QED BY <5>1, <6>1 DEF CellHoldsAnswer, Answered
          <5> QED BY <5>2, <5>3
        <4>2. /\ pc[t] = "data" /\ pc' = [pc EXCEPT ![t] = "return"]
              /\ result' = [result EXCEPT ![t] = data[ptr[t]]]
              /\ ret' = [ret EXCEPT ![t] = "SUCCESS"]
              /\ UNCHANGED <<req, down_ret, late>>
          BY <3>7 DEF ReadData
        <4>3. /\ pc'[t] = "return" /\ ret'[t] = "SUCCESS" /\ result'[t] = data[ptr[t]]
              /\ down_ret[t] \in {"ok", "ETIME"} /\ req[t] # NoCheck
          BY <4>2
        <4>4. Outcome(t)'
          BY <4>1, <4>2, <4>3 DEF Readable, Verdicts
        <4> QED BY <4>2, <4>3, <4>4
      <3>8. CASE FreeSemMsg(t)
        BY <3>8 DEF FreeSemMsg
      <3>9. CASE Return(t)
        BY <3>9 DEF Return
      <3> QED
        BY <1>1, <3>1, <3>2, <3>3, <3>4, <3>5, <3>6, <3>7, <3>8, <3>9
        DEF Call, CallRuns
    <2> QED BY <2>2, <2>3 DEF CallProgress
  <1>2. ASSUME UNCHANGED callerVars PROVE CallProgress'
    BY <1>0, <1>2 DEF CallProgress, Progress, Outcome, LateOrDisturbed, Verdicts, callerVars
  <1> QED
    BY <1>1, <1>2, ServersLeaveCalls DEF Next, Overwrite, vars

LEMMA HoldsAnswerCalls ==
  ASSUME AnswerInv, NEW t \in Callers, Call(t) \/ CallRuns(t)
  PROVE  CellHoldsAnswer'
PROOF
  <1>0. Typed /\ LocalsOK /\ CallProgress /\ CellHoldsAnswer /\ CellOwned
        /\ spc' = spc /\ buf' = buf
    BY DEF AnswerInv, TypeOK, Call, CallRuns, CheckOnline, AllocSemMsg, SendCheck,
       DownAcquired, DownTimedOut, LoadFailCount, StoreFailCount, TestFailCount,
       DropConnection, ResetFailCount, ReadStatus, ReadData, FreeSemMsg, Return,
       serverVars
  <1> DEFINE Holds(u) ==
        /\ sem[ptr[u]] > 0 => Answered(u)
        /\ HandlerWritesAnswer(u)
        /\ pc[u] \in {"status", "data"} /\ down_ret[u] = "ok" => Answered(u)
  <1>1. \A u \in Callers : Undisturbed(u) => Holds(u)
    BY <1>0 DEF CellHoldsAnswer
  <1> SUFFICES ASSUME NEW u \in Callers, Undisturbed(u)' PROVE Holds(u)'
    BY DEF CellHoldsAnswer
  <1>2. CASE AllocSemMsg(t)
    <2>1. PICK c \in Cells : TakesCell(t, c)
      BY <1>2, AllocTakes
    <2>2. /\ pc[t] = "alloc" /\ pc' = [pc EXCEPT ![t] = "send"]
          /\ UNCHANGED <<req, down_ret>>
          /\ ptr' = [ptr EXCEPT ![t] = c] /\ mem[c] # "used"
          /\ status' = [status EXCEPT ![c] = "READY"]
          /\ data' = [data EXCEPT ![c] = Unset]
          /\ sem' = [sem EXCEPT ![c] = 0]
          /\ late' = [late EXCEPT ![t] = ChecksAbout(c)]
      BY <2>1 DEF TakesCell, InitSemMsg
    <2>3. CASE u = t
      <3>1. ptr'[u] = c /\ sem'[c] = 0 /\ pc'[u] = "send" /\ late'[u] = ChecksAbout(c)
        BY <1>0, <2>2, <2>3 DEF Typed
      <3>2. \A s \in Servers : InHandler(s) => buf[s].ptr # c
        BY <3>1, HandlerKnown DEF AnswerInv, Undisturbed
      <3>3. HandlerWritesAnswer(u)'
        BY <1>0, <3>1, <3>2 DEF HandlerWritesAnswer, InHandler
      <3> QED BY <3>1, <3>3
    <2>4. CASE u # t
      <3>1. Undisturbed(u) /\ ptr'[u] = ptr[u] /\ pc'[u] = pc[u]
        BY <1>0, <2>2, <2>4 DEF Typed, Undisturbed, UsesCell
      <3>2. ptr[u] \in Cells /\ ptr[u] # c
        BY <1>0, <2>2, <3>1 DEF LocalsOK, CellOwned, Undisturbed
      <3>3. /\ status'[ptr[u]] = status[ptr[u]] /\ data'[ptr[u]] = data[ptr[u]]
            /\ sem'[ptr[u]] = sem[ptr[u]]
        BY <1>0, <2>2, <3>2 DEF Typed
      <3> QED
        BY <1>0, <1>1, <2>2, <3>1, <3>3 DEF Answered, HandlerWritesAnswer, InHandler
    <2> QED BY <2>3, <2>4
  <1>3. CASE ~AllocSemMsg(t)
    <2>1. Undisturbed(u) /\ ptr'[u] = ptr[u] /\ req'[u] = req[u]
      BY <1>3, CallKeepsCell DEF AnswerInv, Undisturbed, UsesCell
    <2>2. UNCHANGED <<status, data>> /\ Holds(u)
      BY <1>1, <1>3, <2>1 DEF Call, CallRuns, CheckOnline, SendCheck, DownAcquired,
         DownTimedOut, LoadFailCount, StoreFailCount, TestFailCount, DropConnection,
         ResetFailCount, ReadStatus, ReadData, FreeSemMsg, Return, heapVars
    <2>3. Answered(u) <=> Answered(u)'
      BY <2>1, <2>2 DEF Answered
    <2>4. HandlerWritesAnswer(u)'
      BY <1>0, <2>1, <2>2, <2>3 DEF HandlerWritesAnswer, InHandler
    <2>5. sem'[ptr[u]] > 0 => sem[ptr[u]] > 0
      <3>1. CASE DownAcquired(t)
        <4>1. sem' = [sem EXCEPT ![ptr[t]] = @ - 1] /\ sem[ptr[t]] > 0
          BY <3>1 DEF DownAcquired
        <4>2. ptr[u] \in Cells
          BY <1>0, <2>1 DEF LocalsOK, Undisturbed
        <4>3. CASE ptr[u] = ptr[t]
          BY <4>1, <4>3
        <4>4. CASE ptr[u] # ptr[t]
          BY <1>0, <4>1, <4>2, <4>4 DEF Typed
        <4> QED BY <4>3, <4>4
      <3>2. CASE ~DownAcquired(t)
        BY <1>3, <3>2 DEF Call, CallRuns, CheckOnline, SendCheck,
           DownTimedOut, LoadFailCount, StoreFailCount, TestFailCount, DropConnection,
           ResetFailCount, ReadStatus, ReadData, FreeSemMsg, Return, heapVars
      <3> QED BY <3>1, <3>2
    <2>6. pc'[u] \in {"status", "data"} /\ down_ret'[u] = "ok" => Answered(u)
      <3>1. CASE u # t
        <4>1. pc'[u] = pc[u] /\ down_ret'[u] = down_ret[u]
          BY <1>0, <1>3, <3>1 DEF Call, CallRuns, CheckOnline, SendCheck, DownAcquired,
             DownTimedOut, LoadFailCount, StoreFailCount, TestFailCount,
             DropConnection, ResetFailCount, ReadStatus, ReadData, FreeSemMsg, Return,
             Goto, Typed
        <4> QED BY <2>2, <4>1
      <3>2. CASE u = t /\ DownAcquired(t)
        BY <2>2, <3>2 DEF DownAcquired
      <3>3. CASE u = t /\ ReadStatus(t)
        <4>1. pc[u] = "status" /\ down_ret' = down_ret
          BY <3>3 DEF ReadStatus
        <4> QED BY <2>2, <4>1
      <3>4. CASE u = t /\ (TestFailCount(t) \/ ResetFailCount(t))
        <4>1. down_ret'[u] = down_ret[u] /\ down_ret[u] = "ETIME"
          BY <1>0, <3>4 DEF TestFailCount, ResetFailCount, Goto, CallProgress, Progress
        <4> QED BY <4>1
      <3>5. CASE /\ u = t /\ ~DownAcquired(t) /\ ~ReadStatus(t)
                 /\ ~TestFailCount(t) /\ ~ResetFailCount(t)
        <4>1. pc'[u] \notin {"status", "data"}
          BY <1>0, <1>3, <3>5 DEF Call, CallRuns, CheckOnline, SendCheck, DownTimedOut,
             LoadFailCount, StoreFailCount, DropConnection, ReadData, FreeSemMsg,
             Return, Goto, Typed
        <4> QED BY <4>1
      <3> QED BY <3>1, <3>2, <3>3, <3>4, <3>5
    <2> QED BY <2>1, <2>2, <2>3, <2>4, <2>5, <2>6
  <1> QED BY <1>2, <1>3

LEMMA HoldsAnswerStep ==
  ASSUME AnswerInv, [Next]_vars
  PROVE  CellHoldsAnswer'
PROOF
  <1>1. ASSUME NEW t \in Callers, Call(t) \/ CallRuns(t) PROVE CellHoldsAnswer'
    BY <1>1, HoldsAnswerCalls
  <1>2. ASSUME NEW s \in Servers, ServerStep(s) PROVE CellHoldsAnswer'
    BY <1>2, HoldsAnswerServers
  <1>3. ASSUME NEW c \in Cells, Overwrite(c) PROVE CellHoldsAnswer'
    <2>1. /\ mem[c] = "freed" /\ status' = [status EXCEPT ![c] = "other"]
          /\ UNCHANGED <<data, sem, pc, req, ptr, down_ret, late, spc, buf>>
      BY <1>3 DEF Overwrite, callerVars, serverVars
    <2>2. \A t \in Callers : UsesCell(t) => status'[ptr[t]] = status[ptr[t]]
      BY <2>1 DEF AnswerInv, TypeOK, Typed, CellOwned
    <2> QED
      BY <2>1, <2>2 DEF AnswerInv, CellHoldsAnswer, HandlerWritesAnswer, Answered,
         Undisturbed, UsesCell, InHandler
  <1>4. CASE UNCHANGED vars
    BY <1>4 DEF vars, heapVars, callerVars, serverVars, AnswerInv, CellHoldsAnswer,
       HandlerWritesAnswer, Answered, Undisturbed, UsesCell, InHandler
  <1> QED BY <1>1, <1>2, <1>3, <1>4 DEF Next

LEMMA AnswerInvInit == ChannelAssumption /\ Init => AnswerInv
PROOF
  <1> SUFFICES ASSUME ChannelAssumption, Init PROVE AnswerInv
    OBVIOUS
  <1>1. Mail \subseteq {NoMsg}
    BY DEF Init, Mail
  <1>2. TypeOK
    BY TypeInit
  <1>3. CellOwned /\ MessagesAgree /\ CellHoldsData /\ CellHoldsAnswer /\ CallProgress
    BY DEF Init, CellOwned, MessagesAgree, CellHoldsData, CellHoldsAnswer, CallProgress,
       Progress, Undisturbed, UsesCell
  <1>4. FreshUnknown
    BY <1>1, NotAbout DEF FreshUnknown
  <1> QED BY <1>2, <1>3, <1>4 DEF AnswerInv

LEMMA AnswerInvStep ==
  ASSUME ChannelAssumption, AnswerInv, [Next]_vars
  PROVE  AnswerInv'
PROOF
  <1>1. TypeOK' /\ CellOwned'
    BY TypeStep, CellOwnedStep DEF AnswerInv
  <1>2. FreshUnknown' /\ MessagesAgree'
    BY FreshUnknownStep, MessagesAgreeStep DEF AnswerInv
  <1>3. CellHoldsData' /\ CellHoldsAnswer' /\ CallProgress'
    BY HoldsDataStep, HoldsAnswerStep, CallProgressStep
  <1> QED BY <1>1, <1>2, <1>3 DEF AnswerInv

(* Why answers are right: the cell of a check belongs to it from kmalloc on,  *)
(* every message and every handler that names the cell speaks of that check,  *)
(* or of one that was on its way about the same address before, and so the    *)
(* cell holds nothing or the verdict of one of these.                         *)
THEOREM AnswerInvariant == Spec => []AnswerInv
PROOF
  <1>1. Init => AnswerInv
    BY AnswerInvInit, ChannelAssumption
  <1>2. AnswerInv /\ [Next]_vars => AnswerInv'
    BY AnswerInvStep, ChannelAssumption
  <1> QED BY <1>1, <1>2, PTL DEF Spec

(* check_privilege answers a check in time with the server's verdict on that *)
(* very check, and fails only after a timeout, for any number of callers,    *)
(* servers and restarts, with lost messages and messages handled again; the  *)
(* only exception are the late answers to checks given up in the same cell.  *)
THEOREM VerdictsAreExact == Spec => []ExactVerdict
PROOF
  <1>1. AnswerInv => ExactVerdict
    BY DEF AnswerInv, CallProgress, Progress, ExactVerdict, Outcome, LateOrDisturbed,
       TypeOK, Typed
  <1> QED BY <1>1, AnswerInvariant, PTL

------------------------------------------------------------------------------
(* The refinement. *)

AbsAnswer(t) ==
  [ret |-> ret[t], result |-> result[t],
   down_ret |-> IF pc[t] = "return" THEN down_ret[t] ELSE "ok",
   late |-> IF pc[t] = "return" THEN Verdicts(late[t]) ELSE {}]

AbsAnswers == [t \in Callers |-> AbsAnswer(t)]

(* Both specifications take the values of PrmPolicy. *)
LEMMA SamePolicy ==
  /\ Abstract!Unset = Unset
  /\ Abstract!Results = Results
  /\ \A r : Abstract!Verdict(r) = Verdict(r)
PROOF
  BY DEF Unset, Abstract!Unset, Verdict, Abstract!Verdict, PASS, Abstract!PASS,
     NOTPASS, Abstract!NOTPASS, DeniedUid, Abstract!DeniedUid, Results, Abstract!Results

LEMMA StraysServers ==
  ASSUME TypeOK, NEW s \in Servers, ServerStep(s)
  PROVE  StrayChecks' \subseteq StrayChecks
PROOF
  <1>1. UNCHANGED <<mem, late>>
    BY ServersLeaveCalls DEF callerVars
  <1>2. Mail' \subseteq Mail \cup {NoMsg, ConfirmMsg}
    BY MailServers
  <1>3. \A c \in Cells : ChecksAbout(c)' \subseteq ChecksAbout(c)
    BY <1>2, NotAbout DEF ChecksAbout, About
  <1> QED BY <1>1, <1>3 DEF StrayChecks

(* A check becomes a stray when the call that poses it gives up. *)
LEMMA StraysCalls ==
  ASSUME AnswerInv, NEW t \in Callers, Call(t) \/ CallRuns(t)
  PROVE  /\ ~FreeSemMsg(t) => StrayChecks' \subseteq StrayChecks
         /\ FreeSemMsg(t) => StrayChecks' \subseteq StrayChecks \cup {req[t]}
PROOF
  <1>0. TypeOK /\ Typed /\ LocalsOK /\ CellOwned /\ FreshUnknown /\ MessagesAgree
    BY DEF AnswerInv, TypeOK
  <1>1. CASE SendCheck(t)
    <2>1. /\ UNCHANGED <<mem, late>> /\ UsesCell(t)
          /\ Mail' \subseteq Mail \cup
               {[type |-> "CHECK", req |-> req[t], ptr |-> ptr[t]]}
      BY <1>0, <1>1, MailCalls DEF SendCheck, Goto, heapVars, UsesCell
    <2>2. \A c \in Cells : mem[c] = "freed" => c # ptr[t]
      BY <1>0, <2>1 DEF CellOwned
    <2>3. ASSUME NEW c \in Cells, mem[c] = "freed"
          PROVE  ChecksAbout(c)' \subseteq ChecksAbout(c)
      BY <2>1, <2>2, <2>3 DEF ChecksAbout, About
    <2>4. StrayChecks' \subseteq StrayChecks
      BY <2>1, <2>3 DEF StrayChecks
    <2> QED BY <1>1, <2>4 DEF SendCheck, FreeSemMsg, Goto
  <1>2. CASE ~SendCheck(t)
    <2>1. UNCHANGED <<inbox, buf>>
      BY <1>2 DEF Call, CallRuns, CheckOnline, AllocSemMsg, DownAcquired, DownTimedOut,
         LoadFailCount, StoreFailCount, TestFailCount, DropConnection,
         ResetFailCount, ReadStatus, ReadData, FreeSemMsg, Return, netVars, serverVars
    <2>2. \A c : ChecksAbout(c)' = ChecksAbout(c)
      BY <2>1 DEF ChecksAbout, Mail, About
    <2>3. CASE AllocSemMsg(t)
      <3>1. PICK c \in Cells : TakesCell(t, c)
        BY <2>3, AllocTakes
      <3>2. /\ \A x \in Cells : mem'[x] = "freed" => mem[x] = "freed"
            /\ late' = [late EXCEPT ![t] = ChecksAbout(c)]
            /\ mem[c] \in {"fresh", "freed"}
        BY <1>0, <3>1 DEF TakesCell, Typed
      <3>3. \A u \in Callers : late'[u] = late[u] \/ late'[u] = ChecksAbout(c)
        BY <1>0, <3>2 DEF Typed
      <3>4. mem[c] = "fresh" => ChecksAbout(c) = {}
        BY <1>0 DEF FreshUnknown, ChecksAbout
      <3>5. \A r \in ChecksAbout(c) \cap Requests : r \in StrayChecks
        BY <3>2, <3>4 DEF StrayChecks
      <3>6. StrayChecks' \subseteq StrayChecks
        <4> SUFFICES ASSUME NEW x \in StrayChecks' PROVE x \in StrayChecks
          OBVIOUS
        <4>1. CASE \E y \in Cells : mem'[y] = "freed" /\ x \in ChecksAbout(y)'
          BY <2>2, <3>2, <4>1 DEF StrayChecks
        <4>2. CASE \E u \in Callers : x \in late'[u]
          BY <3>3, <3>5, <4>2 DEF StrayChecks
        <4> QED BY <4>1, <4>2 DEF StrayChecks
      <3> QED BY <2>3, <3>6 DEF AllocSemMsg, FreeSemMsg, Goto
    <2>4. CASE FreeSemMsg(t)
      <3>1. /\ \A x \in Cells : mem'[x] = "freed" => mem[x] = "freed" \/ x = ptr[t]
            /\ late' = late /\ UsesCell(t)
        BY <1>0, <2>4 DEF FreeSemMsg, Goto, UsesCell, Typed
      <3>2. ChecksAbout(ptr[t]) \subseteq {req[t]} \cup late[t]
        BY <1>0, <3>1 DEF MessagesAgree, ChecksAbout
      <3>3. StrayChecks' \subseteq StrayChecks \cup {req[t]}
        <4> SUFFICES ASSUME NEW x \in StrayChecks' PROVE x \in StrayChecks \cup {req[t]}
          OBVIOUS
        <4>1. CASE \E y \in Cells : mem'[y] = "freed" /\ x \in ChecksAbout(y)'
          BY <2>2, <3>1, <3>2, <4>1 DEF StrayChecks
        <4>2. CASE \E u \in Callers : x \in late'[u]
          BY <3>1, <4>2 DEF StrayChecks
        <4> QED BY <4>1, <4>2 DEF StrayChecks
      <3> QED BY <2>4, <3>3
    <2>5. CASE Return(t)
      <3>1. mem' = mem /\ \A u \in Callers : late'[u] \subseteq late[u]
        BY <1>0, <2>5 DEF Return, heapVars, Typed
      <3>2. StrayChecks' \subseteq StrayChecks
        BY <2>2, <3>1 DEF StrayChecks
      <3> QED BY <2>5, <3>2 DEF Return, FreeSemMsg, Goto
    <2>6. CASE ~AllocSemMsg(t) /\ ~FreeSemMsg(t) /\ ~Return(t)
      <3>1. UNCHANGED <<mem, late>>
        BY <1>2, <2>6 DEF Call, CallRuns, CheckOnline, DownAcquired, DownTimedOut,
           LoadFailCount, StoreFailCount, TestFailCount, DropConnection,
           ResetFailCount, ReadStatus, ReadData, heapVars
      <3> QED BY <2>2, <2>6, <3>1 DEF StrayChecks
    <2> QED BY <2>3, <2>4, <2>5, <2>6
  <1> QED BY <1>1, <1>2

LEMMA VerdictsOfFewer ==
  \A A, B : A \subseteq B => Verdicts(A) \subseteq Verdicts(B)
PROOF
  BY DEF Verdicts

LEMMA RefinesInit == ChannelAssumption /\ Init => Abstract!PCInit
PROOF
  <1> SUFFICES ASSUME ChannelAssumption, Init PROVE Abstract!PCInit
    OBVIOUS
  <1>1. Verdicts(StrayChecks) = {}
    BY DEF Init, StrayChecks, Verdicts
  <1> QED BY <1>1, SamePolicy DEF Init, Abstract!PCInit, Abstract!NoAnswer, Abstract!Answer

(* What a call returns is one of the answers of PrivilegeCheck. *)
LEMMA OutcomeIsAnswer ==
  ASSUME NEW r, NEW ret_r \in {"SUCCESS", "ERROR"}, NEW v, NEW d \in {"ok", "ETIME"},
         NEW checks,
         ret_r = "ERROR" => v = Unset,
         ret_r = "ERROR" \/ v \in {Unset, Verdict(r)} \cup Verdicts(checks),
         v = Unset => d = "ETIME" \/ checks # {}
  PROVE  Abstract!Answer(ret_r, v, d, Verdicts(checks)) \in Abstract!Answers(r)
PROOF
  <1> DEFINE L == Verdicts(checks)
  <1>2. CASE checks = {}
    <2>1. L = {}
      BY <1>2 DEF Verdicts
    <2>2. Abstract!Answer(ret_r, v, d, L) \in Abstract!OwnAnswers(r)
      BY <1>2, <2>1, SamePolicy DEF Abstract!OwnAnswers
    <2> QED BY <2>2 DEF Abstract!Answers
  <1>3. CASE checks # {}
    <2>1. L \in (SUBSET Abstract!Results) \ {{}}
      BY <1>3, SamePolicy, VerdictType DEF Verdicts
    <2>2. Abstract!Answer(ret_r, v, d, L) \in Abstract!DisturbedAnswers(r, L)
      BY SamePolicy DEF Abstract!DisturbedAnswers
    <2> QED BY <2>1, <2>2 DEF Abstract!Answers
  <1> QED BY <1>2, <1>3

LEMMA RefinesCalls ==
  ASSUME ChannelAssumption, AnswerInv, AnswerInv', NEW t \in Callers, Call(t) \/ CallRuns(t)
  PROVE  Abstract!PCNext
PROOF
  <1> DEFINE S == Verdicts(StrayChecks)
  <1>0. /\ Typed /\ CallProgress /\ CallProgress' /\ Typed'
        /\ \A u \in Callers : Progress(u) /\ Progress(u)'
    BY DEF AnswerInv, TypeOK, CallProgress
  <1>1. \A u \in Callers \ {t} : AbsAnswer(u)' = AbsAnswer(u) /\ req'[u] = req[u]
    <2> SUFFICES ASSUME NEW u \in Callers, u # t
                 PROVE  AbsAnswer(u)' = AbsAnswer(u) /\ req'[u] = req[u]
      OBVIOUS
    <2>1. /\ pc'[u] = pc[u] /\ req'[u] = req[u] /\ down_ret'[u] = down_ret[u]
          /\ ret'[u] = ret[u] /\ result'[u] = result[u] /\ late'[u] = late[u]
      BY <1>0 DEF Call, CallRuns, CheckOnline, AllocSemMsg, SendCheck,
         DownAcquired, DownTimedOut, LoadFailCount, StoreFailCount, TestFailCount,
         DropConnection, ResetFailCount, ReadStatus, ReadData, FreeSemMsg, Return,
         Goto, Typed
    <2> QED BY <2>1 DEF AbsAnswer, Verdicts
  <1>2. AbsAnswers' = [AbsAnswers EXCEPT ![t] = AbsAnswer(t)']
    BY <1>1 DEF AbsAnswers
  <1>3. AbsAnswers[t] = AbsAnswer(t)
    BY DEF AbsAnswers
  <1>4. ASSUME pc[t] # "return" PROVE AbsAnswer(t) = Abstract!NoAnswer
    BY <1>0, <1>4, SamePolicy DEF Progress, AbsAnswer, Abstract!NoAnswer, Abstract!Answer
  <1>5. ASSUME pc'[t] # "return" PROVE AbsAnswer(t)' = Abstract!NoAnswer
    BY <1>0, <1>5, SamePolicy DEF Progress, AbsAnswer, Abstract!NoAnswer, Abstract!Answer
  <1>s. ~FreeSemMsg(t) => S' \in SUBSET S
    BY StraysCalls, VerdictsOfFewer DEF Verdicts
  <1>6. ASSUME NEW r \in Requests, CheckOnline(t, r) PROVE Abstract!Ask(t, r)
    <2>1. req[t] = NoCheck /\ req' = [req EXCEPT ![t] = r] /\ pc[t] = "idle"
      BY <1>0, <1>6 DEF CheckOnline, Progress
    <2>2. S' = S
      BY <1>6 DEF CheckOnline, heapVars, netVars, serverVars, StrayChecks, ChecksAbout, Mail,
         About, Verdicts
    <2>3. CASE pid = NoServer
      <3>1. /\ pc'[t] = "return" /\ ret'[t] = "SERVEROFFLINE" /\ result'[t] = Unset
            /\ down_ret'[t] = "ok" /\ late'[t] = {}
        BY <1>0, <1>6, <2>1, <2>3 DEF CheckOnline, Progress, Typed
      <3>2. AbsAnswer(t)' = Abstract!Offline
        BY <3>1, SamePolicy DEF AbsAnswer, Verdicts, Abstract!Offline, Abstract!Answer
      <3> QED BY <1>2, <2>1, <2>2, <3>2 DEF Abstract!Ask, AbsAnswers, AbsAnswer
    <2>4. CASE pid # NoServer
      <3>1. pc[t] = "idle" /\ pc' = [pc EXCEPT ![t] = "alloc"]
        BY <1>6, <2>4 DEF CheckOnline
      <3>2. AbsAnswer(t)' = AbsAnswer(t)
        BY <1>0, <1>4, <1>5, <3>1 DEF Typed
      <3>3. AbsAnswers' = AbsAnswers
        BY <1>2, <3>2 DEF AbsAnswers
      <3> QED BY <2>1, <2>2, <3>3 DEF Abstract!Ask, AbsAnswers, AbsAnswer
    <2> QED BY <2>3, <2>4
  <1>7. CASE ReadData(t) \/ FreeSemMsg(t)
    <2>1. /\ pc[t] \in {"data", "free"} /\ pc' = [pc EXCEPT ![t] = "return"]
          /\ req' = req /\ late' = late
          /\ ret'[t] = IF FreeSemMsg(t) THEN "ERROR" ELSE "SUCCESS"
      BY <1>0, <1>7 DEF ReadData, FreeSemMsg, Goto, Typed
    <2>2. Outcome(t)' /\ down_ret'[t] \in {"ok", "ETIME"} /\ pc'[t] = "return"
      BY <1>0, <2>1 DEF Progress, Typed
    <2>3. AbsAnswer(t)' \in Abstract!Answers(req[t])
      <3>1. AbsAnswer(t)' =
              Abstract!Answer(ret'[t], result'[t], down_ret'[t], Verdicts(late'[t]))
        BY <2>2 DEF AbsAnswer, Verdicts, Abstract!Answer
      <3>2. /\ ret'[t] \in {"SUCCESS", "ERROR"}
            /\ ret'[t] = "ERROR" => result'[t] = Unset
            /\ ret'[t] = "ERROR" \/
                 result'[t] \in {Unset, Verdict(req'[t])} \cup Verdicts(late'[t])
            /\ result'[t] = Unset => down_ret'[t] = "ETIME" \/ late'[t] # {}
        BY <2>1, <2>2, VerdictType
        DEF Outcome, LateOrDisturbed, Verdicts, Unset, Results, PASS, NOTPASS
      <3>3. AbsAnswer(t)' \in Abstract!Answers(req'[t])
        <4>1. /\ ret'[t] \in {"SUCCESS", "ERROR"}
              /\ down_ret'[t] \in {"ok", "ETIME"}
          BY <2>2, <3>2
        <4>2. Abstract!Answer(ret'[t], result'[t], down_ret'[t], Verdicts(late'[t]))
                \in Abstract!Answers(req'[t])
          BY <3>2, <4>1, OutcomeIsAnswer
        <4> QED BY <3>1, <4>2
      <3> QED BY <2>1, <3>3
    <2>4. AbsAnswers[t] = Abstract!NoAnswer /\ req[t] # NoCheck
      BY <1>0, <1>3, <1>4, <2>1 DEF Progress
    <2>5. AbsAnswer(t)'.late = Verdicts(late[t]) /\ Verdicts(late[t]) \subseteq S
      <3>1. AbsAnswer(t)'.late = Verdicts(late'[t])
        BY <2>2 DEF AbsAnswer, Verdicts
      <3>2. Verdicts(late'[t]) = Verdicts(late[t])
        BY <2>1
      <3>3. late[t] \subseteq StrayChecks
        BY <1>0 DEF StrayChecks, Typed
      <3> QED BY <3>1, <3>2, <3>3, VerdictsOfFewer
    <2>6. S' \subseteq S \cup Abstract!GivesUp(t, AbsAnswer(t)')
      <3>1. AbsAnswer(t)'.ret = ret'[t]
        BY DEF AbsAnswer
      <3>2. CASE FreeSemMsg(t)
        <4>1. StrayChecks' \subseteq StrayChecks \cup {req[t]}
          BY <3>2, StraysCalls
        <4>2. Abstract!GivesUp(t, AbsAnswer(t)') = {Verdict(req[t])}
          BY <2>1, <3>1, <3>2, SamePolicy DEF Abstract!GivesUp
        <4> QED BY <4>1, <4>2 DEF Verdicts
      <3> QED BY <1>s, <3>2
    <2>7. Abstract!GetAnswer(t)
      BY <1>2, <2>1, <2>3, <2>4, <2>5, <2>6 DEF Abstract!GetAnswer, AbsAnswers, AbsAnswer
    <2> QED BY <2>7 DEF Abstract!PCNext
  <1>8. CASE Return(t)
    <2>1. pc[t] = "return" /\ pc' = [pc EXCEPT ![t] = "idle"]
          /\ req' = [req EXCEPT ![t] = NoCheck]
      BY <1>8 DEF Return, Goto
    <2>2. AbsAnswers[t] # Abstract!NoAnswer
      BY <1>0, <1>3, <2>1 DEF Progress, Outcome, AbsAnswer, Abstract!NoAnswer,
         Abstract!Answer
    <2>3. AbsAnswer(t)' = Abstract!NoAnswer
      BY <1>0, <1>5, <2>1 DEF Typed
    <2>4. S' \in SUBSET S
      BY <1>s, <2>1 DEF FreeSemMsg, Goto
    <2>5. Abstract!Leave(t)
      BY <1>2, <2>1, <2>2, <2>3, <2>4 DEF Abstract!Leave, AbsAnswers, AbsAnswer
    <2> QED BY <2>5 DEF Abstract!PCNext
  <1>9. CASE CallRuns(t) /\ ~ReadData(t) /\ ~FreeSemMsg(t) /\ ~Return(t)
    <2>1. pc[t] # "return" /\ pc'[t] # "return" /\ req' = req
      BY <1>0, <1>9 DEF CallRuns, AllocSemMsg, SendCheck, DownAcquired, DownTimedOut,
         LoadFailCount, StoreFailCount, TestFailCount, DropConnection,
         ResetFailCount, ReadStatus, Goto, Typed
    <2>2. AbsAnswers' = AbsAnswers
      BY <1>2, <1>3, <1>4, <1>5, <2>1 DEF AbsAnswers
    <2>3. Abstract!Forget
      BY <1>9, <1>s, <2>1, <2>2 DEF Abstract!Forget, AbsAnswers, AbsAnswer
    <2> QED BY <2>3 DEF Abstract!PCNext
  <1> QED BY <1>6, <1>7, <1>8, <1>9 DEF Call, Abstract!PCNext

LEMMA RefinesStep ==
  ASSUME ChannelAssumption, AnswerInv, AnswerInv', [Next]_vars
  PROVE  Abstract!PCNext
PROOF
  <1>1. ASSUME NEW t \in Callers, Call(t) \/ CallRuns(t) PROVE Abstract!PCNext
    BY <1>1, RefinesCalls
  <1>2. ASSUME UNCHANGED callerVars, StrayChecks' \subseteq StrayChecks
        PROVE  Abstract!PCNext
    <2>1. UNCHANGED <<req, AbsAnswers>>
      BY <1>2 DEF callerVars, AbsAnswers, AbsAnswer, Verdicts
    <2>2. Verdicts(StrayChecks)' \in SUBSET Verdicts(StrayChecks)
      BY <1>2 DEF Verdicts
    <2>3. Abstract!Forget
      BY <2>1, <2>2 DEF Abstract!Forget, AbsAnswers, AbsAnswer
    <2> QED BY <2>3 DEF Abstract!PCNext
  <1>3. ASSUME NEW s \in Servers, ServerStep(s) PROVE Abstract!PCNext
    BY <1>2, <1>3, ServersLeaveCalls, StraysServers DEF AnswerInv
  <1>4. ASSUME \/ \E c \in Cells : Overwrite(c)
               \/ UNCHANGED vars
        PROVE  Abstract!PCNext
    <2>1. UNCHANGED <<mem, callerVars, serverVars, netVars>>
      BY <1>4 DEF Overwrite, vars, heapVars
    <2>2. StrayChecks' = StrayChecks
      BY <2>1 DEF StrayChecks, ChecksAbout, Mail, About, callerVars, serverVars, netVars
    <2> QED BY <1>2, <2>1, <2>2
  <1> QED BY <1>1, <1>3, <1>4 DEF Next

(* PrmChannel implements PrivilegeCheck: what the hooks may rely on holds of *)
(* the code of the channel, whatever the numbers of its actors and whichever *)
(* addresses kmalloc returns.                                                *)
THEOREM ChannelKeepsPromise == Spec => KeepsPromise
PROOF
  <1>1. Spec => []AnswerInv
    BY AnswerInvariant
  <1>2. AnswerInv /\ AnswerInv' /\ [Next]_vars => [Abstract!PCNext]_(Abstract!pcVars)
    BY RefinesStep, ChannelAssumption
  <1>3. Init => Abstract!PCInit
    BY RefinesInit, ChannelAssumption
  <1> QED BY <1>1, <1>2, <1>3, PTL DEF Spec, KeepsPromise, Abstract!PCSpec

------------------------------------------------------------------------------
(* Who can answer a check: the parts of the inductive invariant.             *)

MailOf(s) == {buf[s]} \cup {inbox[s][i] : i \in 1 .. Len(inbox[s])}

Knows(s, c) == \E m \in MailOf(s) : About(m, c)

(* The check of a call has gone to one server at most, *)
OneServerKnows ==
  \A t \in Callers : Undisturbed(t) =>
    \A s1, s2 \in Servers : Knows(s1, ptr[t]) /\ Knows(s2, ptr[t]) => s1 = s2

(* and to none before it is sent. *)
NotYetSent ==
  \A t \in Callers : Undisturbed(t) /\ pc[t] = "send" =>
    \A s \in Servers : ~Knows(s, ptr[t])

(* A cell that awaits its answer has had no up, nor has the cell that the     *)
(* handler works on, which is soon READY no longer; and up is called once.    *)
OneUp(t) ==
  /\ sem[ptr[t]] \in 0..1
  /\ status[ptr[t]] = "READY" => sem[ptr[t]] = 0 /\ ~Woken(t)
  /\ Woken(t) => sem[ptr[t]] = 0
  /\ \A s \in Servers : InHandler(s) /\ buf[s].ptr = ptr[t] =>
       /\ sem[ptr[t]] = 0 /\ ~Woken(t)
       /\ spc[s] # "k_loaded" => status[ptr[t]] # "READY"

UpOnce == \A t \in Callers : Undisturbed(t) => OneUp(t)

OnceInv == OneServerKnows /\ NotYetSent /\ UpOnce

------------------------------------------------------------------------------
(* Where a server's mail comes from. *)

LEMMA MailOfSent ==
  ASSUME Typed, NEW d, NEW m \in Messages, k2u_send(d, m), buf' = buf,
         NEW s \in Servers
  PROVE  \/ MailOf(s)' = MailOf(s)
         \/ s = d /\ MailOf(s)' \subseteq MailOf(s) \cup {m}
PROOF
  <1>1. CASE HasSocket(d) /\ Takes(d) /\ s = d
    <2>1. inbox[s] \in Seq(Messages) /\ inbox'[s] = Append(inbox[s], m)
      BY <1>1 DEF k2u_send, Typed
    <2>2. /\ Len(inbox'[s]) = Len(inbox[s]) + 1 /\ Len(inbox[s]) \in Nat
          /\ \A i \in 1 .. Len(inbox[s]) : inbox'[s][i] = inbox[s][i]
          /\ inbox'[s][Len(inbox[s]) + 1] = m
      BY <2>1, AppendProperties, LenProperties
    <2>3. ASSUME NEW i \in 1 .. Len(inbox'[s])
          PROVE  inbox'[s][i] \in MailOf(s) \cup {m}
      <3>1. CASE i \in 1 .. Len(inbox[s])
        BY <2>2, <3>1 DEF MailOf
      <3>2. CASE i = Len(inbox[s]) + 1
        BY <2>2, <3>2
      <3>3. i \in 1 .. Len(inbox[s]) \/ i = Len(inbox[s]) + 1
        <4>1. i \in 1 .. (Len(inbox[s]) + 1) /\ Len(inbox[s]) \in Nat
          BY <2>2, Zenon
        <4> QED BY <4>1
      <3> QED BY <3>1, <3>2, <3>3, Zenon
    <2>4. MailOf(s)' = {buf[s]} \cup {inbox'[s][i] : i \in 1 .. Len(inbox'[s])}
      BY Zenon DEF MailOf
    <2>5. buf[s] \in MailOf(s)
      BY DEF MailOf
    <2>6. MailOf(s)' \subseteq MailOf(s) \cup {m}
      <3> SUFFICES ASSUME NEW x \in MailOf(s)' PROVE x \in MailOf(s) \cup {m}
        OBVIOUS
      <3>1. x = buf[s] \/ \E i \in 1 .. Len(inbox'[s]) : x = inbox'[s][i]
        BY <2>4, Zenon
      <3> QED BY <2>3, <2>5, <3>1, Zenon
    <2> QED BY <1>1, <2>6, Zenon
  <1>2. CASE HasSocket(d) /\ Takes(d) /\ s # d
    <2>1. inbox'[s] = inbox[s]
      BY <1>2 DEF k2u_send, Typed
    <2> QED BY <2>1 DEF MailOf
  <1>3. CASE ~(HasSocket(d) /\ Takes(d))
    BY <1>3 DEF k2u_send, netVars, MailOf
  <1> QED BY <1>1, <1>2, <1>3

LEMMA MailOfServers ==
  ASSUME TypeOK, NEW s \in Servers, ServerStep(s), NEW u \in Servers
  PROVE  MailOf(u)' \subseteq MailOf(u) \cup {NoMsg, ConfirmMsg}
PROOF
  <1> USE DEF TypeOK
  <1>1. CASE ConnectConfirm(s)
    <2>1. k2u_send(pid, ConfirmMsg) /\ buf' = buf
      BY <1>1 DEF ConnectConfirm
    <2> QED BY <2>1, MailOfSent, MessageTypes
  <1>2. CASE ConnectRecv(s)
    <2>1. buf' = buf /\ (RecvFails(s) \/ RecvTakes(s))
      BY <1>2 DEF ConnectRecv
    <2> QED BY <2>1, MailReceived DEF MailOf
  <1>3. CASE Recv(s)
    <2>1. RecvFails(s) \/ RecvTakes(s)
      BY <1>3 DEF Recv
    <2>2. buf'[u] \in MailOf(u)
      <3>1. CASE buf'[u] = buf[u]
        BY <3>1 DEF MailOf
      <3>2. CASE buf'[u] # buf[u]
        <4>1. u = s /\ RecvTakes(s) /\ buf'[u] = Head(inbox[s])
          BY <1>3, <3>2 DEF Recv, Typed
        <4>2. inbox[s] \in Seq(Messages) /\ inbox[s] # <<>>
          BY <4>1 DEF RecvTakes, Typed
        <4>3. 1 \in 1 .. Len(inbox[s]) /\ Head(inbox[s]) = inbox[s][1]
          BY <4>2, EmptySeq, LenProperties
        <4> QED BY <4>1, <4>3 DEF MailOf
      <3> QED BY <3>1, <3>2
    <2> QED BY <2>1, <2>2, MailReceived DEF MailOf
  <1>4. CASE Close(s)
    <2>1. buf'[u] \in {buf[u], NoMsg} /\ (inbox'[u] = inbox[u] \/ inbox'[u] = <<>>)
      BY <1>4 DEF Close, Typed
    <2> QED BY <2>1 DEF MailOf
  <1>5. CASE /\ ServerStep(s) /\ ~ConnectConfirm(s) /\ ~ConnectRecv(s)
             /\ ~Recv(s) /\ ~Close(s)
    BY <1>5 DEF ServerStep, ServerRuns, SocketInit, ConnectUnsent,
       ConnectSetPid, ConnectResetFail,
       HandleMsg, ResultSetStatus, ResultSetData, ResultUp, DisconnectSetPid,
       AnswerUnsent, DisconnectUnsent, DisconnectResetFail, SocketRelease, Crash,
       netVars, MailOf
  <1> QED BY <1>1, <1>2, <1>3, <1>4, <1>5

LEMMA ServersLearnNothing ==
  ASSUME TypeOK, NEW s \in Servers, ServerStep(s), NEW u \in Servers, NEW c \in Cells,
         Knows(u, c)'
  PROVE  Knows(u, c)
PROOF
  BY MailOfServers, NotAbout DEF Knows, About

LEMMA CallsTellOne ==
  ASSUME TypeOK, NEW t \in Callers, Call(t) \/ CallRuns(t), NEW u \in Servers,
         NEW c \in Cells, Knows(u, c)', ~Knows(u, c)
  PROVE  SendCheck(t) /\ u = pid /\ c = ptr[t]
PROOF
  <1>1. CASE SendCheck(t)
    <2> DEFINE m == [type |-> "CHECK", req |-> req[t], ptr |-> ptr[t]]
    <2>1. m \in Messages
      BY <1>1 DEF SendCheck, Goto, TypeOK, LocalsOK, UsesCell, Messages, CheckMsgs
    <2>2. k2u_send(pid, m) /\ buf' = buf
      BY <1>1 DEF SendCheck, serverVars
    <2>3. u = pid /\ MailOf(u)' \subseteq MailOf(u) \cup {m}
      BY <2>1, <2>2, MailOfSent DEF TypeOK, Knows, About
    <2> QED BY <1>1, <2>3 DEF Knows, About
  <1>2. CASE ~SendCheck(t)
    <2>1. UNCHANGED <<inbox, buf>>
      BY <1>2 DEF Call, CallRuns, CheckOnline, AllocSemMsg, DownAcquired, DownTimedOut,
         LoadFailCount, StoreFailCount, TestFailCount, DropConnection,
         ResetFailCount, ReadStatus, ReadData, FreeSemMsg, Return, netVars, serverVars
    <2> QED BY <2>1 DEF Knows, MailOf, About
  <1> QED BY <1>1, <1>2

(* A handler that works on a cell knows its check. *)
LEMMA HandlerKnows ==
  ASSUME TypeOK, NEW s \in Servers, InHandler(s)
  PROVE  buf[s].ptr \in Cells /\ Knows(s, buf[s].ptr)
PROOF
  BY DEF TypeOK, LocalsOK, CheckMsgs, Knows, MailOf, About

(* A call that begins undisturbed takes a cell that no server knows of. *)
LEMMA NobodyKnows ==
  ASSUME NEW c, ChecksAbout(c) = {}
  PROVE  \A s \in Servers : ~Knows(s, c)
PROOF
  <1>1. \A s \in Servers : MailOf(s) \subseteq Mail
    BY DEF MailOf, Mail
  <1> QED BY <1>1 DEF Knows, ChecksAbout

------------------------------------------------------------------------------
(* One server knows. *)

LEMMA OneServerCalls ==
  ASSUME AnswerInv, OnceInv, NEW t \in Callers, Call(t) \/ CallRuns(t)
  PROVE  OneServerKnows' /\ NotYetSent'
PROOF
  <1>0. TypeOK /\ Typed /\ LocalsOK /\ CellOwned /\ OneServerKnows /\ NotYetSent
    BY DEF AnswerInv, OnceInv, TypeOK
  <1> SUFFICES ASSUME NEW u \in Callers, Undisturbed(u)'
               PROVE  /\ \A s1, s2 \in Servers :
                           Knows(s1, ptr[u])' /\ Knows(s2, ptr[u])' => s1 = s2
                      /\ pc'[u] = "send" => \A s \in Servers : ~Knows(s, ptr[u])'
    BY DEF OneServerKnows, NotYetSent
  <1>1. CASE u = t /\ TakesCell(t, ptr'[t])
    <2>1. late'[u] = ChecksAbout(ptr'[u]) /\ UNCHANGED <<buf, inbox>>
      BY <1>0, <1>1 DEF TakesCell, Typed
    <2>2. \A s \in Servers : ~Knows(s, ptr'[u])
      BY <2>1, NobodyKnows DEF Undisturbed
    <2>3. \A s \in Servers : ~Knows(s, ptr[u])'
      BY <2>1, <2>2 DEF Knows, MailOf, About
    <2> QED BY <2>3
  <1>2. CASE UsesCell(u) /\ ptr'[u] = ptr[u] /\ late'[u] = late[u]
    <2>1. PICK c \in Cells : c = ptr[u] /\ c = ptr'[u]
      BY <1>0, <1>2 DEF LocalsOK
    <2>2. Undisturbed(u)
      BY <1>2 DEF Undisturbed
    <2>3. \A s \in Servers : Knows(s, ptr[u])' => Knows(s, c)'
      BY <2>1 DEF Knows, About
    <2>4. ASSUME NEW s \in Servers, Knows(s, c)', ~Knows(s, c)
          PROVE  s = pid /\ u = t /\ SendCheck(t)
      <3>1. SendCheck(t) /\ s = pid /\ c = ptr[t]
        BY <1>0, <2>4, CallsTellOne
      <3>2. UsesCell(t)
        BY <3>1 DEF SendCheck, Goto, UsesCell
      <3> QED BY <1>0, <1>2, <2>1, <3>1, <3>2 DEF CellOwned
    <2>5. \A s1, s2 \in Servers : Knows(s1, c)' /\ Knows(s2, c)' => s1 = s2
      <3>1. CASE u = t /\ SendCheck(t)
        <4>1. \A s \in Servers : ~Knows(s, c)
          BY <1>0, <2>1, <2>2, <3>1 DEF NotYetSent, SendCheck, Goto
        <4> QED BY <2>4, <4>1
      <3>2. CASE ~(u = t /\ SendCheck(t))
        <4>1. \A s \in Servers : Knows(s, c)' => Knows(s, c)
          BY <2>4, <3>2
        <4>2. \A s1, s2 \in Servers : Knows(s1, c) /\ Knows(s2, c) => s1 = s2
          BY <1>0, <2>1, <2>2 DEF OneServerKnows
        <4> QED BY <4>1, <4>2
      <3> QED BY <3>1, <3>2
    <2>6. ASSUME pc'[u] = "send", NEW s \in Servers, Knows(s, c)' PROVE FALSE
      <3>1. pc[u] = "send" /\ (u = t => ~SendCheck(t))
        BY <1>0, <1>2, <2>6 DEF Call, CallRuns, CheckOnline, AllocSemMsg, SendCheck,
           DownAcquired, DownTimedOut, LoadFailCount, StoreFailCount, TestFailCount,
           DropConnection, ResetFailCount, ReadStatus, ReadData, FreeSemMsg, Return,
           Goto, Typed, UsesCell
      <3>2. ~Knows(s, c)
        BY <1>0, <2>1, <2>2, <3>1 DEF NotYetSent
      <3> QED BY <2>4, <2>6, <3>1, <3>2
    <2> QED BY <2>3, <2>5, <2>6
  <1> QED BY <1>0, <1>1, <1>2, CallKeepsCell DEF Undisturbed

LEMMA OneServerServers ==
  ASSUME AnswerInv, OnceInv, NEW s \in Servers, ServerStep(s)
  PROVE  OneServerKnows' /\ NotYetSent'
PROOF
  <1>0. TypeOK /\ LocalsOK /\ OneServerKnows /\ NotYetSent
    BY DEF AnswerInv, OnceInv, TypeOK
  <1>1. pc' = pc /\ ptr' = ptr /\ late' = late
    BY ServersLeaveCalls DEF callerVars
  <1>2. \A u \in Servers, c \in Cells : Knows(u, c)' => Knows(u, c)
    BY <1>0, ServersLearnNothing
  <1>3. \A t \in Callers : Undisturbed(t) => ptr[t] \in Cells
    BY <1>0 DEF LocalsOK, Undisturbed
  <1>4. \A t \in Callers : Undisturbed(t)' => Undisturbed(t)
    BY <1>1 DEF Undisturbed, UsesCell
  <1>5. ASSUME NEW t \in Callers, Undisturbed(t), NEW u \in Servers, Knows(u, ptr[t])'
        PROVE  Knows(u, ptr[t])
    <2>1. PICK c \in Cells : c = ptr[t]
      BY <1>3, <1>5
    <2>2. Knows(u, c)'
      BY <1>1, <1>5, <2>1 DEF Knows, About
    <2> QED BY <1>2, <2>1, <2>2
  <1>6. OneServerKnows'
    BY <1>0, <1>4, <1>5 DEF OneServerKnows
  <1>7. NotYetSent'
    BY <1>0, <1>1, <1>4, <1>5 DEF NotYetSent
  <1> QED BY <1>6, <1>7

------------------------------------------------------------------------------
(* One up. *)

LEMMA OneUpCalls ==
  ASSUME AnswerInv, OnceInv, NEW t \in Callers, Call(t) \/ CallRuns(t)
  PROVE  UpOnce'
PROOF
  <1>0. TypeOK /\ Typed /\ LocalsOK /\ CellOwned /\ CallProgress /\ UpOnce
    BY DEF AnswerInv, OnceInv, TypeOK
  <1>1. UNCHANGED <<spc, buf>>
    BY DEF Call, CallRuns, CheckOnline, AllocSemMsg, SendCheck, DownAcquired,
       DownTimedOut, LoadFailCount, StoreFailCount, TestFailCount, DropConnection,
       ResetFailCount, ReadStatus, ReadData, FreeSemMsg, Return, serverVars
  <1> SUFFICES ASSUME NEW u \in Callers, Undisturbed(u)' PROVE OneUp(u)'
    BY DEF UpOnce
  <1>2. CASE u = t /\ TakesCell(t, ptr'[t])
    <2>1. /\ ptr'[t] \in Cells /\ status' = [status EXCEPT ![ptr'[t]] = "READY"]
          /\ sem' = [sem EXCEPT ![ptr'[t]] = 0] /\ pc' = [pc EXCEPT ![t] = "send"]
          /\ late' = [late EXCEPT ![t] = ChecksAbout(ptr'[t])]
      BY <1>2 DEF TakesCell, InitSemMsg
    <2>2. /\ status'[ptr'[t]] = "READY" /\ sem'[ptr'[t]] = 0 /\ pc'[t] = "send"
          /\ late'[t] = ChecksAbout(ptr'[t])
      BY <1>0, <2>1 DEF Typed
    <2>3. \A s \in Servers : InHandler(s) => buf[s].ptr # ptr'[t]
      BY <1>0, <1>2, <2>2, HandlerKnown DEF Undisturbed
    <2> QED BY <1>1, <1>2, <2>2, <2>3 DEF OneUp, Woken, InHandler
  <1>3. CASE UsesCell(u) /\ ptr'[u] = ptr[u] /\ late'[u] = late[u]
    <2>1. Undisturbed(u) /\ OneUp(u) /\ ptr[u] \in Cells
      BY <1>0, <1>3 DEF Undisturbed, UpOnce, LocalsOK
    <2>2. CASE u = t /\ DownAcquired(t)
      <3>1. /\ sem' = [sem EXCEPT ![ptr[t]] = @ - 1] /\ sem[ptr[t]] > 0
            /\ status' = status
        BY <2>2 DEF DownAcquired
      <3>2. /\ sem[ptr[u]] = 1 /\ sem'[ptr[u]] = 0 /\ status[ptr[u]] # "READY"
            /\ \A s \in Servers : InHandler(s) => buf[s].ptr # ptr[u]
        BY <1>0, <2>1, <2>2, <3>1 DEF OneUp, Typed
      <3> QED BY <1>1, <1>3, <3>1, <3>2 DEF OneUp, InHandler
    <2>3. CASE ~(u = t /\ DownAcquired(t))
      <3>1. /\ sem'[ptr[u]] = sem[ptr[u]] /\ status'[ptr[u]] = status[ptr[u]]
        <4>1. CASE AllocSemMsg(t)
          <5>1. PICK c \in Cells : TakesCell(t, c)
            BY <4>1, AllocTakes
          <5>2. ptr[u] # c
            BY <1>0, <1>3, <5>1 DEF TakesCell, CellOwned
          <5> QED BY <1>0, <2>1, <5>1, <5>2 DEF TakesCell, InitSemMsg, Typed
        <4>2. CASE DownAcquired(t)
          <5>1. sem' = [sem EXCEPT ![ptr[t]] = @ - 1] /\ status' = status /\ UsesCell(t)
            BY <4>2 DEF DownAcquired, Goto, UsesCell
          <5>2. ptr[u] # ptr[t]
            BY <1>0, <1>3, <2>3, <4>2, <5>1 DEF CellOwned
          <5> QED BY <1>0, <2>1, <5>1, <5>2 DEF Typed
        <4>3. CASE ~AllocSemMsg(t) /\ ~DownAcquired(t)
          BY <4>3 DEF Call, CallRuns, CheckOnline, SendCheck, DownTimedOut,
             LoadFailCount, StoreFailCount, TestFailCount, DropConnection,
             ResetFailCount, ReadStatus, ReadData, FreeSemMsg, Return, heapVars
        <4> QED BY <4>1, <4>2, <4>3
      <3>2. Woken(u)' => Woken(u)
        <4>1. Progress(u)
          BY <1>0 DEF CallProgress
        <4>2. CASE u = t /\ (TestFailCount(t) \/ ResetFailCount(t))
          BY <4>1, <4>2 DEF TestFailCount, ResetFailCount, Goto, Progress, Woken
        <4>3. CASE u = t /\ ~(TestFailCount(t) \/ ResetFailCount(t))
          BY <1>0, <2>3, <4>3 DEF Call, CallRuns, CheckOnline, AllocSemMsg, SendCheck,
             DownTimedOut, LoadFailCount, StoreFailCount, DropConnection, ReadStatus,
             ReadData, FreeSemMsg, Return, Goto, Typed, Woken
        <4>4. CASE u # t
          BY <1>0, <4>4 DEF Call, CallRuns, CheckOnline, AllocSemMsg, SendCheck,
             DownAcquired, DownTimedOut, LoadFailCount, StoreFailCount, TestFailCount,
             DropConnection, ResetFailCount, ReadStatus, ReadData, FreeSemMsg, Return,
             Goto, Typed, Woken
        <4> QED BY <4>2, <4>3, <4>4
      <3> QED BY <1>1, <1>3, <2>1, <3>1, <3>2 DEF OneUp, InHandler
    <2> QED BY <2>2, <2>3
  <1> QED BY <1>0, <1>2, <1>3, CallKeepsCell DEF Undisturbed

LEMMA OneUpServers ==
  ASSUME AnswerInv, OnceInv, NEW s \in Servers, ServerStep(s)
  PROVE  UpOnce'
PROOF
  <1>0. TypeOK /\ Typed /\ LocalsOK /\ UpOnce /\ OneServerKnows
    BY DEF AnswerInv, OnceInv, TypeOK
  <1>1. UNCHANGED <<pc, ptr, down_ret, late>>
    BY ServersLeaveCalls DEF callerVars
  <1> SUFFICES ASSUME NEW t \in Callers, Undisturbed(t) PROVE OneUp(t)'
    BY <1>1 DEF UpOnce, Undisturbed, UsesCell
  <1>2. OneUp(t) /\ ptr[t] \in Cells /\ (Woken(t)' <=> Woken(t))
    BY <1>0, <1>1 DEF UpOnce, LocalsOK, Undisturbed, Woken
  <1>3. CASE HandleMsg(s)
    <2>1. /\ UNCHANGED <<status, sem, buf>>
          /\ \A u \in Servers : u # s => spc'[u] = spc[u]
          /\ \/ spc'[s] = "loop"
             \/ spc'[s] = "k_loaded" /\ status[buf[s].ptr] = "READY"
      BY <1>0, <1>3 DEF HandleMsg, AwaitsResult, heapVars, Typed
    <2> QED BY <1>1, <1>2, <2>1 DEF OneUp, InHandler
  <1>4. CASE ResultSetStatus(s)
    <2>1. /\ UNCHANGED <<sem, buf>> /\ spc[s] = "k_loaded"
          /\ spc' = [spc EXCEPT ![s] = "k_data"]
          /\ status' = [status EXCEPT ![buf[s].ptr] = "LOADED"]
      BY <1>4 DEF ResultSetStatus, SGoto
    <2>2. CASE buf[s].ptr = ptr[t]
      <3>1. status'[ptr[t]] = "LOADED"
        BY <1>0, <1>2, <2>1, <2>2 DEF Typed
      <3> QED BY <1>0, <1>1, <1>2, <2>1, <3>1 DEF OneUp, InHandler, Typed
    <2>3. CASE buf[s].ptr # ptr[t]
      <3>1. status'[ptr[t]] = status[ptr[t]]
        BY <1>0, <1>2, <2>1, <2>3 DEF Typed
      <3> QED BY <1>0, <1>1, <1>2, <2>1, <2>3, <3>1 DEF OneUp, InHandler, Typed
    <2> QED BY <2>2, <2>3
  <1>5. CASE ResultSetData(s)
    <2>1. /\ UNCHANGED <<status, sem, buf>> /\ spc[s] = "k_data"
          /\ spc' = [spc EXCEPT ![s] = "k_up"]
      BY <1>5 DEF ResultSetData, SGoto
    <2> QED BY <1>0, <1>1, <1>2, <2>1 DEF OneUp, InHandler, Typed
  <1>6. CASE ResultUp(s)
    <2>1. /\ UNCHANGED <<status, buf>> /\ InHandler(s) /\ spc[s] = "k_up"
          /\ spc' = [spc EXCEPT ![s] = "loop"]
          /\ sem' = [sem EXCEPT ![buf[s].ptr] = @ + 1]
      BY <1>6 DEF ResultUp, SGoto, InHandler
    <2>2. \A u \in Servers : InHandler(u)' => u # s /\ InHandler(u) /\ spc'[u] = spc[u]
      BY <1>0, <2>1 DEF InHandler, Typed
    <2>3. CASE buf[s].ptr = ptr[t]
      <3>1. sem[ptr[t]] = 0 /\ ~Woken(t) /\ status[ptr[t]] # "READY"
        BY <1>2, <2>1, <2>3 DEF OneUp
      <3>2. sem'[ptr[t]] = 1
        BY <1>0, <1>2, <2>1, <2>3, <3>1 DEF Typed
      <3>3. \A u \in Servers : InHandler(u) /\ u # s => buf[u].ptr # ptr[t]
        BY <1>0, <2>1, <2>3, HandlerKnows DEF OneServerKnows
      <3> QED BY <1>1, <1>2, <2>1, <2>2, <3>1, <3>2, <3>3 DEF OneUp
    <2>4. CASE buf[s].ptr # ptr[t]
      <3>1. sem'[ptr[t]] = sem[ptr[t]]
        BY <1>0, <1>2, <2>1, <2>4 DEF Typed
      <3> QED BY <1>1, <1>2, <2>1, <2>2, <3>1 DEF OneUp
    <2> QED BY <2>3, <2>4
  <1>7. CASE ~HandleMsg(s) /\ ~ResultSetStatus(s) /\ ~ResultSetData(s) /\ ~ResultUp(s)
    <2>1. UNCHANGED <<status, sem>>
      BY <1>7 DEF ServerStep, ServerRuns, SocketInit, ConnectUnsent, ConnectSetPid,
         ConnectConfirm, ConnectResetFail, ConnectRecv, Recv, AnswerUnsent,
         DisconnectSetPid, DisconnectUnsent, DisconnectResetFail, SocketRelease,
         Crash, Close, heapVars
    <2>2. \A u \in Servers : InHandler(u)' =>
            InHandler(u) /\ spc'[u] = spc[u] /\ buf'[u] = buf[u]
      BY <1>0, <1>7 DEF ServerStep, ServerRuns, SocketInit, ConnectUnsent, ConnectSetPid,
         ConnectConfirm, ConnectResetFail, ConnectRecv, Recv, AnswerUnsent,
         DisconnectSetPid, DisconnectUnsent, DisconnectResetFail, SocketRelease,
         Crash, Close, SGoto, InHandler, Typed
    <2> QED BY <1>1, <1>2, <2>1, <2>2 DEF OneUp
  <1> QED BY <1>3, <1>4, <1>5, <1>6, <1>7

(* Nobody looks at the status of a cell that is no call's. *)
LEMMA OnceInvKept ==
  ASSUME OnceInv, LocalsOK, UNCHANGED <<sem, callerVars, serverVars, netVars>>,
         \A t \in Callers : UsesCell(t) => status'[ptr[t]] = status[ptr[t]]
  PROVE  OnceInv'
PROOF
  <1>1. OneServerKnows' /\ NotYetSent'
    BY DEF OnceInv, OneServerKnows, NotYetSent, Undisturbed, UsesCell, Knows, MailOf,
       About, callerVars, serverVars, netVars
  <1>2. UpOnce'
    BY DEF OnceInv, UpOnce, OneUp, Undisturbed, UsesCell, Woken, InHandler,
       callerVars, serverVars
  <1> QED BY <1>1, <1>2 DEF OnceInv

LEMMA OnceInvStep ==
  ASSUME AnswerInv, OnceInv, [Next]_vars
  PROVE  OnceInv'
PROOF
  <1>0. Typed /\ LocalsOK /\ CellOwned /\ OneServerKnows /\ NotYetSent /\ UpOnce
    BY DEF AnswerInv, OnceInv, TypeOK
  <1>1. ASSUME NEW t \in Callers, Call(t) \/ CallRuns(t) PROVE OnceInv'
    BY <1>1, OneServerCalls, OneUpCalls DEF OnceInv
  <1>2. ASSUME NEW s \in Servers, ServerStep(s) PROVE OnceInv'
    BY <1>2, OneServerServers, OneUpServers DEF OnceInv
  <1>3. ASSUME NEW c \in Cells, Overwrite(c) PROVE OnceInv'
    <2>1. \A t \in Callers : UsesCell(t) => status'[ptr[t]] = status[ptr[t]]
      BY <1>0, <1>3 DEF Overwrite, Typed, CellOwned
    <2> QED BY <1>0, <1>3, <2>1, OnceInvKept DEF Overwrite
  <1>4. CASE UNCHANGED vars
    BY <1>0, <1>4, OnceInvKept DEF vars, heapVars
  <1> QED BY <1>1, <1>2, <1>3, <1>4 DEF Next

LEMMA OnceInvInit == Init => OnceInv
PROOF
  BY DEF Init, OnceInv, OneServerKnows, NotYetSent, UpOnce, Undisturbed, UsesCell

LEMMA OnceInvAnswers == OnceInv => AnsweredOnce
PROOF
  BY DEF OnceInv, UpOnce, OneUp, Undisturbed, AnsweredOnce

(* No check is answered twice, by one server after a failed recv nor by two: *)
(* k2u_send gives a check to one server, and that one calls up only if it    *)
(* has found the cell READY, which it leaves LOADED before it looks again.   *)
(* Only a call that earlier checks may disturb is exempt.                    *)
THEOREM ChecksAreAnsweredOnce == Spec => []AnsweredOnce
PROOF
  <1>1. Spec => []AnswerInv
    BY AnswerInvariant
  <1>2. AnswerInv /\ OnceInv /\ [Next]_vars => OnceInv'
    BY OnceInvStep
  <1> QED BY <1>1, <1>2, OnceInvInit, OnceInvAnswers, PTL DEF Spec

=============================================================================
