--------------------------- MODULE PrmSelfCheckProofs ---------------------------
(***************************************************************************)
(* Proofs about a server that prints to a hooked file, under either        *)
(* version of the kernel module, for any number of callers, servers and    *)
(* cells: the steps that both versions share are those of PrmChannel, and  *)
(* so are the lemmas about them.                                           *)
(***************************************************************************)
EXTENDS PrmSelfCheck, PrmAnswerProofs

------------------------------------------------------------------------------
(* The steps. *)

(* What a call does in either version of the module. *)
CommonStep(t) ==
  \/ Call(t)
  \/ AllocSemMsg(t)
  \/ SendCheck(t)
  \/ DownAcquired(t)
  \/ DownTimedOut(t)
  \/ LoadFailCount(t)
  \/ StoreFailCount(t)
  \/ TestFailCount(t)
  \/ DropConnection(t)
  \/ ResetFailCount(t)
  \/ ReadData(t)
  \/ Return(t)

(* How it comes to know the status. *)
StatusStep(t) ==
  \/ version = "kernel" /\ (KfreeFirst(t) \/ ReadFreedStatus(t))
  \/ version # "kernel" /\ (ReadStatus(t) \/ FreeSemMsg(t))

CallerStep(t) == CommonStep(t) \/ StatusStep(t)

(* A server calls only where it prints. *)
MayStep(t) == \A s \in Servers : t = OwnThread[s] /\ pc[t] = "idle" => Prints(s)

LEMMA CommonIsCall ==
  ASSUME NEW t \in Callers, CommonStep(t)
  PROVE  Call(t) \/ CallRuns(t)
BY DEF CommonStep, CallRuns

LEMMA SelfSteps ==
  ASSUME [SelfNext]_allVars
  PROVE  /\ version' = version
         /\ \/ \E t \in Callers : CallerStep(t) /\ MayStep(t)
            \/ \E s \in Servers : ServerStep(s) /\ ~InCall(s)
            \/ \E c \in Cells : OverwriteAll(c)
            \/ UNCHANGED vars
PROOF
  <1>1. ASSUME NEW t \in Callers, Begins(t) PROVE version' = version /\ CallerStep(t)
    BY <1>1 DEF Begins, CallerStep, CommonStep
  <1>2. ASSUME NEW t \in Callers, RunsCall(t)
        PROVE  version' = version /\ CallerStep(t) /\ MayStep(t)
    <2>1. version' = version /\ CallerStep(t)
      BY <1>2 DEF RunsCall, admissionReq, CallRuns, CallerStep, CommonStep, StatusStep
    <2>2. pc[t] # "idle"
      BY <1>2 DEF RunsCall, admissionReq, CallRuns, AllocSemMsg, SendCheck, DownAcquired,
         DownTimedOut, LoadFailCount, StoreFailCount, TestFailCount, DropConnection,
         ResetFailCount, ReadStatus, ReadData, FreeSemMsg, Return, KfreeFirst,
         ReadFreedStatus, Goto
    <2> QED BY <2>1, <2>2 DEF MayStep
  <1>3. ASSUME NEW s \in Servers, FlushStdout(s)
        PROVE  /\ version' = version /\ OwnThread[s] \in Callers
               /\ CallerStep(OwnThread[s]) /\ MayStep(OwnThread[s])
    <2>1. Prints(s) /\ Begins(OwnThread[s])
      BY <1>3 DEF FlushStdout
    <2>2. MayStep(OwnThread[s])
      BY <2>1, OwnThreadAssumption DEF MayStep
    <2> QED BY <1>1, <2>1, <2>2, OwnThreadAssumption
  <1>4. ASSUME NEW s \in Servers, ~ServerWaits(s), Serves(s)
        PROVE  version' = version /\ ServerStep(s) /\ ~InCall(s)
    BY <1>4 DEF Serves, nl_data_ready, InUserMode, ServerWaits, ServerStep, ServerRuns
  <1>5. ASSUME NEW c \in Cells, OverwriteAll(c) PROVE version' = version
    BY <1>5 DEF OverwriteAll
  <1>6. ASSUME UNCHANGED allVars PROVE version' = version /\ UNCHANGED vars
    BY <1>6 DEF allVars
  <1>7. ASSUME NEW t \in Callers \ ServerThreads PROVE MayStep(t)
    BY <1>7 DEF MayStep, ServerThreads
  <1>8. CASE SelfNext
    BY <1>1, <1>2, <1>3, <1>4, <1>5, <1>7, <1>8 DEF SelfNext
  <1> QED BY <1>6, <1>8

------------------------------------------------------------------------------
(* Types, and the count of failures. *)

LEMMA StatusTypes ==
  ASSUME ChannelAssumption, TypeOK, NEW t \in Callers, CallerStep(t)
  PROVE  TypeOK'
PROOF
  <1>1. CASE KfreeFirst(t)
    BY <1>1 DEF KfreeFirst, TypeOK, Typed, LocalsOK, UsesCell, InHandler, callerVars,
       serverVars, netVars
  <1>2. CASE ReadFreedStatus(t)
    <2>1. /\ pc[t] = "status" /\ pc' \in [Callers -> CallerPCs]
          /\ ret' \in [Callers -> {"none", "SERVEROFFLINE", "ERROR", "SUCCESS"}]
          /\ \A u \in Callers : \/ u = t /\ pc'[u] \in {"data", "return"}
                                \/ u # t /\ pc'[u] = pc[u]
      <3>1. /\ pc[t] = "status"
            /\ \/ pc' = [pc EXCEPT ![t] = "data"] /\ ret' = ret
               \/ pc' = [pc EXCEPT ![t] = "return"] /\ ret' = [ret EXCEPT ![t] = "ERROR"]
        BY <1>2, Zenon DEF ReadFreedStatus
      <3>2. pc \in [Callers -> CallerPCs] /\ "data" \in CallerPCs /\ "return" \in CallerPCs
        BY DEF TypeOK, Typed, CallerPCs
      <3>3. pc' \in [Callers -> CallerPCs]
        BY <3>1, <3>2
      <3>4. ret' \in [Callers -> {"none", "SERVEROFFLINE", "ERROR", "SUCCESS"}]
        <4>1. ret' = ret \/ ret' = [ret EXCEPT ![t] = "ERROR"]
          BY <3>1, Zenon
        <4>2. ret \in [Callers -> {"none", "SERVEROFFLINE", "ERROR", "SUCCESS"}]
          BY DEF TypeOK, Typed
        <4> QED BY <4>1, <4>2
      <3>5. \A u \in Callers : \/ u = t /\ pc'[u] \in {"data", "return"}
                               \/ u # t /\ pc'[u] = pc[u]
        <4>1. \E to \in {"data", "return"} : pc' = [pc EXCEPT ![t] = to]
          BY <3>1, Zenon
        <4> QED BY <3>2, <4>1
      <3> QED BY <3>1, <3>3, <3>4, <3>5, Zenon
    <2>2. UNCHANGED <<pid, fail_count, index, heapVars, req, ptr, reg, down_ret,
                      result, late, serverVars, netVars>>
      BY <1>2 DEF ReadFreedStatus
    <2>3. Typed'
      BY <2>1, <2>2 DEF TypeOK, Typed, heapVars, serverVars, netVars
    <2>4. LocalsOK'
      BY <2>1, <2>2 DEF TypeOK, LocalsOK, UsesCell, InHandler, serverVars
    <2> QED BY <2>3, <2>4 DEF TypeOK
  <1> QED BY <1>1, <1>2, TypeCalls DEF CallerStep, StatusStep, CommonStep, CallRuns

LEMMA OverwriteTypes ==
  ASSUME TypeOK, NEW c \in Cells, OverwriteAll(c)
  PROVE  TypeOK'
BY DEF OverwriteAll, TypeOK, Typed, LocalsOK, UsesCell, InHandler, callerVars,
   serverVars, netVars

LEMMA SelfTypeStep ==
  ASSUME TypeOK, [SelfNext]_allVars
  PROVE  TypeOK'
BY SelfSteps, ChannelAssumption, StatusTypes, TypeServers, OverwriteTypes, TypeStutter

(* Types, for a server that may be a caller, and under either version of the *)
(* kernel module.                                                            *)
THEOREM SelfTypeCorrect == SelfSpec => []TypeOK
PROOF
  <1>1. BothInit => TypeOK
    BY ChannelAssumption, TypeInit DEF BothInit
  <1> QED BY <1>1, SelfTypeStep, PTL DEF SelfSpec

LEMMA SelfFailCountStep ==
  ASSUME TypeOK, FailCountSettled, [SelfNext]_allVars
  PROVE  FailCountSettled'
PROOF
  <1>1. ASSUME Next \/ UNCHANGED vars PROVE FailCountSettled'
    BY <1>1, FailCountStep
  <1>2. ASSUME NEW t \in Callers, KfreeFirst(t) \/ ReadFreedStatus(t)
        PROVE  FailCountSettled'
    <2>1. /\ fail_count' = fail_count
          /\ \A u \in Callers : pc[u] \in {"test", "drop", "reset"} => pc'[u] = pc[u]
      BY <1>2 DEF KfreeFirst, ReadFreedStatus, callerVars, TypeOK, Typed
    <2> QED BY <2>1 DEF FailCountSettled
  <1>3. ASSUME NEW c \in Cells, OverwriteAll(c) PROVE FailCountSettled'
    BY <1>3 DEF OverwriteAll, callerVars, FailCountSettled
  <1> QED BY <1>1, <1>2, <1>3, SelfSteps
          DEF CallerStep, StatusStep, CommonStep, CallRuns, Next

(* The count of timeouts does not stay at the limit in either version of the *)
(* module, the server's own checks included.                                 *)
THEOREM SelfFailCountSettles == SelfSpec => []FailCountSettled
PROOF
  <1>1. BothInit => FailCountSettled
    BY DEF BothInit, Init, FailCountSettled, FailLimit
  <1> QED BY <1>1, SelfFailCountStep, SelfTypeCorrect, PTL DEF SelfSpec

------------------------------------------------------------------------------
(* The server's own check. *)

(* A call whose cell nobody answers, from its allocation to its return. *)
Unanswered(t) ==
  /\ UsesCell(t) => status[ptr[t]] # "LOADED"
  /\ pc[t] # "data"
  /\ pc[t] = "return" => ret[t] \in {"SERVEROFFLINE", "ERROR"}

(* A server that waits in its own call stays where it printed. *)
OwnInv ==
  \A s \in Servers : InCall(s) => Prints(s) /\ Unanswered(OwnThread[s])

(* No call writes an answer. *)
LEMMA CallerLoadsNothing ==
  ASSUME TypeOK, NEW t \in Callers, CallerStep(t), NEW c \in Cells, status'[c] = "LOADED"
  PROVE  status[c] = "LOADED"
PROOF
  <1>1. status' = status \/ \E d \in Cells : status' = [status EXCEPT ![d] = "READY"]
    BY DEF CallerStep, CommonStep, StatusStep, Call, CheckOnline, AllocSemMsg,
       InitSemMsg, FreeCells,
       SendCheck, DownAcquired, DownTimedOut, LoadFailCount, StoreFailCount, TestFailCount,
       DropConnection, ResetFailCount, ReadStatus, ReadData, FreeSemMsg, Return,
       KfreeFirst, ReadFreedStatus, heapVars
  <1> QED BY <1>1 DEF TypeOK, Typed

(* The locals of the other calls. *)
LEMMA OthersStay ==
  ASSUME TypeOK, NEW t \in Callers, CallerStep(t), NEW u \in Callers, u # t
  PROVE  /\ pc'[u] = pc[u] /\ ptr'[u] = ptr[u] /\ req'[u] = req[u]
         /\ down_ret'[u] = down_ret[u] /\ ret'[u] = ret[u] /\ result'[u] = result[u]
BY DEF CallerStep, CommonStep, StatusStep, Call, CheckOnline, AllocSemMsg,
   SendCheck, DownAcquired, DownTimedOut, LoadFailCount, StoreFailCount, TestFailCount,
   DropConnection, ResetFailCount, ReadStatus, ReadData, FreeSemMsg, Return,
   KfreeFirst, ReadFreedStatus, Goto, callerVars, TypeOK, Typed

LEMMA ServersStay ==
  ASSUME NEW t, CallerStep(t)
  PROVE  UNCHANGED <<spc, buf>>
BY DEF CallerStep, CommonStep, StatusStep, Call, CheckOnline, AllocSemMsg,
   SendCheck, DownAcquired, DownTimedOut, LoadFailCount, StoreFailCount, TestFailCount,
   DropConnection, ResetFailCount, ReadStatus, ReadData, FreeSemMsg, Return,
   KfreeFirst, ReadFreedStatus, serverVars

LEMMA UnansweredStep ==
  ASSUME TypeOK, NEW t \in Callers, CallerStep(t), pc[t] = "idle" \/ Unanswered(t)
  PROVE  Unanswered(t)'
PROOF
  <1>1. \A c \in Cells : status'[c] = "LOADED" => status[c] = "LOADED"
    BY CallerLoadsNothing
  <1>2. UsesCell(t) => ptr[t] \in Cells
    BY DEF TypeOK, LocalsOK
  <1>3. Typed
    BY DEF TypeOK
  <1>4. CASE Call(t)
    BY <1>3, <1>4 DEF Call, CheckOnline, Unanswered, UsesCell, Typed
  <1>5. CASE AllocSemMsg(t)
    <2>1. PICK c \in Cells : ptr' = [ptr EXCEPT ![t] = c] /\ status' = [status EXCEPT ![c] = "READY"]
      BY <1>5 DEF AllocSemMsg, InitSemMsg, FreeCells
    <2>2. pc'[t] = "send" /\ ptr'[t] = c /\ status'[c] = "READY"
      BY <1>3, <1>5, <2>1 DEF AllocSemMsg, Goto, Typed
    <2> QED BY <2>2 DEF Unanswered
  <1>6. CASE SendCheck(t) \/ DownAcquired(t) \/ DownTimedOut(t) \/ LoadFailCount(t)
             \/ StoreFailCount(t) \/ TestFailCount(t) \/ DropConnection(t) \/ ResetFailCount(t)
             \/ KfreeFirst(t)
    <2>1. /\ UsesCell(t) /\ ptr'[t] = ptr[t] /\ pc'[t] \notin {"data", "return"} /\ pc[t] # "idle"
      BY <1>3, <1>6 DEF SendCheck, DownAcquired, DownTimedOut, LoadFailCount, StoreFailCount,
         TestFailCount, DropConnection, ResetFailCount, KfreeFirst, Goto, UsesCell, Typed,
         callerVars
    <2> QED BY <1>1, <1>2, <2>1 DEF Unanswered
  <1>7. CASE ReadStatus(t) \/ ReadFreedStatus(t)
    <2>1. status[ptr[t]] # "LOADED" /\ pc[t] = "status"
      BY <1>7 DEF ReadStatus, ReadFreedStatus, Unanswered, UsesCell
    <2>2. /\ \/ pc'[t] = "free"
             \/ pc'[t] = "return" /\ ret'[t] = "ERROR"
          /\ ptr' = ptr
      BY <1>3, <1>7, <2>1 DEF ReadStatus, ReadFreedStatus, Typed
    <2> QED BY <1>1, <1>2, <2>1, <2>2 DEF Unanswered, UsesCell
  <1>8. CASE ReadData(t)
    BY <1>8 DEF ReadData, Goto, Unanswered
  <1>9. CASE FreeSemMsg(t) \/ Return(t)
    BY <1>3, <1>9 DEF FreeSemMsg, Return, Goto, Unanswered, UsesCell, Typed
  <1> QED BY <1>4, <1>5, <1>6, <1>7, <1>8, <1>9 DEF CallerStep, CommonStep, StatusStep

LEMMA OwnStep ==
  ASSUME \A s1, s2 \in Servers : s1 = s2, TypeOK, OwnInv, [SelfNext]_allVars
  PROVE  OwnInv'
PROOF
  <1> SUFFICES ASSUME NEW s \in Servers, InCall(s)'
               PROVE  Prints(s)' /\ Unanswered(OwnThread[s])'
    BY DEF OwnInv
  <1> DEFINE own == OwnThread[s]
  <1>0. own \in Callers
    BY OwnThreadAssumption
  <1>1. ASSUME NEW t \in Callers, CallerStep(t), MayStep(t)
        PROVE  Prints(s)' /\ Unanswered(own)'
    <2>1. CASE own = t
      <3>1. Prints(s) /\ (pc[t] = "idle" \/ Unanswered(t))
        BY <1>1, <2>1 DEF OwnInv, InCall, MayStep
      <3>2. Unanswered(t)'
        BY <1>1, <3>1, UnansweredStep
      <3> QED BY <1>1, <2>1, <3>1, <3>2, ServersStay DEF Prints
    <2>2. CASE own # t
      <3>1. /\ pc'[own] = pc[own] /\ ptr'[own] = ptr[own] /\ ret'[own] = ret[own]
        BY <1>0, <1>1, <2>2, OthersStay
      <3>2. Prints(s) /\ Unanswered(own)
        BY <3>1 DEF OwnInv, InCall
      <3>3. UsesCell(own) => ptr[own] \in Cells
        BY <1>0 DEF TypeOK, LocalsOK
      <3>4. Unanswered(own)'
        BY <1>1, <3>1, <3>2, <3>3, CallerLoadsNothing DEF Unanswered, UsesCell
      <3> QED BY <1>1, <3>2, <3>4, ServersStay DEF Prints
    <2> QED BY <2>1, <2>2
  <1>2. ASSUME NEW u \in Servers, ServerStep(u), ~InCall(u)
        PROVE  FALSE
    <2>1. u = s /\ pc' = pc
      BY <1>2, ServersLeaveCalls DEF callerVars
    <2> QED BY <1>2, <2>1 DEF InCall
  <1>3. ASSUME UNCHANGED <<pc, ptr, ret, spc>>,
               \A c \in Cells : status'[c] = "LOADED" => status[c] = "LOADED"
        PROVE  Prints(s)' /\ Unanswered(own)'
    <2>1. Prints(s) /\ Unanswered(own)
      BY <1>3 DEF OwnInv, InCall
    <2>2. UsesCell(own) => ptr[own] \in Cells
      BY <1>0 DEF TypeOK, LocalsOK
    <2> QED BY <1>3, <2>1, <2>2 DEF Prints, Unanswered, UsesCell
  <1>4. ASSUME NEW c \in Cells, OverwriteAll(c)
        PROVE  Prints(s)' /\ Unanswered(own)'
    BY <1>3, <1>4 DEF OverwriteAll, callerVars, serverVars, TypeOK, Typed
  <1>5. CASE UNCHANGED vars
    BY <1>3, <1>5 DEF vars, callerVars, serverVars, heapVars
  <1> QED BY <1>1, <1>2, <1>4, <1>5, SelfSteps

(* A server that prints to a hooked file never gets an answer to its own     *)
(* check, even if kmalloc hands out freed cells: for as long as it waits it  *)
(* is not in its loop, and no other server runs.                             *)
THEOREM OwnChecksFail ==
  (\A s1, s2 \in Servers : s1 = s2) /\ SelfSpec => []OwnCheckFails
PROOF
  <1> SUFFICES ASSUME \A s1, s2 \in Servers : s1 = s2
               PROVE  SelfSpec => []OwnCheckFails
    OBVIOUS
  <1>1. BothInit => OwnInv
    BY OwnThreadAssumption DEF BothInit, Init, OwnInv, InCall
  <1>2. TypeOK /\ OwnInv /\ [SelfNext]_allVars => OwnInv'
    BY OwnStep
  <1>3. OwnInv => OwnCheckFails
    BY DEF OwnInv, OwnCheckFails, InCall, Unanswered
  <1> QED BY <1>1, <1>2, <1>3, SelfTypeCorrect, PTL DEF SelfSpec

------------------------------------------------------------------------------
(* The present version under a server that is a caller. *)

(* A caller step that is not one of PrmChannel's. *)
LEMMA StatusSteps ==
  ASSUME NEW t \in Callers, CallerStep(t)
  PROVE  \/ Call(t) \/ CallRuns(t)
         \/ version = "kernel" /\ (KfreeFirst(t) \/ ReadFreedStatus(t))
BY DEF CallerStep, StatusStep, CommonStep, CallRuns

(* A step of the present version is one of PrmChannel, or another user of    *)
(* kmalloc writes over a cell.                                               *)
LEMMA PresentSteps ==
  ASSUME version = "kernel2", [SelfNext]_allVars
  PROVE  /\ version' = version
         /\ [Next]_vars \/ \E c \in Cells : OverwriteAll(c)
PROOF
  <1>1. ASSUME NEW t \in Callers, CallerStep(t) PROVE Call(t) \/ CallRuns(t)
    BY <1>1, StatusSteps
  <1> QED BY <1>1, SelfSteps DEF Next

(* What is written over is no call's. *)
LEMMA AnswersSurvive ==
  ASSUME AnswerInv, NEW c \in Cells, OverwriteAll(c)
  PROVE  AnswerInv' /\ UNCHANGED <<req, AbsAnswers, StrayChecks>>
PROOF
  <1>0. Typed /\ LocalsOK /\ CellOwned
    BY DEF AnswerInv, TypeOK
  <1>1. /\ UNCHANGED <<mem, sem, pc, req, ptr, down_ret, ret, result, late, spc, buf, inbox>>
        /\ mem[c] = "freed"
        /\ \A d \in Cells : d # c => status'[d] = status[d] /\ data'[d] = data[d]
    BY <1>0 DEF OverwriteAll, callerVars, serverVars, netVars, Typed
  <1>2. \A t \in Callers : UsesCell(t) =>
          /\ status'[ptr[t]] = status[ptr[t]] /\ data'[ptr[t]] = data[ptr[t]]
          /\ Answered(t)' = Answered(t)
    <2> SUFFICES ASSUME NEW t \in Callers, UsesCell(t)
                 PROVE  /\ status'[ptr[t]] = status[ptr[t]] /\ data'[ptr[t]] = data[ptr[t]]
                        /\ Answered(t)' = Answered(t)
      OBVIOUS
    <2>1. ptr[t] \in Cells /\ ptr[t] # c
      BY <1>0, <1>1 DEF LocalsOK, CellOwned
    <2>2. status'[ptr[t]] = status[ptr[t]] /\ data'[ptr[t]] = data[ptr[t]]
      BY <1>1, <2>1
    <2> QED BY <1>1, <2>2 DEF Answered
  <1>3. TypeOK'
    BY OverwriteTypes DEF AnswerInv
  <1>4. CellOwned'
    BY <1>0, <1>1 DEF CellOwned, UsesCell
  <1>5. Mail' = Mail
    BY <1>1 DEF Mail
  <1>6. FreshUnknown' /\ MessagesAgree'
    BY <1>1, <1>5 DEF AnswerInv, FreshUnknown, MessagesAgree, UsesCell
  <1>7. CellHoldsData'
    BY <1>1, <1>2 DEF AnswerInv, CellHoldsData, Readable, UsesCell, Verdicts
  <1>8. CellHoldsAnswer'
    <2> SUFFICES ASSUME NEW t \in Callers, Undisturbed(t)
                 PROVE  /\ sem[ptr[t]] > 0 => Answered(t)'
                        /\ HandlerWritesAnswer(t)'
                        /\ pc[t] \in {"status", "data"} /\ down_ret[t] = "ok"
                             => Answered(t)'
      BY <1>1 DEF CellHoldsAnswer, Undisturbed, UsesCell
    <2>1. /\ sem[ptr[t]] > 0 => Answered(t)
          /\ HandlerWritesAnswer(t)
          /\ pc[t] \in {"status", "data"} /\ down_ret[t] = "ok" => Answered(t)
      BY DEF AnswerInv, CellHoldsAnswer
    <2>2. status'[ptr[t]] = status[ptr[t]] /\ (Answered(t) <=> Answered(t)')
      BY <1>2 DEF Undisturbed
    <2>3. HandlerWritesAnswer(t)'
      BY <1>1, <2>1, <2>2 DEF HandlerWritesAnswer, InHandler
    <2> QED BY <2>1, <2>2, <2>3
  <1>9. CallProgress'
    BY <1>1 DEF AnswerInv, CallProgress, Progress, Outcome, LateOrDisturbed, Verdicts
  <1>10. UNCHANGED <<req, AbsAnswers, StrayChecks>>
    BY <1>1, <1>5 DEF AbsAnswers, AbsAnswer, StrayChecks, ChecksAbout, About, Verdicts
  <1> QED BY <1>3, <1>4, <1>6, <1>7, <1>8, <1>9, <1>10 DEF AnswerInv

(* The present version implements PrivilegeCheck for every caller, a server  *)
(* that prints to a hooked file among them: its own check is one that is not *)
(* answered in time.                                                         *)
THEOREM PresentVersionKeepsPromise == SelfSpec => PresentKeepsPromise
PROOF
  <1> DEFINE Inv == version = "kernel2" => AnswerInv
             Step == version = "kernel2" => [Abstract!PCNext]_(Abstract!pcVars)
  <1>1. BothInit => Inv
    BY ChannelAssumption, AnswerInvInit DEF BothInit
  <1>2. Inv /\ [SelfNext]_allVars => Inv' /\ [Step]_allVars
    <2> SUFFICES ASSUME version = "kernel2", AnswerInv, [SelfNext]_allVars
                 PROVE  AnswerInv' /\ [Abstract!PCNext]_(Abstract!pcVars)
      BY SelfSteps
    <2>1. CASE [Next]_vars
      BY <2>1, ChannelAssumption, AnswerInvStep, RefinesStep
    <2>2. ASSUME NEW c \in Cells, OverwriteAll(c)
          PROVE  AnswerInv' /\ [Abstract!PCNext]_(Abstract!pcVars)
      <3>1. AnswerInv' /\ UNCHANGED <<req, AbsAnswers, StrayChecks>>
        BY <2>2, AnswersSurvive
      <3>2. UNCHANGED Abstract!pcVars
        BY <3>1 DEF Abstract!pcVars, AbsAnswers, AbsAnswer, Verdicts
      <3> QED BY <3>1, <3>2
    <2> QED BY <2>1, <2>2, PresentSteps
  <1> QED BY <1>1, <1>2, PTL DEF SelfSpec, PresentKeepsPromise

(* In the present version no check is answered twice, a self-checking        *)
(* server's included, but one that waits in the cell of a check not          *)
(* forgotten: what others write to freed cells makes no call's cell READY.   *)
THEOREM PresentVersionAnswersOnce == SelfSpec => []PresentAnswersOnce
PROOF
  <1> DEFINE Inv == version = "kernel2" => AnswerInv /\ OnceInv
  <1>1. BothInit => Inv
    BY ChannelAssumption, AnswerInvInit, OnceInvInit DEF BothInit
  <1>2. Inv /\ [SelfNext]_allVars => Inv'
    <2> SUFFICES ASSUME version = "kernel2", AnswerInv, OnceInv, [SelfNext]_allVars
                 PROVE  AnswerInv' /\ OnceInv'
      BY SelfSteps
    <2>1. CASE [Next]_vars
      BY <2>1, ChannelAssumption, AnswerInvStep, OnceInvStep
    <2>2. ASSUME NEW c \in Cells, OverwriteAll(c) PROVE AnswerInv' /\ OnceInv'
      <3>1. Typed /\ LocalsOK /\ CellOwned
        BY DEF AnswerInv, TypeOK
      <3>2. \A t \in Callers : UsesCell(t) => status'[ptr[t]] = status[ptr[t]]
        BY <2>2, <3>1 DEF OverwriteAll, Typed, LocalsOK, CellOwned
      <3> QED BY <2>2, <3>1, <3>2, AnswersSurvive, OnceInvKept DEF OverwriteAll
    <2> QED BY <2>1, <2>2, PresentSteps
  <1>3. Inv => PresentAnswersOnce
    BY OnceInvAnswers DEF PresentAnswersOnce
  <1> QED BY <1>1, <1>2, <1>3, PTL DEF SelfSpec

=============================================================================
