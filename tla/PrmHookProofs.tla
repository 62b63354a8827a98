---------------------------- MODULE PrmHookProofs ----------------------------
(***************************************************************************)
(* Proofs about the hooks, for any number of threads, users, descriptors   *)
(* and files, and for every answer that PrivilegeCheck allows.             *)
(***************************************************************************)
EXTENDS PrmHook, TLAPS

------------------------------------------------------------------------------
(* The inductive invariant, thread by thread.                                *)

Typed ==
  /\ TypeOK
  /\ answer \in [Callers -> AllAnswers]
  /\ told \in [Callers -> AllAnswers]

FdCalls == {"openat", "read", "write"}

(* The check that the call of t poses, if it poses one. *)
PTypeOf(t) ==
  CASE call[t] = "reboot" -> "P_REBOOT"
    [] call[t] = "socket" -> "P_NET"
    [] call[t] = "execve" -> "P_DEMESG"
    [] OTHER -> PType(FileType[ino[t]])

AskedFor(t) == [p_type |-> PTypeOf(t), uid |-> UidOf[t]]

Asks(t) ==
  /\ call[t] \in Calls
  /\ call[t] = "reboot" => UidOf[t] = RootUid
  /\ call[t] \in FdCalls =>
       ino[t] \in Files /\ FileType[ino[t]] \in {"FILE_REG", "FILE_DIR"}

NoCall(t)  == asked[t] = NoCheck /\ answer[t] = NoAnswer
NotOver(t) == touched[t] = NoFile /\ sysret[t] = "none"
Undecided(t) == NotOver(t) /\ told[t] = NoAnswer /\ p_result[t] = Unset

(* What p_result can be: PASS without a check, or after one that did not     *)
(* succeed; and else the verdict, or nothing yet.                            *)
Decided(t) ==
  \/ /\ told[t] = NoAnswer /\ p_result[t] = PASS
     /\ ino[t] \in Files => FileType[ino[t]] # "FILE_REG"
  \/ told[t].ret \in {"SERVEROFFLINE", "ERROR"} /\ p_result[t] = PASS
  \/ /\ told[t].ret = "SUCCESS" /\ Asks(t)
     /\ told[t] \in Answers(AskedFor(t)) /\ p_result[t] = told[t].result

Ended(t) ==
  /\ touched[t] # NoFile => p_result[t] # NOTPASS /\ fd[t] # NoFd
  /\ sysret[t] = "blocked" => p_result[t] = NOTPASS

HookProgress(t) ==
  /\ fd[t] # NoFd => call[t] \in FdCalls
  /\ hpc[t] = "user" =>
       NoCall(t) /\ Undecided(t) /\ ino[t] = NoFile /\ call[t] = "none" /\ fd[t] = NoFd
  /\ hpc[t] = "info" =>
       NoCall(t) /\ Undecided(t) /\ call[t] \in FdCalls /\ fd[t] \in Fds
  /\ hpc[t] = "check" =>
       /\ Undecided(t) /\ Asks(t) /\ asked[t] = AskedFor(t)
       /\ answer[t] \in {NoAnswer, Offline} \cup Answers(AskedFor(t))
  /\ hpc[t] = "decide" => NoCall(t) /\ NotOver(t) /\ Decided(t)
  /\ hpc[t] = "exit" => NoCall(t) /\ Decided(t) /\ Ended(t)

HookInv == Typed /\ \A t \in Callers : HookProgress(t)

------------------------------------------------------------------------------
(* What the steps need to know of the values. *)

LEMMA AnswersDiffer ==
  /\ NoAnswer # Offline
  /\ \A r : NoAnswer \notin Answers(r)
  /\ NoAnswer.ret = "none"
  /\ Offline.ret = "SERVEROFFLINE"
PROOF
  <1>1. NoAnswer.ret = "none" /\ Offline.ret = "SERVEROFFLINE"
    BY DEF NoAnswer, Offline, Answer
  <1>2. \A r : \A a \in Answers(r) : a.ret \in {"ERROR", "SUCCESS"}
    BY DEF Answers, OwnAnswers, DisturbedAnswers, Answer
  <1> QED BY <1>1, <1>2

(* A call that succeeds has the verdict, or has given up, or has met a late *)
(* answer: then it may also have the verdict of that one, or none.          *)
LEMMA AnswerParts ==
  \A r : \A a \in Answers(r) :
    \/ a.ret = "ERROR"
    \/ /\ a.ret = "SUCCESS"
       /\ \/ a.result = Verdict(r)
          \/ a.result = Unset /\ (a.down_ret = "ETIME" \/ a.late # {})
          \/ a.result \in Results /\ a.result \in a.late
PROOF
  BY DEF Answers, OwnAnswers, DisturbedAnswers, Answer

LEMMA AnswerTypes ==
  /\ \A r : Verdict(r) \in Results
  /\ \A a \in AllAnswers : a.ret \in {"none", "SERVEROFFLINE", "ERROR", "SUCCESS"}
                           /\ a.result \in {Unset} \cup Results
  /\ \A r \in Requests : Answers(r) \subseteq AllAnswers
PROOF
  <1>1. \A r : Verdict(r) \in Results
    BY DEF Verdict, Results, PASS, NOTPASS
  <1>2. \A r : \A a \in Answers(r) :
          a.ret \in {"ERROR", "SUCCESS"} /\ a.result \in {Unset} \cup Results
    BY <1>1 DEF Answers, OwnAnswers, DisturbedAnswers, Answer
  <1>3. \A r \in Requests : Answers(r) \subseteq AllAnswers
    BY DEF AllAnswers
  <1>4. /\ NoAnswer.ret = "none" /\ NoAnswer.result = Unset
        /\ Offline.ret = "SERVEROFFLINE" /\ Offline.result = Unset
    BY DEF NoAnswer, Offline, Answer
  <1> QED BY <1>1, <1>2, <1>3, <1>4 DEF AllAnswers

(* Every check that a hook poses is one of the requests. *)
LEMMA PosesRequests ==
  ASSUME PrmHookAssumption, NEW t \in Callers, NEW p,
         \/ p \in {"P_REG", "P_DIR", "P_NET", "P_DEMESG"}
         \/ p = "P_REBOOT" /\ UidOf[t] = RootUid
  PROVE  [p_type |-> p, uid |-> UidOf[t]] \in Requests
PROOF
  <1>1. UidOf[t] \in Uids
    BY DEF PrmHookAssumption
  <1>2. [p_type |-> p, uid |-> UidOf[t]] \in PosedChecks
    BY <1>1 DEF PosedChecks, Checks, PTypes
  <1> QED BY <1>2 DEF PrmHookAssumption

------------------------------------------------------------------------------
(* Types. *)

LEMMA AskTypes ==
  ASSUME Typed, NEW t \in Callers, NEW r \in Requests, Ask(t, r)
  PROVE  /\ asked' \in [Callers -> Requests \cup {NoCheck}]
         /\ answer' \in [Callers -> AllAnswers]
         /\ strays' \subseteq Results
PROOF
  BY DEF Typed, TypeOK, Ask, AllAnswers

LEMMA TypedStep ==
  ASSUME PrmHookAssumption, HookInv, NEW t \in Callers, HookStep(t)
  PROVE  Typed'
PROOF
  <1> DEFINE HookTypes ==
        /\ table \in [Fds -> Files \cup {NoFile}]
        /\ hpc \in [Callers -> {"user", "info", "check", "decide", "exit"}]
        /\ call \in [Callers -> Calls \cup {"none"}]
        /\ fd \in [Callers -> Fds \cup {NoFd}]
        /\ ino \in [Callers -> Files \cup {NoFile}]
        /\ told \in [Callers -> AllAnswers]
        /\ p_result \in [Callers -> {Unset} \cup Results]
        /\ touched \in [Callers -> Files \cup {NoFile}]
        /\ sysret \in [Callers -> {"none", "done", "error", "blocked"}]
  <1> DEFINE CheckTypes ==
        /\ asked \in [Callers -> Requests \cup {NoCheck}]
        /\ answer \in [Callers -> AllAnswers]
        /\ strays \subseteq Results
  <1>0. HookTypes /\ CheckTypes /\ HookProgress(t) /\ PASS \in Results
    BY DEF HookInv, Typed, TypeOK, Results
  <1>1. SUFFICES HookTypes' /\ CheckTypes'
    BY DEF Typed, TypeOK, AllAnswers
  <1>2. CASE EnterOpenat(t)
    BY <1>0, <1>2 DEF EnterOpenat, Enter, LetPass, Calls, pcVars
  <1>3. CASE EnterReadWrite(t)
    BY <1>0, <1>3 DEF EnterReadWrite, Enter, Calls, pcVars
  <1>4. CASE EnterReboot(t)
    <2>1. CheckTypes'
      <3>1. CASE AsksForReboot(t) /\ Check(t, "P_REBOOT")
        <4>1. [p_type |-> "P_REBOOT", uid |-> UidOf[t]] \in Requests
          BY <3>1, PosesRequests DEF AsksForReboot
        <4> QED BY <3>1, <4>1, AskTypes DEF HookInv, Check
      <3>2. CASE UNCHANGED pcVars
        BY <1>0, <3>2 DEF pcVars
      <3> QED BY <1>4, <3>1, <3>2 DEF EnterReboot
    <2>2. /\ \/ hpc' = [hpc EXCEPT ![t] = "check"]
             \/ hpc' = [hpc EXCEPT ![t] = "decide"]
          /\ call' = [call EXCEPT ![t] = "reboot"]
          /\ p_result' = p_result \/ p_result' = [p_result EXCEPT ![t] = PASS]
          /\ UNCHANGED <<table, fd, ino, told, touched, sysret>>
      BY <1>4 DEF EnterReboot, Enter, LetPass
    <2>3. HookTypes'
      BY <1>0, <2>2 DEF Calls
    <2> QED BY <2>1, <2>3
  <1>5. CASE EnterSocket(t)
    <2>1. [p_type |-> "P_NET", uid |-> UidOf[t]] \in Requests
      BY PosesRequests
    <2>2. CheckTypes'
      BY <1>5, <2>1, AskTypes DEF HookInv, EnterSocket, Check
    <2> QED BY <1>0, <1>5, <2>2 DEF EnterSocket, Enter, Calls
  <1>6. CASE EnterExecve(t)
    <2>1. [p_type |-> "P_DEMESG", uid |-> UidOf[t]] \in Requests
      BY PosesRequests
    <2>2. CheckTypes'
      <3>1. CASE Check(t, "P_DEMESG")
        BY <2>1, <3>1, AskTypes DEF HookInv, Check
      <3>2. CASE UNCHANGED pcVars
        BY <1>0, <3>2 DEF pcVars
      <3> QED BY <1>6, <3>1, <3>2 DEF EnterExecve
    <2>3. /\ \/ hpc' = [hpc EXCEPT ![t] = "check"]
             \/ hpc' = [hpc EXCEPT ![t] = "decide"]
          /\ call' = [call EXCEPT ![t] = "execve"]
          /\ p_result' = p_result \/ p_result' = [p_result EXCEPT ![t] = PASS]
          /\ UNCHANGED <<table, fd, ino, told, touched, sysret>>
      BY <1>6 DEF EnterExecve, Enter, LetPass
    <2>4. HookTypes'
      BY <1>0, <2>3 DEF Calls
    <2> QED BY <2>2, <2>4
  <1>7. CASE GetInfo(t)
    <2>1. table[fd[t]] \in Files \cup {NoFile}
      BY <1>0, <1>7 DEF GetInfo, HookProgress
    <2>2. CheckTypes'
      <3>1. ASSUME NEW p, p \in {"P_REG", "P_DIR"}, Check(t, p) PROVE CheckTypes'
        <4>1. [p_type |-> p, uid |-> UidOf[t]] \in Requests
          BY <3>1, PosesRequests
        <4> QED BY <3>1, <4>1, AskTypes DEF HookInv, Check
      <3>2. CASE UNCHANGED pcVars
        BY <1>0, <3>2 DEF pcVars
      <3>3. \/ UNCHANGED pcVars
            \/ \E p \in {"P_REG", "P_DIR"} : Check(t, p)
        BY <1>7 DEF GetInfo, PType
      <3> QED BY <3>1, <3>2, <3>3
    <2>3. p_result' = p_result \/ p_result' = [p_result EXCEPT ![t] = PASS]
      BY <1>7 DEF GetInfo, LetPass
    <2>4. /\ hpc' = [hpc EXCEPT ![t] = "decide"] \/ hpc' = [hpc EXCEPT ![t] = "check"]
          /\ ino' = [ino EXCEPT ![t] = table[fd[t]]]
          /\ UNCHANGED <<table, call, fd, told, touched, sysret>>
      BY <1>7 DEF GetInfo, Goto
    <2>5. HookTypes'
      BY <1>0, <2>1, <2>3, <2>4
    <2> QED BY <2>2, <2>5
  <1>8. CASE CheckReturned(t)
    <2>1. answer[t] \in AllAnswers
      BY <1>0
    <2>2. answer[t].ret \in {"none", "SERVEROFFLINE", "ERROR", "SUCCESS"}
          /\ answer[t].result \in {Unset} \cup Results
      BY <2>1, AnswerTypes
    <2>3. CheckTypes'
      BY <1>0, <1>8 DEF CheckReturned, Leave, AllAnswers
    <2> QED BY <1>0, <1>8, <2>2, <2>3 DEF CheckReturned, Goto
  <1>9. CASE OpenatReturns(t)
    BY <1>0, <1>9 DEF OpenatReturns, Goto, pcVars
  <1>10. CASE Block(t)
    BY <1>0, <1>10 DEF Block, Goto, pcVars
  <1>11. CASE RealCall(t)
    BY <1>0, <1>11 DEF RealCall, Goto, pcVars
  <1>12. CASE Exit(t)
    <2>1. NoAnswer \in AllAnswers
      BY DEF AllAnswers
    <2> QED BY <1>0, <1>12, <2>1 DEF Exit, Goto, pcVars
  <1>13. CASE Close(t)
    BY <1>0, <1>13 DEF Close, pcVars
  <1>14. CASE CheckRuns(t)
    <2>1. asked[t] \in Requests
      BY <1>0, <1>14 DEF CheckRuns, GetAnswer
    <2>2. PICK a \in Answers(asked[t]) :
            answer' = [answer EXCEPT ![t] = a] /\ strays' \in SUBSET (strays \cup GivesUp(t, a))
      BY <1>14 DEF CheckRuns, GetAnswer
    <2>3. a \in AllAnswers
      BY <2>1, AnswerTypes
    <2>4. GivesUp(t, a) \subseteq Results
      BY AnswerTypes DEF GivesUp
    <2>5. CheckTypes'
      BY <1>0, <1>14, <2>2, <2>3, <2>4 DEF CheckRuns, GetAnswer
    <2> QED BY <1>0, <1>14, <2>5 DEF CheckRuns, hookVars
  <1> QED
    BY <1>2, <1>3, <1>4, <1>5, <1>6, <1>7, <1>8, <1>9, <1>10, <1>11, <1>12, <1>13,
       <1>14 DEF HookStep

------------------------------------------------------------------------------
(* Progress. *)

LEMMA SameProgress ==
  ASSUME NEW u \in Callers, HookProgress(u),
         asked'[u] = asked[u], answer'[u] = answer[u],
         hpc'[u] = hpc[u], call'[u] = call[u], fd'[u] = fd[u], ino'[u] = ino[u],
         told'[u] = told[u], p_result'[u] = p_result[u],
         touched'[u] = touched[u], sysret'[u] = sysret[u]
  PROVE  HookProgress(u)'
PROOF
  <1>1. /\ Asks(u)' <=> Asks(u)
        /\ PTypeOf(u)' = PTypeOf(u)
    BY DEF Asks, PTypeOf
  <1>2. AskedFor(u)' = AskedFor(u)
    BY <1>1 DEF AskedFor
  <1> QED
    BY <1>1, <1>2 DEF HookProgress, NoCall, NotOver, Undecided, Decided, Ended

(* The step of a thread leaves the variables of the others alone. *)
LEMMA OthersKeep ==
  ASSUME Typed, NEW t \in Callers, HookStep(t), NEW u \in Callers \ {t}, HookProgress(u)
  PROVE  HookProgress(u)'
PROOF
  <1>1. /\ asked'[u] = asked[u] /\ answer'[u] = answer[u]
        /\ hpc'[u] = hpc[u] /\ call'[u] = call[u] /\ fd'[u] = fd[u] /\ ino'[u] = ino[u]
        /\ told'[u] = told[u] /\ p_result'[u] = p_result[u]
        /\ touched'[u] = touched[u] /\ sysret'[u] = sysret[u]
    BY DEF Typed, TypeOK, HookStep, EnterOpenat, EnterReadWrite, EnterReboot,
       EnterSocket, EnterExecve, GetInfo, CheckReturned, OpenatReturns, Block, RealCall,
       Exit, Close, CheckRuns, Enter, Goto, LetPass, Check, Ask, GetAnswer, Leave,
       pcVars, hookVars
  <1> QED BY <1>1, SameProgress

(* Only the calls that have a descriptor have one. *)
LEMMA FdProgress ==
  ASSUME Typed, NEW t \in Callers, HookProgress(t), HookStep(t)
  PROVE  fd'[t] # NoFd => call'[t] \in FdCalls
PROOF
  <1>1. CASE hpc[t] = "user"
    <2>1. fd[t] = NoFd
      BY <1>1 DEF HookProgress
    <2>2. fd'[t] = NoFd \/ EnterOpenat(t) \/ EnterReadWrite(t)
      BY <1>1, <2>1 DEF HookStep, EnterReboot, EnterSocket, EnterExecve, GetInfo,
         CheckReturned, OpenatReturns, Block, RealCall, Exit, Close, CheckRuns, hookVars
    <2> QED BY <2>2 DEF EnterOpenat, EnterReadWrite, Enter, FdCalls, Typed, TypeOK
  <1>2. CASE hpc[t] # "user"
    <2>1. CASE Exit(t)
      BY <2>1 DEF Exit, Typed, TypeOK
    <2>2. CASE ~Exit(t)
      BY <1>2, <2>2 DEF HookProgress, HookStep, EnterOpenat, EnterReadWrite, EnterReboot,
         EnterSocket, EnterExecve, GetInfo, CheckReturned, OpenatReturns, Block,
         RealCall, Close, CheckRuns, Enter, hookVars
    <2> QED BY <2>1, <2>2
  <1> QED BY <1>1, <1>2

(* A hook that asks goes to wait for the answer. *)
LEMMA AskProgress ==
  ASSUME Typed, NEW t \in Callers, NoCall(t), NEW p, Check(t, p),
         fd'[t] # NoFd => call'[t] \in FdCalls,
         hpc'[t] = "check", Undecided(t)', Asks(t)', p = PTypeOf(t)'
  PROVE  HookProgress(t)'
PROOF
  <1>1. /\ asked'[t] = [p_type |-> p, uid |-> UidOf[t]]
        /\ answer'[t] \in {Offline, answer[t]}
    BY DEF Typed, TypeOK, Check, Ask
  <1>2. asked'[t] = AskedFor(t)'
    BY <1>1 DEF AskedFor
  <1> QED BY <1>1, <1>2 DEF HookProgress, NoCall

LEMMA OwnProgress ==
  ASSUME PrmHookAssumption, HookInv, NEW t \in Callers, HookStep(t)
  PROVE  HookProgress(t)'
PROOF
  <1>0. Typed /\ TypeOK /\ HookProgress(t)
    BY DEF HookInv, Typed
  <1>10. fd'[t] # NoFd => call'[t] \in FdCalls
    BY <1>0, FdProgress
  <1>1. CASE EnterOpenat(t)
    <2>1. hpc[t] = "user" /\ call'[t] = "openat" /\ UNCHANGED pcVars
          /\ UNCHANGED <<ino, told, touched, sysret>>
      BY <1>0, <1>1 DEF EnterOpenat, Enter, TypeOK
    <2>2. CASE hpc'[t] = "decide" /\ p_result'[t] = PASS
      BY <1>0, <2>1, <2>2, <1>10 DEF HookProgress, NoCall, NotOver, Undecided, Decided,
         pcVars, PrmHookAssumption
    <2>3. CASE hpc'[t] = "info" /\ fd'[t] \in Fds /\ p_result' = p_result
      BY <1>0, <2>1, <2>3, <1>10 DEF HookProgress, NoCall, NotOver, Undecided, FdCalls, pcVars
    <2>4. \/ hpc'[t] = "decide" /\ p_result'[t] = PASS
          \/ hpc'[t] = "info" /\ fd'[t] \in Fds /\ p_result' = p_result
      BY <1>0, <1>1 DEF EnterOpenat, Enter, LetPass, TypeOK
    <2> QED BY <2>2, <2>3, <2>4
  <1>2. CASE EnterReadWrite(t)
    <2>1. /\ hpc[t] = "user" /\ hpc'[t] = "info" /\ call'[t] \in FdCalls
          /\ fd'[t] \in Fds /\ UNCHANGED pcVars
          /\ UNCHANGED <<ino, told, p_result, touched, sysret>>
      BY <1>0, <1>2 DEF EnterReadWrite, Enter, FdCalls, TypeOK
    <2> QED BY <1>0, <2>1, <1>10 DEF HookProgress, NoCall, NotOver, Undecided, pcVars
  <1>3. CASE EnterReboot(t) \/ EnterSocket(t) \/ EnterExecve(t)
    <2>1. /\ hpc[t] = "user" /\ UNCHANGED <<ino, told, touched, sysret>>
          /\ NoCall(t) /\ Undecided(t) /\ ino[t] = NoFile /\ NoFile \notin Files
      BY <1>0, <1>3 DEF EnterReboot, EnterSocket, EnterExecve, Enter, HookProgress,
         PrmHookAssumption
    <2>2. ASSUME hpc'[t] = "decide", p_result'[t] = PASS, UNCHANGED pcVars
          PROVE  HookProgress(t)'
      BY <2>1, <2>2, <1>10 DEF HookProgress, NoCall, NotOver, Undecided, Decided, pcVars
    <2>3. ASSUME NEW p, Check(t, p), hpc'[t] = "check", p_result' = p_result,
                 \/ p = "P_REBOOT" /\ call'[t] = "reboot" /\ UidOf[t] = RootUid
                 \/ p = "P_NET" /\ call'[t] = "socket"
                 \/ p = "P_DEMESG" /\ call'[t] = "execve"
          PROVE  HookProgress(t)'
      <3>1. Undecided(t)' /\ Asks(t)' /\ p = PTypeOf(t)'
        BY <2>1, <2>3 DEF Undecided, NotOver, Asks, Calls, FdCalls, PTypeOf
      <3> QED BY <1>0, <2>1, <2>3, <3>1, <1>10, AskProgress
    <2>4. CASE EnterReboot(t)
      BY <1>0, <2>2, <2>3, <2>4 DEF EnterReboot, Enter, AsksForReboot, LetPass, TypeOK
    <2>5. CASE EnterSocket(t)
      BY <1>0, <2>3, <2>5 DEF EnterSocket, Enter, TypeOK
    <2>6. CASE EnterExecve(t)
      BY <1>0, <2>2, <2>3, <2>6 DEF EnterExecve, Enter, LetPass, TypeOK
    <2> QED BY <1>3, <2>4, <2>5, <2>6
  <1>4. CASE GetInfo(t)
    <2> DEFINE f == table[fd[t]]
    <2>1. /\ hpc[t] = "info" /\ NoCall(t) /\ Undecided(t) /\ call[t] \in FdCalls
          /\ ino'[t] = f /\ f \in Files \cup {NoFile} /\ NoFile \notin Files
          /\ UNCHANGED <<call, told, touched, sysret>>
      BY <1>0, <1>4 DEF GetInfo, HookProgress, TypeOK, PrmHookAssumption
    <2>2. CASE f = NoFile \/ PType(FileType[f]) = "P_U"
      <3>1. p_result'[t] = PASS /\ hpc'[t] = "decide" /\ UNCHANGED pcVars
        BY <1>0, <1>4, <2>2 DEF GetInfo, LetPass, Goto, TypeOK
      <3>2. f \in Files => FileType[f] # "FILE_REG"
        BY <2>1, <2>2 DEF PType
      <3> QED
        BY <2>1, <3>1, <3>2, <1>10 DEF HookProgress, NoCall, NotOver, Undecided, Decided, pcVars
    <2>3. CASE ~(f = NoFile \/ PType(FileType[f]) = "P_U")
      <3>1. Check(t, PType(FileType[f])) /\ hpc'[t] = "check" /\ p_result' = p_result
        BY <1>0, <1>4, <2>3 DEF GetInfo, Goto, TypeOK
      <3>2. f \in Files /\ FileType[f] \in {"FILE_REG", "FILE_DIR"}
        BY <2>1, <2>3 DEF PType
      <3>3. Undecided(t)' /\ Asks(t)' /\ PType(FileType[f]) = PTypeOf(t)'
        BY <2>1, <3>1, <3>2 DEF Undecided, NotOver, Asks, Calls, FdCalls, PTypeOf
      <3> QED BY <1>0, <2>1, <3>1, <3>3, <1>10, AskProgress
    <2> QED BY <2>2, <2>3
  <1>5. CASE CheckReturned(t)
    <2>1. /\ hpc[t] = "check" /\ hpc'[t] = "decide" /\ NoCall(t)'
          /\ UNCHANGED <<call, ino, touched, sysret>>
          /\ told'[t] = answer[t]
          /\ p_result'[t] = IF answer[t].ret = "SUCCESS" THEN answer[t].result ELSE PASS
      BY <1>0, <1>5 DEF CheckReturned, Leave, Goto, NoCall, Typed, TypeOK
    <2>2. /\ Asks(t) /\ Undecided(t)
          /\ answer[t] \in {Offline} \cup Answers(AskedFor(t))
      BY <1>0, <1>5, <2>1 DEF CheckReturned, Leave, HookProgress
    <2>3. Asks(t)' /\ AskedFor(t)' = AskedFor(t) /\ NotOver(t)'
      BY <2>1, <2>2 DEF Asks, AskedFor, PTypeOf, NotOver, Undecided
    <2>4. Decided(t)'
      BY <2>1, <2>2, <2>3, AnswersDiffer, AnswerParts DEF Decided
    <2> QED BY <2>1, <2>3, <2>4, <1>10 DEF HookProgress
  <1>6. CASE OpenatReturns(t) \/ Block(t) \/ RealCall(t)
    <2>1. /\ hpc[t] = "decide" /\ hpc'[t] = "exit" /\ UNCHANGED pcVars
          /\ UNCHANGED <<call, ino, told, p_result>>
      BY <1>0, <1>6 DEF OpenatReturns, Block, RealCall, Goto, TypeOK
    <2>2. NoCall(t) /\ NotOver(t) /\ Decided(t)
      BY <1>0, <2>1 DEF HookProgress
    <2>3. NoCall(t)' /\ Decided(t)'
      BY <2>1, <2>2 DEF NoCall, Decided, Asks, AskedFor, PTypeOf, pcVars
    <2>4. Ended(t)'
      BY <1>0, <1>6, <2>2 DEF OpenatReturns, Block, RealCall, Blocked, Ended, NotOver,
         TypeOK
    <2> QED BY <2>1, <2>3, <2>4, <1>10 DEF HookProgress
  <1>7. CASE Exit(t)
    <2>1. NoCall(t)
      BY <1>0, <1>7 DEF Exit, HookProgress
    <2>2. /\ hpc'[t] = "user" /\ call'[t] = "none" /\ fd'[t] = NoFd /\ ino'[t] = NoFile
          /\ told'[t] = NoAnswer /\ p_result'[t] = Unset /\ touched'[t] = NoFile
          /\ sysret'[t] = "none" /\ UNCHANGED pcVars
      BY <1>0, <1>7 DEF Exit, Goto, Typed, TypeOK
    <2> QED BY <2>1, <2>2, <1>10 DEF HookProgress, NoCall, NotOver, Undecided, pcVars
  <1>8. CASE Close(t)
    BY <1>0, <1>8, <1>10 DEF Close, HookProgress, NoCall, NotOver, Undecided, pcVars
  <1>9. CASE CheckRuns(t)
    <2>1. /\ asked[t] # NoCheck /\ UNCHANGED hookVars /\ asked' = asked
          /\ answer'[t] \in Answers(asked[t]) /\ answer[t] = NoAnswer
      BY <1>0, <1>9 DEF CheckRuns, GetAnswer, Typed
    <2>2. hpc[t] = "check"
      BY <1>0, <2>1 DEF HookProgress, NoCall, TypeOK
    <2>3. AskedFor(t)' = AskedFor(t) /\ (Asks(t) => Asks(t)')
      BY <2>1 DEF AskedFor, PTypeOf, Asks, hookVars
    <2> QED
      BY <1>0, <2>1, <2>2, <2>3, <1>10 DEF HookProgress, Undecided, NotOver, hookVars
  <1> QED
    BY <1>1, <1>2, <1>3, <1>4, <1>5, <1>6, <1>7, <1>8, <1>9 DEF HookStep

LEMMA HookInvInit == Init => HookInv
PROOF
  <1> SUFFICES ASSUME Init PROVE HookInv
    OBVIOUS
  <1>1. Typed
    BY DEF Init, PCInit, Typed, TypeOK, AllAnswers
  <1>2. \A t \in Callers : HookProgress(t)
    BY DEF Init, PCInit, HookProgress, NoCall, NotOver, Undecided
  <1> QED BY <1>1, <1>2 DEF HookInv

LEMMA HookInvStep == PrmHookAssumption /\ HookInv /\ [Next]_vars => HookInv'
PROOF
  <1> SUFFICES ASSUME PrmHookAssumption, HookInv, [Next]_vars PROVE HookInv'
    OBVIOUS
  <1>1. ASSUME NEW t \in Callers, HookStep(t) PROVE HookInv'
    <2>1. Typed'
      BY <1>1, TypedStep
    <2>2. ASSUME NEW u \in Callers PROVE HookProgress(u)'
      BY <1>1, <2>2, OwnProgress, OthersKeep DEF HookInv
    <2> QED BY <2>1, <2>2 DEF HookInv
  <1>2. ASSUME UNCHANGED vars PROVE HookInv'
    <2>1. Typed'
      BY <1>2 DEF vars, pcVars, hookVars, HookInv, Typed, TypeOK, AllAnswers
    <2>2. \A u \in Callers : HookProgress(u)'
      BY <1>2, SameProgress DEF vars, pcVars, hookVars, HookInv
    <2> QED BY <2>1, <2>2 DEF HookInv
  <1>3. ASSUME Forget, UNCHANGED hookVars PROVE HookInv'
    <2>1. Typed'
      BY <1>3 DEF Forget, hookVars, HookInv, Typed, TypeOK, AllAnswers
    <2>2. \A u \in Callers : HookProgress(u)'
      BY <1>3, SameProgress DEF Forget, hookVars, HookInv
    <2> QED BY <2>1, <2>2 DEF HookInv
  <1> QED BY <1>1, <1>2, <1>3 DEF Next

------------------------------------------------------------------------------
(* The theorems. *)

(* The types, and what each place of a hook knows of the check it has posed. *)
THEOREM HookInvariant == Spec => []HookInv
PROOF
  <1>1. HookInv /\ [Next]_vars => HookInv'
    BY HookInvStep, PrmHookAssumption
  <1> QED BY <1>1, HookInvInit, PTL DEF Spec

(* The type invariant of the hooks. *)
THEOREM HookTypeCorrect == Spec => []TypeOK
PROOF
  <1>1. HookInv => TypeOK
    BY DEF HookInv, Typed
  <1> QED BY <1>1, HookInvariant, PTL

(* The denied user reads or writes a regular file only after a check that    *)
(* was not answered in time or met a late answer, whatever other threads do  *)
(* to the descriptors.                                                       *)
THEOREM DenialHolds == Spec => []DenialIsEnforced
PROOF
  <1>1. HookInv => DenialIsEnforced
    <2> SUFFICES ASSUME HookInv, NEW t \in Callers, UidOf[t] = DeniedUid,
                        touched[t] # NoFile, touched[t] = ino[t],
                        FileType[ino[t]] = "FILE_REG", told[t].ret = "SUCCESS"
                 PROVE  \/ told[t].result = PASS /\ PASS \in told[t].late
                        \/ /\ told[t].result = Unset
                           /\ told[t].down_ret = "ETIME" \/ told[t].late # {}
      BY DEF DenialIsEnforced
    <2>1. hpc[t] = "exit" /\ Decided(t) /\ Ended(t)
      BY DEF HookInv, Typed, TypeOK, HookProgress, Undecided, NotOver
    <2>2. /\ told[t] \in Answers(AskedFor(t)) /\ p_result[t] = told[t].result
          /\ p_result[t] # NOTPASS
      BY <2>1, AnswersDiffer DEF Decided, Ended
    <2>3. call[t] \in FdCalls
      BY <2>1 DEF HookInv, HookProgress, Ended
    <2>4. Verdict(AskedFor(t)) = NOTPASS
      BY <2>3 DEF Verdict, AskedFor, PTypeOf, PType, FdCalls
    <2>5. told[t].result \in Results => told[t].result = PASS
      BY <2>2 DEF Results
    <2> QED BY <2>2, <2>4, <2>5, AnswerParts
  <1> QED BY <1>1, HookInvariant, PTL

(* Nothing but a verdict of the server blocks a call: its own, or that of a  *)
(* check that was given up, which came late.                                 *)
THEOREM VerdictsBlock == Spec => []BlockedOnlyByVerdict
PROOF
  <1>1. HookInv => BlockedOnlyByVerdict
    <2> SUFFICES ASSUME HookInv, NEW t \in Callers, sysret[t] = "blocked"
                 PROVE  /\ told[t].ret = "SUCCESS" /\ told[t].result = NOTPASS
                        /\ \/ NOTPASS \in told[t].late
                           \/ UidOf[t] = DeniedUid /\ call[t] = "socket"
                           \/ /\ UidOf[t] = DeniedUid /\ call[t] \in FdCalls
                              /\ FileType[ino[t]] = "FILE_REG"
      BY DEF BlockedOnlyByVerdict, FdCalls
    <2>1. Decided(t) /\ p_result[t] = NOTPASS
      BY DEF HookInv, Typed, TypeOK, HookProgress, Undecided, NotOver, Ended
    <2>2. /\ told[t].ret = "SUCCESS" /\ Asks(t)
          /\ told[t] \in Answers(AskedFor(t)) /\ told[t].result = NOTPASS
      BY <2>1 DEF Decided, PASS, NOTPASS
    <2>3. NOTPASS \in told[t].late \/ Verdict(AskedFor(t)) = NOTPASS
      BY <2>2, AnswerParts DEF NOTPASS, Unset
    <2>4. ASSUME Verdict(AskedFor(t)) = NOTPASS
          PROVE  /\ UidOf[t] = DeniedUid
                 /\ \/ call[t] = "socket"
                    \/ call[t] \in FdCalls /\ FileType[ino[t]] = "FILE_REG"
      <3>1. UidOf[t] = DeniedUid /\ PTypeOf(t) \in {"P_NET", "P_REBOOT", "P_REG"}
        BY <2>4 DEF Verdict, AskedFor, PASS, NOTPASS
      <3>2. call[t] # "reboot"
        BY <2>2, <3>1 DEF Asks, DeniedUid, RootUid
      <3> QED BY <2>2, <3>1, <3>2 DEF Asks, Calls, FdCalls, PTypeOf, PType
    <2> QED BY <2>2, <2>3, <2>4
  <1> QED BY <1>1, HookInvariant, PTL

=============================================================================
