---------------------------- MODULE PrivilegeCheck ----------------------------
(***************************************************************************)
(* What check_privilege (kernel2/prm_netlink.c) promises the hooks that    *)
(* call it: a call gets the server's verdict on its own check, or learns   *)
(* that no server is connected or that none answered in time; unless an    *)
(* earlier check was given up, whose answer is late and may be taken for   *)
(* the answer to this one.  How the answer travels is the business of      *)
(* PrmChannel, which implements this.                                      *)
(***************************************************************************)
EXTENDS PrmPolicy

CONSTANTS
  Callers,     \* threads inside a hooked system call
  Requests,    \* the checks that they pose
  NoCheck      \* no call in progress

ASSUME PrivilegeCheckAssumption ==
  /\ Requests \subseteq PosedChecks
  /\ NoCheck \notin Requests

VARIABLES
  asked,       \* per caller: the arguments of the call in progress
  answer,      \* per caller: what the call returned, until the hook goes on
  strays       \* the verdicts that may still come on checks that were given up

pcVars == <<asked, answer, strays>>

(* What a call returns, what it stores in *result, whether it was woken by  *)
(* an answer or gave up, and the late verdicts it may have met.             *)
Answer(ret, result, down_ret, late) ==
  [ret |-> ret, result |-> result, down_ret |-> down_ret, late |-> late]

NoAnswer == Answer("none", Unset, "ok", {})
Offline  == Answer("SERVEROFFLINE", Unset, "ok", {})

(* In time, the verdict.  After the timeout an error, or a success if the   *)
(* answer arrives at the last moment, whole or before its value is written. *)
OwnAnswers(r) ==
  { Answer("SUCCESS", Verdict(r), "ok", {}),
    Answer("ERROR", Unset, "ETIME", {}),
    Answer("SUCCESS", Verdict(r), "ETIME", {}),
    Answer("SUCCESS", Unset, "ETIME", {}) }

(* A call that meets late answers may take the verdict of one of them, or   *)
(* be woken by one that has written nothing for it.                         *)
DisturbedAnswers(r, late) ==
  {Answer("SUCCESS", v, d, late) :
     v \in {Unset, Verdict(r)} \cup late, d \in {"ok", "ETIME"}}
  \cup {Answer("ERROR", Unset, d, late) : d \in {"ok", "ETIME"}}

Answers(r) ==
  OwnAnswers(r)
  \cup UNION {DisturbedAnswers(r, late) : late \in (SUBSET Results) \ {{}}}

PCInit ==
  /\ asked = [t \in Callers |-> NoCheck]
  /\ answer = [t \in Callers |-> NoAnswer]
  /\ strays = {}

(* A call begins; with no server connected it returns at once. *)
Ask(t, r) ==
  /\ asked[t] = NoCheck
  /\ asked' = [asked EXCEPT ![t] = r]
  /\ \/ answer' = [answer EXCEPT ![t] = Offline]
     \/ UNCHANGED answer
  /\ UNCHANGED strays

(* A call can only meet a verdict that is a stray, and one becomes a stray  *)
(* only when a call gives up.                                               *)
GivesUp(t, a) == IF a.ret = "ERROR" THEN {Verdict(asked[t])} ELSE {}

GetAnswer(t) ==
  /\ asked[t] # NoCheck /\ answer[t] = NoAnswer
  /\ \E a \in Answers(asked[t]) :
       /\ a.late \subseteq strays
       /\ answer' = [answer EXCEPT ![t] = a]
       /\ strays' \in SUBSET (strays \cup GivesUp(t, a))
  /\ UNCHANGED asked

(* The hook has acted on the answer. *)
Leave(t) ==
  /\ answer[t] # NoAnswer
  /\ asked' = [asked EXCEPT ![t] = NoCheck]
  /\ answer' = [answer EXCEPT ![t] = NoAnswer]
  /\ strays' \in SUBSET strays

(* A late answer is lost, or arrives where nobody waits for it. *)
Forget ==
  /\ strays' \in SUBSET strays
  /\ UNCHANGED <<asked, answer>>

PCNext ==
  \/ \E t \in Callers :
       \/ \E r \in Requests : Ask(t, r)
       \/ GetAnswer(t)
       \/ Leave(t)
  \/ Forget

PCSpec == PCInit /\ [][PCNext]_pcVars

=============================================================================
