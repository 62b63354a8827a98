---------------------------- MODULE RetAuthProofs ----------------------------
(***************************************************************************)
(* Proofs about the look-up, for any executables, paths, programs, rules   *)
(* and connections, and with consoles that edit the database at any time.  *)
(***************************************************************************)
EXTENDS RetAuth, SequenceTheorems, TLAPS

------------------------------------------------------------------------------
(* The inductive invariant.                                                  *)

InCall == pc \notin {"idle", "smashed"}

(* A connection that the call can use is one of those of the process. *)
LinkCounted == link # "none" => conns > 0

(* Whatever the database says while the call lasts is among the answers held. *)
HeldIsCurrent == InCall => exe \in Exes /\ Decisions(exe, action) \subseteq held

(* No program is registered under the names that the walk has passed. *)
PassedNothing ==
  \A i \in 1..node : \A row \in OnTheWay(exe) : row.path # path_to_dirList(exe)[i]

(* Where an undisturbed call stands. *)
WalkIsRight ==
  ~failed =>
    /\ pc \in {"program", "policy"} => path = exe
    /\ ~edited =>
         /\ pc = "program" => node < Len(exe) /\ PassedNothing
         /\ pc = "policy" => \E row \in Nearest(exe) : row.id = prog_id
         /\ pc = "return" => ret \in held

WalkInv == TypeOK /\ LinkCounted /\ HeldIsCurrent /\ WalkIsRight

------------------------------------------------------------------------------
(* The list of directories. *)

LEMMA PathLength ==
  ASSUME RetAuthAssumption, NEW e \in Exes
  PROVE  e \in Seq(STRING) /\ Len(e) \in Nat /\ Len(e) > 0
PROOF
  <1>1. e \in Seq(STRING) /\ e # <<>>
    BY DEF RetAuthAssumption
  <1> QED BY <1>1, EmptySeq, LenProperties

LEMMA UpwardsLength ==
  ASSUME RetAuthAssumption, NEW e \in Exes, NEW n \in 1 .. Len(e)
  PROVE  Len(SubSeq(e, 1, n)) = n
PROOF
  <1>1. e \in Seq(STRING) /\ Len(e) \in Nat
    BY PathLength
  <1>2. \A i \in 1 .. n : e[i] \in STRING
    BY <1>1, LenProperties
  <1>3. 1 \in Int /\ n \in Int /\ 1 <= n
    BY <1>1
  <1> QED BY <1>2, <1>3, SubSeqProperties

LEMMA DirList ==
  ASSUME RetAuthAssumption, NEW e \in Exes
  PROVE  /\ Len(path_to_dirList(e)) = Len(e)
         /\ \A i \in 1 .. Len(e) :
              /\ path_to_dirList(e)[i] = SubSeq(e, 1, Len(e) + 1 - i)
              /\ path_to_dirList(e)[i] \in Upwards(e)
              /\ Len(path_to_dirList(e)[i]) = Len(e) + 1 - i
         /\ \A p \in Upwards(e) :
              \E i \in 1 .. Len(e) : p = path_to_dirList(e)[i]
PROOF
  <1> DEFINE n == Len(e)
             dirs == path_to_dirList(e)
  <1>1. n \in Nat
    BY PathLength
  <1>2. \A i \in 1 .. n : dirs[i] = SubSeq(e, 1, n + 1 - i) /\ n + 1 - i \in 1 .. n
    BY <1>1 DEF path_to_dirList
  <1>3. Len(dirs) = n
    <2> DEFINE S == {SubSeq(e, 1, n + 1 - i) : i \in 1 .. n}
    <2>1. dirs \in [1 .. n -> S]
      BY DEF path_to_dirList
    <2> HIDE DEF n, dirs, S
    <2>2. dirs \in Seq(S)
      BY <1>1, <2>1, SeqDef
    <2>3. Len(dirs) \in Nat /\ 1 .. Len(dirs) = 1 .. n
      BY <2>1, <2>2, LenProperties
    <2> QED BY <1>1, <2>3
  <1>4. \A p \in Upwards(e) : \E i \in 1 .. n : p = dirs[i]
    <2> SUFFICES ASSUME NEW k \in 1 .. n
                 PROVE  \E i \in 1 .. n : SubSeq(e, 1, k) = dirs[i]
      BY DEF Upwards
    <2>1. n + 1 - k \in 1 .. n /\ n + 1 - (n + 1 - k) = k
      BY <1>1
    <2> QED BY <1>2, <2>1
  <1>5. \A i \in 1 .. n : Len(dirs[i]) = n + 1 - i
    BY <1>2, UpwardsLength
  <1>6. \A i \in 1 .. n : dirs[i] \in Upwards(e)
    BY <1>2 DEF Upwards
  <1> QED BY <1>2, <1>3, <1>4, <1>5, <1>6

(* A program under the first name that has any is a nearest one. *)
LEMMA FirstIsNearest ==
  ASSUME RetAuthAssumption, exe \in Exes, node \in Nat, node < Len(exe), PassedNothing,
         NEW row \in program, row.path = path_to_dirList(exe)[node + 1]
  PROVE  row \in Nearest(exe)
PROOF
  <1>1. node + 1 \in 1 .. Len(exe) /\ Len(exe) \in Nat
    BY PathLength
  <1>2. row.path \in Upwards(exe) /\ Len(row.path) = Len(exe) - node
    BY <1>1, DirList
  <1>3. ASSUME NEW other \in OnTheWay(exe) PROVE Len(other.path) <= Len(row.path)
    <2>1. PICK i \in 1 .. Len(exe) : other.path = path_to_dirList(exe)[i]
      BY DirList DEF OnTheWay
    <2>2. i > node
      BY <1>1, <2>1 DEF PassedNothing
    <2>3. Len(other.path) = Len(exe) + 1 - i
      BY <2>1, DirList
    <2> QED BY <1>1, <1>2, <2>2, <2>3
  <1> QED BY <1>2, <1>3 DEF Nearest, OnTheWay

(* At the end of the list there was none. *)
LEMMA NoneOnTheWay ==
  ASSUME RetAuthAssumption, exe \in Exes, node \in Nat, node + 1 = Len(exe),
         PassedNothing,
         \A row \in program : row.path # path_to_dirList(exe)[node + 1]
  PROVE  Nearest(exe) = {}
PROOF
  <1>1. OnTheWay(exe) = {}
    <2> SUFFICES ASSUME NEW row \in OnTheWay(exe) PROVE FALSE
      OBVIOUS
    <2>1. PICK i \in 1 .. Len(exe) : row.path = path_to_dirList(exe)[i]
      BY DirList DEF OnTheWay
    <2>2. i \in 1 .. node \/ i = node + 1
      BY <2>1
    <2> QED BY <2>1, <2>2 DEF PassedNothing, OnTheWay
  <1> QED BY <1>1 DEF Nearest

LEMMA DecisionTypes == \A e, a : Decisions(e, a) \subseteq {0, 1}
PROOF
  BY DEF Decisions, Answers, DEFAULT_AUTH

------------------------------------------------------------------------------
(* Each step keeps the invariant. *)

(* The types of all but the tables and the two flags, which need another     *)
(* prover.                                                                    *)
CallTypesOK ==
  /\ pc \in {"idle", "login", "path", "program", "policy", "return", "smashed"}
  /\ exe \in Exes \cup {NoPath}
  /\ action \in AskedActions \cup {0}
  /\ link \in {"none", "connected", "selected"}
  /\ conns \in 0..MaxConns
  /\ path \in Exes \cup Misread \cup {NoPath}
  /\ node \in Nat
  /\ prog_id \in 0..MaxProgram
  /\ ret \in {-1, 0, 1}
  /\ held \subseteq {0, 1}

LEMMA TypeParts ==
  TypeOK <=> DBTypeOK /\ CallTypesOK /\ failed \in BOOLEAN /\ edited \in BOOLEAN
PROOF
  BY Zenon DEF TypeOK, CallTypesOK

LEMMA CallTypes ==
  ASSUME RetAuthAssumption, TypeOK, LinkCounted,
         Ask \/ RetAuthRuns \/ RetAuthFails \/ Restart
  PROVE  TypeOK' /\ LinkCounted'
PROOF
  <1>1. DBTypeOK'
    BY DEF TypeOK, DBTypeOK, dbVars, RetAuthRuns, RetAuthFails, Ask, Login, GetPath,
       GetPathFails, GetPathSmashes, QueryFails, QueryProgram, QueryPolicy, Return,
       Restart
  <1>2. failed' \in BOOLEAN /\ edited' \in BOOLEAN
    BY Zenon DEF TypeOK, histVars, RetAuthRuns, RetAuthFails, Ask, Login, GetPath,
       GetPathFails, GetPathSmashes, QueryFails, QueryProgram, QueryPolicy, Return,
       Restart
  <1>3. CallTypesOK' /\ LinkCounted'
    <2>0. CallTypesOK /\ LinkCounted /\ DBTypeOK /\ MaxConns \in Nat /\ MaxProgram \in Nat
      BY TypeParts, PolicyDBAssumption DEF RetAuthAssumption
    <2> USE DEF CallTypesOK, LinkCounted
    <2>1. CASE Ask
      BY <2>0, <2>1, DecisionTypes DEF Ask, Goto
    <2>2. CASE Login
      BY <2>0, <2>2 DEF Login, Goto
    <2>3. CASE GetPath \/ GetPathSmashes
      <3>1. path' \in {exe, path} \cup Misread
        BY <2>3, Zenon DEF GetPath, GetPathSmashes
      <3>2. /\ pc' \in {"program", "smashed"} /\ node' \in {0, node}
            /\ exe' = exe /\ action' = action /\ link' = link /\ conns' = conns
            /\ prog_id' = prog_id /\ ret' = ret /\ held' = held
        BY <2>3, Zenon DEF GetPath, GetPathSmashes, Goto, histVars
      <3> QED BY <2>0, <3>1, <3>2
    <2>4. CASE GetPathFails
      BY <2>0, <2>4 DEF GetPathFails, CloseLink, Goto
    <2>5. CASE QueryFails
      BY <2>0, <2>5 DEF QueryFails
    <2>6. CASE QueryProgram
      <3>1. /\ prog_id' \in 0 .. MaxProgram
            /\ node' \in Nat
            /\ pc' \in {"program", "policy", "return"}
            /\ ret' \in {-1, 0, 1} /\ link' \in {"none", link}
            /\ UNCHANGED <<exe, action, conns, path, held>>
        BY <2>0, <2>6 DEF QueryProgram, DBTypeOK, ProgramRows, DEFAULT_AUTH, histVars
      <3> QED BY <2>0, <3>1
    <2>7. CASE QueryPolicy
      <3>1. ret' \in {-1, 0, 1}
        BY <2>7 DEF QueryPolicy, DEFAULT_AUTH
      <3> QED BY <2>0, <2>7, <3>1 DEF QueryPolicy, Goto, histVars
    <2>8. CASE Return \/ Restart
      BY <2>0, <2>8 DEF Return, Restart, Goto
    <2> QED
      BY <2>1, <2>2, <2>3, <2>4, <2>5, <2>6, <2>7, <2>8 DEF RetAuthRuns, RetAuthFails
  <1>4. TypeOK'
    BY <1>1, <1>2, <1>3, Zenon DEF TypeOK, CallTypesOK
  <1> QED BY <1>3, <1>4

LEMMA CallKeepsHeld ==
  ASSUME TypeOK, HeldIsCurrent, Ask \/ RetAuthRuns \/ RetAuthFails \/ Restart
  PROVE  HeldIsCurrent'
PROOF
  <1>1. UNCHANGED <<program, policy>>
    BY DEF dbVars, RetAuthRuns, RetAuthFails, Ask, Login, GetPath, GetPathFails,
       GetPathSmashes, QueryFails, QueryProgram, QueryPolicy, Return, Restart
  <1>2. \A e, a : Decisions(e, a)' = Decisions(e, a)
    BY <1>1 DEF Decisions, Nearest, OnTheWay, Answers, RulesFor
  <1>3. CASE Ask
    BY <1>2, <1>3 DEF Ask, HeldIsCurrent
  <1>4. CASE Return \/ Restart
    BY <1>4 DEF Return, Restart, Goto, HeldIsCurrent, InCall
  <1>5. CASE (RetAuthRuns \/ RetAuthFails) /\ ~Return
    <2>1. InCall /\ UNCHANGED <<exe, action, held>>
      BY <1>5 DEF RetAuthRuns, RetAuthFails, Login, GetPath, GetPathFails,
         GetPathSmashes, QueryFails, QueryProgram, QueryPolicy, Goto, InCall, histVars
    <2> QED BY <1>2, <2>1 DEF HeldIsCurrent
  <1> QED BY <1>3, <1>4, <1>5

LEMMA QueryProgramWalks ==
  ASSUME RetAuthAssumption, WalkInv, QueryProgram
  PROVE  WalkIsRight'
PROOF
  <1>0. /\ TypeOK /\ exe \in Exes /\ Decisions(exe, action) \subseteq held
        /\ pc = "program"
    BY DEF WalkInv, HeldIsCurrent, InCall, QueryProgram
  <1>1. /\ UNCHANGED <<program, exe, path, failed, edited, held>>
        /\ pc' \in {"program", "policy", "return"}
    BY DEF QueryProgram, dbVars, histVars
  <1>2. CASE failed
    BY <1>1, <1>2 DEF WalkIsRight
  <1>3. CASE ~failed /\ edited
    BY <1>0, <1>1, <1>3 DEF WalkInv, WalkIsRight
  <1>4. CASE ~failed /\ ~edited
    <2> DEFINE dirs == path_to_dirList(exe)
               rows == {row \in program : row.path = dirs[node + 1]}
    <2>1. path = exe /\ node \in Nat /\ node < Len(exe) /\ PassedNothing
      BY <1>0, <1>4 DEF WalkInv, WalkIsRight, TypeOK
    <2>2. Len(dirs) = Len(exe) /\ Len(exe) \in Nat
      BY <1>0, DirList, PathLength
    <2>3. CASE rows # {}
      <3>1. pc' = "policy" /\ \E row \in rows : prog_id' = row.id
        BY <2>1, <2>3 DEF QueryProgram
      <3>2. \A row \in rows : row \in Nearest(exe)
        BY <1>0, <2>1, FirstIsNearest
      <3>3. \E row \in Nearest(exe) : prog_id' = row.id
        BY <3>1, <3>2
      <3>4. Nearest(exe)' = Nearest(exe)
        BY <1>1 DEF Nearest, OnTheWay
      <3> QED BY <1>1, <2>1, <3>1, <3>3, <3>4 DEF WalkIsRight
    <2>4. CASE rows = {} /\ node + 1 < Len(dirs)
      <3>1. pc' = "program" /\ node' = node + 1
        BY <1>0, <2>1, <2>4 DEF QueryProgram
      <3>2. \A row \in OnTheWay(exe) : row.path # dirs[node + 1]
        BY <2>4 DEF OnTheWay
      <3>3. PassedNothing'
        <4>1. OnTheWay(exe)' = OnTheWay(exe)
          BY <1>1 DEF OnTheWay
        <4>2. \A i \in 1 .. node' : i \in 1 .. node \/ i = node + 1
          BY <2>1, <3>1
        <4> QED BY <1>1, <2>1, <3>2, <4>1, <4>2 DEF PassedNothing
      <3> QED BY <1>1, <2>1, <2>2, <2>4, <3>1, <3>3 DEF WalkIsRight
    <2>5. CASE rows = {} /\ node + 1 = Len(dirs)
      <3>1. pc' = "return" /\ ret' = DEFAULT_AUTH
        BY <2>1, <2>2, <2>5 DEF QueryProgram
      <3>2. Nearest(exe) = {}
        BY <1>0, <2>1, <2>2, <2>5, NoneOnTheWay
      <3>3. ret' \in held
        BY <1>0, <3>1, <3>2 DEF Decisions
      <3> QED BY <1>1, <2>1, <3>1, <3>3 DEF WalkIsRight
    <2> QED BY <2>1, <2>2, <2>3, <2>4, <2>5
  <1> QED BY <1>2, <1>3, <1>4

LEMMA QueryPolicyAnswers ==
  ASSUME WalkInv, QueryPolicy
  PROVE  WalkIsRight'
PROOF
  <1>0. /\ pc = "policy" /\ pc' = "return" /\ UNCHANGED histVars
        /\ Decisions(exe, action) \subseteq held
    BY DEF WalkInv, HeldIsCurrent, InCall, QueryPolicy, Goto
  <1>1. CASE failed \/ edited
    BY <1>0, <1>1 DEF WalkIsRight, histVars
  <1>2. CASE ~failed /\ ~edited
    <2>1. PICK row \in Nearest(exe) : row.id = prog_id
      BY <1>0, <1>2 DEF WalkInv, WalkIsRight
    <2>2. ret' \in Answers(row, action)
      BY <2>1 DEF QueryPolicy, Answers, RulesFor
    <2>3. Answers(row, action) \subseteq Decisions(exe, action)
      BY <2>1 DEF Decisions
    <2> QED BY <1>0, <2>2, <2>3 DEF WalkIsRight, histVars
  <1> QED BY <1>1, <1>2

LEMMA CallWalks ==
  ASSUME RetAuthAssumption, WalkInv, Ask \/ RetAuthRuns \/ RetAuthFails \/ Restart
  PROVE  WalkIsRight'
PROOF
  <1>1. CASE Ask \/ Login \/ Return \/ Restart \/ GetPathSmashes
    BY <1>1 DEF Ask, Login, Return, Restart, GetPathSmashes, Goto, WalkIsRight
  <1>2. CASE GetPathFails \/ QueryFails
    BY <1>2 DEF GetPathFails, QueryFails, WalkIsRight
  <1>3. CASE GetPath
    <2>1. /\ pc' = "program" /\ node' = 0 /\ exe' = exe /\ exe \in Exes
          /\ path' = exe \/ failed'
      BY <1>3 DEF GetPath, Goto, WalkInv, HeldIsCurrent, InCall
    <2>2. PassedNothing' /\ node' < Len(exe')
      BY <2>1, PathLength DEF PassedNothing
    <2> QED BY <2>1, <2>2 DEF WalkIsRight
  <1> QED
    BY <1>1, <1>2, <1>3, QueryProgramWalks, QueryPolicyAnswers DEF RetAuthRuns,
       RetAuthFails

(* A statement of a console keeps the tables well typed. *)
LEMMA EditTypes ==
  ASSUME DBTypeOK, Edit
  PROVE  DBTypeOK'
PROOF
  <1>1. CASE \E p \in Paths : InsertProgram(p)
    BY <1>1, PolicyDBAssumption DEF DBTypeOK, InsertProgram, ProgramRows
  <1>2. CASE \E i \in 1..MaxProgram, a \in Actions, auth \in Auths : InsertPolicy(i, a, auth)
    BY <1>2, PolicyDBAssumption DEF DBTypeOK, InsertPolicy, PolicyRows
  <1>3. CASE \E i \in 1..MaxProgram, p \in Paths : UpdateProgramRow(i, p)
    BY <1>3 DEF DBTypeOK, UpdateProgramRow, ProgramRows
  <1>4. CASE \E i \in 1..MaxPolicy, a \in Actions, auth \in Auths : UpdatePolicyRow(i, a, auth)
    BY <1>4 DEF DBTypeOK, UpdatePolicyRow, PolicyRows
  <1>5. CASE \E i \in 1..MaxPolicy : DeletePolicyRow(i)
    BY <1>5 DEF DBTypeOK, DeletePolicyRow
  <1>6. CASE \E i \in 1..MaxProgram : DeleteProgramRow(i)
    BY <1>6 DEF DBTypeOK, DeleteProgramRow
  <1> QED BY <1>1, <1>2, <1>3, <1>4, <1>5, <1>6, Zenon DEF Edit

LEMMA EditKeeps ==
  ASSUME WalkInv, Edit
  PROVE  WalkInv'
PROOF
  <1>0. /\ UNCHANGED <<pc, exe, action, link, conns, path, node, prog_id, ret>>
        /\ UNCHANGED failed
    BY DEF Edit, callVars, histVars
  <1>1. TypeOK'
    <2>1. DBTypeOK'
      BY EditTypes, Zenon DEF WalkInv, TypeOK
    <2>2. edited' \in BOOLEAN
      BY Zenon DEF WalkInv, TypeOK, Edit, histVars
    <2>3. held' = held \/ held' = held \cup Decisions(exe, action)'
      BY DEF Edit, histVars
    <2>4. Decisions(exe, action)' \subseteq {0, 1}
      BY DEF Decisions, Answers, DEFAULT_AUTH
    <2>5. CallTypesOK /\ failed \in BOOLEAN
      BY TypeParts DEF WalkInv
    <2>6. CallTypesOK'
      BY <1>0, <2>3, <2>4, <2>5 DEF CallTypesOK
    <2> QED BY <1>0, <2>1, <2>2, <2>5, <2>6, Zenon DEF TypeOK, CallTypesOK
  <1>2. HeldIsCurrent'
    BY <1>0 DEF Edit, HeldIsCurrent, InCall, WalkInv
  <1>3. WalkIsRight'
    <2>1. CASE ~InCall
      BY <1>0, <2>1 DEF WalkIsRight, InCall
    <2>2. CASE InCall /\ OnTheWay(exe)' # OnTheWay(exe)
      BY <1>0, <2>2 DEF Edit, InCall, WalkInv, WalkIsRight
    <2>3. CASE InCall /\ OnTheWay(exe)' = OnTheWay(exe)
      <3>1. (edited' <=> edited) /\ held \subseteq held'
        BY <2>3 DEF Edit, InCall, WalkInv, TypeOK
      <3>2. Nearest(exe)' = Nearest(exe)
        BY <2>3 DEF Nearest
      <3>3. PassedNothing => PassedNothing'
        BY <1>0, <2>3 DEF PassedNothing
      <3> QED BY <1>0, <3>1, <3>2, <3>3 DEF WalkInv, WalkIsRight
    <2> QED BY <2>1, <2>2, <2>3
  <1> QED BY <1>0, <1>1, <1>2, <1>3 DEF WalkInv, LinkCounted

LEMMA WalkInvInit == RetAuthAssumption /\ Init => WalkInv
PROOF
  <1> SUFFICES ASSUME RetAuthAssumption, Init PROVE WalkInv
    OBVIOUS
  <1>1. DBTypeOK
    BY PolicyDBAssumption DEF Init, EmptyDB, DBTypeOK
  <1>2. TypeOK
    <2>1. CallTypesOK
      BY PolicyDBAssumption DEF Init, CallTypesOK, RetAuthAssumption
    <2>2. failed \in BOOLEAN /\ edited \in BOOLEAN
      BY Zenon DEF Init
    <2> QED BY <1>1, <2>1, <2>2, TypeParts
  <1> QED
    BY <1>2 DEF Init, WalkInv, LinkCounted, HeldIsCurrent, InCall, WalkIsRight

LEMMA WalkInvStep == RetAuthAssumption /\ WalkInv /\ [Next]_vars => WalkInv'
PROOF
  <1> SUFFICES ASSUME RetAuthAssumption, WalkInv, [Next]_vars PROVE WalkInv'
    OBVIOUS
  <1>1. ASSUME Ask \/ RetAuthRuns \/ RetAuthFails \/ Restart PROVE WalkInv'
    BY <1>1, CallTypes, CallKeepsHeld, CallWalks DEF WalkInv
  <1>2. ASSUME UNCHANGED vars PROVE WalkInv'
    <2>1. TypeOK' /\ LinkCounted'
      BY <1>2 DEF vars, dbVars, callVars, histVars, WalkInv, TypeOK, DBTypeOK, LinkCounted
    <2>2. HeldIsCurrent'
      BY <1>2 DEF vars, dbVars, callVars, histVars, WalkInv, HeldIsCurrent, InCall,
         Decisions, Nearest, OnTheWay, Answers, RulesFor
    <2>3. WalkIsRight'
      BY <1>2 DEF vars, dbVars, callVars, histVars, WalkInv, WalkIsRight, Nearest,
         OnTheWay, PassedNothing
    <2> QED BY <2>1, <2>2, <2>3 DEF WalkInv
  <1> QED BY <1>1, <1>2, EditKeeps DEF Next

------------------------------------------------------------------------------
(* The theorems. *)

(* The type invariant of the look-up: the process never counts a connection   *)
(* that MySQL has not granted, nor one more than it has.                      *)
THEOREM RetAuthTypeCorrect == Spec => []TypeOK
PROOF
  <1>1. Init => WalkInv
    BY WalkInvInit, RetAuthAssumption
  <1>2. WalkInv /\ [Next]_vars => WalkInv'
    BY WalkInvStep, RetAuthAssumption
  <1>3. WalkInv => TypeOK
    BY DEF WalkInv
  <1> QED BY <1>1, <1>2, <1>3, PTL DEF Spec

(* ret_auth gives the answer that the database held at some moment of the    *)
(* call, unless programs on its way are edited under it.                     *)
THEOREM LookUpIsOfOneMoment == Spec => []AnswerOfOneMoment
PROOF
  <1>1. Init => WalkInv
    BY WalkInvInit, RetAuthAssumption
  <1>2. WalkInv /\ [Next]_vars => WalkInv'
    BY WalkInvStep, RetAuthAssumption
  <1>3. WalkInv => AnswerOfOneMoment
    BY DEF WalkInv, WalkIsRight, AnswerOfOneMoment, Answered
  <1> QED BY <1>1, <1>2, <1>3, PTL DEF Spec

=============================================================================
