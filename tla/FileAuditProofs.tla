---------------------------- MODULE FileAuditProofs ----------------------------
(***************************************************************************)
(* Proofs about the fileaudit sample, for any threads, users, daemons and  *)
(* any length of the receive queue: the types, the order of the log, and   *)
(* that no report is lost without a trace.                                 *)
(***************************************************************************)
EXTENDS FileAudit, SequenceTheorems, TLAPS

------------------------------------------------------------------------------
(* What a daemon's sequences tell, as facts about any sequences: S was sent,  *)
(* Q is queued, W is written, n is in the buffer.                            *)

Numbered(S) ==
  \A i \in DOMAIN S :
    S[i].no # 0 /\ \A j \in DOMAIN S : S[i].no = S[j].no => i = j

PlaceIn(S, r) == IF r = Zeroes THEN 0 ELSE CHOOSE i \in DOMAIN S : S[i] = r

(* What is queued or written has been sent; only zeroes have not. *)
KnownIn(S, W, Q) ==
  /\ \A i \in DOMAIN Q : Q[i] \in Range(S)
  /\ \A i \in DOMAIN W : W[i] \in Range(S) \cup {Zeroes}

LastOf(W) == IF W = <<>> THEN Zeroes ELSE W[Len(W)]

(* Everything queued is newer than the last line, and nothing is out of order. *)
OrderedIn(S, W, Q) ==
  /\ \A i \in 2..Len(W) : PlaceIn(S, W[i - 1]) <= PlaceIn(S, W[i])
  /\ Q # <<>> => PlaceIn(S, LastOf(W)) < PlaceIn(S, Q[1])
  /\ \A i \in 2..Len(Q) : PlaceIn(S, Q[i - 1]) < PlaceIn(S, Q[i])

RepeatsIn(S, W) ==
  {i \in DOMAIN W : IF i = 1 THEN PlaceIn(S, W[1]) = 0
                    ELSE PlaceIn(S, W[i]) = PlaceIn(S, W[i - 1])}

------------------------------------------------------------------------------
(* The inductive invariant.                                                  *)

(* A record on its way has a number of its own, which no socket has seen. *)
NumbersAreNew ==
  \A t \in Threads : opc[t] # "idle" =>
    /\ rec[t].no \in 1..opens
    /\ \A u \in Threads : opc[u] # "idle" /\ rec[u].no = rec[t].no => u = t
    /\ \A d \in Daemons : \A i \in DOMAIN sent[d] : sent[d][i].no # rec[t].no

(* No two records sent to a daemon have the same number, and none has 0. *)
SentOnce ==
  \A d \in Daemons :
    /\ Numbered(sent[d])
    /\ \A i \in DOMAIN sent[d] : sent[d][i].no <= opens

(* The buffer holds the last line, and what is queued follows it. *)
InOrder(d) ==
  /\ KnownIn(sent[d], Written(d), inbox[d])
  /\ OrderedIn(sent[d], Written(d), inbox[d])
  /\ nlh[d] = LastOf(Written(d))

(* An overrun takes more records than the queue holds, and its report leaves *)
(* a trace in the log.                                                       *)
Traced(d) ==
  /\ Len(inbox[d]) <= Len(sent[d])
  /\ overrun[d] # "no" => Len(sent[d]) > RcvBuf
  /\ overrun[d] = "reported" => RepeatsIn(sent[d], Written(d)) # {}
  /\ RepeatsIn(sent[d], Written(d)) # {} => sock[d] # "bound" \/ Len(sent[d]) > RcvBuf

Told(d) ==
  sock[d] = "bound" =>
    \/ Range(sent[d]) \subseteq Range(inbox[d]) \cup Range(Written(d))
    \/ overrun[d] = "pending"
    \/ RepeatsIn(sent[d], Written(d)) # {}

(* A life that has not begun has left nothing. *)
Unborn(d) ==
  dpc[d] = "off" => sock[d] = "none" /\ sent[d] = <<>> /\ Written(d) = <<>>

DaemonInv(d) == InOrder(d) /\ Traced(d) /\ Told(d) /\ Unborn(d)

AuditInv == TypeOK /\ NumbersAreNew /\ SentOnce /\ \A d \in Daemons : DaemonInv(d)

------------------------------------------------------------------------------
(* Types. *)

LEMMA ZeroesAreRecords == Zeroes \in Records
PROOF BY FileAuditAssumption DEF Zeroes, Records

LEMMA TypeInit == Init => TypeOK
PROOF
  <1> SUFFICES ASSUME Init PROVE TypeOK
    OBVIOUS
  <1>1. <<>> \in Seq(Records)
    BY EmptySeq
  <1> QED BY <1>1, ZeroesAreRecords DEF Init, TypeOK

LEMMA TypeOpens ==
  ASSUME TypeOK, NEW t \in Threads, NEW u \in Users, Opens(t, u)
  PROVE  /\ opens' \in Nat
         /\ opc' \in [Threads -> {"idle", "test", "send"}]
         /\ rec' \in [Threads -> Records]
         /\ \A v \in Threads : opc'[v] = "send" => opc[v] = "send"
PROOF
  <1>1. opens + 1 \in Nat /\ [no |-> opens + 1, uid |-> u] \in Records
    BY DEF TypeOK, Records
  <1> QED BY <1>1 DEF TypeOK, Opens

LEMMA TypeExit ==
  ASSUME TypeOK, NEW d \in Daemons, Exit(d)
  PROVE  TypeOK'
PROOF
  <1>1. <<>> \in Seq(Records)
    BY EmptySeq
  <1>2. /\ nlh' \in [Daemons -> Records] /\ log' \in [Daemons -> Seq(Records)]
        /\ inbox' \in [Daemons -> Seq(Records)] /\ sent' \in [Daemons -> Seq(Records)]
    BY <1>1, ZeroesAreRecords DEF TypeOK, Exit
  <1> QED BY <1>2 DEF TypeOK, Exit, moduleVars, openVars

LEMMA TypeStep ==
  ASSUME TypeOK, [Next]_vars
  PROVE  TypeOK'
PROOF
  <1>1. CASE insmod
    BY <1>1 DEF TypeOK, insmod, openVars, daemonVars, netVars
  <1>2. ASSUME NEW t \in Openers, hooked_openat(t) PROVE TypeOK'
    BY <1>2, TypeOpens DEF TypeOK, hooked_openat, moduleVars, daemonVars, netVars, Threads
  <1>3. ASSUME NEW t \in Threads, TestPid(t) PROVE TypeOK'
    BY <1>3, ZeroesAreRecords DEF TypeOK, TestPid, Leaves, moduleVars, daemonVars, netVars
  <1>4. ASSUME NEW t \in Threads, SendRecord(t) PROVE TypeOK'
    <2>1. pid \in Daemons /\ rec[t] \in Records
      BY <1>4 DEF TypeOK, SendRecord
    <2>2. /\ Append(inbox[pid], rec[t]) \in Seq(Records)
          /\ Append(sent[pid], rec[t]) \in Seq(Records)
      BY <2>1, AppendProperties DEF TypeOK
    <2>3. inbox' \in [Daemons -> Seq(Records)] /\ sent' \in [Daemons -> Seq(Records)]
      BY <1>4, <2>1, <2>2 DEF TypeOK, SendRecord, netlink_unicast, netVars
    <2>4. overrun' \in [Daemons -> {"no", "pending", "reported"}]
      BY <1>4, <2>1 DEF TypeOK, SendRecord, netlink_unicast, netVars
    <2>5. /\ opc' \in [Threads -> {"idle", "test", "send"}]
          /\ rec' \in [Threads -> Records]
          /\ \A v \in Threads : opc'[v] = "send" => opc[v] = "send"
      BY <1>4, ZeroesAreRecords DEF TypeOK, SendRecord, Leaves
    <2> QED BY <1>4, <2>3, <2>4, <2>5 DEF TypeOK, SendRecord, moduleVars, daemonVars
  <1>5. ASSUME NEW d \in Daemons, Socket(d) PROVE TypeOK'
    BY <1>5 DEF TypeOK, Socket, DGoto, moduleVars, openVars, netVars
  <1>6. ASSUME NEW d \in Daemons, SendPid(d) PROVE TypeOK'
    BY <1>6 DEF TypeOK, SendPid, DGoto, openVars, netVars
  <1>7. ASSUME NEW d \in Daemons, Fopen(d) PROVE TypeOK'
    <2>1. d \in Threads /\ Root \in Users
      BY FileAuditAssumption DEF Threads
    <2>2. /\ opens' \in Nat
          /\ opc' \in [Threads -> {"idle", "test", "send"}]
          /\ rec' \in [Threads -> Records]
          /\ \A v \in Threads : opc'[v] = "send" => opc[v] = "send"
      BY <1>7, <2>1, TypeOpens DEF Fopen, openVars, TypeOK
    <2> QED BY <1>7, <2>2 DEF TypeOK, Fopen, moduleVars, netVars
  <1>8. ASSUME NEW d \in Daemons, FopenReturns(d) PROVE TypeOK'
    BY <1>8 DEF TypeOK, FopenReturns, DGoto, moduleVars, openVars, netVars
  <1>9. ASSUME NEW d \in Daemons, FopenFails(d) \/ LogDies(d) \/ Killed(d) PROVE TypeOK'
    BY <1>9, TypeExit DEF FopenFails, LogDies, Killed
  <1>10. ASSUME NEW d \in Daemons, Recv(d) PROVE TypeOK'
    <2>1. inbox[d] # <<>> => /\ Head(inbox[d]) \in Records
                            /\ Tail(inbox[d]) \in Seq(Records)
      BY HeadTailProperties DEF TypeOK
    <2>2. /\ nlh' \in [Daemons -> Records] /\ inbox' \in [Daemons -> Seq(Records)]
          /\ overrun' \in [Daemons -> {"no", "pending", "reported"}]
      <3>1. CASE RecvTakes(d)
        BY <2>1, <3>1 DEF TypeOK, RecvTakes
      <3>2. CASE RecvFails(d)
        BY <3>2 DEF TypeOK, RecvFails
      <3> QED BY <1>10, <3>1, <3>2, Zenon DEF Recv
    <2>3. dpc' \in [Daemons -> {"off", "sendpid", "fopen", "opening",
                                "failing", "recv", "log", "dead"}]
      BY <1>10 DEF TypeOK, Recv, DGoto
    <2> QED BY <1>10, <2>2, <2>3 DEF TypeOK, Recv, moduleVars, openVars
  <1>11. ASSUME NEW d \in Daemons, Log(d) PROVE TypeOK'
    <2>1. Append(log[d], nlh[d]) \in Seq(Records)
      BY AppendProperties DEF TypeOK
    <2> QED BY <1>11, <2>1 DEF TypeOK, Log, DGoto, moduleVars, openVars, netVars
  <1>12. CASE UNCHANGED vars
    BY <1>12 DEF TypeOK, vars, moduleVars, openVars, daemonVars, netVars
  <1> QED
    BY <1>1, <1>2, <1>3, <1>4, <1>5, <1>6, <1>7, <1>8, <1>9, <1>10, <1>11, <1>12
    DEF Next, InOpen, auditdemo

(* The variables keep their types; and a thread sends only once a daemon has *)
(* registered. (FileAudit of fileaudit/kernel_module and auditdemo.)          *)
THEOREM TypeCorrect == Spec => []TypeOK
PROOF
  <1>1. TypeOK /\ [Next]_vars => TypeOK'
    BY TypeStep
  <1> QED BY <1>1, TypeInit, PTL DEF Spec

------------------------------------------------------------------------------
(* Places. *)

LEMMA PlaceOfSent ==
  ASSUME NEW S \in Seq(Records), Numbered(S), NEW i \in DOMAIN S
  PROVE  PlaceIn(S, S[i]) = i
PROOF
  <1>1. S[i] # Zeroes
    BY DEF Numbered, Zeroes
  <1>2. \A j \in DOMAIN S : S[j] = S[i] => j = i
    BY DEF Numbered
  <1> QED BY <1>1, <1>2 DEF PlaceIn

LEMMA PlaceOfKnown ==
  ASSUME NEW S \in Seq(Records), Numbered(S)
  PROVE  /\ PlaceIn(S, Zeroes) = 0
         /\ \A r \in Range(S) : PlaceIn(S, r) \in 1..Len(S)
         /\ \A r \in Range(S) \cup {Zeroes} : PlaceIn(S, r) \in 0..Len(S)
PROOF
  <1>1. PlaceIn(S, Zeroes) = 0
    BY DEF PlaceIn
  <1>2. DOMAIN S = 1..Len(S) /\ Len(S) \in Nat
    BY LenProperties
  <1>3. ASSUME NEW r \in Range(S) PROVE PlaceIn(S, r) \in 1..Len(S)
    <2>1. PICK i \in DOMAIN S : r = S[i]
      BY DEF Range
    <2> QED BY <1>2, <2>1, PlaceOfSent
  <1> QED BY <1>1, <1>2, <1>3

(* One more record is sent: the others keep their places, and it is the last. *)
LEMMA PlacesGrow ==
  ASSUME NEW S \in Seq(Records), Numbered(S), NEW m \in Records, m.no # 0,
         \A i \in DOMAIN S : S[i].no # m.no
  PROVE  /\ Numbered(Append(S, m))
         /\ Range(Append(S, m)) = Range(S) \cup {m}
         /\ PlaceIn(Append(S, m), m) = Len(S) + 1
         /\ \A r \in Range(S) \cup {Zeroes} : PlaceIn(Append(S, m), r) = PlaceIn(S, r)
PROOF
  <1> DEFINE T == Append(S, m)
  <1>1. /\ T \in Seq(Records) /\ Len(T) = Len(S) + 1 /\ Len(S) \in Nat
        /\ DOMAIN S = 1..Len(S) /\ DOMAIN T = 1..Len(S) + 1
        /\ T[Len(S) + 1] = m
        /\ \A i \in 1..Len(S) : T[i] = S[i]
    BY AppendProperties, LenProperties
  <1>2. Numbered(T)
    BY <1>1 DEF Numbered
  <1>3. Range(T) = Range(S) \cup {m}
    BY <1>1 DEF Range
  <1>4. PlaceIn(T, m) = Len(S) + 1
    <2>1. Len(S) + 1 \in DOMAIN T
      BY <1>1
    <2> HIDE DEF T
    <2> QED BY <1>1, <1>2, <2>1, PlaceOfSent
  <1>5. ASSUME NEW r \in Range(S) PROVE PlaceIn(T, r) = PlaceIn(S, r)
    <2>1. PICK i \in DOMAIN S : r = S[i]
      BY DEF Range
    <2>2. i \in DOMAIN T /\ T[i] = S[i]
      BY <1>1
    <2> HIDE DEF T
    <2>3. PlaceIn(T, T[i]) = i
      BY <1>1, <1>2, <2>2, PlaceOfSent
    <2> QED BY <2>1, <2>2, <2>3, PlaceOfSent
  <1>6. PlaceIn(T, Zeroes) = PlaceIn(S, Zeroes)
    BY DEF PlaceIn
  <1> QED BY <1>2, <1>3, <1>4, <1>5, <1>6

LEMMA LastIsKnown ==
  ASSUME NEW S \in Seq(Records), NEW W \in Seq(Records), NEW Q, KnownIn(S, W, Q)
  PROVE  LastOf(W) \in Range(S) \cup {Zeroes}
PROOF
  <1>1. W # <<>> => Len(W) \in DOMAIN W
    BY EmptySeq, LenProperties
  <1> QED BY <1>1 DEF KnownIn, LastOf

LEMMA LastOfAppend ==
  ASSUME NEW W \in Seq(Records), NEW r \in Records
  PROVE  LastOf(Append(W, r)) = r
BY AppendProperties DEF LastOf

------------------------------------------------------------------------------
(* What sending and receiving do to the order. *)

(* A record is sent and lost. *)
LEMMA LostKeepsOrder ==
  ASSUME NEW S \in Seq(Records), NEW W \in Seq(Records), NEW Q \in Seq(Records),
         Numbered(S), NEW m \in Records, m.no # 0, \A i \in DOMAIN S : S[i].no # m.no,
         KnownIn(S, W, Q), OrderedIn(S, W, Q)
  PROVE  /\ KnownIn(Append(S, m), W, Q)
         /\ OrderedIn(Append(S, m), W, Q)
         /\ RepeatsIn(Append(S, m), W) = RepeatsIn(S, W)
PROOF
  <1> DEFINE T == Append(S, m)
  <1>1. /\ DOMAIN W = 1..Len(W) /\ DOMAIN Q = 1..Len(Q) /\ Len(W) \in Nat /\ Len(Q) \in Nat
        /\ Q # <<>> => 1 \in DOMAIN Q
    BY LenProperties, EmptySeq
  <1>2. /\ \A i \in DOMAIN W : PlaceIn(T, W[i]) = PlaceIn(S, W[i])
        /\ \A i \in DOMAIN Q : PlaceIn(T, Q[i]) = PlaceIn(S, Q[i])
        /\ PlaceIn(T, LastOf(W)) = PlaceIn(S, LastOf(W))
    BY PlacesGrow, LastIsKnown DEF KnownIn
  <1>3. KnownIn(T, W, Q)
    BY PlacesGrow DEF KnownIn
  <1> HIDE DEF T
  <1>4. OrderedIn(T, W, Q)
    <2>1. ASSUME NEW i \in 2..Len(W) PROVE PlaceIn(T, W[i - 1]) <= PlaceIn(T, W[i])
      <3>1. i \in DOMAIN W /\ i - 1 \in DOMAIN W
        BY <1>1
      <3> QED BY <1>2, <3>1 DEF OrderedIn
    <2>2. ASSUME NEW i \in 2..Len(Q) PROVE PlaceIn(T, Q[i - 1]) < PlaceIn(T, Q[i])
      <3>1. i \in DOMAIN Q /\ i - 1 \in DOMAIN Q
        BY <1>1
      <3> QED BY <1>2, <3>1 DEF OrderedIn
    <2> QED BY <1>1, <1>2, <2>1, <2>2 DEF OrderedIn
  <1>5. RepeatsIn(T, W) = RepeatsIn(S, W)
    BY <1>1, <1>2 DEF RepeatsIn
  <1> QED BY <1>3, <1>4, <1>5 DEF T

(* A record is sent and queued. *)
LEMMA QueuedKeepsOrder ==
  ASSUME NEW S \in Seq(Records), NEW W \in Seq(Records), NEW Q \in Seq(Records),
         Numbered(S), NEW m \in Records, m.no # 0, \A i \in DOMAIN S : S[i].no # m.no,
         KnownIn(S, W, Q), OrderedIn(S, W, Q)
  PROVE  /\ KnownIn(Append(S, m), W, Append(Q, m))
         /\ OrderedIn(Append(S, m), W, Append(Q, m))
PROOF
  <1> DEFINE T == Append(S, m)
             P == Append(Q, m)
  <1>1. KnownIn(T, W, Q) /\ OrderedIn(T, W, Q)
    BY LostKeepsOrder
  <1>2. /\ P \in Seq(Records) /\ DOMAIN P = 1..Len(Q) + 1 /\ Len(P) = Len(Q) + 1
        /\ P[Len(Q) + 1] = m /\ \A i \in 1..Len(Q) : P[i] = Q[i]
        /\ DOMAIN Q = 1..Len(Q) /\ Len(Q) \in Nat /\ Len(S) \in Nat
    BY AppendProperties, LenProperties
  <1>3. KnownIn(T, W, P)
    BY <1>1, <1>2, PlacesGrow DEF KnownIn
  <1>4. /\ PlaceIn(T, m) = Len(S) + 1
        /\ \A r \in Range(S) \cup {Zeroes} : PlaceIn(T, r) \in 0..Len(S)
    BY PlacesGrow, PlaceOfKnown
  <1>5. LastOf(W) \in Range(S) \cup {Zeroes} /\ \A i \in 1..Len(Q) : Q[i] \in Range(S)
    BY <1>2, LastIsKnown DEF KnownIn
  <1> HIDE DEF T, P
  <1>6. PlaceIn(T, LastOf(W)) < PlaceIn(T, P[1])
    <2>1. CASE Len(Q) = 0
      BY <1>2, <1>4, <1>5, <2>1
    <2>2. CASE Len(Q) # 0
      <3>1. Q # <<>> /\ P[1] = Q[1]
        BY <1>2, <2>2, EmptySeq
      <3> QED BY <1>1, <3>1 DEF OrderedIn
    <2> QED BY <2>1, <2>2
  <1>7. ASSUME NEW i \in 2..Len(P) PROVE PlaceIn(T, P[i - 1]) < PlaceIn(T, P[i])
    <2>1. i - 1 \in 1..Len(Q) /\ P[i - 1] = Q[i - 1]
      BY <1>2
    <2>2. CASE i \in 2..Len(Q)
      BY <1>1, <1>2, <2>1, <2>2 DEF OrderedIn
    <2>3. CASE i = Len(Q) + 1
      <3>1. Q[i - 1] \in Range(S)
        BY <1>5, <2>1
      <3> QED BY <1>2, <1>4, <2>1, <2>3, <3>1
    <2> QED BY <1>2, <2>2, <2>3
  <1> QED BY <1>1, <1>3, <1>6, <1>7 DEF T, P, OrderedIn

(* A record is received. *)
LEMMA TakenKeepsOrder ==
  ASSUME NEW S \in Seq(Records), NEW W \in Seq(Records), NEW Q \in Seq(Records),
         Numbered(S), Q # <<>>, KnownIn(S, W, Q), OrderedIn(S, W, Q)
  PROVE  /\ KnownIn(S, Append(W, Head(Q)), Tail(Q))
         /\ OrderedIn(S, Append(W, Head(Q)), Tail(Q))
         /\ RepeatsIn(S, Append(W, Head(Q))) = RepeatsIn(S, W)
         /\ Range(Tail(Q)) \cup Range(Append(W, Head(Q))) = Range(Q) \cup Range(W)
PROOF
  <1> DEFINE V == Append(W, Head(Q))
             P == Tail(Q)
  <1>1. /\ Head(Q) = Q[1] /\ Q[1] \in Records /\ 1 \in DOMAIN Q
        /\ DOMAIN Q = 1..Len(Q) /\ Len(Q) \in Nat \ {0}
        /\ P \in Seq(Records) /\ Len(P) = Len(Q) - 1 /\ DOMAIN P = 1..Len(Q) - 1
        /\ \A i \in 1..Len(Q) - 1 : P[i] = Q[i + 1]
    BY HeadTailProperties, LenProperties, EmptySeq
  <1>2. /\ V \in Seq(Records) /\ DOMAIN V = 1..Len(W) + 1 /\ Len(V) = Len(W) + 1
        /\ V[Len(W) + 1] = Q[1] /\ \A i \in 1..Len(W) : V[i] = W[i]
        /\ DOMAIN W = 1..Len(W) /\ Len(W) \in Nat
    BY <1>1, AppendProperties, LenProperties
  <1>3. LastOf(V) = Q[1]
    BY <1>1, LastOfAppend
  <1>4. W # <<>> => LastOf(W) = W[Len(W)] /\ Len(W) # 0
    BY EmptySeq DEF LastOf
  <1>5. /\ W = <<>> => LastOf(W) = Zeroes /\ Len(W) = 0
        /\ P # <<>> => Len(P) > 0
    BY <1>1, EmptySeq DEF LastOf
  <1>6. PlaceIn(S, LastOf(W)) < PlaceIn(S, Q[1])
    BY DEF OrderedIn
  <1>7. /\ LastOf(W) \in Range(S) \cup {Zeroes}
        /\ Q[1] \in Range(S) /\ PlaceIn(S, Q[1]) \in 1..Len(S)
        /\ PlaceIn(S, LastOf(W)) \in 0..Len(S) /\ Len(S) \in Nat
    BY <1>1, LastIsKnown, PlaceOfKnown, LenProperties DEF KnownIn
  <1>8. Range(P) \cup Range(V) = Range(Q) \cup Range(W)
    <2> HIDE DEF V, P
    <2>1. Range(Q) \subseteq Range(P) \cup Range(V)
      <3> SUFFICES ASSUME NEW i \in 1..Len(Q) PROVE Q[i] \in Range(P) \cup Range(V)
        BY <1>1 DEF Range
      <3>1. CASE i = 1
        BY <1>2, <3>1 DEF Range
      <3>2. CASE i # 1
        <4>1. i - 1 \in 1..Len(Q) - 1 /\ P[i - 1] = Q[i]
          BY <1>1, <3>2
        <4> QED BY <1>1, <4>1 DEF Range
      <3> QED BY <3>1, <3>2
    <2>2. Range(W) \subseteq Range(V)
      BY <1>2 DEF Range
    <2>3. ASSUME NEW i \in DOMAIN P PROVE P[i] \in Range(Q)
      <3>1. i + 1 \in DOMAIN Q /\ P[i] = Q[i + 1]
        BY <1>1
      <3> QED BY <3>1 DEF Range
    <2>4. ASSUME NEW i \in DOMAIN V PROVE V[i] \in Range(W) \cup Range(Q)
      <3>1. V[i] = Q[1] \/ (i \in DOMAIN W /\ V[i] = W[i])
        <4>1. i \in 1..Len(W) \/ i = Len(W) + 1
          BY <1>2
        <4>2. CASE i = Len(W) + 1
          BY <1>2, <4>2
        <4>3. CASE i \in 1..Len(W)
          BY <1>2, <4>3
        <4> QED BY <4>1, <4>2, <4>3
      <3> QED BY <1>1, <3>1 DEF Range
    <2>5. Range(P) \subseteq Range(Q) /\ Range(V) \subseteq Range(W) \cup Range(Q)
      BY <2>3, <2>4 DEF Range
    <2> QED BY <2>1, <2>2, <2>5
  <1>9. KnownIn(S, V, P)
    <2> HIDE DEF V, P
    <2>1. ASSUME NEW i \in DOMAIN P PROVE P[i] \in Range(S)
      <3>1. i + 1 \in DOMAIN Q /\ P[i] = Q[i + 1]
        BY <1>1
      <3> QED BY <3>1 DEF KnownIn
    <2>2. ASSUME NEW i \in DOMAIN V PROVE V[i] \in Range(S) \cup {Zeroes}
      BY <1>2, <1>7 DEF KnownIn
    <2> QED BY <2>1, <2>2 DEF KnownIn
  <1>10. OrderedIn(S, V, P)
    <2> HIDE DEF V, P
    <2>1. ASSUME NEW i \in 2..Len(V) PROVE PlaceIn(S, V[i - 1]) <= PlaceIn(S, V[i])
      <3>1. CASE i \in 2..Len(W)
        BY <1>2, <3>1 DEF OrderedIn
      <3>2. CASE i = Len(W) + 1
        <4>1. W # <<>> /\ V[i - 1] = W[Len(W)]
          BY <1>2, <1>5, <3>2
        <4> QED BY <1>2, <1>4, <1>6, <1>7, <3>2, <4>1
      <3> QED BY <1>2, <3>1, <3>2
    <2>2. ASSUME P # <<>> PROVE PlaceIn(S, LastOf(V)) < PlaceIn(S, P[1])
      <3>1. 2 \in 2..Len(Q) /\ P[1] = Q[2]
        BY <1>1, <1>5, <2>2
      <3>2. PlaceIn(S, Q[2 - 1]) < PlaceIn(S, Q[2])
        BY <3>1 DEF OrderedIn
      <3> QED BY <1>3, <3>1, <3>2
    <2>3. ASSUME NEW i \in 2..Len(P) PROVE PlaceIn(S, P[i - 1]) < PlaceIn(S, P[i])
      <3>1. i + 1 \in 2..Len(Q) /\ P[i] = Q[i + 1] /\ P[i - 1] = Q[i]
        BY <1>1
      <3>2. PlaceIn(S, Q[(i + 1) - 1]) < PlaceIn(S, Q[i + 1])
        BY <3>1 DEF OrderedIn
      <3> QED BY <3>1, <3>2
    <2> QED BY <2>1, <2>2, <2>3 DEF OrderedIn
  <1>11. RepeatsIn(S, V) = RepeatsIn(S, W)
    <2> HIDE DEF V, P
    <2>1. Len(W) + 1 \notin RepeatsIn(S, V)
      <3>1. CASE W = <<>>
        BY <1>2, <1>5, <1>7, <3>1 DEF RepeatsIn
      <3>2. CASE W # <<>>
        BY <1>2, <1>4, <1>6, <1>7, <3>2 DEF RepeatsIn
      <3> QED BY <3>1, <3>2
    <2>2. \A i \in 1..Len(W) : i \in RepeatsIn(S, V) <=> i \in RepeatsIn(S, W)
      BY <1>2 DEF RepeatsIn
    <2>3. RepeatsIn(S, V) \subseteq 1..Len(W) + 1 /\ RepeatsIn(S, W) \subseteq 1..Len(W)
      BY <1>2 DEF RepeatsIn
    <2>4. RepeatsIn(S, V) \subseteq 1..Len(W)
      BY <1>2, <2>1, <2>3
    <2> QED BY <2>2, <2>3, <2>4
  <1> QED BY <1>8, <1>9, <1>10, <1>11

(* A failed recvmsg repeats the last line. *)
LEMMA RepeatKeepsOrder ==
  ASSUME NEW S \in Seq(Records), NEW W \in Seq(Records), NEW Q \in Seq(Records),
         Numbered(S), KnownIn(S, W, Q), OrderedIn(S, W, Q), LastOf(W) \in Records
  PROVE  /\ KnownIn(S, Append(W, LastOf(W)), Q)
         /\ OrderedIn(S, Append(W, LastOf(W)), Q)
         /\ RepeatsIn(S, Append(W, LastOf(W))) # {}
PROOF
  <1> DEFINE n == LastOf(W)
             V == Append(W, n)
  <1>1. n \in Range(S) \cup {Zeroes}
    BY LastIsKnown
  <1>2. /\ V \in Seq(Records) /\ DOMAIN V = 1..Len(W) + 1 /\ Len(V) = Len(W) + 1
        /\ V[Len(W) + 1] = n /\ \A i \in 1..Len(W) : V[i] = W[i]
        /\ DOMAIN W = 1..Len(W) /\ Len(W) \in Nat
    BY AppendProperties, LenProperties
  <1>3. LastOf(V) = n
    BY LastOfAppend
  <1>4. W # <<>> => n = W[Len(W)] /\ Len(W) # 0
    BY EmptySeq DEF LastOf
  <1>5. W = <<>> => n = Zeroes /\ Len(W) = 0
    BY EmptySeq DEF LastOf
  <1>6. PlaceIn(S, n) \in 0..Len(S) /\ Len(S) \in Nat
    BY <1>1, PlaceOfKnown, LenProperties
  <1> HIDE DEF V, n
  <1>7. KnownIn(S, V, Q)
    BY <1>1, <1>2 DEF KnownIn
  <1>8. OrderedIn(S, V, Q)
    <2>1. ASSUME NEW i \in 2..Len(V) PROVE PlaceIn(S, V[i - 1]) <= PlaceIn(S, V[i])
      <3>1. CASE i \in 2..Len(W)
        <4>1. V[i] = W[i] /\ V[i - 1] = W[i - 1]
          BY <1>2, <3>1
        <4> QED BY <3>1, <4>1 DEF OrderedIn
      <3>2. CASE i = Len(W) + 1
        <4>1. W # <<>> /\ V[i - 1] = W[Len(W)]
          BY <1>2, <1>5, <3>2
        <4> QED BY <1>2, <1>4, <1>6, <3>2, <4>1
      <3> QED BY <1>2, <3>1, <3>2
    <2> QED BY <1>3, <2>1 DEF OrderedIn, n
  <1>9. Len(W) + 1 \in RepeatsIn(S, V)
    <2>1. CASE W = <<>>
      BY <1>2, <1>5, <2>1, PlaceOfKnown DEF RepeatsIn
    <2>2. CASE W # <<>>
      BY <1>2, <1>4, <2>2 DEF RepeatsIn
    <2> QED BY <2>1, <2>2
  <1> QED BY <1>7, <1>8, <1>9 DEF V, n

------------------------------------------------------------------------------
(* Numbers. *)

LEMMA NumbersOpens ==
  ASSUME TypeOK, NumbersAreNew, SentOnce, NEW t \in Threads, NEW u \in Users, Opens(t, u),
         UNCHANGED sent
  PROVE  NumbersAreNew' /\ SentOnce'
PROOF
  <1>1. /\ opens \in Nat /\ opens' = opens + 1
        /\ \A v \in Threads : /\ v # t => rec'[v] = rec[v] /\ opc'[v] = opc[v]
                              /\ v = t => rec'[v].no = opens + 1
        /\ opc[t] = "idle"
    BY DEF TypeOK, Opens
  <1>2. \A d \in Daemons : \A i \in DOMAIN sent[d] : sent[d][i].no \in Nat
    <2> SUFFICES ASSUME NEW d \in Daemons, NEW i \in DOMAIN sent[d]
                 PROVE  sent[d][i].no \in Nat
      OBVIOUS
    <2>1. sent[d] \in Seq(Records)
      BY DEF TypeOK
    <2>2. sent[d][i] \in Records
      BY <2>1, LenProperties, ElementOfSeq
    <2> QED BY <2>2 DEF Records
  <1>3. SentOnce'
    BY <1>1, <1>2 DEF SentOnce
  <1>4. NumbersAreNew'
    <2> SUFFICES ASSUME NEW v \in Threads, opc'[v] # "idle"
                 PROVE  /\ rec'[v].no \in 1..opens'
                        /\ \A w \in Threads : opc'[w] # "idle" /\ rec'[w].no = rec'[v].no => w = v
                        /\ \A d \in Daemons : \A i \in DOMAIN sent[d] : sent[d][i].no # rec'[v].no
      BY DEF NumbersAreNew
    <2>1. CASE v = t
      <3>1. rec'[v].no = opens + 1
        BY <1>1, <2>1
      <3>2. \A w \in Threads : opc'[w] # "idle" /\ w # t => rec'[w].no \in 1..opens
        BY <1>1 DEF NumbersAreNew
      <3>3. \A d \in Daemons : \A i \in DOMAIN sent[d] : sent[d][i].no <= opens
        BY DEF SentOnce
      <3> QED BY <1>1, <1>2, <2>1, <3>1, <3>2, <3>3
    <2>2. CASE v # t
      <3>1. rec'[v] = rec[v] /\ opc[v] # "idle" /\ rec[v].no \in 1..opens
        BY <1>1, <2>2 DEF NumbersAreNew
      <3>2. ASSUME NEW w \in Threads, opc'[w] # "idle", rec'[w].no = rec'[v].no PROVE w = v
        BY <1>1, <3>1, <3>2 DEF NumbersAreNew
      <3> QED BY <1>1, <3>1, <3>2 DEF NumbersAreNew
    <2> QED BY <2>1, <2>2
  <1> QED BY <1>3, <1>4

LEMMA NumbersLeaves ==
  ASSUME TypeOK, NumbersAreNew, SentOnce, NEW t \in Threads, UNCHANGED opens,
         \A v \in Threads \ {t} : opc'[v] = opc[v] /\ rec'[v] = rec[v],
         opc'[t] = "idle" \/ (opc[t] # "idle" /\ UNCHANGED rec),
         UNCHANGED sent
  PROVE  NumbersAreNew' /\ SentOnce'
PROOF
  <1>1. \A v \in Threads : opc'[v] # "idle" => rec'[v] = rec[v] /\ opc[v] # "idle"
    OBVIOUS
  <1> QED BY <1>1 DEF NumbersAreNew, SentOnce

LEMMA NumbersSend ==
  ASSUME TypeOK, NumbersAreNew, SentOnce, NEW t \in Threads, SendRecord(t)
  PROVE  NumbersAreNew' /\ SentOnce'
PROOF
  <1>1. pid \in Daemons /\ rec[t] \in Records /\ opc[t] # "idle"
    BY DEF SendRecord, TypeOK
  <1>2. /\ opens' = opens /\ opens \in Nat
        /\ \A v \in Threads : opc'[v] # "idle" => v # t /\ rec'[v] = rec[v] /\ opc[v] # "idle"
    BY DEF SendRecord, TypeOK, Leaves
  <1>3. CASE sock[pid] # "bound"
    <2>1. sent' = sent
      BY <1>3 DEF SendRecord
    <2> QED BY <1>2, <2>1 DEF NumbersAreNew, SentOnce
  <1>4. CASE sock[pid] = "bound"
    <2>1. /\ sent'[pid] = Append(sent[pid], rec[t])
          /\ \A d \in Daemons : d # pid => sent'[d] = sent[d]
          /\ sent[pid] \in Seq(Records)
      BY <1>1, <1>4 DEF SendRecord, TypeOK
    <2>2. /\ rec[t].no \in 1..opens
          /\ \A i \in DOMAIN sent[pid] : sent[pid][i].no # rec[t].no
      BY <1>1 DEF NumbersAreNew
    <2>3. Numbered(sent'[pid]) /\ Range(sent'[pid]) = Range(sent[pid]) \cup {rec[t]}
      BY <1>1, <2>1, <2>2, PlacesGrow DEF SentOnce
    <2>4. \A d \in Daemons : \A i \in DOMAIN sent'[d] :
            sent'[d][i] = rec[t] \/ \E j \in DOMAIN sent[d] : sent'[d][i] = sent[d][j]
      BY <2>1, <2>3 DEF Range
    <2>5. SentOnce'
      <3>1. \A d \in Daemons : Numbered(sent'[d])
        BY <2>1, <2>3 DEF SentOnce
      <3>2. \A d \in Daemons : \A i \in DOMAIN sent'[d] : sent'[d][i].no <= opens'
        BY <1>2, <2>2, <2>4 DEF SentOnce
      <3> QED BY <3>1, <3>2 DEF SentOnce
    <2>6. NumbersAreNew'
      <3> SUFFICES ASSUME NEW v \in Threads, opc'[v] # "idle"
                   PROVE  /\ rec'[v].no \in 1..opens'
                          /\ \A w \in Threads : opc'[w] # "idle" /\ rec'[w].no = rec'[v].no => w = v
                          /\ \A d \in Daemons : \A i \in DOMAIN sent'[d] : sent'[d][i].no # rec'[v].no
        BY DEF NumbersAreNew
      <3>1. v # t /\ rec'[v] = rec[v] /\ opc[v] # "idle"
        BY <1>2
      <3>2. rec[v].no # rec[t].no
        BY <1>1, <3>1 DEF NumbersAreNew
      <3>3. \A d \in Daemons : \A i \in DOMAIN sent[d] : sent[d][i].no # rec[v].no
        BY <3>1 DEF NumbersAreNew
      <3>4. \A d \in Daemons : \A i \in DOMAIN sent'[d] : sent'[d][i].no # rec'[v].no
        BY <2>4, <3>1, <3>2, <3>3
      <3> QED BY <1>2, <3>1, <3>4 DEF NumbersAreNew
    <2> QED BY <2>5, <2>6
  <1> QED BY <1>3, <1>4

LEMMA NumbersStay ==
  ASSUME NumbersAreNew, SentOnce, UNCHANGED openVars,
         \A d \in Daemons : sent'[d] = sent[d] \/ sent'[d] = <<>>
  PROVE  NumbersAreNew' /\ SentOnce'
PROOF
  <1>1. opc' = opc /\ rec' = rec /\ opens' = opens
    BY DEF openVars
  <1>2. \A d \in Daemons : sent'[d] = sent[d] \/ DOMAIN sent'[d] = {}
    OBVIOUS
  <1> QED BY <1>1, <1>2 DEF NumbersAreNew, SentOnce, Numbered

LEMMA NumbersStep ==
  ASSUME TypeOK, NumbersAreNew, SentOnce, [Next]_vars
  PROVE  NumbersAreNew' /\ SentOnce'
PROOF
  <1>1. ASSUME NEW t \in Openers, hooked_openat(t) PROVE NumbersAreNew' /\ SentOnce'
    BY <1>1, NumbersOpens DEF hooked_openat, Threads
  <1>2. ASSUME NEW t \in Threads, TestPid(t) PROVE NumbersAreNew' /\ SentOnce'
    <2>1. /\ UNCHANGED opens /\ UNCHANGED sent
          /\ \A v \in Threads \ {t} : opc'[v] = opc[v] /\ rec'[v] = rec[v]
          /\ opc'[t] = "idle" \/ (opc[t] # "idle" /\ UNCHANGED rec)
      <3>1. opc[t] = "test" /\ UNCHANGED opens /\ UNCHANGED sent
        BY <1>2 DEF TestPid
      <3>2. Leaves(t) \/ (opc' = [opc EXCEPT ![t] = "send"] /\ rec' = rec)
        BY <1>2, Zenon DEF TestPid
      <3> QED BY <3>1, <3>2 DEF Leaves, TypeOK
    <2> QED BY <2>1, NumbersLeaves
  <1>3. ASSUME NEW t \in Threads, SendRecord(t) PROVE NumbersAreNew' /\ SentOnce'
    BY <1>3, NumbersSend
  <1>4. ASSUME NEW d \in Daemons, Fopen(d) PROVE NumbersAreNew' /\ SentOnce'
    <2>1. d \in Threads /\ Root \in Users /\ UNCHANGED sent
      BY <1>4, FileAuditAssumption DEF Threads, Fopen
    <2>2. CASE Opens(d, Root)
      BY <2>1, <2>2, NumbersOpens
    <2>3. CASE UNCHANGED openVars
      BY <2>1, <2>3, NumbersStay
    <2> QED BY <1>4, <2>2, <2>3 DEF Fopen
  <1>5. ASSUME NEW d \in Daemons, Exit(d) PROVE NumbersAreNew' /\ SentOnce'
    <2>1. UNCHANGED openVars /\ \A e \in Daemons : sent'[e] = sent[e] \/ sent'[e] = <<>>
      BY <1>5 DEF Exit, TypeOK
    <2> QED BY <2>1, NumbersStay
  <1>6. ASSUME NEW d \in Daemons,
               Socket(d) \/ SendPid(d) \/ FopenReturns(d) \/ Recv(d) \/ Log(d)
        PROVE  NumbersAreNew' /\ SentOnce'
    <2>1. UNCHANGED <<openVars, sent>>
      BY <1>6, Zenon DEF Socket, SendPid, FopenReturns, Recv, Log
    <2> QED BY <2>1, NumbersStay
  <1>7. CASE insmod \/ UNCHANGED vars
    <2>1. UNCHANGED <<openVars, sent>>
      BY <1>7, Zenon DEF insmod, vars
    <2> QED BY <2>1, NumbersStay
  <1> QED
    BY <1>1, <1>2, <1>3, <1>4, <1>5, <1>6, <1>7
    DEF Next, InOpen, auditdemo, FopenFails, LogDies, Killed

------------------------------------------------------------------------------
(* What a step is for one daemon.                                            *)

(* It does not change what the daemon has: unborn, it may get its socket. *)
Rests(d) ==
  /\ sent'[d] = sent[d] /\ inbox'[d] = inbox[d] /\ overrun'[d] = overrun[d]
  /\ nlh'[d] = nlh[d] /\ Written(d)' = Written(d)
  /\ dpc'[d] = "off" => dpc[d] = "off"
  /\ sock'[d] = sock[d] \/ (dpc[d] = "off" /\ dpc'[d] # "off")

(* Record m is sent to it, and queued or lost. *)
IsSent(d, m) ==
  /\ sock[d] = "bound" /\ sock'[d] = sock[d] /\ dpc'[d] = dpc[d]
  /\ nlh'[d] = nlh[d] /\ Written(d)' = Written(d)
  /\ sent'[d] = Append(sent[d], m)
  /\ \/ /\ Takes(d)
        /\ inbox'[d] = Append(inbox[d], m) /\ overrun'[d] = overrun[d]
     \/ /\ ~Takes(d)
        /\ inbox'[d] = inbox[d]
        /\ overrun'[d] = IF overrun[d] = "no" THEN "pending" ELSE overrun[d]

(* It begins a line, *)
Begins(d) ==
  /\ sent'[d] = sent[d] /\ sock'[d] = sock[d] /\ dpc'[d] = "log"
  /\ Written(d)' = Append(Written(d), nlh'[d])

(* about the oldest record, *)
TakesOldest(d) ==
  /\ overrun[d] # "pending" /\ inbox[d] # <<>>
  /\ nlh'[d] = Head(inbox[d]) /\ inbox'[d] = Tail(inbox[d])
  /\ overrun'[d] = IF Tail(inbox[d]) = <<>> THEN "no" ELSE overrun[d]

(* or about the last one again. *)
RepeatsLast(d) ==
  /\ nlh'[d] = nlh[d] /\ inbox'[d] = inbox[d]
  /\ \/ overrun[d] = "pending" /\ overrun'[d] = "reported"
     \/ sock[d] # "bound" /\ overrun'[d] = overrun[d]

(* It ends. *)
Ends(d) ==
  /\ sent'[d] = <<>> /\ inbox'[d] = <<>> /\ overrun'[d] = "no"
  /\ nlh'[d] = Zeroes /\ Written(d)' = <<>>
  /\ sock'[d] = "none" /\ dpc'[d] = "dead"

LEMMA WrittenType ==
  ASSUME TypeOK, NEW d \in Daemons
  PROVE  Written(d) \in Seq(Records)
PROOF
  <1>1. log[d] \in Seq(Records) /\ <<nlh[d]>> \in Seq(Records) /\ <<>> \in Seq(Records)
    BY EmptySeq DEF TypeOK
  <1>2. log[d] \o <<nlh[d]>> \in Seq(Records) /\ log[d] \o <<>> \in Seq(Records)
    BY <1>1, ConcatProperties
  <1> QED BY <1>2 DEF Written

LEMMA LineAdded ==
  ASSUME NEW l \in Seq(Records), NEW n \in Records
  PROVE  l \o <<>> = l /\ l \o <<n>> = Append(l, n)
BY ConcatEmptySeq, AppendIsConcat

LEMMA WrittenIs ==
  ASSUME TypeOK, NEW d \in Daemons
  PROVE  /\ dpc[d] # "log" => Written(d) = log[d]
         /\ dpc[d] = "log" => Written(d) = Append(log[d], nlh[d])
BY LineAdded DEF TypeOK, Written

LEMMA WrittenWillBe ==
  ASSUME TypeOK', NEW d \in Daemons
  PROVE  /\ dpc'[d] # "log" => Written(d)' = log'[d]
         /\ dpc'[d] = "log" => Written(d)' = Append(log'[d], nlh'[d])
BY LineAdded DEF TypeOK, Written

LEMMA RestsUnchanged ==
  ASSUME NEW d \in Daemons, UNCHANGED <<nlh, log, netVars, sent>>,
         (dpc'[d] = "log") <=> (dpc[d] = "log"),
         dpc'[d] = "off" => dpc[d] = "off",
         sock'[d] = sock[d] \/ (dpc[d] = "off" /\ dpc'[d] # "off")
  PROVE  Rests(d)
PROOF
  <1>1. Written(d)' = Written(d)
    BY DEF Written
  <1> QED BY <1>1 DEF Rests, netVars

LEMMA ExitEnds ==
  ASSUME TypeOK, NEW d \in Daemons, Exit(d), NEW e \in Daemons
  PROVE  IF e = d THEN Ends(e) ELSE Rests(e)
PROOF
  <1>1. CASE e = d
    <2>1. /\ sent'[d] = <<>> /\ inbox'[d] = <<>> /\ overrun'[d] = "no" /\ nlh'[d] = Zeroes
          /\ log'[d] = <<>> /\ sock'[d] = "none" /\ dpc'[d] = "dead"
      BY DEF Exit, TypeOK
    <2>2. TypeOK'
      BY TypeExit
    <2>3. dpc'[d] # "log" => Written(d)' = log'[d]
      BY <2>2, WrittenWillBe
    <2>4. Written(d)' = <<>>
      BY <2>1, <2>3
    <2> QED BY <1>1, <2>1, <2>4 DEF Ends
  <1>2. CASE e # d
    <2>1. /\ sent'[e] = sent[e] /\ inbox'[e] = inbox[e] /\ overrun'[e] = overrun[e]
          /\ nlh'[e] = nlh[e] /\ log'[e] = log[e] /\ sock'[e] = sock[e] /\ dpc'[e] = dpc[e]
      BY <1>2 DEF Exit, TypeOK
    <2>2. Written(e)' = Written(e)
      BY <2>1 DEF Written
    <2> QED BY <1>2, <2>1, <2>2 DEF Rests
  <1> QED BY <1>1, <1>2

LEMMA RecvBegins ==
  ASSUME TypeOK, TypeOK', NEW d \in Daemons, Recv(d), NEW e \in Daemons
  PROVE  IF e = d THEN Begins(e) /\ (TakesOldest(e) \/ RepeatsLast(e)) ELSE Rests(e)
PROOF
  <1>1. /\ dpc[d] = "recv" /\ dpc' = [dpc EXCEPT ![d] = "log"]
        /\ sock' = sock /\ log' = log /\ sent' = sent
        /\ RecvTakes(d) \/ RecvFails(d)
    BY DEF Recv, DGoto
  <1>2. /\ \A f \in Daemons : f # d => /\ nlh'[f] = nlh[f] /\ inbox'[f] = inbox[f]
                                       /\ overrun'[f] = overrun[f]
        /\ TakesOldest(d) \/ RepeatsLast(d)
    <2>1. CASE RecvTakes(d)
      BY <2>1 DEF RecvTakes, TakesOldest, TypeOK
    <2>2. CASE RecvFails(d)
      BY <2>2 DEF RecvFails, RepeatsLast, TypeOK
    <2> QED BY <1>1, <2>1, <2>2
  <1>3. CASE e = d
    <2>1. dpc'[d] = "log"
      BY <1>1 DEF TypeOK
    <2>2. Written(d) = log[d] /\ Written(d)' = Append(log'[d], nlh'[d])
      BY <1>1, <2>1, WrittenIs, WrittenWillBe
    <2> QED BY <1>1, <1>2, <1>3, <2>1, <2>2 DEF Begins
  <1>4. CASE e # d
    <2>1. dpc'[e] = dpc[e]
      BY <1>1, <1>4 DEF TypeOK
    <2>2. Written(e)' = Written(e)
      BY <1>1, <1>2, <1>4, <2>1 DEF Written
    <2> QED BY <1>1, <1>2, <1>4, <2>1, <2>2 DEF Rests
  <1> QED BY <1>3, <1>4

LEMMA LogRests ==
  ASSUME TypeOK, TypeOK', NEW d \in Daemons, Log(d), NEW e \in Daemons
  PROVE  Rests(e)
PROOF
  <1>1. /\ dpc[d] = "log" /\ dpc' = [dpc EXCEPT ![d] = "recv"]
        /\ log' = [log EXCEPT ![d] = Append(log[d], nlh[d])]
        /\ sock' = sock /\ nlh' = nlh /\ inbox' = inbox /\ overrun' = overrun /\ sent' = sent
    BY DEF Log, DGoto, netVars
  <1>2. Written(e)' = Written(e)
    <2>1. CASE e = d
      <3>1. dpc'[d] = "recv" /\ log'[d] = Append(log[d], nlh[d])
        BY <1>1 DEF TypeOK
      <3>2. Written(d) = Append(log[d], nlh[d]) /\ Written(d)' = log'[d]
        BY <1>1, <3>1, WrittenIs, WrittenWillBe
      <3> QED BY <2>1, <3>1, <3>2
    <2>2. CASE e # d
      <3>1. dpc'[e] = dpc[e] /\ log'[e] = log[e]
        BY <1>1, <2>2 DEF TypeOK
      <3> QED BY <1>1, <3>1 DEF Written
    <2> QED BY <2>1, <2>2
  <1>3. dpc'[e] = "off" => dpc[e] = "off"
    BY <1>1 DEF TypeOK
  <1> QED BY <1>1, <1>2, <1>3 DEF Rests

LEMMA SendReaches ==
  ASSUME TypeOK, NEW t \in Threads, SendRecord(t), NEW e \in Daemons
  PROVE  (opc[t] # "idle" /\ IsSent(e, rec[t])) \/ Rests(e)
PROOF
  <1>1. /\ pid \in Daemons /\ opc[t] # "idle"
        /\ dpc' = dpc /\ sock' = sock /\ nlh' = nlh /\ log' = log
    BY DEF SendRecord, TypeOK, daemonVars
  <1>2. Written(e)' = Written(e)
    BY <1>1 DEF Written
  <1>3. CASE e = pid /\ sock[pid] = "bound"
    <2>1. sent'[e] = Append(sent[e], rec[t])
      BY <1>1, <1>3 DEF SendRecord, TypeOK
    <2>2. \/ /\ Takes(e)
             /\ inbox'[e] = Append(inbox[e], rec[t]) /\ overrun'[e] = overrun[e]
          \/ /\ ~Takes(e)
             /\ inbox'[e] = inbox[e]
             /\ overrun'[e] = IF overrun[e] = "no" THEN "pending" ELSE overrun[e]
      BY <1>1, <1>3 DEF SendRecord, netlink_unicast, TypeOK
    <2> QED BY <1>1, <1>2, <1>3, <2>1, <2>2 DEF IsSent
  <1>4. CASE e # pid \/ sock[pid] # "bound"
    <2>1. sent'[e] = sent[e]
      BY <1>1, <1>4 DEF SendRecord, TypeOK
    <2>2. inbox'[e] = inbox[e] /\ overrun'[e] = overrun[e]
      BY <1>1, <1>4 DEF SendRecord, netlink_unicast, netVars, TypeOK
    <2> QED BY <1>1, <1>2, <2>1, <2>2 DEF Rests
  <1> QED BY <1>3, <1>4

LEMMA DaemonSteps ==
  ASSUME TypeOK, [Next]_vars, NEW e \in Daemons
  PROVE  \/ Rests(e)
         \/ \E t \in Threads : opc[t] # "idle" /\ IsSent(e, rec[t])
         \/ Begins(e) /\ (TakesOldest(e) \/ RepeatsLast(e))
         \/ Ends(e)
PROOF
  <1>0. TypeOK'
    BY TypeStep
  <1>1. CASE insmod \/ \E t \in Openers : hooked_openat(t)
    <2>1. UNCHANGED <<daemonVars, netVars, sent>>
      BY <1>1, Zenon DEF insmod, hooked_openat
    <2> QED BY <2>1, RestsUnchanged DEF daemonVars
  <1>2. ASSUME NEW t \in Threads, TestPid(t) PROVE Rests(e)
    <2>1. UNCHANGED <<daemonVars, netVars, sent>>
      BY <1>2 DEF TestPid
    <2> QED BY <2>1, RestsUnchanged DEF daemonVars
  <1>3. ASSUME NEW d \in Daemons, Socket(d) \/ SendPid(d) \/ FopenReturns(d) PROVE Rests(e)
    <2>1. /\ UNCHANGED <<nlh, log, netVars, sent>>
          /\ (dpc'[e] = "log") <=> (dpc[e] = "log")
          /\ dpc'[e] = "off" => dpc[e] = "off"
          /\ sock'[e] = sock[e] \/ (dpc[e] = "off" /\ dpc'[e] # "off")
      BY <1>3 DEF Socket, SendPid, FopenReturns, DGoto, TypeOK
    <2> QED BY <2>1, RestsUnchanged
  <1>4. ASSUME NEW d \in Daemons, Fopen(d) PROVE Rests(e)
    <2>1. /\ UNCHANGED <<sock, nlh, log, netVars, sent>>
          /\ dpc[d] = "fopen"
          /\ \E fails \in BOOLEAN :
               dpc' = [dpc EXCEPT ![d] = IF fails THEN "failing" ELSE "opening"]
      BY <1>4, Zenon DEF Fopen
    <2>2. /\ (dpc'[e] = "log") <=> (dpc[e] = "log")
          /\ dpc'[e] = "off" => dpc[e] = "off"
      BY <2>1 DEF TypeOK
    <2> QED BY <2>1, <2>2, RestsUnchanged
  <1>5. CASE UNCHANGED vars
    BY <1>5, RestsUnchanged DEF vars, daemonVars
  <1>6. ASSUME NEW d \in Daemons, FopenFails(d) \/ LogDies(d) \/ Killed(d)
        PROVE  Ends(e) \/ Rests(e)
    BY <1>6, ExitEnds DEF FopenFails, LogDies, Killed
  <1>7. ASSUME NEW d \in Daemons, Recv(d)
        PROVE  Rests(e) \/ (Begins(e) /\ (TakesOldest(e) \/ RepeatsLast(e)))
    BY <1>0, <1>7, RecvBegins
  <1>8. ASSUME NEW d \in Daemons, Log(d) PROVE Rests(e)
    BY <1>0, <1>8, LogRests
  <1> QED
    BY <1>1, <1>2, <1>3, <1>4, <1>5, <1>6, <1>7, <1>8, SendReaches
    DEF Next, InOpen, auditdemo

------------------------------------------------------------------------------
(* The invariant. *)

LEMMA DaemonInit ==
  ASSUME Init, NEW d \in Daemons
  PROVE  DaemonInv(d)
PROOF
  <1>1. TypeOK
    BY TypeInit
  <1>2. /\ sent[d] = <<>> /\ inbox[d] = <<>> /\ log[d] = <<>> /\ nlh[d] = Zeroes
        /\ dpc[d] = "off" /\ sock[d] = "none" /\ overrun[d] = "no"
    BY DEF Init
  <1>3. Written(d) = <<>>
    BY <1>1, <1>2, WrittenIs
  <1>4. InOrder(d)
    BY <1>2, <1>3 DEF InOrder, KnownIn, OrderedIn, LastOf
  <1>5. Traced(d) /\ Told(d) /\ Unborn(d)
    BY <1>2, <1>3 DEF Traced, Told, Unborn, RepeatsIn
  <1> QED BY <1>4, <1>5 DEF DaemonInv

LEMMA SentKeeps ==
  ASSUME TypeOK, SentOnce, NEW d \in Daemons, DaemonInv(d), NEW m \in Records,
         m.no # 0, \A i \in DOMAIN sent[d] : sent[d][i].no # m.no, IsSent(d, m)
  PROVE  DaemonInv(d)'
PROOF
  <1> DEFINE S == sent[d]
             W == Written(d)
             Q == inbox[d]
  <1>1. S \in Seq(Records) /\ W \in Seq(Records) /\ Q \in Seq(Records) /\ Numbered(S)
    BY WrittenType DEF TypeOK, SentOnce
  <1>2. /\ KnownIn(S, W, Q) /\ OrderedIn(S, W, Q) /\ nlh[d] = LastOf(W)
        /\ Traced(d) /\ Told(d) /\ Unborn(d)
    BY DEF DaemonInv, InOrder
  <1>3. /\ sent'[d] = Append(S, m) /\ Written(d)' = W /\ sock'[d] = sock[d]
        /\ nlh'[d] = nlh[d] /\ dpc'[d] = dpc[d] /\ sock[d] = "bound"
    BY DEF IsSent
  <1>4. /\ Range(Append(S, m)) = Range(S) \cup {m}
        /\ Len(Append(S, m)) = Len(S) + 1
        /\ Len(S) \in Nat /\ Len(Q) \in Nat /\ RcvBuf \in Nat \ {0}
    BY <1>1, PlacesGrow, AppendProperties, LenProperties, FileAuditAssumption
  <1>5. RepeatsIn(Append(S, m), W) = RepeatsIn(S, W)
    BY <1>1, <1>2, LostKeepsOrder
  <1>6. dpc[d] # "off"
    BY <1>2, <1>3 DEF Unborn
  <1>7. CASE Takes(d)
    <2>1. inbox'[d] = Append(Q, m) /\ overrun'[d] = overrun[d]
      BY <1>7 DEF IsSent
    <2>2. InOrder(d)'
      BY <1>1, <1>2, <1>3, <2>1, QueuedKeepsOrder DEF InOrder
    <2>3. Len(Append(Q, m)) = Len(Q) + 1 /\ Range(Append(Q, m)) = Range(Q) \cup {m}
      <3>1. /\ Len(Append(Q, m)) = Len(Q) + 1 /\ Append(Q, m)[Len(Q) + 1] = m
            /\ \A i \in 1..Len(Q) : Append(Q, m)[i] = Q[i]
            /\ DOMAIN Append(Q, m) = 1..Len(Q) + 1 /\ DOMAIN Q = 1..Len(Q)
        BY <1>1, AppendProperties, LenProperties
      <3> QED BY <1>4, <3>1 DEF Range
    <2>4. Traced(d)'
      BY <1>2, <1>3, <1>4, <1>5, <2>1, <2>3 DEF Traced
    <2>5. Told(d)'
      BY <1>2, <1>3, <1>4, <1>5, <2>1, <2>3 DEF Told
    <2> QED BY <1>3, <1>6, <2>2, <2>4, <2>5 DEF DaemonInv, Unborn
  <1>8. CASE ~Takes(d)
    <2>1. /\ inbox'[d] = Q
          /\ overrun'[d] = IF overrun[d] = "no" THEN "pending" ELSE overrun[d]
      BY <1>8 DEF IsSent
    <2>2. InOrder(d)'
      BY <1>1, <1>2, <1>3, <2>1, LostKeepsOrder DEF InOrder
    <2>3. Len(S) + 1 > RcvBuf
      BY <1>2, <1>4, <1>8 DEF Takes, Traced
    <2>4. overrun[d] \in {"no", "pending", "reported"}
      BY DEF TypeOK
    <2>5. Traced(d)'
      BY <1>2, <1>3, <1>4, <1>5, <2>1, <2>3, <2>4 DEF Traced
    <2>6. Told(d)'
      BY <1>2, <1>3, <1>5, <2>1, <2>4 DEF Told, Traced
    <2> QED BY <1>3, <1>6, <2>2, <2>5, <2>6 DEF DaemonInv, Unborn
  <1> QED BY <1>7, <1>8

LEMMA TakesKeeps ==
  ASSUME TypeOK, SentOnce, NEW d \in Daemons, DaemonInv(d), Begins(d), TakesOldest(d)
  PROVE  DaemonInv(d)'
PROOF
  <1> DEFINE S == sent[d]
             W == Written(d)
             Q == inbox[d]
  <1>1. S \in Seq(Records) /\ W \in Seq(Records) /\ Q \in Seq(Records) /\ Numbered(S)
    BY WrittenType DEF TypeOK, SentOnce
  <1>2. /\ KnownIn(S, W, Q) /\ OrderedIn(S, W, Q)
        /\ Traced(d) /\ Told(d) /\ Q # <<>>
    BY DEF DaemonInv, InOrder, TakesOldest
  <1>3. /\ sent'[d] = S /\ Written(d)' = Append(W, Head(Q)) /\ sock'[d] = sock[d]
        /\ nlh'[d] = Head(Q) /\ inbox'[d] = Tail(Q) /\ dpc'[d] = "log"
        /\ overrun'[d] = overrun[d] \/ overrun'[d] = "no"
        /\ overrun[d] # "pending"
    BY DEF Begins, TakesOldest
  <1>4. /\ KnownIn(S, Append(W, Head(Q)), Tail(Q))
        /\ OrderedIn(S, Append(W, Head(Q)), Tail(Q))
        /\ RepeatsIn(S, Append(W, Head(Q))) = RepeatsIn(S, W)
        /\ Range(Tail(Q)) \cup Range(Append(W, Head(Q))) = Range(Q) \cup Range(W)
    BY <1>1, <1>2, TakenKeepsOrder
  <1>5. /\ Len(Tail(Q)) = Len(Q) - 1 /\ Len(Q) \in Nat /\ Len(S) \in Nat
        /\ Head(Q) \in Records
    BY <1>1, <1>2, HeadTailProperties, LenProperties
  <1>6. LastOf(Append(W, Head(Q))) = Head(Q)
    BY <1>1, <1>5, LastOfAppend
  <1>7. InOrder(d)'
    BY <1>3, <1>4, <1>6 DEF InOrder
  <1>8. Traced(d)'
    BY <1>2, <1>3, <1>4, <1>5 DEF Traced
  <1>9. Told(d)'
    BY <1>2, <1>3, <1>4 DEF Told
  <1> QED BY <1>3, <1>7, <1>8, <1>9 DEF DaemonInv, Unborn

LEMMA RepeatKeeps ==
  ASSUME TypeOK, SentOnce, NEW d \in Daemons, DaemonInv(d), Begins(d), RepeatsLast(d)
  PROVE  DaemonInv(d)'
PROOF
  <1> DEFINE S == sent[d]
             W == Written(d)
             Q == inbox[d]
  <1>1. S \in Seq(Records) /\ W \in Seq(Records) /\ Q \in Seq(Records) /\ Numbered(S)
    BY WrittenType DEF TypeOK, SentOnce
  <1>2. /\ KnownIn(S, W, Q) /\ OrderedIn(S, W, Q) /\ nlh[d] = LastOf(W)
        /\ Traced(d) /\ nlh[d] \in Records
    BY DEF DaemonInv, InOrder, TypeOK
  <1>3. /\ sent'[d] = S /\ Written(d)' = Append(W, LastOf(W)) /\ sock'[d] = sock[d]
        /\ nlh'[d] = LastOf(W) /\ inbox'[d] = Q /\ dpc'[d] = "log"
    BY <1>2 DEF Begins, RepeatsLast
  <1>4. \/ overrun[d] = "pending" /\ overrun'[d] = "reported"
        \/ sock[d] # "bound" /\ overrun'[d] = overrun[d]
    BY DEF RepeatsLast
  <1>5. /\ KnownIn(S, Append(W, LastOf(W)), Q)
        /\ OrderedIn(S, Append(W, LastOf(W)), Q)
        /\ RepeatsIn(S, Append(W, LastOf(W))) # {}
    BY <1>1, <1>2, RepeatKeepsOrder
  <1>6. LastOf(Append(W, LastOf(W))) = LastOf(W)
    BY <1>1, <1>2, LastOfAppend
  <1>7. InOrder(d)'
    BY <1>3, <1>5, <1>6 DEF InOrder
  <1>8. Traced(d)'
    BY <1>2, <1>3, <1>4, <1>5 DEF Traced
  <1>9. Told(d)'
    BY <1>3, <1>5 DEF Told
  <1> QED BY <1>3, <1>7, <1>8, <1>9 DEF DaemonInv, Unborn

LEMMA RestKeeps ==
  ASSUME NEW d \in Daemons, DaemonInv(d), Rests(d)
  PROVE  DaemonInv(d)'
PROOF
  <1>1. InOrder(d)'
    BY DEF DaemonInv, InOrder, Rests
  <1>2. Unborn(d)'
    BY DEF DaemonInv, Unborn, Rests
  <1>3. CASE sock'[d] = sock[d]
    BY <1>1, <1>2, <1>3 DEF DaemonInv, Traced, Told, Rests
  <1>4. CASE dpc[d] = "off" /\ dpc'[d] # "off"
    <2>1. sent[d] = <<>> /\ Written(d) = <<>>
      BY <1>4 DEF DaemonInv, Unborn
    <2>2. RepeatsIn(sent[d], Written(d)) = {} /\ Range(sent[d]) = {}
      BY <2>1 DEF RepeatsIn, Range
    <2>3. Traced(d)'
      BY <2>2 DEF DaemonInv, Traced, Rests
    <2>4. Told(d)'
      BY <2>2 DEF Told, Rests
    <2> QED BY <1>1, <1>2, <2>3, <2>4 DEF DaemonInv
  <1> QED BY <1>3, <1>4 DEF Rests

LEMMA EndKeeps ==
  ASSUME NEW d \in Daemons, Ends(d)
  PROVE  DaemonInv(d)'
PROOF
  <1>1. InOrder(d)'
    BY DEF InOrder, Ends, KnownIn, OrderedIn, LastOf
  <1>2. RepeatsIn(<<>>, <<>>) = {}
    BY DEF RepeatsIn
  <1>3. Traced(d)' /\ Told(d)' /\ Unborn(d)'
    BY <1>2 DEF Traced, Told, Unborn, Ends
  <1> QED BY <1>1, <1>3 DEF DaemonInv

LEMMA AuditInvInit == Init => AuditInv
PROOF
  <1> SUFFICES ASSUME Init PROVE AuditInv
    OBVIOUS
  <1>1. NumbersAreNew /\ SentOnce
    BY DEF Init, NumbersAreNew, SentOnce, Numbered
  <1> QED BY <1>1, TypeInit, DaemonInit DEF AuditInv

LEMMA AuditInvStep ==
  ASSUME AuditInv, [Next]_vars
  PROVE  AuditInv'
PROOF
  <1>1. TypeOK' /\ NumbersAreNew' /\ SentOnce'
    BY TypeStep, NumbersStep DEF AuditInv
  <1>2. ASSUME NEW d \in Daemons PROVE DaemonInv(d)'
    <2>1. TypeOK /\ NumbersAreNew /\ SentOnce /\ DaemonInv(d)
      BY DEF AuditInv
    <2>2. ASSUME NEW t \in Threads, opc[t] # "idle", IsSent(d, rec[t])
          PROVE  DaemonInv(d)'
      <3>1. /\ rec[t] \in Records /\ rec[t].no # 0
            /\ \A i \in DOMAIN sent[d] : sent[d][i].no # rec[t].no
        BY <2>1, <2>2 DEF TypeOK, NumbersAreNew
      <3> QED BY <2>1, <2>2, <3>1, SentKeeps
    <2> QED BY <2>1, <2>2, DaemonSteps, RestKeeps, TakesKeeps, RepeatKeeps, EndKeeps
  <1> QED BY <1>1, <1>2 DEF AuditInv

(* The inductive invariant holds in every state: the numbers that the module *)
(* gives to records are new, each open is sent once, and what the log, the   *)
(* buffer and the queue of a daemon hold is in the order it was sent in.     *)
THEOREM AuditCorrect == Spec => []AuditInv
PROOF
  <1>1. AuditInv /\ [Next]_vars => AuditInv'
    BY AuditInvStep
  <1> QED BY <1>1, AuditInvInit, PTL DEF Spec

LEMMA RepeatsAre ==
  ASSUME TypeOK, NEW d \in Daemons
  PROVE  Repeats(d) = RepeatsIn(sent[d], Written(d))
PROOF
  <1> DEFINE W == Written(d)
  <1>1. DOMAIN W = 1..Len(W) /\ Len(W) \in Nat
    BY WrittenType, LenProperties
  <1>2. \A r : PlaceOf(d, r) = PlaceIn(sent[d], r)
    BY DEF PlaceOf, PlaceIn
  <1>3. DOMAIN Places(d) = DOMAIN W /\ \A i \in DOMAIN W : Places(d)[i] = PlaceIn(sent[d], W[i])
    BY <1>2 DEF Places
  <1> HIDE DEF W
  <1>4. ASSUME NEW i \in DOMAIN W
        PROVE  i \in Repeats(d) <=> i \in RepeatsIn(sent[d], W)
    <2>1. CASE i = 1
      BY <1>3, <2>1 DEF Repeats, RepeatsIn
    <2>2. CASE i # 1
      <3>1. i - 1 \in DOMAIN W
        BY <1>1, <2>2
      <3> QED BY <1>3, <2>2, <3>1 DEF Repeats, RepeatsIn
    <2> QED BY <2>1, <2>2
  <1>5. Repeats(d) \subseteq DOMAIN W /\ RepeatsIn(sent[d], W) \subseteq DOMAIN W
    BY <1>3 DEF Repeats, RepeatsIn
  <1> QED BY <1>4, <1>5 DEF W

LEMMA InvImpliesOrder == AuditInv => LogIsInOrder
PROOF
  <1> SUFFICES ASSUME AuditInv, NEW d \in Daemons
               PROVE  /\ Range(Written(d)) \subseteq Range(sent[d]) \cup {Zeroes}
                      /\ \A i \in DOMAIN Written(d) \ {1} : Places(d)[i - 1] <= Places(d)[i]
                      /\ Repeats(d) # {} => sock[d] # "bound" \/ Len(sent[d]) > RcvBuf
    BY DEF LogIsInOrder
  <1> DEFINE W == Written(d)
  <1>1. TypeOK /\ DaemonInv(d)
    BY DEF AuditInv
  <1>2. DOMAIN W = 1..Len(W) /\ Len(W) \in Nat
    BY <1>1, WrittenType, LenProperties
  <1>3. \A i \in DOMAIN W : Places(d)[i] = PlaceIn(sent[d], W[i])
    BY DEF Places, PlaceOf, PlaceIn
  <1>4. Range(W) \subseteq Range(sent[d]) \cup {Zeroes}
    BY <1>1 DEF DaemonInv, InOrder, KnownIn, Range
  <1>5. ASSUME NEW i \in DOMAIN W \ {1} PROVE Places(d)[i - 1] <= Places(d)[i]
    <2>1. i \in 2..Len(W) /\ i - 1 \in DOMAIN W
      BY <1>2
    <2>2. PlaceIn(sent[d], W[i - 1]) <= PlaceIn(sent[d], W[i])
      BY <1>1, <2>1 DEF DaemonInv, InOrder, OrderedIn
    <2> QED BY <1>3, <2>1, <2>2
  <1>6. Repeats(d) # {} => sock[d] # "bound" \/ Len(sent[d]) > RcvBuf
    BY <1>1, RepeatsAre DEF DaemonInv, Traced
  <1> QED BY <1>4, <1>5, <1>6

LEMMA InvImpliesNoLoss == AuditInv => NoSilentLoss
PROOF
  <1> SUFFICES ASSUME AuditInv, NEW d \in Daemons, sock[d] = "bound"
               PROVE  \/ Range(sent[d]) \subseteq Range(inbox[d]) \cup Range(Written(d))
                      \/ overrun[d] = "pending"
                      \/ Repeats(d) # {}
    BY DEF NoSilentLoss
  <1>1. TypeOK /\ DaemonInv(d)
    BY DEF AuditInv
  <1> QED BY <1>1, RepeatsAre DEF DaemonInv, Told

(* The log of a daemon tells the opens in the order in which they were       *)
(* reported, and a line is repeated, or tells of nothing, only after a       *)
(* recvmsg that failed: auditdemo.c writes a line whatever recvmsg returns.  *)
THEOREM LogCorrect == Spec => []LogIsInOrder
PROOF BY AuditCorrect, InvImpliesOrder, PTL

(* A record that the module sent to a living daemon is queued or written, or *)
(* the loss shows: netlink_unicast does not wait for room in the queue.      *)
THEOREM LossShows == Spec => []NoSilentLoss
PROOF BY AuditCorrect, InvImpliesNoLoss, PTL

=============================================================================
