---------------------------- MODULE PrmModuleProofs ----------------------------
(***************************************************************************)
(* Proofs about the loading and unloading of the modules, for any of the   *)
(* three modules, any threads, calls and CPUs, and any number of modules   *)
(* loaded at a time.                                                       *)
(***************************************************************************)
EXTENDS PrmModule, SequenceTheorems, TLAPS

------------------------------------------------------------------------------
(* Plans, as facts about any sequence of steps of module m.                  *)

Items(s) == {s[i] : i \in DOMAIN s}

HookedCalls(m) == {Hooked(m)[i] : i \in DOMAIN Hooked(m)}

InitItems(m) ==
  {[op |-> o] : o \in {"socket", "save", "unprotect", "protect", "end"}}
    \cup {[op |-> "patch", entry |-> c] : c \in HookedCalls(m)}

ExitItems(m) ==
  {[op |-> o] : o \in {"unprotect", "protect", "release", "free"}}
    \cup {[op |-> "restore", entry |-> c] : c \in HookedCalls(m)}

(* When a step has its turn in the init and in the exit function of m. *)
Turn(m, op) ==
  CASE op = "save"      -> IF m = "kernel2" THEN 3 ELSE 1
    [] op = "unprotect" -> 2
    [] op = "patch"     -> 4
    [] op = "restore"   -> 4
    [] op = "protect"   -> 5
    [] op = "socket"    -> IF m = "kernel2" THEN 1 ELSE 6
    [] op = "release"   -> 6
    [] op = "end"       -> 7
    [] op = "free"      -> 7

Before(m, x, y) ==
  \/ Turn(m, x.op) < Turn(m, y.op)
  \/ x.op = y.op /\ x.op \in {"patch", "restore"} /\ x.entry # y.entry

InTurn(m, s) ==
  \A i \in DOMAIN s : \A j \in DOMAIN s : i < j => Before(m, s[i], s[j])

(* p is what remains of the steps in all. *)
RestOf(m, p, all) ==
  /\ InTurn(m, p)
  /\ p # <<>> /\ Items(p) \subseteq all
  /\ \A x \in all \ Items(p) : \A y \in Items(p) : Before(m, x, y)

PlanOK(m, p) == RestOf(m, p, InitItems(m)) \/ RestOf(m, p, ExitItems(m))

------------------------------------------------------------------------------
(* The inductive invariant.                                                  *)

(* The loader is at the module loaded last, and has the rest of its init or  *)
(* exit function before it.                                                  *)
PlanFits ==
  /\ loader = "none" => plan = <<>>
  /\ loader # "none" => /\ PlanOK(loader, plan)
                        /\ lsmod # <<>> /\ loader = lsmod[Len(lsmod)]

LoadedOnce == \A i, j \in DOMAIN lsmod : lsmod[i] = lsmod[j] => i = j

(* Module m can be entered by call c: it has saved what it replaces there. *)
Saved(m)     == m \in Loaded /\ (m = loader => ~Left("save"))
Serves(m, c) == Saved(m) /\ c \in HookedCalls(m)

(* What m has saved is there, and leads down the stack of modules. *)
SavedIsThere ==
  \A m \in Modules : Saved(m) => \A c \in HookedCalls(m) : real[m][c] # Null

NothingElseSaved ==
  \A m \in Modules, c \in SysCalls : ~Serves(m, c) => real[m][c] = Null

SavedLeadsDown ==
  \A i \in DOMAIN lsmod, c \in SysCalls :
    \/ real[lsmod[i]][c] \in {Null, Linux}
    \/ \E j \in DOMAIN lsmod : /\ j < i /\ real[lsmod[i]][c] = lsmod[j]
                               /\ c \in HookedCalls(lsmod[j])

TableServed == \A c \in SysCalls : table[c] # Linux => Serves(table[c], c)

(* The removal of a module restores every entry that leads to it. *)
RemovalRestores ==
  \A c \in SysCalls : Left("free") /\ table[c] = loader =>
    [op |-> "restore", entry |-> c] \in Items(plan)

(* A module without a socket that takes a server for connected is past the   *)
(* release in its exit function.                                             *)
Past(m) == Removing(m) /\ ~Left("restore") /\ ~Left("release")

SocketGone ==
  \A m \in Modules :
    /\ sock[m] # "open" /\ pid[m] => Past(m)
    /\ m \notin Loaded => sock[m] = Null /\ ~pid[m]

InPatch == Left("protect") /\ ~Left("unprotect")

Protected ==
  /\ \A p \in CPUs : ~wp[p] => p \in moved \/ (p = lcpu /\ loader = "kernel2" /\ InPatch)
  /\ rw => loader \in {"kernel", "fileaudit"} /\ InPatch

(* A thread is in hooks of its call only, and sends on a socket that is open *)
(* or that the exit function has just released.                              *)
InHook(c, f) ==
  f.at # "gone" => /\ Serves(f.mod, c)
                   /\ f.at = "send" => sock[f.mod] = "open" \/ Past(f.mod)

FramesServed ==
  \A t \in Threads : \A i \in DOMAIN frames[t] :
    call[t] # "none" /\ InHook(call[t], frames[t][i])

ModuleInv ==
  /\ TypeOK /\ PlanFits /\ LoadedOnce
  /\ SavedIsThere /\ NothingElseSaved /\ SavedLeadsDown /\ TableServed
  /\ RemovalRestores /\ SocketGone /\ Protected /\ FramesServed

------------------------------------------------------------------------------
(* The plans of init and exit. *)

LEMMA ItemsOfConcat ==
  ASSUME NEW s \in Seq(Ops), NEW t \in Seq(Ops)
  PROVE  s \o t \in Seq(Ops) /\ Items(s \o t) = Items(s) \cup Items(t)
PROOF
  <1> DEFINE u == s \o t
  <1>1. /\ u \in Seq(Ops) /\ DOMAIN u = 1..Len(s) + Len(t)
        /\ DOMAIN s = 1..Len(s) /\ DOMAIN t = 1..Len(t) /\ Len(s) \in Nat /\ Len(t) \in Nat
        /\ \A i \in 1..Len(s) + Len(t) : u[i] = IF i <= Len(s) THEN s[i] ELSE t[i - Len(s)]
    BY ConcatProperties, LenProperties
  <1> HIDE DEF u
  <1>2. ASSUME NEW i \in DOMAIN u PROVE u[i] \in Items(s) \cup Items(t)
    <2>1. CASE i <= Len(s)
      <3>1. i \in DOMAIN s /\ u[i] = s[i]
        BY <1>1, <2>1
      <3> QED BY <3>1 DEF Items
    <2>2. CASE i > Len(s)
      <3>1. i - Len(s) \in DOMAIN t /\ u[i] = t[i - Len(s)]
        BY <1>1, <2>2
      <3> QED BY <3>1 DEF Items
    <2> QED BY <1>1, <2>1, <2>2
  <1>3. ASSUME NEW i \in DOMAIN s PROVE s[i] \in Items(u)
    <2>1. i \in DOMAIN u /\ u[i] = s[i]
      BY <1>1
    <2> QED BY <2>1 DEF Items
  <1>4. ASSUME NEW i \in DOMAIN t PROVE t[i] \in Items(u)
    <2>1. i + Len(s) \in DOMAIN u /\ u[i + Len(s)] = t[i]
      BY <1>1
    <2> QED BY <2>1 DEF Items
  <1>5. Items(u) = Items(s) \cup Items(t)
    BY <1>2, <1>3, <1>4 DEF Items
  <1> QED BY <1>1, <1>5 DEF u

LEMMA ConcatInTurn ==
  ASSUME NEW m, NEW s \in Seq(Ops), NEW t \in Seq(Ops), InTurn(m, s), InTurn(m, t),
         \A x \in Items(s) : \A y \in Items(t) : Before(m, x, y)
  PROVE  InTurn(m, s \o t)
PROOF
  <1> DEFINE u == s \o t
  <1>1. /\ DOMAIN u = 1..Len(s) + Len(t)
        /\ DOMAIN s = 1..Len(s) /\ DOMAIN t = 1..Len(t) /\ Len(s) \in Nat /\ Len(t) \in Nat
        /\ \A i \in 1..Len(s) + Len(t) : u[i] = IF i <= Len(s) THEN s[i] ELSE t[i - Len(s)]
    BY ConcatProperties, LenProperties
  <1> HIDE DEF u
  <1> SUFFICES ASSUME NEW i \in DOMAIN u, NEW j \in DOMAIN u, i < j
               PROVE  Before(m, u[i], u[j])
    BY DEF InTurn, u
  <1>2. CASE j <= Len(s)
    <2>1. i \in DOMAIN s /\ j \in DOMAIN s /\ u[i] = s[i] /\ u[j] = s[j]
      BY <1>1, <1>2
    <2> QED BY <2>1 DEF InTurn
  <1>3. CASE i > Len(s)
    <2>1. /\ i - Len(s) \in DOMAIN t /\ j - Len(s) \in DOMAIN t
          /\ u[i] = t[i - Len(s)] /\ u[j] = t[j - Len(s)] /\ i - Len(s) < j - Len(s)
      BY <1>1, <1>3
    <2> QED BY <2>1 DEF InTurn
  <1>4. CASE i <= Len(s) /\ j > Len(s)
    <2>1. i \in DOMAIN s /\ j - Len(s) \in DOMAIN t /\ u[i] = s[i] /\ u[j] = t[j - Len(s)]
      BY <1>1, <1>4
    <2>2. s[i] \in Items(s) /\ t[j - Len(s)] \in Items(t)
      BY <2>1 DEF Items
    <2> QED BY <2>1, <2>2
  <1> QED BY <1>1, <1>2, <1>3, <1>4

LEMMA StepPart ==
  ASSUME NEW m, NEW op \in {"socket", "save", "unprotect", "protect", "release", "free", "end"}
  PROVE  Step(op) \in Seq(Ops) /\ InTurn(m, Step(op)) /\ Items(Step(op)) = {[op |-> op]}
PROOF
  <1>1. [op |-> op] \in Ops
    BY DEF Ops
  <1>2. Step(op) \in Seq(Ops) /\ DOMAIN Step(op) = {1} /\ Step(op)[1] = [op |-> op]
    BY <1>1 DEF Step
  <1> QED BY <1>2 DEF InTurn, Items

LEMMA EachPart ==
  ASSUME NEW m \in Modules, NEW op \in {"patch", "restore"}
  PROVE  /\ Each(op, Hooked(m)) \in Seq(Ops) /\ InTurn(m, Each(op, Hooked(m)))
         /\ Items(Each(op, Hooked(m))) = {[op |-> op, entry |-> c] : c \in HookedCalls(m)}
PROOF
  <1> DEFINE h == Hooked(m)
             e == Each(op, h)
  <1>1. /\ h \in Seq(SysCalls)
        /\ \A i, j \in DOMAIN h : h[i] = h[j] => i = j
    <2>1. m \in {"kernel", "kernel2", "fileaudit"}
      BY PrmModuleAssumption
    <2>2. CASE m = "kernel2"
      BY <2>2 DEF Hooked, SysCalls
    <2>3. CASE m = "kernel"
      BY <2>3 DEF Hooked, SysCalls
    <2>4. CASE m = "fileaudit"
      BY <2>4 DEF Hooked, SysCalls
    <2> QED BY <2>1, <2>2, <2>3, <2>4
  <1>2. DOMAIN h = 1..Len(h) /\ Len(h) \in Nat /\ \A i \in DOMAIN h : h[i] \in SysCalls
    BY <1>1, LenProperties, ElementOfSeq
  <1> HIDE DEF h
  <1>3. DOMAIN e = DOMAIN h /\ \A i \in DOMAIN h : e[i] = [op |-> op, entry |-> h[i]]
    BY DEF Each
  <1>4. \A i \in DOMAIN h : e[i] \in Ops
    BY <1>2, <1>3 DEF Ops
  <1>5. e \in Seq(Ops)
    <2>1. e = [i \in 1..Len(h) |-> e[i]]
      BY <1>2, <1>3 DEF Each
    <2>2. e \in [1..Len(h) -> Ops]
      BY <1>2, <1>4, <2>1
    <2> QED BY <1>2, <2>2
  <1>6. InTurn(m, e)
    BY <1>1, <1>2, <1>3 DEF InTurn, Before
  <1>7. Items(e) = {[op |-> op, entry |-> c] : c \in {h[i] : i \in DOMAIN h}}
    BY <1>3 DEF Items
  <1> QED BY <1>5, <1>6, <1>7 DEF h, HookedCalls

LEMMA HookedAreCalls ==
  ASSUME NEW m \in Modules
  PROVE  HookedCalls(m) \subseteq SysCalls
PROOF
  <1>1. m \in {"kernel", "kernel2", "fileaudit"}
    BY PrmModuleAssumption
  <1>2. CASE m = "kernel2"
    BY <1>2 DEF HookedCalls, Hooked, SysCalls
  <1>3. CASE m = "kernel"
    BY <1>3 DEF HookedCalls, Hooked, SysCalls
  <1>4. CASE m = "fileaudit"
    BY <1>4 DEF HookedCalls, Hooked, SysCalls
  <1> QED BY <1>1, <1>2, <1>3, <1>4

(* Sequence s is the steps in S, each in its turn. *)
Part(m, s, S) == s \in Seq(Ops) /\ InTurn(m, s) /\ Items(s) = S

LEMMA Joined ==
  ASSUME NEW m, NEW s, NEW t, NEW S, NEW T, Part(m, s, S), Part(m, t, T),
         \A x \in S : \A y \in T : Before(m, x, y)
  PROVE  Part(m, s \o t, S \cup T)
BY ItemsOfConcat, ConcatInTurn DEF Part

LEMMA InitPlan ==
  ASSUME NEW m \in Modules
  PROVE  Part(m, InitOf(m) \o Step("end"), InitItems(m))
PROOF
  <1> DEFINE One(op) == {[op |-> op]}
             patches == {[op |-> "patch", entry |-> c] : c \in HookedCalls(m)}
             e == Each("patch", Hooked(m))
  <1>1. /\ \A op \in {"socket", "save", "unprotect", "protect", "end"} :
             Part(m, Step(op), One(op))
        /\ Part(m, e, patches)
    BY StepPart, EachPart DEF Part
  <1>2. /\ InitItems(m) = One("socket") \cup One("save") \cup One("unprotect")
                            \cup One("protect") \cup One("end") \cup patches
        /\ \A x \in patches : x.op = "patch"
        /\ \A op : \A x \in One(op) : x.op = op
    BY DEF InitItems
  <1>3. m \in {"kernel", "kernel2", "fileaudit"}
    BY PrmModuleAssumption
  <1> HIDE DEF One, patches, e
  <1>4. CASE m = "kernel2"
    <2>1. Part(m, Step("unprotect") \o Step("save"), One("unprotect") \cup One("save"))
      BY <1>1, <1>2, <1>4, Joined DEF Before, Turn
    <2>2. Part(m, Step("unprotect") \o Step("save") \o e,
               One("unprotect") \cup One("save") \cup patches)
      BY <1>1, <1>2, <1>4, <2>1, Joined DEF Before, Turn
    <2>3. Part(m, Step("unprotect") \o Step("save") \o e \o Step("protect"),
               One("unprotect") \cup One("save") \cup patches \cup One("protect"))
      BY <1>1, <1>2, <1>4, <2>2, Joined DEF Before, Turn
    <2>4. Part(m, Step("socket") \o (Step("unprotect") \o Step("save") \o e \o Step("protect")),
               One("socket")
                 \cup (One("unprotect") \cup One("save") \cup patches \cup One("protect")))
      BY <1>1, <1>2, <1>4, <2>3, Joined DEF Before, Turn
    <2>5. InitOf(m) = Step("socket") \o (Step("unprotect") \o Step("save") \o e \o Step("protect"))
      BY <1>4 DEF InitOf, prm_init, prm_hook_init, e
    <2>6. Part(m, InitOf(m) \o Step("end"),
               (One("socket")
                 \cup (One("unprotect") \cup One("save") \cup patches \cup One("protect")))
                 \cup One("end"))
      <3>1. \A x \in One("socket") \cup (One("unprotect") \cup One("save") \cup patches
                                          \cup One("protect")) :
              \A y \in One("end") : Before(m, x, y)
        BY <1>2, <1>4 DEF Before, Turn
      <3> QED BY <1>1, <2>4, <2>5, <3>1, Joined
    <2>7. InitItems(m) = (One("socket")
                 \cup (One("unprotect") \cup One("save") \cup patches \cup One("protect")))
                 \cup One("end")
      BY <1>2
    <2> QED BY <2>6, <2>7
  <1>5. CASE m # "kernel2"
    <2>1. Part(m, Step("save") \o Step("unprotect"), One("save") \cup One("unprotect"))
      BY <1>1, <1>2, <1>5, Joined DEF Before, Turn
    <2>2. Part(m, Step("save") \o Step("unprotect") \o e,
               One("save") \cup One("unprotect") \cup patches)
      BY <1>1, <1>2, <1>5, <2>1, Joined DEF Before, Turn
    <2>3. Part(m, Step("save") \o Step("unprotect") \o e \o Step("protect"),
               One("save") \cup One("unprotect") \cup patches \cup One("protect"))
      BY <1>1, <1>2, <1>5, <2>2, Joined DEF Before, Turn
    <2>4. Part(m, Step("save") \o Step("unprotect") \o e \o Step("protect") \o Step("socket"),
               One("save") \cup One("unprotect") \cup patches \cup One("protect")
                 \cup One("socket"))
      BY <1>1, <1>2, <1>5, <2>3, Joined DEF Before, Turn
    <2>5. InitOf(m) = Step("save") \o Step("unprotect") \o e \o Step("protect") \o Step("socket")
      BY <1>3, <1>5 DEF InitOf, mod_init, audit_init, e
    <2>6. Part(m, InitOf(m) \o Step("end"),
               One("save") \cup One("unprotect") \cup patches \cup One("protect")
                 \cup One("socket") \cup One("end"))
      BY <1>1, <1>2, <1>5, <2>4, <2>5, Joined DEF Before, Turn
    <2>7. InitItems(m) = One("save") \cup One("unprotect") \cup patches \cup One("protect")
                           \cup One("socket") \cup One("end")
      BY <1>2
    <2> QED BY <2>6, <2>7
  <1> QED BY <1>4, <1>5

LEMMA ExitPlan ==
  ASSUME NEW m \in Modules
  PROVE  Part(m, ExitOf(m) \o Step("free"), ExitItems(m))
PROOF
  <1> DEFINE One(op) == {[op |-> op]}
             restores == {[op |-> "restore", entry |-> c] : c \in HookedCalls(m)}
             e == Each("restore", Hooked(m))
  <1>1. /\ \A op \in {"unprotect", "protect", "release", "free"} : Part(m, Step(op), One(op))
        /\ Part(m, e, restores)
    BY StepPart, EachPart DEF Part
  <1>2. /\ ExitItems(m) = One("unprotect") \cup restores \cup One("protect")
                            \cup One("release") \cup One("free")
        /\ \A x \in restores : x.op = "restore"
        /\ \A op : \A x \in One(op) : x.op = op
    BY DEF ExitItems
  <1>3. m \in {"kernel", "kernel2", "fileaudit"}
    BY PrmModuleAssumption
  <1> HIDE DEF One, restores, e
  <1>4. Part(m, Step("unprotect") \o e, One("unprotect") \cup restores)
    BY <1>1, <1>2, Joined DEF Before, Turn
  <1>5. Part(m, Step("unprotect") \o e \o Step("protect"),
             One("unprotect") \cup restores \cup One("protect"))
    BY <1>1, <1>2, <1>4, Joined DEF Before, Turn
  <1>6. Part(m, Step("unprotect") \o e \o Step("protect") \o Step("release"),
             One("unprotect") \cup restores \cup One("protect") \cup One("release"))
    BY <1>1, <1>2, <1>5, Joined DEF Before, Turn
  <1>7. ExitOf(m) = Step("unprotect") \o e \o Step("protect") \o Step("release")
    BY <1>3 DEF ExitOf, prm_exit, prm_hook_exit, mod_exit, audit_exit, e
  <1>8. Part(m, ExitOf(m) \o Step("free"),
             One("unprotect") \cup restores \cup One("protect") \cup One("release")
               \cup One("free"))
    BY <1>1, <1>2, <1>6, <1>7, Joined DEF Before, Turn
  <1> QED BY <1>2, <1>8

------------------------------------------------------------------------------
(* What is left of a plan. *)

LEMMA ItemsOfTail ==
  ASSUME NEW m, NEW p \in Seq(Ops), p # <<>>, InTurn(m, p),
         \A x \in Items(p) : ~Before(m, x, x)
  PROVE  /\ Tail(p) \in Seq(Ops) /\ InTurn(m, Tail(p))
         /\ p[1] \in Items(p) /\ Items(Tail(p)) = Items(p) \ {p[1]}
         /\ \A x \in Items(Tail(p)) : Before(m, p[1], x)
         /\ Tail(p) = <<>> <=> Items(Tail(p)) = {}
PROOF
  <1> DEFINE q == Tail(p)
  <1>1. /\ q \in Seq(Ops) /\ DOMAIN q = 1..Len(p) - 1 /\ Len(p) \in Nat \ {0}
        /\ DOMAIN p = 1..Len(p) /\ \A i \in 1..Len(p) - 1 : q[i] = p[i + 1]
        /\ Len(q) = Len(p) - 1 /\ 1 \in DOMAIN p
    BY HeadTailProperties, LenProperties, EmptySeq
  <1>2. q = <<>> <=> DOMAIN q = {}
    BY <1>1, EmptySeq
  <1> HIDE DEF q
  <1>3. \A i \in DOMAIN q : i + 1 \in DOMAIN p /\ 1 < i + 1 /\ q[i] = p[i + 1]
    BY <1>1
  <1>4. InTurn(m, q)
    <2> SUFFICES ASSUME NEW i \in DOMAIN q, NEW j \in DOMAIN q, i < j
                 PROVE  Before(m, q[i], q[j])
      BY DEF InTurn
    <2>1. i + 1 < j + 1
      BY <1>1
    <2> QED BY <1>3, <2>1 DEF InTurn
  <1>5. p[1] \in Items(p)
    BY <1>1 DEF Items
  <1>6. \A x \in Items(q) : Before(m, p[1], x)
    BY <1>1, <1>3 DEF InTurn, Items
  <1>7. Items(q) \subseteq Items(p) \ {p[1]}
    BY <1>3, <1>5, <1>6 DEF Items
  <1>8. ASSUME NEW i \in DOMAIN p, p[i] # p[1] PROVE p[i] \in Items(q)
    <2>1. i - 1 \in DOMAIN q /\ q[i - 1] = p[i]
      BY <1>1, <1>8
    <2> QED BY <2>1 DEF Items
  <1>9. Items(q) = Items(p) \ {p[1]}
    BY <1>7, <1>8 DEF Items
  <1>10. q = <<>> <=> Items(q) = {}
    BY <1>2 DEF Items
  <1> QED BY <1>1, <1>4, <1>5, <1>6, <1>9, <1>10 DEF q

(* The first of the steps left comes before the others, and after all that   *)
(* have been taken.                                                          *)
LEMMA FirstLeft ==
  ASSUME NEW m, NEW p, NEW all, RestOf(m, p, all), p \in Seq(Ops)
  PROVE  /\ p[1] \in Items(p) /\ p[1] \in all
         /\ \A x \in Items(p) : x = p[1] \/ Before(m, p[1], x)
         /\ \A x \in all : x \in Items(p) \/ Before(m, x, p[1])
PROOF
  <1>1. DOMAIN p = 1..Len(p) /\ Len(p) \in Nat \ {0}
    BY LenProperties, EmptySeq DEF RestOf
  <1>2. p[1] \in Items(p)
    BY <1>1 DEF Items
  <1>3. ASSUME NEW x \in Items(p) PROVE x = p[1] \/ Before(m, p[1], x)
    <2>1. PICK i \in DOMAIN p : x = p[i]
      BY DEF Items
    <2> QED BY <1>1, <2>1 DEF RestOf, InTurn
  <1> QED BY <1>2, <1>3 DEF RestOf

(* No step comes before itself. *)
LEMMA NotBeforeItself ==
  ASSUME NEW m, NEW x, x.op \in {"socket", "save", "unprotect", "patch", "restore",
                                 "protect", "release", "end", "free"}
  PROVE  ~Before(m, x, x)
BY DEF Before, Turn

(* The rest of a rest. *)
LEMMA RestOfRest ==
  ASSUME NEW m, NEW p \in Seq(Ops), NEW all \in {InitItems(m), ExitItems(m)},
         RestOf(m, p, all)
  PROVE  /\ Tail(p) \in Seq(Ops) /\ Items(Tail(p)) = Items(p) \ {p[1]}
         /\ p[1].op \in {"end", "free"} => Tail(p) = <<>>
         /\ p[1].op \notin {"end", "free"} => RestOf(m, Tail(p), all)
PROOF
  <1>1. \A x \in all : x.op \in {"socket", "save", "unprotect", "patch", "restore",
                                 "protect", "release", "end", "free"}
    BY DEF InitItems, ExitItems
  <1>2. /\ Tail(p) \in Seq(Ops) /\ InTurn(m, Tail(p))
        /\ p[1] \in Items(p) /\ Items(Tail(p)) = Items(p) \ {p[1]}
        /\ \A x \in Items(Tail(p)) : Before(m, p[1], x)
        /\ Tail(p) = <<>> <=> Items(Tail(p)) = {}
    <2>1. \A x \in Items(p) : ~Before(m, x, x)
      BY <1>1, NotBeforeItself DEF RestOf
    <2>2. InTurn(m, p) /\ p # <<>>
      BY DEF RestOf
    <2> QED BY <2>1, <2>2, ItemsOfTail
  <1>3. ASSUME p[1].op \in {"end", "free"} PROVE Tail(p) = <<>>
    <2>1. \A x \in all : ~Before(m, p[1], x)
      BY <1>1, <1>3 DEF Before, Turn
    <2> QED BY <1>2, <2>1 DEF RestOf
  <1>4. ASSUME p[1].op \notin {"end", "free"} PROVE RestOf(m, Tail(p), all)
    <2>1. PICK last \in all : last.op \in {"end", "free"}
      <3>1. [op |-> "end"] \in InitItems(m) /\ [op |-> "free"] \in ExitItems(m)
        BY DEF InitItems, ExitItems
      <3> QED BY <3>1
    <2>2. ~Before(m, last, p[1])
      BY <1>1, <1>2, <2>1 DEF Before, Turn, RestOf
    <2>3. last \in Items(p) /\ last # p[1]
      BY <1>2, <1>4, <2>1, <2>2 DEF RestOf
    <2> QED BY <1>2, <2>3 DEF RestOf
  <1> QED BY <1>2, <1>3, <1>4

------------------------------------------------------------------------------
(* The threads. *)

FrameSet == [mod : Modules, at : Places]

(* The parts of the invariant that do not speak of pid and the threads. *)
LoaderInv ==
  /\ PlanFits /\ LoadedOnce
  /\ SavedIsThere /\ NothingElseSaved /\ SavedLeadsDown /\ TableServed
  /\ RemovalRestores /\ Protected

LEMMA LoaderInvStays ==
  ASSUME LoaderInv, UNCHANGED <<machineVars, real, loaderVars>>
  PROVE  LoaderInv'
BY DEF LoaderInv, machineVars, loaderVars, PlanFits, LoadedOnce, SavedIsThere, NothingElseSaved,
   SavedLeadsDown, TableServed, RemovalRestores, Protected, Serves, Saved, Loaded, Left, InPatch

LEMMA HookStays ==
  ASSUME UNCHANGED <<loaderVars, sock>>
  PROVE  /\ \A m : Past(m)' <=> Past(m)
         /\ \A c, f : InHook(c, f)' <=> InHook(c, f)
BY DEF InHook, Serves, Saved, Past, Removing, Loaded, Left, loaderVars

(* A thread step that leaves the thread with frames fs in call c. *)
ThreadMoves(t, fs, c) ==
  /\ frames' = [frames EXCEPT ![t] = fs] /\ call' = [call EXCEPT ![t] = c]
  /\ fs \in Seq(FrameSet) /\ c \in Calls \cup {"none"}
  /\ \A i \in DOMAIN fs : c # "none" /\ InHook(c, fs[i])

LEMMA ThreadMovesKeep ==
  ASSUME ModuleInv, NEW t \in Threads, NEW fs, NEW c, ThreadMoves(t, fs, c),
         UNCHANGED <<machineVars, real, sock, loaderVars, servers>>,
         pid' \in [Modules -> BOOLEAN], \A m \in Modules : pid'[m] => pid[m]
  PROVE  ModuleInv'
PROOF
  <1>1. TypeOK'
    BY DEF ModuleInv, TypeOK, ThreadMoves, machineVars, loaderVars, FrameSet
  <1>2. LoaderInv'
    BY LoaderInvStays DEF ModuleInv, LoaderInv
  <1>3. SocketGone'
    BY HookStays DEF ModuleInv, SocketGone, Loaded, loaderVars
  <1>4. FramesServed'
    <2> SUFFICES ASSUME NEW u \in Threads, NEW i \in DOMAIN frames'[u]
                 PROVE  call'[u] # "none" /\ InHook(call'[u], frames'[u][i])
      BY HookStays DEF FramesServed
    <2>1. CASE u = t
      BY <2>1 DEF ModuleInv, TypeOK, ThreadMoves
    <2>2. CASE u # t
      BY <2>2 DEF ModuleInv, TypeOK, FramesServed, ThreadMoves
    <2> QED BY <2>1, <2>2
  <1> QED BY <1>1, <1>2, <1>3, <1>4 DEF ModuleInv, LoaderInv

(* What a thread that is in a hook has. *)
LEMMA InFrames ==
  ASSUME ModuleInv, NEW t \in Threads, frames[t] # <<>>
  PROVE  /\ frames[t] \in Seq(FrameSet) /\ Len(frames[t]) \in DOMAIN frames[t]
         /\ DOMAIN frames[t] = 1..Len(frames[t]) /\ Len(frames[t]) \in Nat
         /\ Top(t) \in FrameSet /\ call[t] \in Calls
         /\ \A i \in DOMAIN frames[t] : frames[t][i] \in FrameSet /\ InHook(call[t], frames[t][i])
         /\ InHook(call[t], Top(t))
PROOF
  <1>1. frames[t] \in Seq(FrameSet) /\ call[t] \in Calls \cup {"none"}
    BY DEF ModuleInv, TypeOK, FrameSet
  <1>2. /\ Len(frames[t]) \in DOMAIN frames[t] /\ DOMAIN frames[t] = 1..Len(frames[t])
        /\ Len(frames[t]) \in Nat
    BY <1>1, LenProperties, EmptySeq
  <1>3. \A i \in DOMAIN frames[t] : frames[t][i] \in FrameSet
    BY <1>1, <1>2, ElementOfSeq
  <1>4. \A i \in DOMAIN frames[t] : call[t] # "none" /\ InHook(call[t], frames[t][i])
    BY DEF ModuleInv, FramesServed
  <1> QED BY <1>1, <1>2, <1>3, <1>4 DEF Top

LEMMA FrontOf ==
  ASSUME ModuleInv, NEW t \in Threads, frames[t] # <<>>
  PROVE  /\ Front(t) \in Seq(FrameSet)
         /\ \A i \in DOMAIN Front(t) : InHook(call[t], Front(t)[i])
PROOF
  <1> DEFINE n == Len(frames[t])
  <1>1. /\ n \in Nat /\ n # 0 /\ DOMAIN frames[t] = 1..n
        /\ \A i \in 1..n : frames[t][i] \in FrameSet /\ InHook(call[t], frames[t][i])
    BY InFrames
  <1> HIDE DEF n
  <1>2. /\ SubSeq(frames[t], 1, n - 1) \in Seq(FrameSet)
        /\ Len(SubSeq(frames[t], 1, n - 1)) = n - 1
        /\ \A i \in 1..n - 1 : SubSeq(frames[t], 1, n - 1)[i] = frames[t][i]
    <2>1. 1 \in Int /\ n - 1 \in Int /\ \A i \in 1..n - 1 : frames[t][i] \in FrameSet
      BY <1>1
    <2>2. /\ SubSeq(frames[t], 1, n - 1) \in Seq(FrameSet)
          /\ Len(SubSeq(frames[t], 1, n - 1)) = IF 1 <= n - 1 THEN (n - 1) - 1 + 1 ELSE 0
          /\ \A i \in 1..(n - 1) - 1 + 1 :
               SubSeq(frames[t], 1, n - 1)[i] = frames[t][1 + i - 1]
      BY <2>1, SubSeqProperties
    <2> QED BY <1>1, <2>2
  <1>3. DOMAIN SubSeq(frames[t], 1, n - 1) = 1..n - 1
    BY <1>2, LenProperties
  <1>4. Front(t) = SubSeq(frames[t], 1, n - 1)
    BY DEF Front, n
  <1> QED BY <1>1, <1>2, <1>3, <1>4

LEMMA DiesMoves ==
  ASSUME ModuleInv, NEW t \in Threads, Dies(t)
  PROVE  ThreadMoves(t, <<>>, "none")
PROOF
  <1>1. <<>> \in Seq(FrameSet)
    BY EmptySeq
  <1> QED BY <1>1 DEF Dies, ThreadMoves

LEMMA ReturnMoves ==
  ASSUME ModuleInv, NEW t \in Threads, frames[t] # <<>>, Return(t)
  PROVE  \E fs, c : ThreadMoves(t, fs, c)
PROOF
  <1>1. /\ call \in [Threads -> Calls \cup {"none"}] /\ call[t] \in Calls
        /\ call[t] # "none"
    BY InFrames DEF ModuleInv, TypeOK, FramesServed
  <1>2. /\ Front(t) \in Seq(FrameSet)
        /\ \A i \in DOMAIN Front(t) : InHook(call[t], Front(t)[i])
        /\ frames' = [frames EXCEPT ![t] = Front(t)]
    BY FrontOf DEF Return
  <1>3. CASE Front(t) = <<>>
    <2>1. ThreadMoves(t, Front(t), "none")
      BY <1>2, <1>3 DEF Return, ThreadMoves
    <2> QED BY <2>1
  <1>4. CASE Front(t) # <<>>
    <2>1. call' = [call EXCEPT ![t] = call[t]]
      BY <1>1, <1>4 DEF Return
    <2>2. ThreadMoves(t, Front(t), call[t])
      BY <1>1, <1>2, <2>1 DEF ThreadMoves
    <2> QED BY <2>2
  <1> QED BY <1>3, <1>4

LEMMA SetPlaceMoves ==
  ASSUME ModuleInv, NEW t \in Threads, frames[t] # <<>>, Top(t).at # "gone",
         NEW place \in Places, SetPlace(t, place),
         place = "send" => sock[Top(t).mod] = "open" \/ Past(Top(t).mod)
  PROVE  \E fs, c : ThreadMoves(t, fs, c)
PROOF
  <1> DEFINE n == Len(frames[t])
             f == [Top(t) EXCEPT !.at = place]
             fs == [frames[t] EXCEPT ![n] = f]
  <1>1. /\ frames[t] \in Seq(FrameSet) /\ n \in 1..Len(frames[t]) /\ call[t] \in Calls
        /\ Top(t) \in FrameSet /\ f \in FrameSet
        /\ \A i \in DOMAIN frames[t] : InHook(call[t], frames[t][i])
        /\ InHook(call[t], Top(t)) /\ call[t] # "none"
    BY InFrames DEF ModuleInv, FramesServed, FrameSet
  <1>2. fs \in Seq(FrameSet) /\ DOMAIN fs = DOMAIN frames[t]
    BY <1>1, ExceptSeq
  <1>3. InHook(call[t], f)
    BY <1>1 DEF InHook, FrameSet
  <1>4. \A i \in DOMAIN fs : InHook(call[t], fs[i])
    BY <1>1, <1>2, <1>3
  <1>5. frames' = [frames EXCEPT ![t] = fs] /\ call' = [call EXCEPT ![t] = call[t]]
    BY DEF SetPlace, Top, ModuleInv, TypeOK
  <1>6. ThreadMoves(t, fs, call[t])
    BY <1>1, <1>2, <1>4, <1>5 DEF ThreadMoves
  <1> QED BY <1>6

LEMMA CallRealMoves ==
  ASSUME ModuleInv, NEW t \in Threads, CallReal(t)
  PROVE  \E fs, c : ThreadMoves(t, fs, c)
PROOF
  <1> DEFINE target == real[Top(t).mod][call[t]]
             c == call[t]
             down == [Top(t) EXCEPT !.at = "called"]
  <1>1. frames[t] # <<>> /\ Top(t).at = "call"
    BY DEF CallReal, At
  <1>2. /\ Top(t) \in FrameSet /\ c \in Calls /\ c # "none"
        /\ Serves(Top(t).mod, c)
    BY <1>1, InFrames DEF InHook, ModuleInv, FramesServed
  <1>3. CASE target = Null /\ Dies(t)
    BY <1>3, DiesMoves
  <1>4. CASE target = Linux /\ SetPlace(t, "called")
    BY <1>1, <1>4, SetPlaceMoves DEF Places
  <1>5. CASE /\ target \notin {Null, Linux}
             /\ frames' = [frames EXCEPT ![t] =
                  Append(Append(Front(t), down), Frame(target, c))]
             /\ UNCHANGED call
    <2>1. PICK i \in DOMAIN lsmod : Top(t).mod = lsmod[i]
      BY <1>2 DEF Serves, Saved, Loaded
    <2>2. PICK j \in DOMAIN lsmod : /\ j < i /\ target = lsmod[j]
                                    /\ c \in HookedCalls(lsmod[j])
      BY <1>2, <1>5, <2>1, PrmModuleAssumption DEF ModuleInv, SavedLeadsDown
    <2>3. lsmod[j] \in Modules /\ lsmod \in Seq(Modules) /\ DOMAIN lsmod = 1..Len(lsmod)
      BY LenProperties, ElementOfSeq DEF ModuleInv, TypeOK
    <2>4. Serves(target, c)
      <3>1. loader # "none" => loader = lsmod[Len(lsmod)] /\ Len(lsmod) \in DOMAIN lsmod
        BY <2>3, LenProperties, EmptySeq DEF ModuleInv, PlanFits
      <3>2. i <= Len(lsmod) /\ j # Len(lsmod) /\ lsmod[j] # "none"
        BY <2>2, <2>3, PrmModuleAssumption, LenProperties
      <3>3. lsmod[j] # loader
        BY <3>1, <3>2 DEF ModuleInv, LoadedOnce
      <3> QED BY <2>2, <3>3 DEF Serves, Saved, Loaded
    <2>5. down \in FrameSet /\ Frame(target, c) \in FrameSet
      BY <1>2, <2>2, <2>3 DEF FrameSet, Places, Frame
    <2>6. InHook(c, down) /\ InHook(c, Frame(target, c))
      BY <1>2, <2>4 DEF InHook, Frame, FrameSet
    <2>7. Front(t) \in Seq(FrameSet) /\ \A k \in DOMAIN Front(t) : InHook(c, Front(t)[k])
      BY <1>1, FrontOf
    <2> DEFINE one == Append(Front(t), down)
               two == Append(one, Frame(target, c))
    <2>8. one \in Seq(FrameSet) /\ \A k \in DOMAIN one : InHook(c, one[k])
      BY <2>5, <2>6, <2>7, AppendProperties, LenProperties
    <2> HIDE DEF one
    <2>9. two \in Seq(FrameSet) /\ \A k \in DOMAIN two : InHook(c, two[k])
      BY <2>5, <2>6, <2>8, AppendProperties, LenProperties
    <2>10. call' = [call EXCEPT ![t] = c] /\ frames' = [frames EXCEPT ![t] = two]
      BY <1>5 DEF ModuleInv, TypeOK, one
    <2>11. ThreadMoves(t, two, c)
      BY <1>2, <2>9, <2>10 DEF ThreadMoves
    <2> QED BY <2>11
  <1> QED BY <1>3, <1>4, <1>5 DEF CallReal

LEMMA EnterHookMoves ==
  ASSUME ModuleInv, NEW t \in Threads, NEW c \in Calls, EnterHook(t, c)
  PROVE  \E fs : ThreadMoves(t, fs, c)
PROOF
  <1>1. c \in SysCalls /\ c # "none"
    BY PrmModuleAssumption DEF SysCalls
  <1>2. Serves(table[c], c) /\ table[c] \in Modules
    BY <1>1 DEF EnterHook, ModuleInv, TableServed, TypeOK, Targets
  <1>3. Frame(table[c], c) \in FrameSet /\ InHook(c, Frame(table[c], c))
    BY <1>2 DEF Frame, FrameSet, Places, InHook
  <1> DEFINE fs == <<Frame(table[c], c)>>
  <1>4. fs \in Seq(FrameSet) /\ \A i \in DOMAIN fs : InHook(c, fs[i])
    BY <1>3
  <1>5. ThreadMoves(t, fs, c)
    BY <1>1, <1>4 DEF ThreadMoves, EnterHook
  <1> QED BY <1>5

LEMMA PassOnMoves ==
  ASSUME ModuleInv, NEW t \in Threads, frames[t] # <<>>, Top(t).at # "gone", PassOn(t)
  PROVE  \E fs, c : ThreadMoves(t, fs, c)
BY ReturnMoves, SetPlaceMoves DEF PassOn, Places

LEMMA MaySendOnSocket ==
  ASSUME ModuleInv, NEW m \in Modules, MaySend(m)
  PROVE  sock[m] = "open" \/ Past(m)
BY DEF ModuleInv, SocketGone, MaySend

LEMMA ThreadStepKeeps ==
  ASSUME ModuleInv, NEW t \in Threads, ThreadStep(t)
  PROVE  ModuleInv'
PROOF
  <1>1. /\ UNCHANGED <<machineVars, real, sock, loaderVars, servers>>
        /\ pid' \in [Modules -> BOOLEAN] /\ \A m \in Modules : pid'[m] => pid[m]
    <2>1. CASE UNCHANGED <<machineVars, moduleVars, loaderVars, servers>>
      BY <2>1 DEF moduleVars, ModuleInv, TypeOK
    <2>2. CASE Answered(t)
      <3>1. UNCHANGED <<machineVars, real, sock, loaderVars, servers>>
        BY <2>2 DEF Answered
      <3>2. pid' = pid \/ pid' = [pid EXCEPT ![Top(t).mod] = FALSE]
        BY <2>2, Zenon DEF Answered
      <3> QED BY <3>1, <3>2 DEF ModuleInv, TypeOK
    <2>3. Answered(t) \/ UNCHANGED <<machineVars, moduleVars, loaderVars, servers>>
      BY Zenon DEF ThreadStep, EnterHook, CallReal, RealReturns, GetInfo, TestPid, Send,
         RunsGoneText
    <2> QED BY <2>1, <2>2, <2>3
  <1>2. \E fs, c : ThreadMoves(t, fs, c)
    <2>1. CASE \E c \in Calls : EnterHook(t, c)
      BY <2>1, EnterHookMoves
    <2>2. CASE CallReal(t)
      BY <2>2, CallRealMoves
    <2>3. CASE RealReturns(t)
      <3>1. /\ frames[t] # <<>> /\ Top(t).at # "gone"
            /\ Return(t) \/ SetPlace(t, "check") \/ SetPlace(t, "info")
        BY <2>3 DEF RealReturns, At
      <3> QED BY <3>1, ReturnMoves, SetPlaceMoves DEF Places
    <2>4. CASE GetInfo(t)
      <3>1. /\ frames[t] # <<>> /\ Top(t).at # "gone"
            /\ SetPlace(t, "check") \/ PassOn(t)
        BY <2>4 DEF GetInfo, At
      <3> QED BY <3>1, PassOnMoves, SetPlaceMoves DEF Places
    <2>5. CASE TestPid(t)
      <3>1. /\ frames[t] # <<>> /\ Top(t).at # "gone"
            /\ (MaySend(Top(t).mod) /\ SetPlace(t, "send")) \/ PassOn(t)
        BY <2>5 DEF TestPid, At
      <3>2. Top(t).mod \in Modules
        BY <3>1, InFrames DEF FrameSet
      <3> QED BY <3>1, <3>2, PassOnMoves, SetPlaceMoves, MaySendOnSocket DEF Places
    <2>6. CASE Send(t)
      <3>1. /\ frames[t] # <<>> /\ Top(t).at # "gone"
            /\ Dies(t) \/ Return(t) \/ SetPlace(t, "wait")
        BY <2>6 DEF Send, At
      <3> QED BY <3>1, DiesMoves, ReturnMoves, SetPlaceMoves DEF Places
    <2>7. CASE Answered(t)
      <3>1. /\ frames[t] # <<>> /\ Top(t).at # "gone"
            /\ Return(t) \/ PassOn(t)
        BY <2>7 DEF Answered, At
      <3> QED BY <3>1, ReturnMoves, PassOnMoves
    <2>8. CASE RunsGoneText(t)
      BY <2>8, DiesMoves DEF RunsGoneText
    <2> QED
      BY <2>1, <2>2, <2>3, <2>4, <2>5, <2>6, <2>7, <2>8 DEF ThreadStep
  <1> QED BY <1>1, <1>2, ThreadMovesKeep

------------------------------------------------------------------------------
(* The servers, and the scheduler. *)

LEMMA ServerKeeps ==
  ASSUME ModuleInv, NEW m \in Modules,
         ServerConnects(m) \/ ServerDisconnects(m) \/ ServerEnds(m)
  PROVE  ModuleInv'
PROOF
  <1>1. UNCHANGED <<machineVars, real, sock, loaderVars, threadVars>>
    BY DEF ServerConnects, ServerDisconnects, ServerEnds, moduleVars
  <1>2. servers' \in [Modules -> BOOLEAN] /\ pid' \in [Modules -> BOOLEAN]
    BY DEF ServerConnects, ServerDisconnects, ServerEnds, moduleVars, ModuleInv, TypeOK
  <1>3. \A n \in Modules : pid'[n] => pid[n] \/ sock[n] = "open"
    BY DEF ServerConnects, ServerDisconnects, ServerEnds, moduleVars, ModuleInv, TypeOK
  <1>4. TypeOK'
    BY <1>1, <1>2 DEF ModuleInv, TypeOK, machineVars, loaderVars, threadVars
  <1>5. LoaderInv'
    BY <1>1, LoaderInvStays DEF ModuleInv, LoaderInv
  <1>6. SocketGone'
    BY <1>1, <1>3, HookStays DEF ModuleInv, SocketGone, Loaded, loaderVars, Null
  <1>7. FramesServed'
    BY <1>1, HookStays DEF ModuleInv, FramesServed, threadVars
  <1> QED BY <1>4, <1>5, <1>6, <1>7 DEF ModuleInv, LoaderInv

(* A step that leaves the plan, the table, what is saved and the sockets. *)
LEMMA PlanRests ==
  ASSUME UNCHANGED <<table, moduleVars, lsmod, loader, plan, threadVars>>, ModuleInv
  PROVE  /\ PlanFits' /\ LoadedOnce' /\ SavedIsThere' /\ NothingElseSaved'
         /\ SavedLeadsDown' /\ TableServed' /\ RemovalRestores'
         /\ SocketGone' /\ FramesServed'
PROOF
  <1>1. /\ PlanFits' /\ LoadedOnce' /\ SavedIsThere' /\ NothingElseSaved'
        /\ SavedLeadsDown' /\ TableServed' /\ RemovalRestores'
    BY DEF ModuleInv, moduleVars, PlanFits, LoadedOnce, SavedIsThere, NothingElseSaved,
       SavedLeadsDown, TableServed, RemovalRestores, Serves, Saved, Loaded, Left
  <1>2. /\ \A m : Past(m)' <=> Past(m)
        /\ \A c, f : InHook(c, f)' <=> InHook(c, f)
    BY DEF moduleVars, InHook, Serves, Saved, Past, Removing, Loaded, Left
  <1>3. SocketGone' /\ FramesServed'
    BY <1>2 DEF ModuleInv, moduleVars, threadVars, SocketGone, FramesServed, Loaded
  <1> QED BY <1>1, <1>3

LEMMA MigrateKeeps ==
  ASSUME ModuleInv, Migrate
  PROVE  ModuleInv'
PROOF
  <1>1. /\ UNCHANGED <<machineVars, moduleVars, lsmod, loader, plan, stuck, servers, threadVars>>
        /\ lcpu' \in CPUs
        /\ moved' = IF wp[lcpu] THEN moved ELSE moved \cup {lcpu}
    BY DEF Migrate
  <1>2. TypeOK'
    BY <1>1 DEF ModuleInv, TypeOK, machineVars, moduleVars, threadVars
  <1>3. Protected'
    BY <1>1 DEF ModuleInv, Protected, InPatch, Left, machineVars, TypeOK
  <1> QED BY <1>1, <1>2, <1>3, PlanRests DEF ModuleInv, machineVars

------------------------------------------------------------------------------
(* The step that the loader is at. *)

LEMMA LeftIs ==
  \A op : /\ Left(op) <=> \E x \in Items(plan) : x.op = op
          /\ Left(op)' <=> \E x \in Items(plan') : x.op = op
BY DEF Left, Items

LEMMA LoaderIs ==
  ASSUME TypeOK, PlanFits, plan # <<>>
  PROVE  /\ loader \in Modules /\ loader # "none" /\ PlanOK(loader, plan)
         /\ lsmod \in Seq(Modules) /\ DOMAIN lsmod = 1..Len(lsmod)
         /\ Len(lsmod) \in Nat \ {0}
         /\ loader = lsmod[Len(lsmod)] /\ loader \in Loaded
PROOF
  <1>1. loader # "none" /\ lsmod # <<>> /\ loader = lsmod[Len(lsmod)] /\ PlanOK(loader, plan)
    BY DEF PlanFits
  <1>2. lsmod \in Seq(Modules) /\ loader \in Modules
    BY <1>1 DEF TypeOK
  <1>3. DOMAIN lsmod = 1..Len(lsmod) /\ Len(lsmod) \in Nat \ {0}
    BY <1>1, <1>2, LenProperties, EmptySeq
  <1> QED BY <1>1, <1>2, <1>3 DEF Loaded

AllOps == {"socket", "save", "unprotect", "patch", "restore", "protect", "release", "end", "free"}

(* An init function has the steps of init left, an exit function those of exit. *)
LEMMA InitOrExit ==
  ASSUME TypeOK, PlanFits, plan # <<>>
  PROVE  \/ /\ RestOf(loader, plan, InitItems(loader)) /\ ~Left("free")
            /\ ~Left("restore") /\ ~Left("release") /\ Left("end")
         \/ /\ RestOf(loader, plan, ExitItems(loader)) /\ ~Left("end")
            /\ ~Left("save") /\ ~Left("patch") /\ ~Left("socket") /\ Left("free")
PROOF
  <1>1. plan[1] \in Items(plan) /\ PlanOK(loader, plan)
    <2>1. plan \in Seq(Ops) /\ PlanOK(loader, plan)
      BY LoaderIs DEF TypeOK
    <2> QED BY <2>1, FirstLeft DEF PlanOK
  <1>2. CASE RestOf(loader, plan, InitItems(loader))
    <2>1. \A x \in Items(plan) : x.op \in {"socket", "save", "unprotect", "patch", "protect", "end"}
      BY <1>2 DEF RestOf, InitItems
    <2>2. [op |-> "end"] \in InitItems(loader)
      BY DEF InitItems
    <2>3. ~Before(loader, [op |-> "end"], plan[1])
      BY <1>1, <2>1 DEF Before, Turn
    <2>4. [op |-> "end"] \in Items(plan)
      BY <1>1, <1>2, <2>2, <2>3 DEF RestOf
    <2> QED BY <1>2, <2>1, <2>4, LeftIs
  <1>3. CASE RestOf(loader, plan, ExitItems(loader))
    <2>1. \A x \in Items(plan) : x.op \in {"unprotect", "restore", "protect", "release", "free"}
      BY <1>3 DEF RestOf, ExitItems
    <2>2. [op |-> "free"] \in ExitItems(loader)
      BY DEF ExitItems
    <2>3. ~Before(loader, [op |-> "free"], plan[1])
      BY <1>1, <2>1 DEF Before, Turn
    <2>4. [op |-> "free"] \in Items(plan)
      BY <1>1, <1>3, <2>2, <2>3 DEF RestOf
    <2> QED BY <1>3, <2>1, <2>4, LeftIs
  <1> QED BY <1>1, <1>2, <1>3 DEF PlanOK

(* What the first of the steps left says of the others. *)
LEMMA FirstStep ==
  ASSUME TypeOK, PlanFits, plan # <<>>
  PROVE  /\ plan[1] \in Items(plan) /\ plan[1].op \in AllOps
         /\ plan[1].op \in {"save", "socket", "patch", "end"} => ~Left("free")
         /\ plan[1].op \in {"restore", "release", "free"} => Left("free")
         /\ plan[1].op \in {"patch", "restore", "protect"} => ~Left("unprotect")
         /\ plan[1].op \in {"patch", "restore", "unprotect"} => Left("protect")
         /\ plan[1].op \in {"patch", "restore"} =>
              /\ plan[1] = [op |-> plan[1].op, entry |-> plan[1].entry]
              /\ plan[1].entry \in HookedCalls(loader)
         /\ plan[1].op \in {"patch", "end"} => ~Left("save")
         /\ plan[1].op \in {"release", "free"} => ~Left("restore")
         /\ plan[1].op \in {"end", "free"} => Items(plan) = {plan[1]}
         /\ plan[1].op \notin {"patch", "restore"} =>
              \A x \in Items(plan) : x.op = plan[1].op => x = plan[1]
PROOF
  <1> DEFINE first == plan[1]
  <1>0. plan \in Seq(Ops)
    BY DEF TypeOK
  <1>1. CASE /\ RestOf(loader, plan, InitItems(loader)) /\ ~Left("free")
             /\ ~Left("restore") /\ ~Left("release") /\ Left("end")
    <2>1. /\ first \in Items(plan) /\ first \in InitItems(loader)
          /\ \A x \in Items(plan) : x = first \/ Before(loader, first, x)
          /\ \A x \in InitItems(loader) : x \in Items(plan) \/ Before(loader, x, first)
          /\ Items(plan) \subseteq InitItems(loader)
      BY <1>0, <1>1, FirstLeft DEF RestOf
    <2> HIDE DEF first
    <2>2. /\ first.op \in AllOps \ {"restore", "release", "free"}
          /\ first.op = "patch" =>
              /\ first = [op |-> "patch", entry |-> first.entry]
              /\ first.entry \in HookedCalls(loader)
          /\ [op |-> "protect"] \in InitItems(loader)
          /\ \A x \in Items(plan) : /\ x.op \in AllOps \ {"restore", "release", "free"}
                                    /\ x.op # "patch" => x = [op |-> x.op]
      BY <2>1 DEF InitItems, AllOps
    <2>3. first.op \in {"patch", "protect"} => ~Left("unprotect")
      BY <2>1, <2>2, LeftIs DEF Before, Turn
    <2>4. first.op \in {"patch", "unprotect"} => Left("protect")
      BY <2>1, <2>2, LeftIs DEF Before, Turn
    <2>5. first.op \in {"patch", "end"} => ~Left("save")
      BY <2>1, <2>2, LeftIs DEF Before, Turn
    <2>6. first.op = "end" => Items(plan) = {first}
      BY <2>1, <2>2 DEF Before, Turn, AllOps
    <2> QED BY <1>1, <2>1, <2>2, <2>3, <2>4, <2>5, <2>6 DEF first
  <1>2. CASE /\ RestOf(loader, plan, ExitItems(loader)) /\ ~Left("end")
             /\ ~Left("save") /\ ~Left("patch") /\ ~Left("socket") /\ Left("free")
    <2>1. /\ first \in Items(plan) /\ first \in ExitItems(loader)
          /\ \A x \in Items(plan) : x = first \/ Before(loader, first, x)
          /\ \A x \in ExitItems(loader) : x \in Items(plan) \/ Before(loader, x, first)
          /\ Items(plan) \subseteq ExitItems(loader)
      BY <1>0, <1>2, FirstLeft DEF RestOf
    <2> HIDE DEF first
    <2>2. /\ first.op \in AllOps \ {"save", "socket", "patch", "end"}
          /\ first.op = "restore" =>
              /\ first = [op |-> "restore", entry |-> first.entry]
              /\ first.entry \in HookedCalls(loader)
          /\ [op |-> "protect"] \in ExitItems(loader)
          /\ \A x \in Items(plan) : /\ x.op \in AllOps \ {"save", "socket", "patch", "end"}
                                    /\ x.op # "restore" => x = [op |-> x.op]
      BY <2>1 DEF ExitItems, AllOps
    <2>3. first.op \in {"restore", "protect"} => ~Left("unprotect")
      BY <2>1, <2>2, LeftIs DEF Before, Turn
    <2>4. first.op \in {"restore", "unprotect"} => Left("protect")
      BY <2>1, <2>2, LeftIs DEF Before, Turn
    <2>5. first.op \in {"release", "free"} => ~Left("restore")
      BY <2>1, <2>2, LeftIs DEF Before, Turn
    <2>6. first.op = "free" => Items(plan) = {first}
      BY <2>1, <2>2 DEF Before, Turn, AllOps
    <2> QED BY <1>2, <2>1, <2>2, <2>3, <2>4, <2>5, <2>6 DEF first
  <1> QED BY <1>1, <1>2, InitOrExit

(* The plan after the step. *)
LEMMA StepTaken ==
  ASSUME TypeOK, PlanFits, plan # <<>>, plan' = Tail(plan)
  PROVE  /\ plan' \in Seq(Ops) /\ Items(plan') = Items(plan) \ {plan[1]}
         /\ \A op : op # plan[1].op => (Left(op)' <=> Left(op))
         /\ \A op : op = plan[1].op /\ op \notin {"patch", "restore"} => ~Left(op)'
         /\ plan[1].op \in {"end", "free"} => plan' = <<>>
         /\ plan[1].op \notin {"end", "free"} => PlanOK(loader, plan')
PROOF
  <1>1. PlanOK(loader, plan) /\ plan \in Seq(Ops)
    BY LoaderIs DEF TypeOK
  <1>2. /\ plan' \in Seq(Ops) /\ Items(plan') = Items(plan) \ {plan[1]}
        /\ plan[1].op \in {"end", "free"} => plan' = <<>>
        /\ plan[1].op \notin {"end", "free"} => PlanOK(loader, plan')
    BY <1>1, RestOfRest DEF PlanOK
  <1>3. \A op : op # plan[1].op => (Left(op)' <=> Left(op))
    BY <1>2, LeftIs
  <1>4. \A op : op = plan[1].op /\ op \notin {"patch", "restore"} => ~Left(op)'
    <2>1. plan[1].op \notin {"patch", "restore"} =>
            \A x \in Items(plan) : x.op = plan[1].op => x = plan[1]
      BY FirstStep
    <2>2. plan[1].op \notin {"patch", "restore"} =>
            \A x \in Items(plan') : x.op # plan[1].op
      BY <1>2, <2>1
    <2> QED BY <2>2, LeftIs
  <1> QED BY <1>2, <1>3, <1>4

------------------------------------------------------------------------------
(* The steps of the loader. *)

CanSend(m) == sock[m] = "open" \/ Past(m)

(* A step that leaves what is saved, and every module as far as it can be    *)
(* entered.                                                                  *)
LEMMA SavedStays ==
  ASSUME ModuleInv, UNCHANGED <<real, lsmod>>, \A m : Saved(m)' <=> Saved(m)
  PROVE  /\ SavedIsThere' /\ NothingElseSaved' /\ SavedLeadsDown' /\ LoadedOnce'
         /\ \A m, c : Serves(m, c)' <=> Serves(m, c)
BY DEF ModuleInv, SavedIsThere, NothingElseSaved, SavedLeadsDown, LoadedOnce, Serves

LEMMA FramesStay ==
  ASSUME ModuleInv, UNCHANGED threadVars,
         \A m, c : Serves(m, c) => Serves(m, c)',
         \A m \in Modules : CanSend(m) => CanSend(m)'
  PROVE  FramesServed'
PROOF
  <1> SUFFICES ASSUME NEW t \in Threads, NEW i \in DOMAIN frames[t]
               PROVE  call[t] # "none" /\ InHook(call[t], frames[t][i])'
    BY DEF FramesServed, threadVars
  <1>1. call[t] # "none" /\ InHook(call[t], frames[t][i])
    BY DEF ModuleInv, FramesServed
  <1>2. frames[t][i].mod \in Modules
    <2>1. frames[t] # <<>>
      OBVIOUS
    <2> QED BY <2>1, InFrames DEF FrameSet
  <1>3. call' = call /\ frames' = frames
    BY DEF threadVars
  <1> QED BY <1>1, <1>2, <1>3 DEF InHook, CanSend

LEMMA SocketsStay ==
  ASSUME ModuleInv, UNCHANGED <<lsmod, pid>>,
         \A m \in Modules : CanSend(m) => CanSend(m)',
         \A m \in Modules : m \notin Loaded => sock'[m] = sock[m]
  PROVE  SocketGone'
BY DEF ModuleInv, SocketGone, CanSend, Loaded

(* Types, for a step of the loader that leaves the processes and the threads. *)
LEMMA LoaderTypes ==
  ASSUME TypeOK, UNCHANGED <<pid, lsmod, servers, threadVars>>,
         table' \in [SysCalls -> Targets], rw' \in BOOLEAN, wp' \in [CPUs -> BOOLEAN],
         real' \in [Modules -> [SysCalls -> Targets \cup {Null}]],
         sock' \in [Modules -> {Null, "open", "released"}],
         loader' \in Modules \cup {"none"}, plan' \in Seq(Ops), lcpu' \in CPUs,
         moved' \in SUBSET CPUs, stuck' \in SUBSET Modules
  PROVE  TypeOK'
BY DEF TypeOK, threadVars

(* A step of the loader that is not the last one. *)
GoesOn == /\ UNCHANGED <<pid, lsmod, loader, stuck, servers, threadVars>>
          /\ plan # <<>> /\ plan' = Tail(plan)

LEMMA GoesOnFits ==
  ASSUME ModuleInv, GoesOn, plan[1].op \notin {"end", "free"}
  PROVE  PlanFits' /\ plan' \in Seq(Ops)
BY StepTaken, LoaderIs DEF ModuleInv, GoesOn, PlanFits

LEMMA CreateSocketKeeps ==
  ASSUME ModuleInv, CreateSocket
  PROVE  ModuleInv'
PROOF
  <1>1. /\ GoesOn /\ UNCHANGED <<machineVars, real, lcpu, moved>> /\ plan[1].op = "socket"
        /\ sock' = sock \/ sock' = [sock EXCEPT ![loader] = "open"]
    <2>1. sock' = sock \/ sock' = [sock EXCEPT ![loader] = "open"]
      BY Zenon DEF CreateSocket
    <2> QED BY <2>1 DEF CreateSocket, GoesOn, Next1
  <1>2. TypeOK /\ PlanFits /\ loader \in Modules /\ loader \in Loaded
    BY <1>1, LoaderIs DEF ModuleInv, GoesOn
  <1>3. PlanFits' /\ plan' \in Seq(Ops)
    BY <1>1, GoesOnFits
  <1>4. /\ \A op : op # "socket" => (Left(op)' <=> Left(op))
        /\ Items(plan') = Items(plan) \ {plan[1]} /\ ~Left("free")
    BY <1>1, <1>2, StepTaken, FirstStep DEF GoesOn
  <1>5. TypeOK'
    BY <1>1, <1>2, <1>3, LoaderTypes DEF TypeOK, GoesOn, machineVars
  <1>6. \A m : Saved(m)' <=> Saved(m)
    BY <1>1, <1>4 DEF Saved, GoesOn, Loaded
  <1>7. \A m \in Modules : CanSend(m) => CanSend(m)'
    BY <1>1, <1>2, <1>4 DEF CanSend, Past, Removing, TypeOK
  <1>8. SavedIsThere' /\ NothingElseSaved' /\ SavedLeadsDown' /\ LoadedOnce' /\ FramesServed'
    BY <1>1, <1>6, <1>7, SavedStays, FramesStay DEF GoesOn
  <1>9. TableServed'
    BY <1>1, <1>6, SavedStays DEF ModuleInv, TableServed, machineVars, GoesOn
  <1>10. SocketGone'
    BY <1>1, <1>2, <1>7, SocketsStay DEF GoesOn, TypeOK
  <1>11. RemovalRestores'
    BY <1>4 DEF RemovalRestores
  <1>12. Protected'
    BY <1>1, <1>4 DEF ModuleInv, Protected, InPatch, machineVars, GoesOn
  <1> QED BY <1>3, <1>5, <1>8, <1>9, <1>10, <1>11, <1>12 DEF ModuleInv

LEMMA SaveTableKeeps ==
  ASSUME ModuleInv, SaveTable
  PROVE  ModuleInv'
PROOF
  <1> DEFINE L == loader
  <1>1. /\ GoesOn /\ UNCHANGED <<machineVars, sock, lcpu, moved>> /\ plan[1].op = "save"
        /\ real' = [real EXCEPT ![L] =
             [c \in SysCalls |-> IF c \in HookedCalls(L) THEN table[c] ELSE Null]]
    BY DEF SaveTable, GoesOn, Next1, HookedCalls
  <1>2. /\ TypeOK /\ PlanFits /\ L \in Modules /\ L \in Loaded
        /\ L = lsmod[Len(lsmod)] /\ DOMAIN lsmod = 1..Len(lsmod) /\ Len(lsmod) \in Nat \ {0}
        /\ lsmod \in Seq(Modules)
    BY <1>1, LoaderIs DEF ModuleInv, GoesOn
  <1>3. PlanFits' /\ plan' \in Seq(Ops)
    BY <1>1, GoesOnFits
  <1>4. /\ \A op : op # "save" => (Left(op)' <=> Left(op))
        /\ Items(plan') = Items(plan) \ {plan[1]} /\ ~Left("free")
        /\ Left("save") /\ ~Left("save")'
    BY <1>1, <1>2, StepTaken, FirstStep, LeftIs DEF GoesOn
  <1>5. \A c \in SysCalls : table[c] # L
    BY <1>2, <1>4, PrmModuleAssumption DEF ModuleInv, TableServed, Serves, Saved, Linux
  <1>6. /\ \A m \in Modules, c \in SysCalls : m # L => real'[m][c] = real[m][c]
        /\ \A c \in SysCalls : real'[L][c] = IF c \in HookedCalls(L) THEN table[c] ELSE Null
        /\ real' \in [Modules -> [SysCalls -> Targets \cup {Null}]]
    BY <1>1, <1>2 DEF TypeOK
  <1>7. TypeOK'
    BY <1>1, <1>2, <1>3, <1>6, LoaderTypes DEF TypeOK, GoesOn, machineVars
  <1>8. \A m : Saved(m)' <=> Saved(m) \/ m = L
    BY <1>1, <1>2, <1>4 DEF Saved, GoesOn, Loaded
  <1>9. SavedIsThere'
    <2>1. \A m \in Modules : HookedCalls(m) \subseteq SysCalls
      BY HookedAreCalls
    <2>2. \A c \in SysCalls : table[c] # Null
      BY <1>2, PrmModuleAssumption DEF TypeOK, Targets, Null, Linux
    <2> QED BY <1>2, <1>6, <1>8, <2>1, <2>2 DEF ModuleInv, SavedIsThere
  <1>10. NothingElseSaved'
    BY <1>6, <1>8 DEF ModuleInv, NothingElseSaved, Serves
  <1>11. SavedLeadsDown'
    <2> SUFFICES ASSUME NEW i \in DOMAIN lsmod, NEW c \in SysCalls
                 PROVE  \/ real'[lsmod[i]][c] \in {Null, Linux}
                        \/ \E j \in DOMAIN lsmod : /\ j < i /\ real'[lsmod[i]][c] = lsmod[j]
                                                   /\ c \in HookedCalls(lsmod[j])
      BY <1>1 DEF SavedLeadsDown, GoesOn
    <2>1. lsmod[i] \in Modules
      BY <1>2, ElementOfSeq
    <2>2. CASE lsmod[i] # L
      BY <1>6, <2>1, <2>2 DEF ModuleInv, SavedLeadsDown
    <2>3. CASE lsmod[i] = L
      <3>1. i = Len(lsmod)
        BY <1>2, <2>3 DEF ModuleInv, LoadedOnce
      <3>2. CASE c \in HookedCalls(L) /\ table[c] # Linux
        <4>1. Serves(table[c], c)
          BY <3>2 DEF ModuleInv, TableServed
        <4>2. PICK j \in DOMAIN lsmod : table[c] = lsmod[j]
          BY <4>1 DEF Serves, Saved, Loaded
        <4>3. j < i
          BY <1>2, <1>5, <3>1, <4>2
        <4> QED BY <1>6, <2>3, <3>2, <4>1, <4>2, <4>3 DEF Serves
      <3>3. CASE ~(c \in HookedCalls(L) /\ table[c] # Linux)
        BY <1>6, <2>3, <3>3
      <3> QED BY <3>2, <3>3
    <2> QED BY <2>2, <2>3
  <1>12. \A m, c : Serves(m, c) => Serves(m, c)'
    BY <1>8 DEF Serves
  <1>13. TableServed'
    BY <1>1, <1>12 DEF ModuleInv, TableServed, machineVars
  <1>14. \A m \in Modules : CanSend(m) => CanSend(m)'
    BY <1>1, <1>4 DEF CanSend, Past, Removing, GoesOn
  <1>15. FramesServed' /\ SocketGone' /\ LoadedOnce'
    BY <1>1, <1>12, <1>14, FramesStay, SocketsStay DEF GoesOn, ModuleInv, LoadedOnce
  <1>16. RemovalRestores'
    BY <1>4 DEF RemovalRestores
  <1>17. Protected'
    BY <1>1, <1>4 DEF ModuleInv, Protected, InPatch, machineVars, GoesOn
  <1> QED BY <1>3, <1>7, <1>9, <1>10, <1>11, <1>13, <1>15, <1>16, <1>17 DEF ModuleInv

(* A step inside a plan that writes no entry of the table, saves nothing and *)
(* leaves the sockets.                                                       *)
LEMMA QuietStepKeeps ==
  ASSUME ModuleInv, GoesOn, UNCHANGED <<table, real, sock>>,
         plan[1].op \in {"unprotect", "protect"}
  PROVE  /\ PlanFits' /\ LoadedOnce' /\ SavedIsThere' /\ NothingElseSaved' /\ SavedLeadsDown'
         /\ TableServed' /\ RemovalRestores' /\ SocketGone' /\ FramesServed'
PROOF
  <1>1. /\ TypeOK /\ PlanFits /\ plan # <<>>
        /\ UNCHANGED <<pid, lsmod, loader, threadVars>>
    BY DEF ModuleInv, GoesOn
  <1>2. /\ \A op : op \notin {"unprotect", "protect"} => (Left(op)' <=> Left(op))
        /\ Items(plan') = Items(plan) \ {plan[1]}
    BY <1>1, StepTaken DEF GoesOn
  <1>3. /\ \A m : Saved(m)' <=> Saved(m)
        /\ \A m : Past(m)' <=> Past(m)
    BY <1>1, <1>2 DEF Saved, Past, Removing, Loaded
  <1>4. /\ SavedIsThere' /\ NothingElseSaved' /\ SavedLeadsDown' /\ LoadedOnce'
        /\ \A m, c : Serves(m, c)' <=> Serves(m, c)
    BY <1>1, <1>3, SavedStays
  <1>5. FramesServed' /\ SocketGone'
    BY <1>1, <1>3, <1>4, FramesStay, SocketsStay DEF CanSend
  <1>6. TableServed'
    BY <1>4 DEF ModuleInv, TableServed
  <1>7. RemovalRestores'
    BY <1>1, <1>2 DEF ModuleInv, RemovalRestores
  <1> QED BY <1>4, <1>5, <1>6, <1>7, GoesOnFits

LEMMA UnprotectKeeps ==
  ASSUME ModuleInv, write_protection_off
  PROVE  ModuleInv'
PROOF
  <1>1. /\ GoesOn /\ plan[1].op = "unprotect" /\ lcpu' \in CPUs
        /\ UNCHANGED <<table, real, sock, moved>>
    BY DEF write_protection_off, GoesOn, Next1, moduleVars
  <1>2. \/ loader = "kernel2" /\ wp' = [wp EXCEPT ![lcpu'] = FALSE] /\ rw' = rw
        \/ loader # "kernel2" /\ rw' = TRUE /\ wp' = wp
    BY Zenon DEF write_protection_off
  <1>3. TypeOK /\ PlanFits /\ loader \in Modules
    BY <1>1, LoaderIs DEF ModuleInv, GoesOn
  <1>4. /\ Left("protect") /\ Left("unprotect") /\ Left("protect")' /\ ~Left("unprotect")'
        /\ plan' \in Seq(Ops)
    BY <1>1, <1>3, FirstStep, StepTaken, LeftIs DEF GoesOn
  <1>5. TypeOK'
    BY <1>1, <1>2, <1>3, <1>4, LoaderTypes DEF TypeOK, GoesOn
  <1>6. Protected'
    <2>1. ~InPatch /\ InPatch'
      BY <1>4 DEF InPatch
    <2>2. (\A p \in CPUs : ~wp[p] => p \in moved) /\ ~rw
      BY <2>1 DEF ModuleInv, Protected
    <2>3. \A p \in CPUs : ~wp'[p] => p \in moved \/ (p = lcpu' /\ loader = "kernel2")
      BY <1>2, <1>3, <2>2 DEF TypeOK
    <2>4. rw' => loader \in {"kernel", "fileaudit"}
      BY <1>2, <1>3, <2>2, PrmModuleAssumption
    <2> QED BY <1>1, <2>1, <2>3, <2>4 DEF Protected, GoesOn
  <1> QED BY <1>1, <1>5, <1>6, QuietStepKeeps DEF ModuleInv

LEMMA ProtectKeeps ==
  ASSUME ModuleInv, write_protection_on
  PROVE  ModuleInv'
PROOF
  <1>1. /\ GoesOn /\ plan[1].op = "protect" /\ lcpu' = lcpu
        /\ UNCHANGED <<table, real, sock>>
    BY DEF write_protection_on, GoesOn, Next1, moduleVars
  <1>2. \/ /\ loader = "kernel2" /\ wp' = [wp EXCEPT ![lcpu] = TRUE] /\ rw' = rw
           /\ moved' = moved \ {lcpu}
        \/ loader # "kernel2" /\ rw' = FALSE /\ wp' = wp /\ moved' = moved
    <2>1. \/ loader = "kernel2" /\ wp' = [wp EXCEPT ![lcpu] = TRUE] /\ rw' = rw
          \/ loader # "kernel2" /\ rw' = FALSE /\ wp' = wp
      BY Zenon DEF write_protection_on
    <2>2. moved' = IF loader = "kernel2" THEN moved \ {lcpu} ELSE moved
      BY DEF write_protection_on
    <2> QED BY <2>1, <2>2
  <1>3. TypeOK /\ PlanFits /\ loader \in Modules
    BY <1>1, LoaderIs DEF ModuleInv, GoesOn
  <1>4. plan' \in Seq(Ops)
    BY <1>1, GoesOnFits
  <1>5. TypeOK'
    BY <1>1, <1>2, <1>3, <1>4, LoaderTypes DEF TypeOK, GoesOn
  <1>6. Protected'
    <2>1. /\ \A p \in CPUs : ~wp[p] => p \in moved \/ (p = lcpu /\ loader = "kernel2")
          /\ rw => loader # "kernel2"
      BY DEF ModuleInv, Protected
    <2>2. \A p \in CPUs : ~wp'[p] => p \in moved'
      BY <1>2, <1>3, <2>1 DEF TypeOK
    <2>3. ~rw'
      BY <1>2, <2>1
    <2> QED BY <2>2, <2>3 DEF Protected
  <1> QED BY <1>1, <1>5, <1>6, QuietStepKeeps DEF ModuleInv

LEMMA PatchEntryKeeps ==
  ASSUME ModuleInv, PatchEntry
  PROVE  ModuleInv'
PROOF
  <1> DEFINE entry == plan[1].entry
  <1>1. /\ GoesOn /\ plan[1].op = "patch" /\ UNCHANGED <<rw, wp, lcpu, moved>>
        /\ UNCHANGED <<real, sock>>
        /\ table' = [table EXCEPT ![entry] = loader]
    BY DEF PatchEntry, GoesOn, Next1, moduleVars
  <1>2. TypeOK /\ PlanFits /\ loader \in Modules /\ loader \in Loaded
    BY <1>1, LoaderIs DEF ModuleInv, GoesOn
  <1>3. PlanFits' /\ plan' \in Seq(Ops)
    BY <1>1, GoesOnFits
  <1>4. /\ entry \in HookedCalls(loader) /\ ~Left("free") /\ ~Left("save")
        /\ \A op : op # "patch" => (Left(op)' <=> Left(op))
    BY <1>1, <1>2, FirstStep, StepTaken DEF GoesOn
  <1>5. TypeOK'
    <2>1. table' \in [SysCalls -> Targets]
      BY <1>1, <1>2 DEF TypeOK, Targets
    <2> QED BY <1>1, <1>2, <1>3, <2>1, LoaderTypes DEF TypeOK, GoesOn
  <1>6. /\ \A m : Saved(m)' <=> Saved(m)
        /\ \A m : Past(m)' <=> Past(m)
    BY <1>1, <1>4 DEF Saved, Past, Removing, Loaded, GoesOn
  <1>7. /\ SavedIsThere' /\ NothingElseSaved' /\ SavedLeadsDown' /\ LoadedOnce'
        /\ \A m, c : Serves(m, c)' <=> Serves(m, c)
    BY <1>1, <1>6, SavedStays DEF GoesOn
  <1>8. FramesServed' /\ SocketGone'
    BY <1>1, <1>6, <1>7, FramesStay, SocketsStay DEF CanSend, GoesOn
  <1>9. TableServed'
    <2>1. Serves(loader, entry)
      BY <1>2, <1>4 DEF Serves, Saved
    <2> SUFFICES ASSUME NEW c \in SysCalls, table'[c] # Linux PROVE Serves(table'[c], c)
      BY <1>7 DEF TableServed
    <2> QED BY <1>1, <1>2, <2>1 DEF ModuleInv, TableServed, TypeOK
  <1>10. RemovalRestores'
    BY <1>4 DEF RemovalRestores
  <1>11. Protected'
    BY <1>1, <1>4 DEF ModuleInv, Protected, InPatch, GoesOn
  <1> QED BY <1>3, <1>5, <1>7, <1>8, <1>9, <1>10, <1>11 DEF ModuleInv

(* What the module loaded last has saved is the kernel's own function or a   *)
(* hook of a module below it.                                                *)
LEMMA RealOfLoader ==
  ASSUME ModuleInv, plan # <<>>, ~Left("save"), NEW c \in HookedCalls(loader)
  PROVE  /\ c \in SysCalls /\ real[loader][c] \in Targets /\ real[loader][c] # loader
         /\ real[loader][c] # Linux => Serves(real[loader][c], c)
PROOF
  <1>1. /\ TypeOK /\ loader \in Modules /\ loader \in Loaded /\ loader = lsmod[Len(lsmod)]
        /\ DOMAIN lsmod = 1..Len(lsmod) /\ Len(lsmod) \in Nat \ {0} /\ lsmod \in Seq(Modules)
    BY LoaderIs DEF ModuleInv
  <1>2. c \in SysCalls
    BY <1>1, HookedAreCalls
  <1>3. real[loader][c] # Null
    BY <1>1 DEF ModuleInv, SavedIsThere, Saved
  <1>4. CASE real[loader][c] = Linux
    BY <1>1, <1>2, <1>4, PrmModuleAssumption DEF Targets, Linux
  <1>5. CASE real[loader][c] # Linux
    <2>1. PICK j \in DOMAIN lsmod : /\ j < Len(lsmod) /\ real[loader][c] = lsmod[j]
                                    /\ c \in HookedCalls(lsmod[j])
      BY <1>1, <1>2, <1>3, <1>5 DEF ModuleInv, SavedLeadsDown
    <2>2. lsmod[j] # loader /\ lsmod[j] \in Modules
      BY <1>1, <2>1, ElementOfSeq DEF ModuleInv, LoadedOnce
    <2> QED BY <1>2, <2>1, <2>2 DEF Targets, Serves, Saved, Loaded
  <1> QED BY <1>4, <1>5

LEMMA RestoreEntryKeeps ==
  ASSUME ModuleInv, RestoreEntry
  PROVE  ModuleInv'
PROOF
  <1> DEFINE entry == plan[1].entry
  <1>1. /\ GoesOn /\ plan[1].op = "restore" /\ UNCHANGED <<rw, wp, lcpu, moved>>
        /\ UNCHANGED <<real, sock>>
        /\ table' = [table EXCEPT ![entry] = real[loader][entry]]
    BY DEF RestoreEntry, GoesOn, Next1, moduleVars
  <1>2. TypeOK /\ PlanFits /\ loader \in Modules /\ loader \in Loaded /\ plan # <<>>
    BY <1>1, LoaderIs DEF ModuleInv, GoesOn
  <1>3. PlanFits' /\ plan' \in Seq(Ops)
    BY <1>1, GoesOnFits
  <1>4. /\ entry \in HookedCalls(loader) /\ Left("free") /\ Left("restore")
        /\ plan[1] = [op |-> "restore", entry |-> entry]
        /\ \A op : op # "restore" => (Left(op)' <=> Left(op))
        /\ Items(plan') = Items(plan) \ {plan[1]}
    BY <1>1, <1>2, FirstStep, StepTaken, LeftIs DEF GoesOn
  <1>5. ~Left("save")
    BY <1>2, <1>4, InitOrExit
  <1>6. /\ entry \in SysCalls /\ real[loader][entry] \in Targets
        /\ real[loader][entry] # loader
        /\ real[loader][entry] # Linux => Serves(real[loader][entry], entry)
    BY <1>2, <1>4, <1>5, RealOfLoader
  <1> HIDE DEF entry
  <1>7. TypeOK'
    <2>1. table' \in [SysCalls -> Targets]
      BY <1>1, <1>2, <1>6 DEF TypeOK
    <2> QED BY <1>1, <1>2, <1>3, <2>1, LoaderTypes DEF TypeOK, GoesOn
  <1>8. /\ \A m : Saved(m)' <=> Saved(m)
        /\ \A m : ~Past(m)
    BY <1>1, <1>4 DEF Saved, Past, Loaded, GoesOn
  <1>9. /\ SavedIsThere' /\ NothingElseSaved' /\ SavedLeadsDown' /\ LoadedOnce'
        /\ \A m, c : Serves(m, c)' <=> Serves(m, c)
    BY <1>1, <1>8, SavedStays DEF GoesOn
  <1>10. FramesServed' /\ SocketGone'
    BY <1>1, <1>8, <1>9, FramesStay, SocketsStay DEF CanSend, GoesOn
  <1>11. TableServed'
    <2> SUFFICES ASSUME NEW c \in SysCalls, table'[c] # Linux PROVE Serves(table'[c], c)
      BY <1>9 DEF TableServed
    <2> QED BY <1>1, <1>2, <1>6 DEF ModuleInv, TableServed, TypeOK
  <1>12. RemovalRestores'
    <2> SUFFICES ASSUME NEW c \in SysCalls, table'[c] = loader
                 PROVE  [op |-> "restore", entry |-> c] \in Items(plan')
      BY <1>1 DEF RemovalRestores, GoesOn
    <2>1. c # entry /\ table[c] = loader
      BY <1>1, <1>2, <1>6 DEF TypeOK
    <2>2. [op |-> "restore", entry |-> c] \in Items(plan)
      BY <1>4, <2>1 DEF ModuleInv, RemovalRestores
    <2> QED BY <1>4, <2>1, <2>2
  <1>13. Protected'
    BY <1>1, <1>4 DEF ModuleInv, Protected, InPatch, GoesOn
  <1> QED BY <1>3, <1>7, <1>9, <1>10, <1>11, <1>12, <1>13 DEF ModuleInv

LEMMA ReleaseSocketKeeps ==
  ASSUME ModuleInv, ReleaseSocket
  PROVE  ModuleInv'
PROOF
  <1>1. /\ GoesOn /\ plan[1].op = "release" /\ UNCHANGED <<machineVars, real, lcpu, moved>>
        /\ \E x \in {"released", Null} : sock' = [sock EXCEPT ![loader] = x]
    BY DEF ReleaseSocket, GoesOn, Next1
  <1>2. TypeOK /\ PlanFits /\ loader \in Modules /\ loader \in Loaded /\ plan # <<>>
    BY <1>1, LoaderIs DEF ModuleInv, GoesOn
  <1>3. PlanFits' /\ plan' \in Seq(Ops)
    BY <1>1, GoesOnFits
  <1>4. /\ Left("free") /\ ~Left("restore") /\ ~Left("release")'
        /\ \A op : op # "release" => (Left(op)' <=> Left(op))
        /\ Items(plan') = Items(plan) \ {plan[1]}
    BY <1>1, <1>2, FirstStep, StepTaken DEF GoesOn
  <1>5. TypeOK'
    <2>1. sock' \in [Modules -> {Null, "open", "released"}]
      BY <1>1, <1>2 DEF TypeOK
    <2> QED BY <1>1, <1>2, <1>3, <2>1, LoaderTypes DEF TypeOK, GoesOn, machineVars
  <1>6. \A m : Saved(m)' <=> Saved(m)
    BY <1>1, <1>4 DEF Saved, Loaded, GoesOn
  <1>7. Past(loader)' /\ \A m : Past(m) => m = loader
    BY <1>1, <1>4 DEF Past, Removing, GoesOn
  <1>8. \A m \in Modules : CanSend(m) => CanSend(m)'
    BY <1>1, <1>2, <1>7 DEF CanSend, TypeOK, GoesOn
  <1>9. /\ SavedIsThere' /\ NothingElseSaved' /\ SavedLeadsDown' /\ LoadedOnce'
        /\ \A m, c : Serves(m, c)' <=> Serves(m, c)
    BY <1>1, <1>6, SavedStays DEF GoesOn
  <1>10. FramesServed'
    BY <1>1, <1>8, <1>9, FramesStay DEF GoesOn
  <1>11. SocketGone'
    BY <1>1, <1>2, <1>8, SocketsStay DEF GoesOn, TypeOK
  <1>12. TableServed'
    BY <1>1, <1>9 DEF ModuleInv, TableServed, machineVars
  <1>13. RemovalRestores'
    BY <1>1, <1>4 DEF ModuleInv, RemovalRestores, machineVars, GoesOn
  <1>14. Protected'
    BY <1>1, <1>4 DEF ModuleInv, Protected, InPatch, machineVars, GoesOn
  <1> QED BY <1>3, <1>5, <1>9, <1>10, <1>11, <1>12, <1>13, <1>14 DEF ModuleInv

(* The loader comes to an end with the module loaded: its init function is   *)
(* done, or the kernel kills it inside a patch.                              *)
LEMMA LoaderLeaves ==
  ASSUME ModuleInv, plan # <<>>, UNCHANGED <<machineVars, moduleVars, lsmod, threadVars>>,
         loader' = "none", plan' = <<>>, ~Left("save"), \A m : ~Past(m), ~InPatch \/ ~CanWrite,
         UNCHANGED <<moved, lcpu>>
  PROVE  /\ PlanFits' /\ LoadedOnce' /\ SavedIsThere' /\ NothingElseSaved' /\ SavedLeadsDown'
         /\ TableServed' /\ RemovalRestores' /\ SocketGone' /\ Protected' /\ FramesServed'
PROOF
  <1>1. UNCHANGED <<table, rw, wp, real, sock, pid>>
    BY DEF machineVars, moduleVars
  <1>2. "none" \notin Modules
    BY PrmModuleAssumption
  <1>3. \A op : ~Left(op)'
    BY DEF Left
  <1>4. \A m : Saved(m)' <=> Saved(m)
    BY <1>3 DEF Saved, Loaded
  <1>5. /\ SavedIsThere' /\ NothingElseSaved' /\ SavedLeadsDown' /\ LoadedOnce'
        /\ \A m, c : Serves(m, c)' <=> Serves(m, c)
    BY <1>1, <1>4, SavedStays
  <1>6. FramesServed' /\ SocketGone'
    BY <1>1, <1>5, FramesStay, SocketsStay DEF CanSend
  <1>7. PlanFits' /\ RemovalRestores'
    BY <1>3 DEF PlanFits, RemovalRestores
  <1>8. TableServed'
    BY <1>1, <1>5 DEF ModuleInv, TableServed
  <1>9. Protected'
    BY <1>1 DEF ModuleInv, Protected, CanWrite
  <1> QED BY <1>5, <1>6, <1>7, <1>8, <1>9

LEMMA LoaderFaultsKeeps ==
  ASSUME ModuleInv, LoaderFaults
  PROVE  ModuleInv'
PROOF
  <1>1. /\ plan # <<>> /\ plan[1].op \in {"patch", "restore"} /\ ~CanWrite
        /\ UNCHANGED <<machineVars, moduleVars, lsmod, lcpu, moved, servers, threadVars>>
        /\ loader' = "none" /\ plan' = <<>> /\ stuck' = stuck \cup {loader}
    BY DEF LoaderFaults
  <1>2. TypeOK /\ PlanFits /\ loader \in Modules
    BY <1>1, LoaderIs DEF ModuleInv
  <1>3. /\ ~Left("save")
        /\ \A m : ~Past(m)
    <2>1. plan[1].op = "patch" => ~Left("save") /\ ~Left("free")
      BY <1>1, <1>2, FirstStep
    <2>2. plan[1].op = "restore" => Left("free") /\ Left("restore")
      BY <1>1, <1>2, FirstStep, LeftIs
    <2>3. Left("free") => ~Left("save")
      BY <1>1, <1>2, InitOrExit
    <2> QED BY <1>1, <2>1, <2>2, <2>3 DEF Past, Removing
  <1>4. TypeOK'
    <2>1. <<>> \in Seq(Ops)
      BY EmptySeq
    <2> QED BY <1>1, <1>2, <2>1, LoaderTypes DEF TypeOK, machineVars, moduleVars
  <1> QED BY <1>1, <1>3, <1>4, LoaderLeaves DEF ModuleInv

LEMMA EndInitKeeps ==
  ASSUME ModuleInv, EndInit
  PROVE  ModuleInv'
PROOF
  <1>1. /\ plan # <<>> /\ plan[1].op = "end" /\ plan' = Tail(plan) /\ loader' = "none"
        /\ UNCHANGED <<machineVars, moduleVars, lsmod, lcpu, moved, stuck, servers, threadVars>>
    BY DEF EndInit, Next1
  <1>2. TypeOK /\ PlanFits /\ plan' = <<>>
    BY <1>1, StepTaken DEF ModuleInv
  <1>3. ~Left("save") /\ ~Left("free") /\ Items(plan) = {plan[1]}
    BY <1>1, <1>2, FirstStep
  <1>4. ~InPatch /\ \A m : ~Past(m)
    BY <1>1, <1>3, LeftIs DEF InPatch, Past, Removing
  <1>5. TypeOK'
    <2>1. <<>> \in Seq(Ops)
      BY EmptySeq
    <2> QED BY <1>1, <1>2, <2>1, LoaderTypes DEF TypeOK, machineVars, moduleVars
  <1> QED BY <1>1, <1>2, <1>3, <1>4, <1>5, LoaderLeaves DEF ModuleInv

(* insmod and rmmod begin. *)
LEMMA LoaderBegins ==
  ASSUME ModuleInv, loader = "none", NEW m \in Modules, loader' = m,
         UNCHANGED <<machineVars, moduleVars, lcpu, moved, stuck, servers, threadVars>>,
         \A n : Saved(n)' <=> Saved(n)
  PROVE  /\ SavedIsThere' /\ NothingElseSaved' /\ TableServed' /\ Protected' /\ FramesServed'
PROOF
  <1>1. UNCHANGED <<table, rw, wp, real, sock, pid>>
    BY DEF machineVars, moduleVars
  <1>2. \A n, c : Serves(n, c)' <=> Serves(n, c)
    BY DEF Serves
  <1>3. SavedIsThere' /\ NothingElseSaved' /\ TableServed'
    BY <1>1, <1>2 DEF ModuleInv, SavedIsThere, NothingElseSaved, TableServed
  <1>4. "none" \notin Modules
    BY PrmModuleAssumption
  <1>5. \A n \in Modules : ~Past(n)
    BY <1>4 DEF Past, Removing
  <1>6. FramesServed'
    BY <1>1, <1>2, <1>5, FramesStay DEF CanSend
  <1>7. Protected'
    BY <1>1 DEF ModuleInv, Protected
  <1> QED BY <1>3, <1>6, <1>7

LEMMA LoadedTypes ==
  ASSUME ModuleInv
  PROVE  /\ lsmod \in Seq(Modules) /\ DOMAIN lsmod = 1..Len(lsmod) /\ Len(lsmod) \in Nat
         /\ \A i \in DOMAIN lsmod : lsmod[i] \in Modules
         /\ Loaded \subseteq Modules
BY LenProperties, ElementOfSeq DEF ModuleInv, TypeOK, Loaded

LEMMA InsmodKeeps ==
  ASSUME ModuleInv, NEW m \in Modules, Insmod(m)
  PROVE  ModuleInv'
PROOF
  <1> DEFINE n == Len(lsmod)
             newplan == InitOf(m) \o Step("end")
  <1>1. /\ loader = "none" /\ m \notin Loaded /\ lsmod' = Append(lsmod, m)
        /\ loader' = m /\ plan' = newplan
        /\ UNCHANGED <<machineVars, moduleVars, lcpu, moved, stuck, servers, threadVars>>
    BY DEF Insmod
  <1>2. newplan \in Seq(Ops) /\ InTurn(m, newplan) /\ Items(newplan) = InitItems(m)
    BY InitPlan DEF Part
  <1>3. /\ lsmod' \in Seq(Modules) /\ Len(lsmod') = n + 1 /\ n \in Nat
        /\ DOMAIN lsmod' = 1..n + 1 /\ DOMAIN lsmod = 1..n
        /\ lsmod'[n + 1] = m /\ \A i \in 1..n : lsmod'[i] = lsmod[i]
    BY <1>1, LoadedTypes, AppendProperties, LenProperties
  <1> HIDE DEF n, newplan
  <1>4. Left("save")' /\ ~Left("free")'
    <2>1. Items(plan') = InitItems(m)
      BY <1>1, <1>2
    <2>2. [op |-> "save"] \in Items(plan') /\ \A x \in Items(plan') : x.op # "free"
      BY <2>1 DEF InitItems
    <2> QED BY <2>2, LeftIs
  <1>5. Loaded' = Loaded \cup {m}
    BY <1>3 DEF Loaded
  <1>6. \A k : Saved(k)' <=> Saved(k)
    <2> SUFFICES ASSUME NEW k PROVE Saved(k)' <=> Saved(k)
      OBVIOUS
    <2>1. CASE k = m
      BY <1>1, <1>4, <2>1 DEF Saved
    <2>2. CASE k # m
      <3>1. k \in Loaded => k # "none"
        BY LoadedTypes, PrmModuleAssumption
      <3>2. Saved(k)' <=> k \in Loaded
        BY <1>1, <1>5, <2>2 DEF Saved
      <3> QED BY <1>1, <3>1, <3>2 DEF Saved
    <2> QED BY <2>1, <2>2
  <1>7. /\ SavedIsThere' /\ NothingElseSaved' /\ TableServed' /\ Protected' /\ FramesServed'
    BY <1>1, <1>6, LoaderBegins
  <1>8. TypeOK'
    BY <1>1, <1>2, <1>3 DEF ModuleInv, TypeOK, machineVars, moduleVars, threadVars
  <1>9. PlanFits'
    <2>1. newplan # <<>>
      <3>1. [op |-> "end"] \in Items(newplan)
        BY <1>2 DEF InitItems
      <3> QED BY <3>1 DEF Items
    <2>2. RestOf(m, newplan, InitItems(m))
      BY <1>2, <2>1 DEF RestOf
    <2>3. lsmod' # <<>> /\ lsmod'[Len(lsmod')] = m /\ m # "none"
      BY <1>3, EmptySeq, PrmModuleAssumption
    <2> QED BY <1>1, <2>2, <2>3 DEF PlanFits, PlanOK
  <1>10. LoadedOnce'
    <2>1. \A i \in 1..n : lsmod[i] # m
      BY <1>1, <1>3 DEF Loaded
    <2> QED BY <1>3, <2>1 DEF ModuleInv, LoadedOnce
  <1>11. SavedLeadsDown'
    <2> SUFFICES ASSUME NEW i \in DOMAIN lsmod', NEW c \in SysCalls
                 PROVE  \/ real[lsmod'[i]][c] \in {Null, Linux}
                        \/ \E j \in DOMAIN lsmod' : /\ j < i /\ real[lsmod'[i]][c] = lsmod'[j]
                                                    /\ c \in HookedCalls(lsmod'[j])
      BY <1>1 DEF SavedLeadsDown, moduleVars
    <2>1. CASE i = n + 1
      <3>1. real[m][c] = Null
        BY <1>1 DEF ModuleInv, NothingElseSaved, Serves, Saved
      <3> QED BY <1>3, <2>1, <3>1
    <2>2. CASE i \in 1..n
      <3>1. \/ real[lsmod[i]][c] \in {Null, Linux}
            \/ \E j \in 1..n : /\ j < i /\ real[lsmod[i]][c] = lsmod[j]
                               /\ c \in HookedCalls(lsmod[j])
        BY <1>3, <2>2 DEF ModuleInv, SavedLeadsDown
      <3>2. \A j \in 1..n : j \in DOMAIN lsmod' /\ lsmod'[j] = lsmod[j]
        BY <1>3
      <3> QED BY <2>2, <3>1, <3>2
    <2> QED BY <1>3, <2>1, <2>2
  <1>12. RemovalRestores'
    BY <1>4 DEF RemovalRestores
  <1>13. SocketGone'
    <2>1. \A k \in Modules : ~Past(k)
      BY <1>1, PrmModuleAssumption DEF Past, Removing
    <2> QED BY <1>1, <1>5, <2>1 DEF ModuleInv, SocketGone, moduleVars
  <1> QED BY <1>7, <1>8, <1>9, <1>10, <1>11, <1>12, <1>13 DEF ModuleInv

LEMMA RmmodKeeps ==
  ASSUME ModuleInv, Rmmod
  PROVE  ModuleInv'
PROOF
  <1> DEFINE m == lsmod[Len(lsmod)]
             newplan == ExitOf(m) \o Step("free")
  <1>1. /\ loader = "none" /\ lsmod # <<>> /\ lsmod' = lsmod
        /\ loader' = m /\ plan' = newplan
        /\ UNCHANGED <<machineVars, moduleVars, lcpu, moved, stuck, servers, threadVars>>
    BY DEF Rmmod
  <1>2. Len(lsmod) \in DOMAIN lsmod /\ m \in Modules /\ m \in Loaded /\ m # "none"
    BY <1>1, LoadedTypes, EmptySeq, PrmModuleAssumption DEF Loaded
  <1> HIDE DEF m
  <1>3. newplan \in Seq(Ops) /\ InTurn(m, newplan) /\ Items(newplan) = ExitItems(m)
    BY <1>2, ExitPlan DEF Part
  <1> HIDE DEF newplan
  <1>4. ~Left("save")'
    BY <1>1, <1>3, LeftIs DEF ExitItems
  <1>5. \A k : Saved(k)' <=> Saved(k)
    BY <1>1, <1>2, <1>4, PrmModuleAssumption DEF Saved, Loaded, ModuleInv, TypeOK
  <1>6. /\ SavedIsThere' /\ NothingElseSaved' /\ TableServed' /\ Protected' /\ FramesServed'
    BY <1>1, <1>2, <1>5, LoaderBegins
  <1>7. LoadedOnce' /\ SavedLeadsDown'
    BY <1>1 DEF ModuleInv, LoadedOnce, SavedLeadsDown, moduleVars
  <1>8. TypeOK'
    BY <1>1, <1>2, <1>3 DEF ModuleInv, TypeOK, machineVars, moduleVars, threadVars
  <1>9. PlanFits'
    <2>1. newplan # <<>>
      <3>1. [op |-> "free"] \in Items(newplan)
        BY <1>3 DEF ExitItems
      <3> QED BY <3>1 DEF Items
    <2>2. RestOf(m, newplan, ExitItems(m))
      BY <1>3, <2>1 DEF RestOf
    <2> QED BY <1>1, <1>2, <2>2 DEF PlanFits, PlanOK, m
  <1>10. RemovalRestores'
    <2> SUFFICES ASSUME NEW c \in SysCalls, table[c] = m
                 PROVE  [op |-> "restore", entry |-> c] \in Items(newplan)
      BY <1>1 DEF RemovalRestores, machineVars
    <2>1. m # Linux
      BY <1>2, PrmModuleAssumption DEF Linux
    <2>2. c \in HookedCalls(m)
      BY <2>1 DEF ModuleInv, TableServed, Serves
    <2> QED BY <1>3, <2>2 DEF ExitItems
  <1>11. SocketGone'
    <2>1. \A k \in Modules : ~Past(k)
      BY <1>1, PrmModuleAssumption DEF Past, Removing
    <2> QED BY <1>1, <2>1 DEF ModuleInv, SocketGone, moduleVars, Loaded
  <1> QED BY <1>6, <1>7, <1>8, <1>9, <1>10, <1>11 DEF ModuleInv

(* The removal comes to its end: nothing leads to the module that goes. *)
LEMMA FreeTextKeeps ==
  ASSUME ModuleInv, FreeText
  PROVE  ModuleInv'
PROOF
  <1> DEFINE n == Len(lsmod)
             m == loader
             left(f) == IF f.mod = m THEN [f EXCEPT !.at = "gone"] ELSE f
  <1>1. /\ plan # <<>> /\ plan[1].op = "free" /\ plan' = Tail(plan)
        /\ loader' = "none" /\ lsmod' = SubSeq(lsmod, 1, n - 1)
        /\ UNCHANGED <<table, rw, wp, lcpu, moved, stuck, servers, call>>
    BY DEF FreeText, Next1, machineVars
  <1>2. /\ real' = [real EXCEPT ![m] = [c \in SysCalls |-> Null]]
        /\ sock' = [sock EXCEPT ![m] = Null]
        /\ pid' = [pid EXCEPT ![m] = FALSE]
    BY DEF FreeText
  <1>3. frames' = [t \in Threads |-> [i \in DOMAIN frames[t] |-> left(frames[t][i])]]
    BY DEF FreeText
  <1>4. /\ TypeOK /\ PlanFits /\ m \in Modules /\ m \in Loaded /\ lsmod[n] = m
        /\ lsmod \in Seq(Modules) /\ DOMAIN lsmod = 1..n /\ n \in Nat \ {0}
    BY <1>1, LoaderIs DEF ModuleInv
  <1>5. plan' = <<>> /\ Items(plan) = {plan[1]}
    BY <1>1, <1>4, StepTaken, FirstStep
  <1>6. /\ ~Left("save") /\ ~Left("protect") /\ ~Left("restore") /\ Left("free")
        /\ \A op : ~Left(op)'
    <2>1. \A op : Left(op) <=> op = "free"
      BY <1>1, <1>5, LeftIs
    <2>2. \A op : ~Left(op)'
      BY <1>5 DEF Left
    <2> QED BY <2>1, <2>2
  <1>7. /\ lsmod' \in Seq(Modules) /\ DOMAIN lsmod' = 1..n - 1
        /\ \A i \in 1..n - 1 : lsmod'[i] = lsmod[i]
    <2>1. /\ 1 \in Int /\ n - 1 \in Int
          /\ \A i \in 1..n - 1 : lsmod[i] \in Modules
      BY <1>4, ElementOfSeq
    <2>2. /\ SubSeq(lsmod, 1, n - 1) \in Seq(Modules)
          /\ Len(SubSeq(lsmod, 1, n - 1)) = IF 1 <= n - 1 THEN (n - 1) - 1 + 1 ELSE 0
          /\ \A i \in 1..(n - 1) - 1 + 1 : SubSeq(lsmod, 1, n - 1)[i] = lsmod[1 + i - 1]
      BY <2>1, SubSeqProperties
    <2>3. /\ Len(lsmod') = n - 1 /\ lsmod' \in Seq(Modules)
          /\ \A i \in 1..n - 1 : lsmod'[i] = lsmod[i]
      BY <1>1, <1>4, <2>2
    <2> QED BY <2>3, LenProperties
  <1> HIDE DEF n, m
  <1>8. \A i \in 1..n - 1 : i \in DOMAIN lsmod /\ lsmod[i] # m
    <2>1. \A i \in 1..n - 1 : i \in DOMAIN lsmod /\ n \in DOMAIN lsmod /\ i # n
      BY <1>4
    <2> QED BY <1>4, <2>1 DEF ModuleInv, LoadedOnce
  <1>9. Loaded' = Loaded \ {m}
    <2>1. \A i \in 1..n : i = n \/ i \in 1..n - 1
      BY <1>4
    <2> QED BY <1>4, <1>7, <1>8, <2>1 DEF Loaded
  <1>10. \A k, c : Serves(k, c)' <=> Serves(k, c) /\ k # m
    <2>1. \A k : Saved(k)' <=> Saved(k) /\ k # m
      BY <1>6, <1>9 DEF Saved
    <2> QED BY <2>1 DEF Serves
  <1>11. TypeOK'
    <2>1. frames' \in [Threads -> Seq(FrameSet)]
      <3>1. ASSUME NEW t \in Threads
            PROVE  [i \in DOMAIN frames[t] |-> left(frames[t][i])] \in Seq(FrameSet)
        <4>1. frames[t] \in Seq(FrameSet)
          BY <1>4 DEF TypeOK, FrameSet
        <4>2. DOMAIN frames[t] = 1..Len(frames[t]) /\ Len(frames[t]) \in Nat
          BY <4>1, LenProperties
        <4>3. \A i \in 1..Len(frames[t]) : frames[t][i] \in FrameSet
          BY <4>1, <4>2, ElementOfSeq
        <4>4. \A f \in FrameSet : left(f) \in FrameSet
          BY DEF FrameSet, Places
        <4> HIDE DEF left
        <4>5. [i \in 1..Len(frames[t]) |-> left(frames[t][i])] \in [1..Len(frames[t]) -> FrameSet]
          BY <4>3, <4>4
        <4> QED BY <4>2, <4>5
      <3> HIDE DEF left
      <3> QED BY <1>3, <3>1
    <2>2. plan' \in Seq(Ops)
      BY <1>5, EmptySeq
    <2>3. /\ real' \in [Modules -> [SysCalls -> Targets \cup {Null}]]
          /\ sock' \in [Modules -> {Null, "open", "released"}]
          /\ pid' \in [Modules -> BOOLEAN]
      BY <1>2, <1>4 DEF TypeOK
    <2> QED BY <1>1, <1>4, <1>7, <2>1, <2>2, <2>3 DEF TypeOK, FrameSet
  <1>12. PlanFits' /\ RemovalRestores'
    BY <1>1, <1>5, <1>6 DEF PlanFits, RemovalRestores
  <1>13. LoadedOnce'
    BY <1>7, <1>8 DEF ModuleInv, LoadedOnce
  <1>14. SavedIsThere' /\ NothingElseSaved'
    <2>1. /\ \A k \in Modules, c \in SysCalls :
               real'[k][c] = IF k = m THEN Null ELSE real[k][c]
          /\ \A k \in Modules : k # m => real'[k] = real[k]
      BY <1>2, <1>4 DEF TypeOK
    <2>2. \A k : Saved(k)' => Saved(k) /\ k # m
      BY <1>6, <1>9 DEF Saved
    <2>3. SavedIsThere'
      BY <2>1, <2>2 DEF ModuleInv, SavedIsThere
    <2>4. NothingElseSaved'
      BY <1>10, <2>1 DEF ModuleInv, NothingElseSaved
    <2> QED BY <2>3, <2>4
  <1>15. SavedLeadsDown'
    <2> SUFFICES ASSUME NEW i \in 1..n - 1, NEW c \in SysCalls
                 PROVE  \/ real'[lsmod[i]][c] \in {Null, Linux}
                        \/ \E j \in 1..n - 1 : /\ j < i /\ real'[lsmod[i]][c] = lsmod[j]
                                               /\ c \in HookedCalls(lsmod[j])
      BY <1>7 DEF SavedLeadsDown
    <2>1. i \in DOMAIN lsmod /\ lsmod[i] # m
      BY <1>8
    <2>2. lsmod[i] \in Modules
      BY <1>4, <2>1, ElementOfSeq
    <2>3. real'[lsmod[i]] = real[lsmod[i]]
      BY <1>2, <1>4, <2>1, <2>2 DEF TypeOK
    <2>4. \/ real[lsmod[i]][c] \in {Null, Linux}
          \/ \E j \in 1..n : /\ j < i /\ real[lsmod[i]][c] = lsmod[j]
                             /\ c \in HookedCalls(lsmod[j])
      BY <1>4, <2>1 DEF ModuleInv, SavedLeadsDown
    <2>5. \A j \in 1..n : j < i => j \in 1..n - 1
      BY <1>4
    <2> QED BY <2>3, <2>4, <2>5
  <1>16. TableServed'
    <2>1. ASSUME NEW c \in SysCalls PROVE table[c] # m
      <3>1. [op |-> "restore", entry |-> c] \notin Items(plan)
        BY <1>6, LeftIs
      <3> QED BY <1>6, <3>1 DEF ModuleInv, RemovalRestores, m
    <2> QED BY <1>1, <1>10, <2>1 DEF ModuleInv, TableServed
  <1>17. \A k : Past(k) => k = m
    BY DEF Past, Removing, m
  <1>18. SocketGone'
    <2> SUFFICES ASSUME NEW k \in Modules
                 PROVE  /\ sock'[k] # "open" /\ pid'[k] => Past(k)'
                        /\ k \notin Loaded' => sock'[k] = Null /\ ~pid'[k]
      BY DEF SocketGone
    <2>1. CASE k = m
      BY <1>2, <1>4, <2>1 DEF TypeOK
    <2>2. CASE k # m
      <3>1. sock'[k] = sock[k] /\ pid'[k] = pid[k]
        BY <1>2, <1>4, <2>2 DEF TypeOK
      <3> QED BY <1>9, <1>17, <2>2, <3>1 DEF ModuleInv, SocketGone
    <2> QED BY <2>1, <2>2
  <1>19. Protected'
    BY <1>1, <1>6 DEF ModuleInv, Protected, InPatch
  <1>20. FramesServed'
    <2>1. ASSUME NEW c, NEW f \in FrameSet, NEW g, InHook(c, f), g = left(f)
          PROVE  InHook(c, g)'
      <3>1. CASE f.mod = m
        <4>1. g.at = "gone"
          BY <2>1, <3>1 DEF FrameSet
        <4> QED BY <4>1 DEF InHook
      <3>2. CASE f.mod # m
        <4>1. g = f /\ ~Past(f.mod)
          BY <1>17, <2>1, <3>2
        <4>2. sock'[f.mod] = sock[f.mod]
          BY <1>2, <1>4, <3>2 DEF TypeOK, FrameSet
        <4>3. f.at # "gone" => /\ Serves(f.mod, c)'
                               /\ f.at = "send" => sock'[f.mod] = "open"
          BY <1>10, <2>1, <3>2, <4>1, <4>2 DEF InHook
        <4> QED BY <4>1, <4>3 DEF InHook
      <3> QED BY <3>1, <3>2
    <2>2. /\ \A t \in Threads : DOMAIN frames'[t] = DOMAIN frames[t]
          /\ \A t \in Threads : \A i \in DOMAIN frames[t] : frames'[t][i] = left(frames[t][i])
      BY <1>3
    <2> HIDE DEF left
    <2> SUFFICES ASSUME NEW t \in Threads, NEW i \in DOMAIN frames[t]
                 PROVE  /\ call'[t] # "none"
                        /\ \A c, f : c = call'[t] /\ f = frames'[t][i] => InHook(c, f)'
      BY <2>2 DEF FramesServed
    <2>3. /\ call[t] # "none" /\ InHook(call[t], frames[t][i]) /\ frames[t][i] \in FrameSet
      <3>1. frames[t] # <<>>
        OBVIOUS
      <3> QED BY <3>1, InFrames DEF ModuleInv, FramesServed
    <2>4. \A c : InHook(c, frames[t][i]) => \A g : g = left(frames[t][i]) => InHook(c, g)'
      BY <2>1, <2>3
    <2> QED BY <1>1, <2>2, <2>3, <2>4
  <1> QED BY <1>11, <1>12, <1>13, <1>14, <1>15, <1>16, <1>18, <1>19, <1>20 DEF ModuleInv

LEMMA LoaderStepKeeps ==
  ASSUME ModuleInv, LoaderStep
  PROVE  ModuleInv'
BY CreateSocketKeeps, SaveTableKeeps, UnprotectKeeps, PatchEntryKeeps, ProtectKeeps,
   RestoreEntryKeeps, LoaderFaultsKeeps, ReleaseSocketKeeps, EndInitKeeps, FreeTextKeeps
   DEF LoaderStep

------------------------------------------------------------------------------
(* The specification. *)

LEMMA InitHolds ==
  ASSUME Init
  PROVE  ModuleInv
PROOF
  <1> USE DEF Init
  <1>1. Loaded = {} /\ \A op : ~Left(op)
    BY DEF Loaded, Left
  <1>2. TypeOK
    BY EmptySeq DEF TypeOK, Targets
  <1>3. PlanFits /\ LoadedOnce /\ SavedLeadsDown
    BY DEF PlanFits, LoadedOnce, SavedLeadsDown
  <1>4. SavedIsThere /\ NothingElseSaved
    BY <1>1 DEF SavedIsThere, NothingElseSaved, Saved
  <1>5. TableServed /\ RemovalRestores
    BY <1>1 DEF TableServed, RemovalRestores
  <1>6. SocketGone /\ Protected /\ FramesServed
    BY DEF SocketGone, Protected, FramesServed
  <1> QED BY <1>2, <1>3, <1>4, <1>5, <1>6 DEF ModuleInv

LEMMA StutterKeeps ==
  ASSUME ModuleInv, UNCHANGED vars
  PROVE  ModuleInv'
PROOF
  <1>1. UNCHANGED <<machineVars, moduleVars, loaderVars, servers, threadVars>>
    BY DEF vars
  <1>2. TypeOK'
    BY <1>1 DEF ModuleInv, TypeOK, machineVars, moduleVars, loaderVars, threadVars
  <1>3. LoaderInv'
    BY <1>1, LoaderInvStays DEF ModuleInv, LoaderInv, moduleVars
  <1>4. SocketGone' /\ FramesServed'
    BY <1>1, HookStays DEF ModuleInv, SocketGone, FramesServed, Loaded, moduleVars, loaderVars,
       threadVars
  <1> QED BY <1>2, <1>3, <1>4 DEF ModuleInv, LoaderInv

LEMMA NextKeeps ==
  ASSUME ModuleInv, [Next]_vars
  PROVE  ModuleInv'
PROOF
  <1>1. CASE \E m \in Modules : Insmod(m)
    BY <1>1, InsmodKeeps
  <1>2. CASE \E m \in Modules : ServerConnects(m) \/ ServerDisconnects(m) \/ ServerEnds(m)
    BY <1>2, ServerKeeps
  <1>3. CASE \E t \in Threads : ThreadStep(t)
    BY <1>3, ThreadStepKeeps
  <1> QED BY <1>1, <1>2, <1>3, RmmodKeeps, MigrateKeeps, LoaderStepKeeps, StutterKeeps DEF Next

(* The inductive invariant holds in every state: what is left of an init or  *)
(* exit function, the table, what each module has saved, its socket and the  *)
(* frames of the threads fit together at each step of a load or a removal.   *)
THEOREM ModuleCorrect == Spec => []ModuleInv
PROOF
  <1>1. Init => ModuleInv
    BY InitHolds
  <1>2. ModuleInv /\ [Next]_vars => ModuleInv'
    BY NextKeeps
  <1> QED BY <1>1, <1>2, PTL DEF Spec

(* Type correctness of the loading and unloading of the modules. *)
THEOREM TypeCorrect == Spec => []TypeOK
PROOF
  <1>1. ModuleInv => TypeOK
    BY DEF ModuleInv
  <1> QED BY <1>1, ModuleCorrect, PTL

(* A hook that can be entered serves the call, and one that is entered from  *)
(* another module's hook is not at the top of the stack.                     *)
LEMMA Entered ==
  ASSUME ModuleInv, NEW c \in SysCalls, NEW m \in Modules,
         table[c] = m \/ \E n \in Loaded : real[n][c] = m
  PROVE  Serves(m, c) /\ (table[c] # m => m # loader)
PROOF
  <1>1. m # Linux /\ m # Null /\ m # "none"
    BY PrmModuleAssumption DEF Linux, Null
  <1>2. CASE table[c] = m
    BY <1>1, <1>2 DEF ModuleInv, TableServed
  <1>3. CASE table[c] # m
    <2>1. PICK i \in DOMAIN lsmod : real[lsmod[i]][c] = m
      BY <1>3 DEF Loaded
    <2>2. PICK j \in DOMAIN lsmod : j < i /\ m = lsmod[j] /\ c \in HookedCalls(lsmod[j])
      BY <1>1, <2>1 DEF ModuleInv, SavedLeadsDown
    <2>3. m \in Loaded
      BY <2>2 DEF Loaded
    <2>4. m # loader
      <3>1. DOMAIN lsmod = 1..Len(lsmod) /\ Len(lsmod) \in Nat
        BY LoadedTypes
      <3>2. j # Len(lsmod) /\ Len(lsmod) \in DOMAIN lsmod
        BY <2>2, <3>1
      <3>3. lsmod[j] # lsmod[Len(lsmod)]
        BY <3>2 DEF ModuleInv, LoadedOnce
      <3> QED BY <1>1, <2>2, <3>3 DEF ModuleInv, PlanFits
    <2> QED BY <2>2, <2>3, <2>4 DEF Serves, Saved
  <1> QED BY <1>2, <1>3

(* At each step of a load or a removal, every entry of the table and every   *)
(* function that a module saved leads on to the kernel.                      *)
THEOREM HooksLeadOn == Spec => []EveryHookLeadsOn
PROOF
  <1>1. ASSUME ModuleInv PROVE EveryHookLeadsOn
    <2>1. ASSUME NEW c \in SysCalls PROVE LeadsTo(table[c])
      BY <1>1 DEF ModuleInv, TableServed, Serves, Saved, LeadsTo
    <2>2. ASSUME NEW c \in SysCalls, NEW m \in Modules,
                 table[c] = m \/ \E n \in Loaded : real[n][c] = m
          PROVE  real[m][c] # Null /\ LeadsTo(real[m][c])
      <3>1. Serves(m, c)
        BY <1>1, <2>2, Entered
      <3>2. real[m][c] # Null
        BY <1>1, <3>1 DEF ModuleInv, SavedIsThere, Serves
      <3>3. PICK i \in DOMAIN lsmod : m = lsmod[i]
        BY <3>1 DEF Serves, Saved, Loaded
      <3>4. real[m][c] = Linux \/ \E j \in DOMAIN lsmod : real[m][c] = lsmod[j]
        BY <1>1, <3>2, <3>3 DEF ModuleInv, SavedLeadsDown
      <3> QED BY <3>2, <3>4 DEF LeadsTo, Loaded
    <2> QED BY <2>1, <2>2 DEF EveryHookLeadsOn
  <1> QED BY <1>1, ModuleCorrect, PTL

(* No entry of the table and no saved function leads into a module that has  *)
(* given up its socket and still takes a server for connected.               *)
THEOREM NoWayIn == Spec => []NoWayInWithoutSocket
PROOF
  <1>1. ASSUME ModuleInv PROVE NoWayInWithoutSocket
    <2> SUFFICES ASSUME NEW m \in Modules, sock[m] # "open", pid[m], NEW c \in SysCalls,
                        table[c] = m \/ \E n \in Loaded : real[n][c] = m
                 PROVE  FALSE
      BY DEF NoWayInWithoutSocket
    <2>1. loader = m /\ Left("free") /\ ~Left("restore")
      BY <1>1 DEF ModuleInv, SocketGone, Past, Removing
    <2>2. table[c] = m
      BY <1>1, <2>1, Entered
    <2>3. [op |-> "restore", entry |-> c] \in Items(plan)
      BY <1>1, <2>1, <2>2 DEF ModuleInv, RemovalRestores
    <2> QED BY <2>1, <2>3, LeftIs
  <1> QED BY <1>1, ModuleCorrect, PTL

(* Write protection is on again after each patch, but on the CPUs that the   *)
(* loader was moved away from inside one.                                    *)
THEOREM Protection == Spec => []ProtectionIsBack
PROOF
  <1>1. ModuleInv => ProtectionIsBack
    BY DEF ModuleInv, Protected, InPatch, ProtectionIsBack
  <1> QED BY <1>1, ModuleCorrect, PTL

(* A thread in a hook finds the function to call on, and the socket it sends *)
(* on unless its module is being removed.                                    *)
THEOREM FindTheirWay == Spec => []HooksFindTheirWay
PROOF
  <1>1. ASSUME ModuleInv PROVE HooksFindTheirWay
    <2>1. ASSUME NEW t \in Threads, At(t, "call")
          PROVE  real[Top(t).mod][call[t]] # Null
      <3>1. Serves(Top(t).mod, call[t]) /\ Top(t).mod \in Modules
        BY <1>1, <2>1, InFrames DEF At, InHook, FrameSet
      <3> QED BY <1>1, <3>1 DEF ModuleInv, SavedIsThere, Serves
    <2>2. ASSUME NEW t \in Threads, At(t, "send")
          PROVE  sock[Top(t).mod] = "open" \/ Removing(Top(t).mod)
      BY <1>1, <2>2, InFrames DEF At, InHook, Past
    <2> QED BY <2>1, <2>2 DEF HooksFindTheirWay
  <1> QED BY <1>1, ModuleCorrect, PTL

=============================================================================
