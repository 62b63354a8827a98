------------------------------ MODULE PrmModule ------------------------------
(***************************************************************************)
(* Loading and unloading of the three kernel modules of the repository,    *)
(* while threads make system calls: kernel2 (prm_module.c, prm_hook.c,     *)
(* prm_netlink.c), kernel, its first version (hook.c, netlink.c), and      *)
(* fileaudit (sdthook.c, netlinkp.c).  Each saves entries of the system    *)
(* call table, puts its hooks there, and opens a netlink socket; modules   *)
(* that are loaded together stack up, the hook of one being the real call  *)
(* of the next.                                                            *)
(*                                                                         *)
(* A step of init or exit is one access to what other threads see: an      *)
(* entry of the table, the protection of its page, the socket.  A thread   *)
(* in a hook is followed from frame to frame down to the kernel; what it   *)
(* asks and hears of the server is PrmChannel's business, and here it only *)
(* passes or is refused.                                                   *)
(*                                                                         *)
(* External: insmod and rmmod run one at a time, and the administrator     *)
(* removes the module that was loaded last; the kernel refuses to remove a *)
(* module while a process holds a socket of its netlink protocol (the use  *)
(* count that fileaudit/README.md:11 looks at), counts nothing else, and   *)
(* frees the module's text when its exit function is done.                 *)
(***************************************************************************)
EXTENDS Naturals, Sequences

CONSTANTS
  Modules,     \* those that the machine loads
  Threads,     \* threads that make system calls
  Calls,       \* the system calls that they make
  CPUs,
  MaxLoaded,   \* bound: modules loaded at a time
  Preemptible  \* may the thread of insmod or rmmod be moved between CPUs?

SysCalls == {"openat", "read", "write", "reboot", "socket", "execve"}

ASSUME PrmModuleAssumption ==
  /\ Modules \subseteq {"kernel", "kernel2", "fileaudit"}
  /\ Calls \subseteq SysCalls
  /\ MaxLoaded \in Nat
  /\ Preemptible \in BOOLEAN

VARIABLES
  (* the machine *)
  table,      \* sys_call_table: per call, the kernel's function or a module's hook
  rw,         \* is the page of the table writable?
  wp,         \* per CPU: does CR0 enforce write protection?
  (* per module *)
  real,       \* real_openat etc.: what the module saved of the table
  sock,       \* its netlink socket: null, open, or a pointer to a released one
  pid,        \* does its pid name a server?
  (* insmod and rmmod *)
  lsmod,      \* the modules, in the order in which they were loaded
  loader,     \* the module that is being loaded or removed, or "none"
  plan,       \* the steps of its init or exit that are left
  lcpu,       \* the CPU that the loader runs on
  moved,      \* the CPUs that the loader was moved away from inside a patch
  stuck,      \* modules whose init or exit was killed half-way
  (* processes *)
  servers,    \* per module: is a socket of its protocol held by a process?
  (* threads *)
  call,       \* the system call
  frames      \* the hooks that the thread is in, the innermost last

machineVars == <<table, rw, wp>>
moduleVars  == <<real, sock, pid>>
loaderVars  == <<lsmod, loader, plan, lcpu, moved, stuck>>
threadVars  == <<call, frames>>
vars == <<machineVars, moduleVars, loaderVars, servers, threadVars>>

(* A function pointer: the kernel's own function, or the hook of a module. *)
Linux    == "linux"
Targets  == {Linux} \cup Modules
Null     == "null"

Places == {"call", "called", "info", "check", "send", "wait", "gone"}
Ops    == [op : {"socket", "save", "unprotect", "protect", "release", "free", "end"}]
          \cup [op : {"patch", "restore"}, entry : SysCalls]

TypeOK ==
  /\ table \in [SysCalls -> Targets]
  /\ rw \in BOOLEAN
  /\ wp \in [CPUs -> BOOLEAN]
  /\ real \in [Modules -> [SysCalls -> Targets \cup {Null}]]
  /\ sock \in [Modules -> {Null, "open", "released"}]
  /\ pid \in [Modules -> BOOLEAN]
  /\ lsmod \in Seq(Modules)
  /\ loader \in Modules \cup {"none"}
  /\ plan \in Seq(Ops)
  /\ lcpu \in CPUs
  /\ moved \in SUBSET CPUs
  /\ stuck \in SUBSET Modules
  /\ servers \in [Modules -> BOOLEAN]
  /\ call \in [Threads -> Calls \cup {"none"}]
  /\ frames \in [Threads -> Seq([mod : Modules, at : Places])]

Init ==
  /\ table = [c \in SysCalls |-> Linux]
  /\ rw = FALSE
  /\ wp = [p \in CPUs |-> TRUE]
  /\ real = [m \in Modules |-> [c \in SysCalls |-> Null]]
  /\ sock = [m \in Modules |-> Null]
  /\ pid = [m \in Modules |-> FALSE]
  /\ lsmod = <<>>
  /\ loader = "none"
  /\ plan = <<>>
  /\ lcpu \in CPUs
  /\ moved = {}
  /\ stuck = {}
  /\ servers = [m \in Modules |-> FALSE]
  /\ call = [t \in Threads |-> "none"]
  /\ frames = [t \in Threads |-> <<>>]

------------------------------------------------------------------------------
(* The init and exit functions, as the steps they take in their order. *)

Step(op) == <<[op |-> op]>>
Each(op, entries) == [i \in DOMAIN entries |-> [op |-> op, entry |-> entries[i]]]

Hooked(m) ==
  CASE m = "kernel2"   -> <<"openat", "read", "write", "reboot", "socket", "execve">>
    [] m = "kernel"    -> <<"openat", "read", "write">>
    [] m = "fileaudit" -> <<"openat">>

(* The table patched ahead of the saving of what was there. *)
prm_hook_init_PatchesFirst ==
  Step("unprotect") \o Each("patch", Hooked("kernel2")) \o Step("save") \o Step("protect")

prm_hook_init ==
  Step("unprotect") \o Step("save") \o Each("patch", Hooked("kernel2")) \o Step("protect")

prm_init == Step("socket") \o prm_hook_init

prm_hook_exit ==
  Step("unprotect") \o Each("restore", Hooked("kernel2")) \o Step("protect")

(* The socket closed ahead of the hooks. *)
prm_exit_ReleasesFirst == Step("release") \o prm_hook_exit

prm_exit == prm_hook_exit \o Step("release")

mod_init ==
  Step("save") \o Step("unprotect") \o Each("patch", Hooked("kernel"))
    \o Step("protect") \o Step("socket")

mod_exit ==
  Step("unprotect") \o Each("restore", Hooked("kernel")) \o Step("protect")
    \o Step("release")

(* The original entry not saved: the pointer keeps its initial NULL. *)
audit_init_Unsaved ==
  Step("unprotect") \o Each("patch", Hooked("fileaudit"))
    \o Step("protect") \o Step("socket")

audit_init ==
  Step("save") \o Step("unprotect") \o Each("patch", Hooked("fileaudit"))
    \o Step("protect") \o Step("socket")

audit_exit ==
  Step("unprotect") \o Each("restore", Hooked("fileaudit")) \o Step("protect")
    \o Step("release")

InitOf(m) ==
  CASE m = "kernel2"   -> prm_init
    [] m = "kernel"    -> mod_init
    [] m = "fileaudit" -> audit_init

ExitOf(m) ==
  CASE m = "kernel2"   -> prm_exit
    [] m = "kernel"    -> mod_exit
    [] m = "fileaudit" -> audit_exit

------------------------------------------------------------------------------
(* insmod and rmmod. *)

Loaded == {lsmod[i] : i \in DOMAIN lsmod}

Left(op) == \E i \in DOMAIN plan : plan[i].op = op   \* still to be done
Removing(m) == loader = m /\ Left("free")

(* The statics of a module that is not loaded are as the source will         *)
(* initialise them.                                                          *)
Insmod(m) ==
  /\ loader = "none" /\ m \notin Loaded /\ Len(lsmod) < MaxLoaded
  /\ lsmod' = Append(lsmod, m)
  /\ loader' = m
  /\ plan' = InitOf(m) \o Step("end")
  /\ UNCHANGED <<machineVars, moduleVars, lcpu, moved, stuck, servers, threadVars>>

Rmmod ==
  /\ loader = "none" /\ lsmod # <<>>
  /\ LET m == lsmod[Len(lsmod)]
     IN /\ ~servers[m] /\ m \notin stuck
        /\ loader' = m
        /\ plan' = ExitOf(m) \o Step("free")
  /\ UNCHANGED <<machineVars, moduleVars, lsmod, lcpu, moved, stuck, servers, threadVars>>

(* The scheduler moves the loader to another CPU; only inside a patch does it *)
(* matter on which one it runs.                                               *)
Migrate ==
  /\ Preemptible /\ loader # "none" /\ Left("protect") /\ ~Left("unprotect")
  /\ \E p \in CPUs \ {lcpu} : lcpu' = p
  /\ moved' = IF wp[lcpu] THEN moved ELSE moved \cup {lcpu}
  /\ UNCHANGED <<machineVars, moduleVars, lsmod, loader, plan, stuck, servers, threadVars>>

(* The next step of the loader, on its CPU. *)
Next1(op) == plan # <<>> /\ plan[1].op = op /\ plan' = Tail(plan)

(* Two modules that share a protocol cannot both have a socket of it; the    *)
(* creation may fail for other reasons too.  No init function looks whether  *)
(* it did.                                                                   *)
Protocol(m) == IF m = "fileaudit" THEN 29 ELSE 30

CreateSocket ==
  /\ Next1("socket")
  /\ \/ /\ \A m \in Modules : sock[m] = "open" => Protocol(m) # Protocol(loader)
        /\ sock' = [sock EXCEPT ![loader] = "open"]
     \/ UNCHANGED sock
  /\ UNCHANGED <<machineVars, real, pid, lsmod, loader, lcpu, moved, stuck, servers, threadVars>>

(* real_openat and the others. *)
SaveTable ==
  /\ Next1("save")
  /\ real' = [real EXCEPT ![loader] =
                [c \in SysCalls |->
                   IF \E i \in DOMAIN Hooked(loader) : Hooked(loader)[i] = c
                   THEN table[c] ELSE Null]]
  /\ UNCHANGED <<machineVars, sock, pid, lsmod, loader, lcpu, moved, stuck, servers, threadVars>>

(* kernel2 clears a bit of the CR0 of the CPU it happens to run on; the      *)
(* others make the page of the table writable, for every CPU.                *)
write_protection_off ==
  /\ Next1("unprotect")
  /\ lcpu' \in CPUs
  /\ IF loader = "kernel2"
     THEN wp' = [wp EXCEPT ![lcpu'] = FALSE] /\ UNCHANGED rw
     ELSE rw' = TRUE /\ UNCHANGED wp
  /\ UNCHANGED <<table, moduleVars, lsmod, loader, moved, stuck, servers, threadVars>>

write_protection_on_Forgotten ==
  /\ Next1("protect")
  /\ IF loader = "kernel2"
     THEN UNCHANGED <<wp, rw>>
     ELSE rw' = FALSE /\ UNCHANGED wp
  /\ moved' = IF loader = "kernel2" THEN moved \ {lcpu} ELSE moved
  /\ UNCHANGED <<table, moduleVars, lsmod, loader, lcpu, stuck, servers, threadVars>>

write_protection_on ==
  /\ Next1("protect")
  /\ IF loader = "kernel2"
     THEN wp' = [wp EXCEPT ![lcpu] = TRUE] /\ UNCHANGED rw
     ELSE rw' = FALSE /\ UNCHANGED wp
  /\ moved' = IF loader = "kernel2" THEN moved \ {lcpu} ELSE moved
  /\ UNCHANGED <<table, moduleVars, lsmod, loader, lcpu, stuck, servers, threadVars>>

CanWrite == rw \/ ~wp[lcpu]

PatchEntry ==
  /\ CanWrite /\ Next1("patch")
  /\ table' = [table EXCEPT ![plan[1].entry] = loader]
  /\ UNCHANGED <<rw, wp, moduleVars, lsmod, loader, lcpu, moved, stuck, servers, threadVars>>

RestoreEntry ==
  /\ CanWrite /\ Next1("restore")
  /\ table' = [table EXCEPT ![plan[1].entry] = real[loader][plan[1].entry]]
  /\ UNCHANGED <<rw, wp, moduleVars, lsmod, loader, lcpu, moved, stuck, servers, threadVars>>

(* The loader writes to a page that its CPU protects: the kernel kills it.    *)
LoaderFaults ==
  /\ ~CanWrite /\ plan # <<>> /\ plan[1].op \in {"patch", "restore"}
  /\ stuck' = stuck \cup {loader}
  /\ loader' = "none"
  /\ plan' = <<>>
  /\ UNCHANGED <<machineVars, moduleVars, lsmod, lcpu, moved, servers, threadVars>>

(* k2u_socket_close and its likes.  fileaudit keeps the pointer. *)
ReleaseSocket ==
  /\ Next1("release")
  /\ sock' = [sock EXCEPT ![loader] =
                IF @ = "open" /\ loader = "fileaudit" THEN "released" ELSE Null]
  /\ UNCHANGED <<machineVars, real, pid, lsmod, loader, lcpu, moved, stuck, servers, threadVars>>

EndInit ==
  /\ Next1("end")
  /\ loader' = "none"
  /\ UNCHANGED <<machineVars, moduleVars, lsmod, lcpu, moved, stuck, servers, threadVars>>

(* The module is gone, its statics and the code that threads in its hooks are *)
(* in with it.                                                                *)
FreeText ==
  /\ Next1("free")
  /\ loader' = "none"
  /\ lsmod' = SubSeq(lsmod, 1, Len(lsmod) - 1)
  /\ frames' = [t \in Threads |->
       [i \in DOMAIN frames[t] |->
          IF frames[t][i].mod = loader THEN [frames[t][i] EXCEPT !.at = "gone"]
                                       ELSE frames[t][i]]]
  /\ real' = [real EXCEPT ![loader] = [c \in SysCalls |-> Null]]
  /\ sock' = [sock EXCEPT ![loader] = Null]
  /\ pid' = [pid EXCEPT ![loader] = FALSE]
  /\ UNCHANGED <<machineVars, lcpu, moved, stuck, servers, call>>

LoaderStep ==
  \/ CreateSocket
  \/ SaveTable
  \/ write_protection_off
  \/ PatchEntry
  \/ write_protection_on
  \/ RestoreEntry
  \/ LoaderFaults
  \/ ReleaseSocket
  \/ EndInit
  \/ FreeText

------------------------------------------------------------------------------
(* Server processes. *)

(* A process opens a socket of the module's protocol and connects; it may    *)
(* disconnect (kernel and kernel2), and its end tells the module nothing.    *)
ServerConnects(m) ==
  /\ sock[m] = "open" /\ ~Removing(m)
  /\ servers' = [servers EXCEPT ![m] = TRUE]
  /\ pid' = [pid EXCEPT ![m] = TRUE]
  /\ UNCHANGED <<machineVars, real, sock, loaderVars, threadVars>>

ServerDisconnects(m) ==
  /\ servers[m] /\ m # "fileaudit"
  /\ pid' = [pid EXCEPT ![m] = FALSE]
  /\ UNCHANGED <<machineVars, real, sock, loaderVars, servers, threadVars>>

ServerEnds(m) ==
  /\ servers[m]
  /\ servers' = [servers EXCEPT ![m] = FALSE]
  /\ UNCHANGED <<machineVars, moduleVars, loaderVars, threadVars>>

------------------------------------------------------------------------------
(* Threads in system calls.  An unhooked call is no step of the model. *)

Top(t)       == frames[t][Len(frames[t])]
At(t, place) == frames[t] # <<>> /\ Top(t).at = place
Front(t)     == SubSeq(frames[t], 1, Len(frames[t]) - 1)

SetPlace(t, place) ==
  /\ frames' = [frames EXCEPT ![t][Len(frames[t])].at = place]
  /\ UNCHANGED call

Return(t) ==
  /\ frames' = [frames EXCEPT ![t] = Front(t)]
  /\ call' = IF Front(t) = <<>> THEN [call EXCEPT ![t] = "none"] ELSE call

(* The kernel kills a thread that runs or reads what is not there. *)
Dies(t) ==
  /\ frames' = [frames EXCEPT ![t] = <<>>]
  /\ call' = [call EXCEPT ![t] = "none"]

(* openat calls the real function first, every other hook last. *)
Frame(m, c) == [mod |-> m, at |-> IF c = "openat" THEN "call" ELSE "info"]

EnterHook(t, c) ==
  /\ frames[t] = <<>> /\ table[c] # Linux
  /\ frames' = [frames EXCEPT ![t] = <<Frame(table[c], c)>>]
  /\ call' = [call EXCEPT ![t] = c]
  /\ UNCHANGED <<machineVars, moduleVars, loaderVars, servers>>

(* real_openat(regs) and the like: to the kernel, or to the hook that was    *)
(* there when this module was loaded.                                        *)
CallReal(t) ==
  /\ At(t, "call")
  /\ LET target == real[Top(t).mod][call[t]]
     IN \/ target = Null /\ Dies(t)
        \/ target = Linux /\ SetPlace(t, "called")
        \/ /\ target \notin {Null, Linux}
           /\ frames' = [frames EXCEPT ![t] =
                Append(Append(Front(t), [Top(t) EXCEPT !.at = "called"]),
                       Frame(target, call[t]))]
           /\ UNCHANGED call
  /\ UNCHANGED <<machineVars, moduleVars, loaderVars, servers>>

(* The tail of a hook after its check: an opened file is open, other calls   *)
(* are yet to be made.                                                       *)
PassOn(t) == IF call[t] = "openat" THEN Return(t) ELSE SetPlace(t, "call")

(* The real call is over.  After an open, kernel and kernel2 look at the     *)
(* descriptor, fileaudit at the path; both may find nothing to do.           *)
RealReturns(t) ==
  /\ At(t, "called")
  /\ \/ Return(t)
     \/ /\ call[t] = "openat"
        /\ SetPlace(t, IF Top(t).mod = "fileaudit" THEN "check" ELSE "info")
  /\ UNCHANGED <<machineVars, moduleVars, loaderVars, servers>>

(* get_info_from_fd, or the look at the user or the path: ask, or pass. *)
GetInfo(t) ==
  /\ At(t, "info")
  /\ SetPlace(t, "check") \/ PassOn(t)
  /\ UNCHANGED <<machineVars, moduleVars, loaderVars, servers>>

(* The sends of fileaudit look at their socket, the others only at pid. *)
MaySend_Always(m) == TRUE

MaySend(m) == pid[m] /\ (m = "fileaudit" => sock[m] # Null)

TestPid(t) ==
  /\ At(t, "check")
  /\ IF MaySend(Top(t).mod) THEN SetPlace(t, "send") ELSE PassOn(t)
  /\ UNCHANGED <<machineVars, moduleVars, loaderVars, servers>>

(* nlmsg_unicast. *)
Send(t) ==
  /\ At(t, "send")
  /\ IF sock[Top(t).mod] # "open" THEN Dies(t)
     ELSE IF Top(t).mod = "fileaudit" THEN Return(t)
     ELSE SetPlace(t, "wait")
  /\ UNCHANGED <<machineVars, moduleVars, loaderVars, servers>>

(* The answer or the timeout, which may drop the connection: the call passes *)
(* or is blocked.                                                            *)
Answered(t) ==
  /\ At(t, "wait")
  /\ PassOn(t) \/ Return(t)
  /\ \/ UNCHANGED pid
     \/ pid' = [pid EXCEPT ![Top(t).mod] = FALSE]
  /\ UNCHANGED <<machineVars, real, sock, loaderVars, servers>>

(* The thread runs on in memory that holds the module no longer. *)
RunsGoneText(t) ==
  /\ At(t, "gone")
  /\ Dies(t)
  /\ UNCHANGED <<machineVars, moduleVars, loaderVars, servers>>

ThreadStep(t) ==
  \/ \E c \in Calls : EnterHook(t, c)
  \/ CallReal(t)
  \/ RealReturns(t)
  \/ GetInfo(t)
  \/ TestPid(t)
  \/ Send(t)
  \/ Answered(t)
  \/ RunsGoneText(t)

Next ==
  \/ \E m \in Modules :
       Insmod(m) \/ ServerConnects(m) \/ ServerDisconnects(m) \/ ServerEnds(m)
  \/ Rmmod
  \/ Migrate
  \/ LoaderStep
  \/ \E t \in Threads : ThreadStep(t)

Spec == Init /\ [][Next]_vars

------------------------------------------------------------------------------
(* Properties. *)

LeadsTo(target) == target = Linux \/ target \in Loaded

(* Every way into a hook leads on to the kernel: what the table names is     *)
(* loaded and has saved what it replaced, and so has whatever that leads to. *)
(* It holds at each step of a patch, since init saves every entry before it  *)
(* writes the first.                                                         *)
EveryHookLeadsOn ==
  \A c \in SysCalls :
    /\ LeadsTo(table[c])
    /\ \A m \in Modules :
         (table[c] = m \/ \E n \in Loaded : real[n][c] = m)
           => real[m][c] # Null /\ LeadsTo(real[m][c])

(* Once a module has given up its socket, and as long as it has none, no     *)
(* entry of the table leads into it if it still takes a server for           *)
(* connected: exit restores the table before it releases the socket, and     *)
(* without a socket nobody connects.                                         *)
NoWayInWithoutSocket ==
  \A m \in Modules : sock[m] # "open" /\ pid[m] =>
    \A c \in SysCalls : table[c] # m /\ \A n \in Loaded : real[n][c] # m

(* The table is protected again after each patch, but on the CPUs that the   *)
(* loader was moved away from: write_protection_off and _on work on the CPU  *)
(* they run on, and nothing keeps them on one.                               *)
ProtectionIsBack ==
  /\ \A p \in CPUs : ~wp[p] =>
       p \in moved \/ (p = lcpu /\ loader = "kernel2" /\ Left("protect"))
  /\ rw => loader \in {"kernel", "fileaudit"} /\ Left("protect")

(* A thread in a hook finds the function it replaced, and the socket it      *)
(* sends on unless the module is being removed under it: a check that has    *)
(* seen a server sends without looking again.                                *)
HooksFindTheirWay ==
  \A t \in Threads :
    /\ At(t, "call") => real[Top(t).mod][call[t]] # Null
    /\ At(t, "send") => sock[Top(t).mod] = "open" \/ Removing(Top(t).mod)

=============================================================================
