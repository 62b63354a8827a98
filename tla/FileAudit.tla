------------------------------ MODULE FileAudit ------------------------------
(***************************************************************************)
(* The sample module and its daemon: hooked_openat of                      *)
(* fileaudit/kernel_module/sdthook.c with AuditOpenat and netlink_sendmsg  *)
(* of netlinkp.c, which report every open below /home/TestAudit, and       *)
(* fileaudit/configure/auditdemo.c, which logs what it receives.           *)
(*                                                                         *)
(* A daemon is one life of a process of auditdemo; lives may overlap, the  *)
(* last to register gets the reports.  A record is known by the number of  *)
(* its open; number 0 is what a zeroed buffer holds.  Opens outside the    *)
(* audited directory leave AuditOpenat at its prefix test and are left out.*)
(* A line of the log is followed to the stream, not from there to disk.    *)
(***************************************************************************)
EXTENDS Naturals, Sequences, SequencesExt

CONSTANTS
  Openers,      \* threads that open audited files
  Users,        \* whose opens they make
  Strangers,    \* the users that have no entry in the password file
  Daemons,      \* lives of the daemon, identified by their pid
  NoDaemon,     \* the pid 0
  Root,         \* the user 0, who runs the daemon
  RcvBuf,       \* messages that a daemon's socket buffers before it overruns
  MaxOpens,     \* bound: audited opens
  MaxLines      \* bound: lines of a daemon that has no socket

ASSUME FileAuditAssumption ==
  /\ Strangers \subseteq Users
  /\ Root \in Users \ Strangers
  /\ Openers \cap Daemons = {}
  /\ NoDaemon \notin Daemons
  /\ RcvBuf \in Nat \ {0}
  /\ {MaxOpens, MaxLines} \subseteq Nat

VARIABLES
  (* the module *)
  loaded,    \* are hook and socket there?
  pid,       \* whom netlink_sendmsg sends to
  (* per thread in hooked_openat *)
  opc, rec,
  (* per daemon *)
  dpc,
  sock,      \* its socket: none, or bound to its port
  nlh,       \* its buffer
  log,       \* the lines it has written
  inbox,     \* the receive queue of its socket
  overrun,   \* as in PrmChannel: none, ENOBUFS pending, or ENOBUFS reported
  (* history *)
  opens,     \* audited opens so far
  sent       \* per daemon: the records sent to its socket

moduleVars == <<loaded, pid>>
openVars   == <<opc, rec, opens>>
daemonVars == <<dpc, sock, nlh, log>>
netVars    == <<inbox, overrun>>
vars == <<moduleVars, openVars, daemonVars, netVars, sent>>

Threads == Openers \cup Daemons
Records == [no : Nat, uid : Users]
Zeroes  == [no |-> 0, uid |-> Root]

TypeOK ==
  /\ loaded \in BOOLEAN
  /\ pid \in Daemons \cup {NoDaemon}
  /\ opc \in [Threads -> {"idle", "test", "send"}]
  /\ rec \in [Threads -> Records]
  /\ dpc \in [Daemons -> {"off", "sendpid", "fopen", "opening",
                          "failing", "recv", "log", "dead"}]
  /\ sock \in [Daemons -> {"none", "bound"}]
  /\ nlh \in [Daemons -> Records]
  /\ log \in [Daemons -> Seq(Records)]
  /\ inbox \in [Daemons -> Seq(Records)]
  /\ overrun \in [Daemons -> {"no", "pending", "reported"}]
  /\ opens \in Nat
  /\ sent \in [Daemons -> Seq(Records)]
  /\ \A t \in Threads : opc[t] = "send" => pid \in Daemons

Init ==
  /\ loaded = FALSE
  /\ pid = NoDaemon
  /\ opc = [t \in Threads |-> "idle"]
  /\ rec = [t \in Threads |-> Zeroes]
  /\ dpc = [d \in Daemons |-> "off"]
  /\ sock = [d \in Daemons |-> "none"]
  /\ nlh = [d \in Daemons |-> Zeroes]
  /\ log = [d \in Daemons |-> <<>>]
  /\ inbox = [d \in Daemons |-> <<>>]
  /\ overrun = [d \in Daemons |-> "no"]
  /\ opens = 0
  /\ sent = [d \in Daemons |-> <<>>]

------------------------------------------------------------------------------
(* The module. *)

insmod ==
  /\ ~loaded
  /\ loaded' = TRUE
  /\ UNCHANGED <<pid, openVars, daemonVars, netVars, sent>>

(* hooked_openat: the open itself has returned, the record is filled in. *)
Opens(t, u) ==
  /\ loaded /\ opc[t] = "idle" /\ opens < MaxOpens
  /\ opens' = opens + 1
  /\ rec' = [rec EXCEPT ![t] = [no |-> opens + 1, uid |-> u]]
  /\ opc' = [opc EXCEPT ![t] = "test"]

hooked_openat(t) ==
  /\ \E u \in Users : Opens(t, u)
  /\ UNCHANGED <<moduleVars, daemonVars, netVars, sent>>

Leaves(t) ==
  /\ opc' = [opc EXCEPT ![t] = "idle"]
  /\ rec' = [rec EXCEPT ![t] = Zeroes]

(* The test left out. *)
TestPid_Forgotten(t) ==
  /\ opc[t] = "test"
  /\ opc' = [opc EXCEPT ![t] = "send"]
  /\ UNCHANGED <<moduleVars, rec, opens, daemonVars, netVars, sent>>

(* netlink_sendmsg gives up if there is no daemon, or if alloc_skb finds no  *)
(* memory for the message.                                                   *)
TestPid(t) ==
  /\ opc[t] = "test"
  /\ \/ Leaves(t)
     \/ pid # NoDaemon /\ opc' = [opc EXCEPT ![t] = "send"] /\ UNCHANGED rec
  /\ UNCHANGED <<moduleVars, opens, daemonVars, netVars, sent>>

(* A socket that overran takes nothing more until its queue is empty. *)
Takes(d) == Len(inbox[d]) < RcvBuf /\ overrun[d] = "no"

(* Without MSG_DONTWAIT the sender waits for room. *)
netlink_unicast_Waits(d, m) ==
  /\ sock[d] = "bound" => Takes(d)
  /\ inbox' = [inbox EXCEPT ![d] = IF sock[d] = "bound" THEN Append(@, m) ELSE @]
  /\ UNCHANGED overrun

(* netlink_unicast to port d: queued, or lost at a full queue, which the     *)
(* receiver learns of once, or refused for want of a receiver.               *)
netlink_unicast(d, m) ==
  \/ /\ sock[d] = "bound" /\ Takes(d)
     /\ inbox' = [inbox EXCEPT ![d] = Append(@, m)]
     /\ UNCHANGED overrun
  \/ /\ sock[d] = "bound" /\ ~Takes(d)
     /\ overrun' = [overrun EXCEPT ![d] = IF @ = "no" THEN "pending" ELSE @]
     /\ UNCHANGED inbox
  \/ /\ sock[d] # "bound"
     /\ UNCHANGED netVars

(* pid is read anew; the open returns whatever becomes of its record. *)
SendRecord(t) ==
  /\ opc[t] = "send"
  /\ netlink_unicast(pid, rec[t])
  /\ sent' = IF sock[pid] = "bound" THEN [sent EXCEPT ![pid] = Append(@, rec[t])]
             ELSE sent
  /\ Leaves(t)
  /\ UNCHANGED <<moduleVars, opens, daemonVars>>

------------------------------------------------------------------------------
(* The daemon. *)

DGoto(d, from, to) == dpc[d] = from /\ dpc' = [dpc EXCEPT ![d] = to]

(* main opens a socket, and sendpid binds it to the port.  Before the module *)
(* is loaded there is no such protocol, but nobody looks.                    *)
Socket(d) ==
  /\ DGoto(d, "off", "sendpid")
  /\ sock' = [sock EXCEPT ![d] = IF loaded THEN "bound" ELSE "none"]
  /\ UNCHANGED <<moduleVars, openVars, nlh, log, netVars, sent>>

(* sendpid tells the module: nl_data_ready believes any message. *)
SendPid(d) ==
  /\ DGoto(d, "sendpid", "fopen")
  /\ pid' = IF sock[d] = "none" THEN pid ELSE d
  /\ UNCHANGED <<loaded, openVars, sock, nlh, log, netVars, sent>>

(* fopen of the log is an audited open if the log lies in that directory,   *)
(* and by now the module reports to this very daemon.                        *)
Fopen(d) ==
  /\ dpc[d] = "fopen"
  /\ \E fails \in BOOLEAN :
       dpc' = [dpc EXCEPT ![d] = IF fails THEN "failing" ELSE "opening"]
  /\ Opens(d, Root) \/ UNCHANGED openVars
  /\ UNCHANGED <<moduleVars, sock, nlh, log, netVars, sent>>

(* The process is gone, its socket and its queue with it.  What it has       *)
(* written is followed no further.                                           *)
Exit(d) ==
  /\ dpc' = [dpc EXCEPT ![d] = "dead"]
  /\ sock' = [sock EXCEPT ![d] = "none"]
  /\ nlh' = [nlh EXCEPT ![d] = Zeroes]
  /\ log' = [log EXCEPT ![d] = <<>>]
  /\ inbox' = [inbox EXCEPT ![d] = <<>>]
  /\ overrun' = [overrun EXCEPT ![d] = "no"]
  /\ sent' = [sent EXCEPT ![d] = <<>>]
  /\ UNCHANGED <<moduleVars, openVars>>

FopenReturns(d) ==
  /\ opc[d] = "idle"
  /\ DGoto(d, "opening", "recv")
  /\ UNCHANGED <<moduleVars, openVars, sock, nlh, log, netVars, sent>>

FopenFails(d) ==
  /\ dpc[d] = "failing" /\ opc[d] = "idle"
  /\ Exit(d)

(* The newest record taken. *)
RecvTakes_Newest(d) ==
  /\ overrun[d] # "pending" /\ inbox[d] # <<>>
  /\ nlh' = [nlh EXCEPT ![d] = Last(inbox[d])]
  /\ inbox' = [inbox EXCEPT ![d] = Front(@)]
  /\ overrun' = [overrun EXCEPT ![d] = IF Front(inbox[d]) = <<>> THEN "no" ELSE @]

(* recvmsg takes the oldest record, *)
RecvTakes(d) ==
  /\ overrun[d] # "pending" /\ inbox[d] # <<>>
  /\ nlh' = [nlh EXCEPT ![d] = Head(inbox[d])]
  /\ inbox' = [inbox EXCEPT ![d] = Tail(@)]
  /\ overrun' = [overrun EXCEPT ![d] = IF Tail(inbox[d]) = <<>> THEN "no" ELSE @]

(* or fails: with ENOBUFS, or for want of a socket. *)
RecvFails(d) ==
  /\ \/ /\ sock[d] = "bound" /\ overrun[d] = "pending"
        /\ overrun' = [overrun EXCEPT ![d] = "reported"]
     \/ /\ sock[d] = "none" /\ Len(log[d]) < MaxLines
        /\ UNCHANGED overrun
  /\ UNCHANGED <<nlh, inbox>>

(* A failed recvmsg skipped. *)
Recv_Skips(d) ==
  /\ dpc[d] = "recv"
  /\ \/ RecvTakes(d) /\ dpc' = [dpc EXCEPT ![d] = "log"]
     \/ RecvFails(d) /\ UNCHANGED dpc
  /\ UNCHANGED <<moduleVars, openVars, sock, log, sent>>

(* What recvmsg returns is not looked at. *)
Recv(d) ==
  /\ DGoto(d, "recv", "log")
  /\ RecvTakes(d) \/ RecvFails(d)
  /\ UNCHANGED <<moduleVars, openVars, sock, log, sent>>

Log(d) ==
  /\ nlh[d].uid \notin Strangers
  /\ DGoto(d, "log", "recv")
  /\ log' = [log EXCEPT ![d] = Append(@, nlh[d])]
  /\ UNCHANGED <<moduleVars, openVars, sock, nlh, netVars, sent>>

(* A user that getpwuid does not know passed over. *)
LogDies_Skips(d) ==
  /\ nlh[d].uid \in Strangers
  /\ DGoto(d, "log", "recv")
  /\ UNCHANGED <<moduleVars, openVars, sock, nlh, log, netVars, sent>>

(* getpwuid knows no such user, and its null pointer is read. *)
LogDies(d) ==
  /\ dpc[d] = "log" /\ nlh[d].uid \in Strangers
  /\ Exit(d)

(* SIGTERM and killdeal_func, or a signal that cannot be caught: in user     *)
(* mode, or asleep in recvmsg.                                               *)
Killed(d) ==
  /\ dpc[d] \notin {"off", "dead"} /\ opc[d] = "idle"
  /\ Exit(d)

InOpen(t) == TestPid(t) \/ SendRecord(t)

auditdemo(d) ==
  \/ SendPid(d)
  \/ Fopen(d)
  \/ FopenReturns(d)
  \/ FopenFails(d)
  \/ Recv(d)
  \/ Log(d)
  \/ LogDies(d)

Next ==
  \/ insmod
  \/ \E t \in Openers : hooked_openat(t)
  \/ \E t \in Threads : InOpen(t)
  \/ \E d \in Daemons : Socket(d) \/ auditdemo(d) \/ Killed(d)

(* The scheduler runs every thread that can run.  Nothing makes a thread     *)
(* open a file, a daemon start or be killed, or the module be loaded.        *)
Fairness ==
  /\ \A t \in Threads : WF_vars(InOpen(t))
  /\ \A d \in Daemons : WF_vars(auditdemo(d))

Spec == Init /\ [][Next]_vars /\ Fairness

------------------------------------------------------------------------------
(* Properties. *)

(* The lines of a daemon, with the one it is about to write. *)
Written(d) == log[d] \o (IF dpc[d] = "log" THEN <<nlh[d]>> ELSE <<>>)

(* The places in sent[d] of what the lines report, and 0 for an invented one. *)
PlaceOf(d, r) ==
  IF r = Zeroes THEN 0 ELSE CHOOSE i \in DOMAIN sent[d] : sent[d][i] = r

Places(d) == [i \in DOMAIN Written(d) |-> PlaceOf(d, Written(d)[i])]

(* The lines that a failed recvmsg left the buffer of. *)
Repeats(d) ==
  {i \in DOMAIN Places(d) :
     IF i = 1 THEN Places(d)[1] = 0 ELSE Places(d)[i] = Places(d)[i - 1]}

(* The log tells the opens in the order in which they were reported.  A line *)
(* that tells of no open, or of the same one as the line above it, is there  *)
(* only after a recvmsg that failed: for want of a socket, or after more     *)
(* reports than the queue takes.                                             *)
LogIsInOrder ==
  \A d \in Daemons :
    /\ Range(Written(d)) \subseteq Range(sent[d]) \cup {Zeroes}
    /\ \A i \in DOMAIN Written(d) \ {1} : Places(d)[i - 1] <= Places(d)[i]
    /\ Repeats(d) # {} => sock[d] # "bound" \/ Len(sent[d]) > RcvBuf

(* A record that the module sent to a daemon's socket is in its log or its   *)
(* queue, or the daemon can tell that one was lost: recvmsg has failed, and  *)
(* the log has a line too many, or is about to fail.  Holds while the daemon *)
(* lives; a record for which alloc_skb found no memory was never sent.       *)
NoSilentLoss ==
  \A d \in Daemons : sock[d] = "bound" =>
    \/ Range(sent[d]) \subseteq Range(inbox[d]) \cup Range(Written(d))
    \/ overrun[d] = "pending"
    \/ Repeats(d) # {}

(* An audited open returns, whatever the daemon does: the report does not    *)
(* wait for room, not even the report of the daemon's own open of its log,   *)
(* which is the deadlock that auditdemo.c:113 fears.                         *)
OpenReturns == \A t \in Threads : opc[t] # "idle" ~> opc[t] = "idle"

(* A record that is queued is logged, unless the daemon dies first. *)
QueuedIsLogged ==
  \A d \in Daemons, n \in 1..MaxOpens :
    (\E i \in DOMAIN inbox[d] : inbox[d][i].no = n)
      ~> (dpc[d] = "dead" \/ \E i \in DOMAIN log[d] : log[d][i].no = n)

=============================================================================
