# proctorEXE in TLA+

proctorEXE restricts what programs and users may do on a Linux machine. A kernel module hooks a
handful of system calls and asks a server process for leave before each of them; an administrator's
console keeps the rules in a MySQL database; the server has a function that looks a program's
authority up there. This directory holds TLA+ modules of that system, TLC configurations that check
them on small instances, and proofs checked by TLAPS. Paths below are relative to the repository,
whose code is in `src/` and `include/`.

## 1. Inventory

| Component | Code | State | Operations |
|---|---|---|---|
| Channel, kernel side | `src/kernel2/prm_netlink.c`, `.h` | `pid` (the connected server, -1: none), `fail_count`, `index`, one `struct sem_msg` (status, data, semaphore) per check | `check_privilege`, `k2u_send`, `netlink_message_handle`, socket create and close |
| Channel, server side | `src/server/netlink.c` | socket and its queue, the buffer of `main` | `socket_init`, `connect`, `recv`, `msg_handle`, `disconnect`, `socket_release`; `reconnect` (never called) |
| Hooks | `src/kernel2/prm_hook.c` | the system call table; otherwise locals | `my_sys_openat/read/write/reboot/socket/execve`, `get_info_from_fd`, `prm_hook_init/exit` |
| Module load and unload | `src/kernel2/prm_module.c`, `prm_hook.c`; `src/kernel/hook.c`; `src/fileaudit/kernel_module/` | the system call table and the protection of its page, the saved entries (`real_openat` ...), the netlink sockets | `prm_init/exit`, `mod_init/exit`, `audit_init/exit`, `write_protection_off/on` |
| Authority look-up | `src/server/queryDB.c`, `querytest.c` | a connection per call, `./sysout.txt` | `ret_auth`, `get_path`, `path_to_dirList` |
| Console | `src/app/*.c`, `include/app/*.h` | a connection; the tables `program`, `policy`, `audit` | login and creation of the database; add, update, remove, show |
| First version of the module | `src/kernel/*.c` | as the channel's | `admissionReq`, `nl_data_ready`, three hooks |
| fileaudit sample, module | `src/fileaudit/kernel_module/` | `pid`, the socket | `hooked_openat`, `AuditOpenat`, `netlink_sendmsg`, `nl_data_ready` |
| fileaudit sample, daemon | `src/fileaudit/configure/auditdemo.c` | its socket, one message buffer, the log | `sendpid`, the loop of `main`, `Log`, `killdeal_func` |

`src/server/operation.c` and `src/server/mysql.c` are copies of the console's files that the server
links; of them it uses `login_to_db` and `switchAction`.

How they interact:

- A thread in a hooked call runs `check_privilege`: it allocates a cell, sends a message that carries
  the cell's address, and waits on the cell's semaphore for 250 jiffies at most. The server takes the
  message from its socket, decides, and sends the answer back with the address. **The kernel's handler
  runs inside the server's own `sendto`, on the server's thread**, and takes no lock, nor do the callers:
  `pid`, `fail_count` and the cells are shared without one.
- `CONNECT` and `DISCONNECT` messages write `pid` in the same handler; three timeouts write it from a
  caller.
- The server is a process like any other: its own `write` is hooked.
- Consoles and the look-up meet only in the database. Each of their statements is a transaction.
- `msg_handle` decides by user id with the calls of `ret_auth` commented out, so the look-up and the
  channel do not meet in this version.
- The modules replace entries of one system call table, entry by entry and without a stop of the other CPUs.
  A module that is loaded over another saves the other's hooks as its real calls. `kernel` and `kernel2`
  have the same netlink protocol, so only one of them has a socket.
- The first version works with the same server, which takes the action of its messages for the user id.
- The fileaudit module sends a record of each open in `/home/TestAudit` to the daemon that registered last, and
  waits for nothing; the daemon's own open of its log may be among them.

What is hard: the races on `pid`, `fail_count` and the cells; the timeout against a late answer; lost
messages, failed receives and messages handled again; servers that die, restart or overlap; descriptors that
change between check and use; a database that several consoles create and edit at once and that changes
under the walk of the look-up; a system call table that is edited under the threads that use it, and a module
that is removed from under the threads that are in it; log records that overrun a queue. `PROJECT.json` lists these hazards line by line.

What makes each component correct:

- *Channel*: a caller gets the verdict on its own check or learns that there is none; memory is not used
  after it is freed; every call returns; a failing server is dropped, and the count that decides it settles.
- *Hooks*: a call is blocked if and only if the server refused it, on each of the six paths.
- *Look-up*: the answer is what the rules say of the nearest registered program; every call ends.
- *Load and unload*: at each step every entry of the table leads to the kernel, nobody enters a module that
  has no socket to send on, and the table is write-protected again afterwards.
- *fileaudit*: the log tells the opens in their order, no record is lost without a trace, and no open waits
  for the daemon.
- *Console*: rules belong to programs; the database is created once; a removed rule stays removed.

## 2. Modules

| Module | Models |
|---|---|
| `PrmPolicy` | the values of the shared header and the decision of `msg_handle` |
| `PrivilegeCheck` | the abstract specification: what `check_privilege` promises to a hook |
| `PrmChannel` | both sides of the channel; shown to implement `PrivilegeCheck` |
| `AdmissionReq` | the first version's `admissionReq` in place of `check_privilege`, on `PrmChannel` |
| `PrmSelfCheck` | either version's channel composed with the server's own hooked `write` |
| `PrmModule` | loading and removing `kernel`, `kernel2` and `fileaudit`, under threads in their hooks |
| `FileAudit` | the sample's hook, its messages and its daemon |
| `PrmHook` | the hooks over a shared descriptor table, composed with `PrivilegeCheck` in place of the channel |
| `PolicyDB` | the tables and one operator per SQL statement |
| `AdminConsole` | several consoles on `PolicyDB` |
| `RetAuth` | the look-up on `PolicyDB`, with the consoles' statements as its environment |
| `PrmChannelProofs`, `PrmAnswerProofs` | theorems about `PrmChannel` |
| `PrmSelfCheckProofs` | theorems about `PrmSelfCheck` and `AdmissionReq`, on the lemmas of these two |
| `PrmHookProofs`, `PrmModuleProofs`, `FileAuditProofs`, `AdminProofs`, `RetAuthProofs` | theorems about the module each is named for |
| `MC...` | constants and symmetries for TLC |

A definition `X_Foo` next to `X` is `X` with a fault (a test dropped, two steps exchanged). No
specification uses one; each shows that a property notices that fault.

### PrmChannel

A caller `t` is a thread in a hooked call; `pc[t]` is its place in `check_privilege`, and `req`, `ptr`,
`down_ret`, `ret`, `result` are its arguments and locals (`reg` is the register of `fail_count += 1`). A
server `s` is one *life* of a server process, so that a restart is another element of `Servers`;
`spc[s]` is its place in `main`, or in the kernel's handler when its message is being handled (`k_...`).
`mem`, `status`, `data`, `sem` are the cells. Each access to shared memory is one action:

| `check_privilege` | action |
|---|---|
| `pid == -1` | `CheckOnline` |
| kmalloc, memset, READY, sema_init, index | `AllocSemMsg` (nobody else knows the cell yet) |
| `k2u_send` (reads `pid` again) | `SendCheck` |
| `down_timeout` | `DownAcquired`, `DownTimedOut` |
| `fail_count += 1` | `LoadFailCount`, `StoreFailCount` |
| `fail_count >= 3`, `pid = -1`, `fail_count = 0` | `TestFailCount`, `DropConnection`, `ResetFailCount` |
| `status == LOADED`, `*result = data` | `ReadStatus`, `ReadData` |
| `kfree` | `FreeSemMsg` |

| handler, in the server's `sendto` | action |
|---|---|
| CONNECT: `pid`, confirmation, `fail_count` | `ConnectSetPid`, `ConnectConfirm`, `ConnectResetFail` |
| RESULT: the test for READY, `status`, `data`, `up` | `HandleMsg`, `ResultSetStatus`, `ResultSetData`, `ResultUp` |
| DISCONNECT: `pid`, `fail_count` | `DisconnectSetPid`, `DisconnectResetFail` |
| a `sendto` that fails | `ConnectUnsent`, `AnswerUnsent`, `DisconnectUnsent` |

`ConnectRecv` and `Recv` are `recv` in `connect` and in the loop. A queue of `RcvBuf` messages overruns
as a netlink socket does: what does not fit is lost, `recvfrom` reports ENOBUFS once, and nothing is
queued until the queue is empty. `main` ignores a failed `recv` and handles the buffer again, which is
what the buffer `buf[s]` is for. In `connect` a failed `recv` leaves a buffer nothing has written; both
outcomes of the test of its type are taken. The buffer of `main` before its first message is taken to hold
no type that `msg_handle` knows. `Crash` is a process that dies anywhere but in the kernel's handler. `Overwrite`
is another user of kmalloc that writes over a freed cell.

The tail of `main` follows an endless loop and does not run in this version; `ServersLeave` lets a run
include it, since it is the code's statement of how a server is meant to leave.

`KmallocReuses` says whether kmalloc may return a freed address again. It may, in a kernel, and all the
properties hold whether it does or not. The price is in what they say. The server's answer names a cell, not a check,
so that the answer to a check that was given up finds whatever check has the cell by then. The history variable
`late[t]` collects, at the moment a call takes its cell, the checks about that cell that are still in a queue or a
server's buffer (`ChecksAbout`). No guard reads it. A call with `late[t] = {}` is undisturbed.

### PrivilegeCheck

Three variables: what a caller asks, what it was told, and `strays`, the verdicts that may still arrive for checks
that were given up. An answer has the code returned, the result, whether the wait timed out, and the late
verdicts the call has met. `OwnAnswers(r)` is what a call gets that meets none: the verdict in time; after the timeout an
error, the verdict, or a success without a verdict (the torn answer of `ChannelTorn`, which is part of
what the code promises). `DisturbedAnswers(r, late)` is what it gets otherwise: also the verdict of a check in `late`, as
in `ChannelLateAnswer`, or a wake-up with nothing to read. A verdict can be late only after a call has given up
(`GivesUp`), and is lost at any time (`Forget`). The refinement maps `asked` to `req`, `answer` to `ret`, `result`,
`down_ret` and the verdicts of `late` once the call returns, and `strays` to the verdicts of the checks on their way about a cell that
is free, or in some call's `late`.

### AdmissionReq

The two versions of the channel differ in one place: `admissionReq` frees the cell right after the wait (`KfreeFirst`),
whatever came of it, and then tests `status` and reads `data` in the freed cell (`ReadFreedStatus`,
`ReadData`). Everything else is `PrmChannel`'s. The variable `version` says which module is loaded and
never changes. `OverwriteAll` is the other user of kmalloc: it writes over a cell's every field, so
that `status` is then none of the header's values. The server reads the first version's `action` (1 to 3) where the present
version has the user, so that such a check is one of the "users" 1 to 3 and is never refused.

### PrmSelfCheck

If the server's output is a regular file, its `printf` ends in a hooked `write`. `FlushStdout` starts a
check by the server's own thread (`OwnThread[s]`) wherever it prints; while it is in that call the server
does nothing else. The hook of `write` has no exception for the server in either version, and the module
runs on either (`SelfSpec` starts from both).

### PrmHook

Threads share one descriptor table. `hpc[t]` is the place in the hook, `ino[t]` the file that
`get_info_from_fd` saw, `p_result[t]` the hook's variable. `GetInfo` and `RealCall` are separate steps, so
that another thread may close or reuse the descriptor in between; `openat` has its `RealCall` first. The
kernel's own calls are external: one step, which takes effect or fails. `told[t]` is the whole answer of
`check_privilege` (the code's `check_ret` is its `ret`), so that a property can tell an answer in time from a late one. A link cannot be open under a descriptor of
these calls, so `FILE_LNK` is left out.

### PrmModule

`plan` is what is left of the init or exit function that insmod or rmmod runs, one element per access to what other
threads see: `prm_hook_init`, `mod_init`, `audit_init` and their exits are the sequences, in the order of the source.
`table` holds per call the kernel's function or the module whose hook is there; `real[m]` is what `m` saved.
`kernel2` clears the write protection in CR0, of one CPU; the others make the page writable
for all. `Migrate` moves the loader to another CPU in between, which leaves the bit clear on the first one,
and a patch under protection kills the loader (`LoaderFaults`). A thread in a call is a stack of
`frames`: `CallReal` goes to the kernel or into the hook that was there before, `TestPid` and `Send` are the
two looks at the connection. `Answered` is `check_privilege` from the wait on, in the granularity that matters here.
`FreeText` is the end of a removal; a thread that is still inside dies (`RunsGoneText`).
Assumed of the administrator: one insmod or rmmod at a time, the last module first.

### FileAudit

`opc[t]` is the place in `hooked_openat` after the real open, `dpc[d]` the place of one life `d` of the
daemon in `main`. A record is the number of its open and its user. `sent[d]` is the history of what reached
`d`'s socket. The queue overruns as in `PrmChannel`; `main` ignores a failed `recvmsg` and logs its buffer again, which
is zeroes before the first message. `Socket` is the `socket` and `bind` of `sendpid`: without the module there is no protocol,
nobody looks, and the daemon logs zeroes for ever. `Fopen` may itself be an audited open, by the daemon's own
thread. `LogDies` is `getpwuid` on a user it does not know. A line is followed to the stream, not to the disk.

### PolicyDB, AdminConsole

Tables are sets of rows; `HasId`, `InsertProgram`, `InsertPolicy`, `UpdateProgramRow`,
`UpdatePolicyRow`, `DeletePolicyRow`, `DeleteProgramRow` are the statements, with the foreign key and its
cascade. `AdminConsole` follows a console through login (`DbExists`, `CreateDb`, `UseDb`, `CreateTable`, each
of which may fail) to the panel, which it reaches whatever failed. The commands that check an id first
(`CheckRuleId`, `CheckProgramId`) act in a later step, since the administrator types in between. `Quit` is
also a console that is killed.

### RetAuth

A path is the sequence of its names. `path_to_dirList` gives the path and its directories upwards, down to the
one below the root, behind a head without a name (node 0); `QueryProgram` is one turn of the loop, which
moves on before it looks. `GetPath` may read something other than the path (a deleted executable, a
kernel thread, a working directory with "exe" in its name), fail, or run past the end of an empty file
(`GetPathSmashes`). No return but the one after a failed `get_path` closes the connection: `conns` counts
them. `held` collects the answers that the database would have given at the moments of the call (`Decisions`), and
`edited` says whether the programs on the way of the walk (`OnTheWay`) have changed since it began; with `failed`, these
are history variables of the property.

## 3. Runs

| Run | Instance | Shows |
|---|---|---|
| `ChannelTwoServers` | 2 callers, 2 requests, 2 servers that may crash, 2 cells that are reused, queue 1 | `CellOwned`, `ExactVerdict`; `KeepsPromise`: PrmChannel implements PrivilegeCheck |
| `ChannelLiveness` | 2 callers, 1 server, 1 cell that is reused, queue 1, fair | `CheckReturns`, `ConnectReturns` |
| `SelfCheck` | both versions of the module, 1 caller, 1 server that prints, 2 cells that are reused, queue 1 | `FailCountSettled`, `OwnCheckFails`, `PresentAnswersOnce`, `PresentKeepsPromise` |
| `HookThreads` | 2 threads (root, user 1001), 1 descriptor, a regular file and a device | `DenialIsEnforced`, `BlockedOnlyByVerdict` |
| `ModuleLoads` | 3 modules, 2 of them loaded at a time, 1 thread, 2 calls, 2 CPUs | `EveryHookLeadsOn`, `NoWayInWithoutSocket`, `ProtectionIsBack`, `HooksFindTheirWay` |
| `AuditLog` | 1 thread, 2 users, 2 daemons, queue 2, fair | `LogIsInOrder`, `NoSilentLoss`, `OpenReturns`, `QueuedIsLogged` |
| `AdminConsoles` | 2 consoles, 2 paths, 2 programs, 2 rules, 2 actions | `RulesHaveProgram`, `OneBootstrapper`, `RemovedStaysRemoved` |
| `RetAuthEdited` | 1 process, 4 paths, 2 programs, 2 rules, 2 connections, fair | `AnswerOfOneMoment`, `AuthReturns` |

`ExactVerdict`, `PresentAnswersOnce`, `DenialIsEnforced` and `BlockedOnlyByVerdict` each name the disturbed call as the
exception: nothing in the code keeps a late answer from it. What they say of it is that it needs a check given up in the same
cell and not forgotten when the call began, and that it brings the verdict of such a check, or nothing.
`PresentKeepsPromise` is `KeepsPromise` for a server that is a caller itself, step by step as the version says.
`ProtectionIsBack` names what the present version's use of CR0 costs: the CPUs in `moved`, which
stay unprotected. `LogIsInOrder` holds because records are queued and logged by one thread each;
its last conjunct says when a line is repeated. `AnswerOfOneMoment` says which edits the walk of the look-up
survives: of rules, and of programs elsewhere. If a program on its way is edited under it, the answer may
be one that the database never gave.

Four runs show that something the repository says of itself is not so:

| Run | Statement | What the code does |
|---|---|---|
| `ChannelTorn` | `prm_netlink.h:65`: `data` has the values of `result_type` | a caller that timed out sees `status` set and `data` not yet: success with result 0, which passes |
| `ChannelLateAnswer` | `prm_netlink.h:34`: the address identifies the check | a late answer is taken for the answer to a later check in the same cell |
| `ChannelRestart` | `prm_netlink.c:150`: the confirmation is returned | it goes to whatever `pid` is by then; with two servers connecting, one waits for ever |
| `FirstVersion` | `kernel/netlink.h:76`: `data` has the values of `result_type` | `admissionReq` frees the cell and then reads it: a call that its answer has woken in time succeeds with what another user of kmalloc has written |

### Bounds

- `MaxIndex` bounds the messages that the kernel numbers. A call or a connection begins only while a number
  and a cell are left for it, so that no thread stops half-way because of a bound. Four messages are enough
  for one connection and three checks: the number that drops a connection, and that makes a server's queue overrun
  behind a check which it has answered and will handle again (`SelfCheck`). In `ChannelTwoServers` it is three: both
  servers and one check, or one of them and two, the second possibly in the cell of the first.
- Two callers give every race on a cell or on `fail_count` between two threads; two servers give every
  overlap of an old and a new one. `ChannelTwoServers` has two requests with different verdicts, so that the
  verdicts on two checks can be told apart.
- `RcvBuf` is 1 in the runs that pass: the fewest messages then overrun a queue. A message waits in the queue
  while another one is in the server's buffer. In the runs that expect a violation it is 2, where they need no overrun.
- Servers: a server leaves in `SelfCheck` and in `ChannelLiveness`, which have one. That two servers never answer the
  same check, and that the farewell of one misleads no caller of the other, is proved for any number of servers
  (`ChecksAreAnsweredOnce`, `ChannelKeepsPromise`).
- Modules: two at a time is a stack (a hook whose real call is a hook). Two CPUs give a loader that is
  moved. One thread, since threads in hooks meet only in `pid`, which `Answered` and the servers change at any
  time. `openat` (real call first) and `read` (real call last) stand for all calls; every entry is patched.
- Hooks: with one descriptor the other thread can close it, and open another file under it, between check and call. The device
  stands for what is not checked; a directory is checked like a regular file and never refused.
- Log: three opens with a queue of two are two records that wait together, and one lost behind them, or one taken;
  `MaxLines` bounds only the lines of zeroes of a daemon without a socket.
- Consoles: two of everything is what the races need (one console checks, another deletes).
- Look-up: an executable three names deep gives a first, a middle and a last turn of the loop; the fourth path is not
  on its way.

### Fairness

`PrmChannel`: weak fairness of every thread that is inside `check_privilege` (the scheduler runs it, and
`down_timeout` returns when its time is up) and of every server that runs. Nothing makes a thread call,
a server start, leave or crash. `ConnectReturns` holds for one server at a time; `ChannelRestart` shows why.
`FileAudit`: weak fairness of every thread in an audited open and of every daemon that runs; nothing makes
a thread open, a daemon start or be killed, or the module be loaded.
`RetAuth`: weak fairness of the steps of a call: MySQL answers every statement, since no session holds a
lock beyond one. Nothing makes a step fail, the process restart, or a console edit.

Deadlock is not checked in the runs of the channel and of the log, where numbers, cells and opens run out and servers
and daemons end, nor in `ModuleLoads`, where a module whose loader was killed stays. It is checked elsewhere.

## 4. Proofs

TLAPS proves every safety property that a passing run checks, for every number of callers, servers, cells, threads,
descriptors, modules loaded at a time, CPUs, daemons, consoles, programs, rules and paths, and every length of a queue:

- `PrmChannelProofs`: `TypeCorrect`; `FailCountSettles`; `CellsAreOwned`. Each property is inductive
  together with the types. For `FailCountSettled`: a step that leaves the count at the limit is a store,
  which puts the storing thread at the test; a thread leaves `test`, `drop` or `reset` upwards
  of the limit only towards the reset. For `CellOwned`: only the call that
  has a cell frees it, and kmalloc gives out no cell that is allocated.
- `PrmAnswerProofs`, whichever addresses kmalloc returns: `AnswerInvariant`, and from it `VerdictsAreExact`,
  `ChannelKeepsPromise` and `ChecksAreAnsweredOnce`. What makes reused cells tractable is the ghost `late`: a call that is
  given a cell notes the earlier checks that still name it. `AnswerInv` says, besides the types and `CellOwned`:
  - `FreshUnknown`: no message names a cell that was never allocated;
  - `MessagesAgree`: a message that names a call's cell carries that call's check or one in its `late`;
  - `CellHoldsData`: the cell holds nothing, or the verdict on one of these checks;
  - `CellHoldsAnswer`: if `late` is empty, the semaphore is up only after both status and verdict are written;
  - `CallProgress`: what the locals of a call can be at each place.

  Refinement: `CheckOnline` is `Ask`, `ReadData` and `FreeSemMsg` are `GetAnswer`, `Return` is `Leave`, a step that
  loses the last trace of a check given up is `Forget`, and every other step stutters. `StraysServers` and `StraysCalls` show
  that no step adds a stray but a call that gives up. `ChecksAreAnsweredOnce` needs more (`OnceInv`): one
  server at most knows the check of an undisturbed call, none before it is sent, and a cell that is still `READY` has had no
  `up`.
- `PrmSelfCheckProofs`, for both versions of the module: `SelfTypeCorrect`, `SelfFailCountSettles`, `OwnChecksFail` (for
  one server; by `OwnInv`, a server in its own call stays where it printed and nobody loads its cell),
  `PresentVersionKeepsPromise` and `PresentVersionAnswersOnce`. In the present version a step is one of `PrmChannel`'s, or another user of kmalloc writes
  over a free cell, which `AnswersSurvive` and `OnceInvKept` show to be harmless. So what `PrmHookProofs` concludes from `PrivilegeCheck`
  also holds for servers whose own writes are hooked.
- `PrmModuleProofs`: `ModuleCorrect` (the invariant), and from it `TypeCorrect`, `HooksLeadOn`, `NoWayIn`, `Protection` and
  `FindTheirWay`. The properties speak of the table and of the saved entries; what makes them hold is what the loader has
  yet to do. `PlanFits` says that the plan is the rest of an init or exit function in its order (`RestOf`, an ordering of the
  steps without a position in it), `Serves(m, c)` that module `m` has saved what it replaces at call `c`.
  Every entry leads to a module that serves it (`TableServed`), what a module saved leads down the stack
  (`SavedLeadsDown`), a removal still has to restore every entry that leads to its module (`RemovalRestores`),
  and a module that takes a server for connected without a socket is past both its last restore and its release (`SocketGone`).
  `FramesServed` carries this to the threads that are inside.
- `FileAuditProofs`: `TypeCorrect`, `AuditCorrect` (the invariant), `LogCorrect` and `LossShows`. A line tells of
  a record by its place among those sent, so that places must not be ambiguous: `NumbersAreNew` and `SentOnce`. `InOrder`
  has the queue follow the last line of the log, and the buffer equal to that line, which is what a failed
  `recvmsg` repeats. `Traced` and `Told` follow a loss from the overrun to the repeated line: the overrun is pending, or it
  was reported and the log has a line too many for good.
- `AdminProofs`: `AdminTypeCorrect`, `RulesKeepProgram`, `OneConsoleBootstraps`, `NoRuleComesBack`. `OneConsoleBootstraps`
  needs `BootstrapInv`: a console that creates tables does so in a database of its own making
  and finds exactly the tables it created before. `CREATE DATABASE` is the lock.
- `PrmHookProofs`: `HookInvariant`, and from it `HookTypeCorrect`, `DenialHolds` and `VerdictsBlock`. The two properties look
  at a call whose check is over, when `PrivilegeCheck` has forgotten it. The invariant `HookInv` keeps what connects them,
  by place: the check that is posed is about the file the hook looked at (`Asks`), its answer `told[t]` is one of
  `PrivilegeCheck`'s to that very check, late answers included, what it left in `p_result` (`Decided`), and that the
  call went by it (`Ended`). The descriptor table is not in the invariant:
  another thread may do anything to it.
- `RetAuthProofs`: `RetAuthTypeCorrect` and `LookUpIsOfOneMoment`. `AnswerOfOneMoment` looks only at the end of the
  call; its strengthening `WalkInv` says of a call whose way is not edited that no program is registered under the names
  it has passed (`PassedNothing`), that the row it found is a nearest one, and, edited or not, that what the database
  would answer now is among the answers held (`HeldIsCurrent`). The path is any sequence of names.

The assumptions are those on the constants (`ChannelAssumption`, `PolicyDBAssumption` and the like), which
TLC evaluates in every run.

Only model-checked: everything under fairness (`CheckReturns`, `ConnectReturns`, `AuthReturns`, `OpenReturns`,
`QueuedIsLogged`), which is out of the prover's reach. The runs that expect a violation have no theorem, of course.

## 5. Not modelled

- The stale TLB of other CPUs after `kernel` and `fileaudit` change the page's protection. Removing a module that
  is not the last one loaded, which leaves the table pointing to freed text whatever the code does.
- What becomes of a thread inside a removed module beyond its death; the rest of the machine goes on in the model.
- What the first version's hooks make of their answer: with the present server it is never a refusal.
- fileaudit: the path in `regs->bx`, the prefix test (every modelled open is below the directory), the test
  for `O_RDONLY`, which is never true, and the result of descriptor 0, which is logged as failed; the truncation of
  the log by a restart and the buffer between the stream and the disk; `killdeal_func` calling `fclose` and
  `free` in a signal handler; the buffers that `AuditOpenat` never frees.
- The descriptor that a blocked `openat` leaves open (`prm_hook.c:160`): it is what the code does on every
  blocked open, and no interleaving is involved.
- A kmalloc that fails, a `socket_init` that fails, `reconnect` (nothing calls it).
- The references that `fdget` takes and nobody gives back, and the leak of a cell by each answered check: no step of
  the code depends on them.
- The commands of the console that only print, the parsing of its input, `deleteLog` (an empty function,
  though the help offers it), the table `audit` (nothing writes it).
- The wildcards and the blindness to case of `LIKE`; `./sysout.txt` shared by two processes.
- A restart of the MySQL server, after which version 5.7 may give an id of a removed last row again.
- A write of the handler to a freed cell that is no check's: what it does to the other user of that memory.

## 6. Plan

Done: the channel and its abstract specification, its composition with the hooks and with the server's own
checks, in both versions of the module; load and unload; the sample; the database with the console and the
look-up; the theorems above.

Next, in this order:

1. Proofs: what of `PrivilegeCheck` the first version keeps, and in which sense it answers no check twice.
2. `reconnect` and a `socket_init` that fails, should a version of the server call the one or survive the other.
