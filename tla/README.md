# UcDrive: a verification project

UcDrive is a file store with two servers. Clients log in over TCP, change directory, list, upload and download;
the *primary* serves them and replicates every change to the *secondary* over UDP; the two exchange heartbeats,
and the secondary takes over when the primary falls silent. This directory models the parts of the program whose
correctness depends on the order of things: messages, timeouts, threads, crashes.

All paths below are under `src/com/`.

## The system

| Component | Code | State | Operations |
|---|---|---|---|
| UDP file replication | `DataTransfer/threads/UDPTransfer`, `Server/udp/UDPAccept`, `DataTransfer/tasks/UDPFileTransferTask` | two running MD5 digests, a cache of 16 blocks, block counters, two UDP sockets, the file | announce, handshake, send a tranche, compare hashes, write or repeat |
| Heartbeats and failover | `Server/heartbeats/*`, `Server/PrimaryServer`, `Server/SecondaryServer` | role, heartbeat threads and their counts of failures, one UDP socket per host | probe at start, beat, time out, take over |
| Startup and wiring | `Server/Server`, `Server/tcp/TCPAccept` | pools, queues of 100 tasks, listening sockets | `bePrimary`, `beSecondary`, accept |
| Accounts | `Server/auth/Auth`, `Server/auth/User` | a set of mutable, shared `User` objects, one file per user | authenticate, `changeUsers`, `loadUsers` |
| Sessions | `Server/conn/ServerConnection`, `Server/CommandHandler` | the session's `User` object, its token | LOGIN, CH-PASS, LS, CD, UPLOAD, DOWNLOAD, ABORT, end of connection |
| Command replication | `Server/udp/UDPCommandSender`, `UDPCommandReceiver`, `UDPCommandHandler` | a pool of 10 senders, one of 10 handlers | send SCD / CH-PASS, apply, acknowledge |
| TCP upload and download | `DataTransfer/threads/Server*`, `Client*`, `DataTransfer/FileTransfer` | sockets, file, bytes left | transfer a file with its MD5, reply, queue for replication |
| Queues and pools | `DataTransfer/creators/*`, `DataTransfer/tasks/*` | three bounded queues, three pools | take a task, start a transfer |
| Client | `Client/Client`, `Client/CommandHandler`, `Client/conn/*` | queue of 10 commands, current server, directories | read, send, switch server and repeat |
| Configuration, messages | `*/config/*`, `DataTransfer/Request`, `Reply`, `Properties`, `enums/*` | none after start | parse; data classes |

**How they interact.** `PrimaryServer.main` probes, then runs either `PrimaryHeartbeat` beside `bePrimary` (which starts
`TCPAccept` and the three creators) or `SecondaryHeartbeat` beside `UDPAccept` and `UDPCommandReceiver`, until the heartbeat
ends. A session puts transfer tasks on queues that the creators empty into pools; an upload that succeeds puts a
replication task on the UDP queue; a change of directory or password is replicated by a sender thread of its own. All
sessions share the `User` objects of `Auth`.

**What is hard.** Control strings and blocks share an untyped, unnumbered datagram stream. Both ends of the replication
time out on their own clocks. Two programs with equal code and different roles elect a primary by silence alone. One
heartbeat socket can have two reader threads. `User` objects are shared without locks and replaced under a session's feet.
Pools of ten threads contain receives without timeouts, and every transfer is run twice. Nothing guards a file that two transfers
use. A client repeats on the other server what it does not know to be done. `hazards` in PROJECT.json lists each of these at its line.

**What makes each component correct.** Replication: a finished copy is the file, the secondary never writes what was not
approved, both ends finish. Failover: takeover after the stated silence and not before, never two primaries for long, never
two secondaries for long. Sessions: one per user; what was acknowledged survives a restart and reaches the secondary in
order. Command replication: nothing is set that was not handed over, no later change is undone. Transfers: a file is one whole upload, the
secondary's is the same, every transfer ends. Client: nothing typed is forgotten, no server runs a command twice, a repeated command
means what it meant.

## Plan

| # | Module | What | Theorems |
|---|---|---|---|
| 1 | `UdpTransfer`, `FileCopy` | **done**: one replication, and what it promises | type correctness, `SecondaryNeverAhead`, `CopyExactUnlessHollow`, `TrancheInFlight`, the steps of `FileCopy` without faults: **proved** |
| 2 | `Failover` | **done**: heartbeats, probe, takeover, crashes | type correctness and `TakeoverInTime`: **proved** |
| 3 | `Sessions` | **done**: `Auth`, `User`, `ServerConnection`, login, CH-PASS, CD, crash and restart from the user's file; two sessions of one user | type correctness, `TokenHeld`, `OneSession`, `DiskAgrees`, `HandedOver`: **proved** |
| 4 | `CommandReplication` | **done**: senders, receiver, handlers, reordering and loss, the takeover's second `Auth` | type correctness, `OnlyHandedOver`, `NoChangeUndone`, `FileFollowsRecord`: **proved** |
| 5 | `Transfers` | **done**: uploads and downloads, both ends, queues, creators, the pool, threads started twice, copies of an uploaded file | type correctness, `FileIsNewest`, `DownloadWhole`, `SecondaryFollows`: **proved** |
| 6 | `ClientFailover` | **done**: command queue, switch of server, repeated commands, late replies, crashes | type correctness, `NothingForgotten`, `OncePerServer`, `DirectoryAgrees`, `RepeatedInPlace`: **proved** |
| 7 | `Paths` | the path commands of client and server as operators, checked against a reference definition | - |
| 8 | compositions | `Sessions` with `CommandReplication`; `Transfers` with the losses of `UdpTransfer`, where a receiver may never end; `ClientFailover` with `Failover`'s timing | - |

## Modules

### `UdpTransfer`: one replication of a file

The primary's `sendFile` and the secondary's `receiveFile` are two sequential programs; `sPc` and `rPc` say where each
stands. An action is the code from one socket operation to the next.

| Code | Model |
|---|---|
| `sendFile` 116-143: announce, 10 s timeout, wait for any datagram, open the file | `SendFileInfo`, `TakeHandshake`, `HandshakeTimeout` |
| 145-163: read (or take from the cache) and send a tranche | `SendBlock`: `blocksSent`, `sIdx`, `newInfo`, `sMd` |
| 165-178: receive a hash, compare, answer OK or ERROR MD5 | `Judge`, by `CheckMd5` or `Md5Timeout` |
| `UDPAccept` 25-53 | `AcceptUdp` |
| `receiveFile` 194-218: handshake first, then open (truncate) | `OpenCopy` |
| 219-233: receive a tranche, or time out | `ReceiveBlock`, `BlockTimeout` |
| 234-235: send `digest()`, which resets it | `SendMd5` |
| 237-256: any answer; on OK write the cache, otherwise restore the digest's clone | `Settle`, by `ReceiveAnswer` or `AnswerTimeout` |

A hash is the sequence of the blocks that went into the digest: equal hashes mean equal inputs (collisions of MD5 are left
out). The sequence `<< >>` is the hash of nothing, which plays the leading part in what goes wrong there: a retry resends blocks
that do not pass the `DigestInputStream` again. The primary's cache is not a variable, it always holds the tranche of the
file; the secondary's is one, because a tranche that times out leaves earlier blocks, or control strings, in it. A block may be any datagram: line 239
trims what it reads and compares it with "OK", so `ReadsOk` holds the datagrams that pass, the control string and whatever blocks of the file have that text (in the runs, `b2`). `mistaken` records that
such a block was taken for an approval: late, after a block's timeout, or of a tranche resent. Hashes alone differ from the rest. The network loses (`MaxLosses`), reorders (`MaxOvertakes`) and drops what a full
buffer cannot hold (`BufferSize`); it does not duplicate. A timeout happens freely when nothing is under way, and at most
`MaxLate` times when something is. `MayFailToOpen` lets opening fail at either end (`FileNotFoundException`).

`FileCopy` is what a replication promises when nothing is lost or late: the copy is emptied once, the primary approves a
tranche, the secondary appends it, one behind at most; at the end the copy is the file. `CopiesFile` is that specification under
the mapping of `UdpTransfer`'s `Copying`.

### `Failover`: who serves

Each host has a main thread (the probe) and up to three heartbeat threads: `sh0`, the one `PrimaryServer` starts at
line 52 and forgets, `sh1`, the one joined, and `ph`. A thread sends (`Beat`), waits its turn for the socket
(`Acquire`: `DatagramSocket.receive` is serialised), receives or times out (`Receive`, `Timeout`), sleeps (`Wake`). The sockets' inboxes,
the counts of failures, crashes and restarts of both hosts are state. Both mains are covered by the constant `Program`; the
deployment script `src/deliverable/project_config.sh` starts `PrimaryServer.main` on both hosts. The run `failover` has one host of
each program, `shared_socket` has the deployed pair.

Time is counted in ticks of half a second to a second: a receive waits 2, a sleep lasts 1, 3 failures end a
secondary. A tick happens when no thread can move (steps are short next to a tick); steps due in one tick come in every order, so
the two hosts drift against each other. `serving` and `alone` are history variables: ticks that a host has been primary, and that
a secondary has had no peer.

### `Sessions`: one account and its connections

`Auth` keeps a set of `User` objects that are mutable and shared by reference, so `heap` holds the objects in order of creation and
everything else refers to one by index: `inSet` (the set's), a session's `user`, the `arg` and `aid` of a call of `changeUsers`. One account is
enough: accounts share nothing but the monitor of `changeUsers`. A connection `c` is a server thread `sv[c]`, a client `cl[c]` and a channel each
way. An action is the code between two points where another thread can tell the difference.

| Code | Model |
|---|---|
| `ServerConnection.run` 45-57: `login` until it succeeds | `Login`, by `LoginRequest` |
| `Auth.authenticate` 113-121: look at password and token; then set the token, then `changeUsers` | `Authentic` in `LoginRequest`, `Claim` |
| `Auth.changeUsers(CHANGE)` 65-88, synchronized: remove, add and truncate the file, write it | `RemoveOld`, `AddNew`, `WriteRecord` |
| `CommandHandler.login` 159-178, `changePassword` 186-190, `handleCd` 248-266: what follows `changeUsers` | `LoginDone`, `PasswordDone`, `DirectoryDone`, `SaveDirectory` |
| `handleRequest` 53-82, `verifyRequest` 42-51 | `HandleRequest`: `EndSession`, `NullToken`, `Unauthorized`, `ChangePassword`, `HandleCd`, `HandleFiles` |
| LS, DOWNLOAD and UPLOAD 84-140, 193-230, as far as a session can die of them | `HandleFiles`, one command `FILES` |
| `run` 74-97: the exception handlers | `EndSession`, `Reset`, `Unauthorized` |
| the exceptions that none of them names | `Dies` |
| `Auth.loadUsers` 21-59 after a restart | `Crash` |
| the client's `login`, `changePassword`, `serverCd`, exit and switch of server | `Connect`, `SendLogin`, `LoginReply`, `SendCommand`, `CommandReply`, `Leave` |

`FileWriter` truncates when it is opened and writes when it is closed: `file` is `Torn` in between, and a crash then loses the account. Of two
overlapping writes (`handleCd` writes without the monitor) the later one wins; a mixture of the two is left out. `heap` keeps objects nothing refers
to any more, which changes nothing. Three history variables mark what the properties set aside, because the code lets it happen: `disputed` (two logins
that overlapped between the look at the token and the setting of it, or a refused request that cleared a session's token), `leaked` (since the server started, a thread ended with its user's
token set: the reply to a first login failed, or a request threw what `run` does not catch, such as a null token, an empty new password, a name that is no path, a port that is no number or a full queue of transfers), `unsaid` (a password changed whose reply failed). `saw` is the
token that a login found.

### `CommandReplication`: changes on their way to the secondary

A command is its place in the order in which sessions hand commands to the senders' pool, and the value it sets is that number, so a value says where it
came from. Not every value arrives whole: the sender takes as many bytes as the text has characters, which cuts what is not ASCII, and the receiver trims. `-k` is what is then left of the value `k`
(`Arriving`, for the commands in `Altered`; `Source` finds the command), and of an empty value nothing is left, which the handler refuses (`Refuse`). Fields stand for the directory (SCD) and the password (CH-PASS) of one user.

| Code | Model |
|---|---|
| `handleCd` 264-266, `changePassword` 187-190: `execute(new UDPCommandSender(..))` | `HandOver` |
| `UDPCommandSender.run` 20-37: send, wait without a timeout, give the thread back | `SendCommand`, `TakeReply` |
| `UDPCommandReceiver.run` 23-32 | `Receive` |
| `UDPCommandSender` 23, `UDPCommandHandler` 34: the value on its way | `Arriving` |
| `UDPCommandHandler` 33-67: split, `findUser`, set, `changeUsers`, reply | `FindUser`, `Refuse`, `SetField`, then the next row |
| `Auth.changeUsers` 65-88, synchronized | `RemoveOld`, `AddNew`, `WriteRecord` |
| `findUser` 125-131 and its callers on no user: an error reply, or a null pointer | `Miss` |
| `Server.bePrimary` 78: a second `Auth` from the files, while handlers go on | `LoadUsers`, `BecomePrimary` |

`last` says whether an account follows this one in the set's order, which decides what a search returns while the account is out of the set. `raced`
records the one case the properties set aside: a takeover that meets a handler at work. `Other` is the file with another account's record, which a search that
hits the wrong account writes.

### `Transfers`: uploads, downloads and what they leave behind

One user, whose sessions share `User.serverDir`; every directory holds one file. A file is a sequence of pieces and a piece is the upload it came
from. `Hole` is a piece that was never written.

| Code | Model |
|---|---|
| `handleUpload` 126-140, `handleDownload` 84-124: reply, then `add`, which throws when the queue is full | `RequestUpload`, `RequestDownload`, `TakePort`, `MissPort`, with `AddOrDie` |
| the three creators: `execute(new ServerUpload(..))`, whose constructor has started it | `Create` |
| `threadPoolFileTasks` (`Server` 85), one pool for all three | `PoolRun` |
| `ServerUpload` 39-78: accept, read the directory, open (and empty) the file | `AcceptUpload`, `AcceptNobody` |
| 79-90, 91-123: write, compare, reply, read the directory again, queue the copy | `WritePiece`, `FinishUpload` |
| `ServerDownload` 87-131 with `ClientFileDownload` 58-130 | `Call`, `AcceptDownload`, `SendPiece`, `FinishDownload`, `Reset` |
| `UDPTransfer` on both servers | `OpenCopy`, `OpenSource`, `SendTranche`, `WriteTranche`, `FinishCopy` |
| the client's process ends, or its socket is collected | `Leave` |
| `ServerUpload` 57, 77: a size that is no int, a file that cannot be opened; a file that cannot be written or read any more | `OpenFails`, `Break` |

`run["own"]` is the run that a constructor starts, `run["pool"]` the second one of the same object. Both accept, or both connect, and one client is there for them. When the run that has the client ends with an exception nobody closes
the client's socket: the client is *unserved* and waits for good. A copy is taken
without losses: what those do is `UdpTransfer`'s subject. `upset` records what happened to which directory's file: *written* by two uploads at once, *read* while it
was written, *copied* while it was replaced, *torn* by a client that left or a write that failed, *strayed* (the user changed directory under the upload), *dropped* (the queue of copies was full). Every property names
the reasons it sets aside; taking any of them out of a property makes TLC find the behaviour (for *written* in `DownloadWhole` it takes three transfers).

### `ClientFailover`: one client, two servers

| Code | Model |
|---|---|
| `Client.main` 95-135 | `Start`, `Type`, `ExitCommand`, `QueueOrExit` |
| `switchServer` 33-82: connect by the flag, toggle it, login, repeat the queue | `SwitchServer`, `Login`, `LoginFails`, `Repeat` |
| `ClientConnection.getReply`, `sendRequest`: timeout, reset, end of stream | `Failed`, `CommandFails` |
| `setSocketParams` 83-95: the old connection is closed | `ConnectTo` |
| `changeServerWorkingDirectory` 187-229, with its loop | `Send`, `TakeReply` |
| `uploadFile` 355-373, which catches everything; `ClientUpload` 121-124, which queues the command again | `TakeReply`, `CommandFails`, `TransferEnds` |
| `changeServerInfo` 379-438 | `ChangeServerInfo` |
| the server: `handleRequest`, `handleCd`, the handlers of a closed connection, SCD on the other server | `ServerRuns`, `ServerRunsLate`, `ServerNotices`, `Arrive` |
| another session clears the user's token | `Revoke` |

What a server answers is in `Answers`: server-cd gets OK or Bad Request, server-ls OK or, for a directory that is not there, an error. A timeout is possible whenever no reply is there: the server's delay has no bound. Roles change by `Crash`, `Promote` and `TakeOver`, a takeover from a
server that still serves, after which both do (how that comes about is `Failover`'s subject). `upset` again records what a property sets aside: *shifted* (a swallowed timeout of an upload left the replies one behind; *misled* remembers that it happened),
*pushed* (a change of directory came in under the session from outside), *missed* (an SCD was lost or overtaken, so that every login from then on is *behind*), *behind* (a login found the servers disagreeing), *reentered*
(`ch-server-info` left `connectedToPrimary` as it was), *resent* (a server-cd whose replies were one behind read the error of a server-ls as its own answer and was sent again, although the server was running it).

## Runs

| Run | Bounds | Shows |
|---|---|---|
| `udp_lossless` | 40 blocks, tranche 16 as in the code, buffer 18, no faults | `CopiesFile` (the last tranche is a short one, the counter overshoots), `TrancheInFlight`: 17 datagrams at most, so a smaller socket buffer can drop |
| `udp_lossy` | 3 blocks, tranche 2, buffer 4; 1 loss, 1 overtaking, 2 untimely timeouts, failures to open | `SecondaryNeverAhead`, `CopyExactUnlessHollow`, `HandshakeSettles`. Two tranches, the second short, with a block that reads OK in the first; each kind of fault and every pair of them occurs, and without the exception for that block TLC finds both properties violated |
| `udp_retry_progress` | 2 blocks, tranche 2, 1 loss | `TransferEnds` violated: the retry never matches. If a whole retry is lost as well, both ends agree on the hash of nothing and an old cache is written: the case `CopyExactUnlessHollow` excepts |
| `failover` | one host of each program, 3 crashes, 2 lost heartbeats (fewer than the 3 failures), buffer 2, horizon 16 ticks | `TakeoverInTime`, `NoFalseTakeover`, `LoneHostServes`, no deadlock. The horizon lies past every stated bound. It takes three crashes to leave a host alone with a full socket: with two the bound is not reached |
| `split_brain` | 1 lost heartbeat | `SplitBrainHeals` violated: the comparison at `Heartbeat.java:89` is with an untrimmed buffer |
| `dual_secondary` | 1 crash | `SomebodyServes` violated: two secondaries keep each other waiting |
| `shared_socket` | `PrimaryServer` on both hosts, 1 crash, 2 lost heartbeats | `NoFalseTakeover` violated: the forgotten heartbeat thread takes the joined one's datagrams, so two losses count as three failures (with one loss the property holds) |
| `sessions` | 2 interchangeable clients, 2 passwords, 2 directories and one that cannot be opened, an empty password, 2 commands, 2 connections made, 1 crash | `TokenHeld`, `OneSession`, `DiskAgrees`, `HandedOver`. Two connections either overlap or follow each other, as one client's or as two; two commands give every pair of CH-PASS, CD and a use of files by one session or two |
| `password_lost` | 1 client, 1 command, 2 connections, 1 crash | `AcknowledgedPasswordKept` violated: `changeUsers` writes the record it removed, so the file has the old password until the next login or CD |
| `commands` | 2 fields, pools of 2 threads, 3 commands, the value of one cut, any refused, 1 loss, 1 takeover at any time | `OnlyHandedOver`, `NoChangeUndone`, `FileFollowsRecord`, `EveryCommandAnswered`. Three commands give two of one field and one of the other, all pairs overlapping or not; a pool of 2 is exhausted by a loss and a handler that dies |
| `transfers` | 2 sessions, 2 directories, queues of 1, a pool of 2, 2 transfers of 2 pieces and 1, an older file of 2 | `FileIsNewest`, `DownloadWhole`, `SecondaryFollows`, `EveryTransferServed`, `EveryUploadCopied`. Two transfers fill a queue, exhaust the pool with their second runs, and meet in one file as any pair of upload, download and copy; the shorter second file cuts a reader and a copier short. |
| `client` | 3 commands typed, 1 fault (a crash or a takeover from a server that serves), queue of 1, directories two deep | `NothingForgotten`, `OncePerServer`, `DirectoryAgrees`, `RepeatedInPlace`, `EveryCommandEnds`. Three commands are a failed one, one that shifts the replies, and one that reads a wrong reply; a background upload fills the queue of 1. Among them are an upload whose reply is late, a server-ls that fails and a server-cd that reads its error |

`TakeoverInTime` counts the silence a secondary tolerates (3 receives of 2 ticks), the sleep it is in, and one more for each datagram that the dead primary
left in its socket, since every one of them is a sign of life that starts the count again: 3 x 2 + (2 + 1) x 1 = 9 ticks for `SecondaryServer`, which the run reaches, and 15 for a
demoted `PrimaryServer`, whose two heartbeat threads take turns at the socket (the run reaches 13). With a tick of half a second these are the program's own constants: 3.5 seconds,
and half a second for each such datagram. `NoFalseTakeover` asks that the primary has been up for a secondary's whole patience: in its
first ticks a lost heartbeat on top of the drift can still cost it its place. That at most one host is primary is not a property of this code even
on a perfect network: the probe waits for one receive timeout, and a server that starts between two heartbeats hears none.
The findings `split_brain` and `dual_secondary` say what happens afterwards.

**Fairness.** `UdpTransfer`: each end is a thread that always has a step or a running timeout, hence weak fairness of `Sender` and
`Receiver`; faults are never forced. `Failover`: weak fairness of each host's threads and of time; starts and crashes are never forced.
`Sessions`: each connection's thread runs, users are never forced to type; only safety is checked. `CommandReplication`: weak fairness of the pools' threads and of each handler and
arrival; losses, sessions and the takeover are never forced. `Transfers`: weak fairness of sessions that wait for a port, creators, the pool, and each run and copy, since each is a thread; what users ask for and when
clients leave is free, and the liveness properties say "whose client stays". `ClientFailover`: weak fairness of the client's main thread where it does not wait for the user, since its receives all have
timeouts. A login is not forced: the console has none, and a refused login asks again; `EveryCommandEnds` says what holds of a client that is not left there for ever. Nor is a server, whose thread may have died; crashes,
takeovers and SCDs are free as well.

**Deadlock** is checked in the four `Failover` runs. A transfer ends, users may stop typing and clients exit, so the other configurations switch it off.

## Proofs

`UdpTransfer_proofs`, for every file, tranche size, buffer and number of faults:

- `TypeCorrect`: `Spec => []TypeOK`. `TypeOK` is not inductive: that the next index stays in the cache and the next block in the file
  depends on where each program stands. `IndexOK` says so (while sending, the index lies in the tranche and the tranche in the file;
  while receiving, likewise; a transfer that is done has all blocks), and `TypeInv == TypeOK /\ IndexOK` is.
- `NeverAhead`: `Spec => []SecondaryNeverAhead`. The strengthening is `LagsBy(0)`: blocks written plus a tranche for each OK
  in the secondary's socket is at most what the primary approved, where an OK is the control string and not a block that reads so: as long as no such block was taken for one (`mistaken`), every OK is enqueued by the step that advances `blocksSent`, each
  write consumes one, losing, dropping or swapping adds none. The lemmas `Acks*` say how enqueueing, taking and swapping
  change the set of positions that hold an OK. `NextLagsBy` proves it for every lag `c`: a secondary that is a tranche behind stays so.
- `ExactCopy`: `Spec => []CopyExactUnlessHollow`, with all faults. `DigestInv` says what each digest holds: the secondary's, what this round put in its cache; the primary's, the part of the tranche it
  read, and nothing when it resends. `Phase` follows the blocks of one tranche through digests, sockets and cache: nothing was sent but the handshake (`Greeting`); the round's blocks and those under way are the
  sent part of the tranche (`Collecting`); a block is missing, and the hash cannot match (`Incomplete`); the hash is of the cache (`Hashed`); an OK is on its way to a cache that holds the tranche
  (`Approved`). The sixth case, `Decided`, is where nothing more can go wrong: the property's own exceptions, a block taken for an approval, a secondary that gave up, a copy that is finished and exact, a lag of a tranche, with which the secondary never finishes,
  or a primary that resends, whose digest is empty, so that it approves nothing but the hash of nothing.
- `NoneDropped`: `Lossless` implies `Spec => []TrancheInFlight`, and `LosslessCopies`: `Lossless` implies that `Spec` has the initial states and the steps of `FileCopy` under the mapping of `Copying`.
  `Lossless` is the setting of run `udp_lossless` for every file, tranche and buffer: no loss, overtaking, untimely timeout or failure to open, and a buffer larger than a tranche. `InTime` restricts `Phase` to what remains
  then: exactly the blocks sent are collected or under way, and a verdict finds an empty socket. The step of `FileCopy` that each step of the transfer takes follows from it.

They rest on the assumptions named in `UdpTransfer`: a tranche has at least one block, "OK" reads as OK and "ERROR MD5" does not, a timeout's empty string is neither a hash nor an approval, the bounds are naturals. Nothing is assumed of the blocks of the file.

`Sessions_proofs`, for every set of connections, passwords and directories and every bound:

- `SessionsTypeCorrect`: `Spec => []TypeOK`. That a handler's object exists depends on where its thread stands (`ControlOK`), and that `changeUsers` finds an
  object to remove depends on who is in the monitor (`MonitorOK`: the owner is the thread between the removal and the write, and while the server knows the account only that thread can have
  left the set without it). `TypeInv` is their conjunction with `TypeOK`. `ServerStep` and `ClientStep` say once what a step has to show; there is one lemma per action.

- `TokenAlwaysHeld`: `Spec => []TokenHeld`. `TokenHeld` is not inductive, because the set's object changes: a thread that adds another object must be one that will clear
  *its* token. `Kept` says that a thread keeps the set's object in a way its next steps respect (a login that is about to replace its session's user no longer keeps the old one), and
  `Fresh` that the object of a CH-PASS under way has no token and is known to its thread alone. Then whoever adds an object keeps it (`AddNewHeld`), whoever ends clears the one it
  keeps or is on record as having leaked it (`EndHeld`, `LeakHeld`), and no other step lets go (`SameUserHeld`, `IdleHeld`).

`OneSession_proofs`, which continues them:

- `NeverTwoSessions`: `Spec => []OneSession`. `OneInv` speaks of the account's `Current` object, the set's or the one that `changeUsers` has removed and will replace. `Sole`: one thread at most *owns* it, by its session or by
  a login that has set the token, and then the token is set. `Work`: whoever is changing the account owns it. `Line`: between a client and its thread there is at most one request or reply, and it is of the kind
  their states say (`Talk`). So a client in session has a thread that owns the account, and there are not two. All of it is claimed only while the session was not *disputed*, which is what the property excepts.

`AccountRecord_proofs`, which rest on that one owner:

- `FileFollowsRecord`: `Spec => []DiskAgrees`. `DiskInv` follows a record through the buffer of `changeUsers`, which holds what it removed: the directory of whatever is written is right (`Buffered`, `Copied`), a password one version
  too old is in the buffer only while whoever owns the new object still waits to write it (`Queued`, `Behind`), and the file agrees once no thread writes or is about to (`OnDisk`).
- `RecordHandedOver`: `Spec => []HandedOver`. `HandedInv`: a thread in CD works on the directory it will hand over, and without one the directory is the last in the outbox (`LastIs`); the password is the first,
  one handed over, or one whose client has no answer yet (`Said`, `Renewed`).

They rest on `AccountAssumption` (the first record is one of the records, the server's directories are among the directories, a torn file is no record, `"none"` is no
connection) and on the bounds being naturals.

`CommandReplication_proofs`, for every set of fields, pool sizes, number of commands and losses:

- `CommandsTypeCorrect`: `Spec => []TypeOK`, with `ControlOK` (a handler past `findUser` has an object, one past the set has an `Auth`; a command under way has no handler yet).
- `OnlyHandedOverAlways`: `Spec => []OnlyHandedOver`, which is inductive with the types: every write copies a record that satisfies it or sets a field to what arrives of a command of that field, for whichever set `Altered` of commands whose values do not arrive whole.
- `NoChangeUndoneAlways`: `Spec => []NoChangeUndone`. The inductive invariant `IInv` adds `OneAuth` (outside a takeover all handlers work on one `Auth` and its one object, so that removing and adding it changes nothing but
  its presence) and `NoneUndone` (once a command has *set* its value, long before it is applied, no change applied before it was handed over shows in any object that is or will be served, or is about to be read from the file).

- `FileFollowsRecordAlways`: `Spec => []FileFollowsRecord`. `FileOK` says that one handler at a time is inside `changeUsers`, that only its removal leaves the set without the account, that the object it removed is the one
  it adds, and that the file holds the record as soon as nobody has a value set and not written; `LoadUsers` then reads the record.

They rest on `ReplicationAssumption`: pools have threads, bounds are naturals, a torn file or another account's is no record of this one.

`Transfers_proofs`, for every set of sessions and directories, every size, queue, pool and number of transfers:

- `TransfersTypeCorrect`: `Spec => []TypeOK`, the limits of the queues and of the pool included. The strengthening `TypeInv` adds `ControlOK`: what waits in a queue or in the pool waits once and has not been run by the pool; a client is
  held exactly while one of its two runs serves it; a file that is used exists; a copy is of an upload that ended well. That the pool never has more tasks than threads is a count: a task moves from the queue of the pool to the
  pool only while there is a thread, and `FiniteSetTheorems` bounds the union of what was there and the one that came.

- `FileIsNewestAlways`: `Spec => []FileIsNewest`. `FileOK`: an undisturbed file is the part written so far of the upload that opened it last, and nobody else writes it.
- `DownloadWholeAlways`: `Spec => []DownloadWhole`. `ReadOK`: while an undisturbed file is downloaded nobody writes it, its size is the whole upload's and the client has a prefix of it.
- `SecondaryFollowsAlways`: `Spec => []SecondaryFollows`. `CopyOK`: only the newest upload is being copied, never while a file is written; what was sent and what the secondary wrote are prefixes of it, and a copy that ended sent it all.

They rest on `TransfersAssumption`: the older file is in a directory, sizes are naturals, a queue has room for one and the pool has a thread, and a missing file is no sequence.

`Failover_proofs`, for every pair of programs, every timeout, sleep, number of failures, socket buffer, and number of crashes and lost heartbeats:

- `FailoverType`: `Spec => []TypeOK`, with the invariant below: among others, a thread that lives has counted fewer failures than end it.
- `TakesOverInTime`: `Spec => []TakeoverInTime`. `Controlled` says which threads of a host may live in each mode, that exactly the thread inside `receive` has the socket's lock, how long it and a sleeper can still
  wait, and that a host counts lonely ticks only as a secondary whose peer is off. `Patience` is the number of ticks such a host can still wait: with an empty socket the silence that is left to each of its heartbeat threads, with datagrams in it the
  whole silence again and a sleep for each, and in both cases what is left of the joined thread's sleep. `InTime` says that the ticks counted and the patience left are together at most the bound. A tick lowers the patience (`TickOfPatience`:
  the joined thread sleeps, or receives, or waits for the other one, which receives), no turn of a thread raises it (`TurnStep`), and whatever else changes it starts the count from zero (`NotYetAlone`).

They rest on `HostsAssumption` (two machines), `ProgramAssumption`, `TimesAssumption` and `HeartbeatBoundAssumption`: each runs one of the two programs, times and the number of failures are positive, the buffer holds a datagram. The count
is by the bounded `Horizon`; for a horizon past the bound it is the real one.

`ClientFailover_proofs`, for every set of directories, length of a session, queue and number of faults:

- `ClientTypeCorrect`: `Spec => []TypeOK`. `KnownOK` adds that whatever is queued, under way, late, repeated or being uploaded is a command that was typed, and `PlaceOK` what each
  place in the client's program implies (one that waits has a command and a connection, one that is ready has no command at work).
- `NothingIsForgotten`: `Spec => []NothingForgotten`. `Kept` is stronger by one case: a command that failed is in the queue before the client is in `switch`, so that losing `cmd` there loses nothing.
- `RunOncePerServer`: `Spec => []OncePerServer`. `OnceInv` counts what has run together with what is still to run on a server: a request in the connection or left on a closed one stands for one run
  (`OneRun`), a command waits in the queue once and only for the server that has not had it (`Lone`, `Waits`), and the flag names the server the client is connected to (`Flag`). A revoked token makes what follows
  refused, not run, and a reply that is an error is one to a server-ls (`Refused`), so that a server-cd is sent again without being refused only where replies are one behind (`Misled`).
- `PromptIsRight`: `Spec => []DirectoryAgrees`. `DirInv`: there is at most one request or reply under way and it is of the command at work (`PipeOK`), a connection that holds leads to a server that
  serves (`LinkOK`), no change is on its way to that server (`Heard`), and its directory is the prompt's, or already the one the command at work leads to (`DirOK`).
- `RepeatedWhereItWas`: `Spec => []RepeatedInPlace`. `PlaceInv`: the servers agree but for the changes on their way to the one that does not serve (`Agree`), a command at work or queued to be repeated stands where it was typed, or where it leads on a
  server that has run it (`Placed`), and what landed stays accounted for (`Landed`).

They rest on `ClientAssumption`: kinds of commands are distinct and none is a name, the root exists, the bounds are naturals and the queue has room for one.

**Model-checked only:** liveness (`HandshakeSettles`, `LoneHostServes`, `EveryCommandAnswered`, `EveryTransferServed`, `EveryUploadCopied`, `EveryCommandEnds` and the findings) and with it the fairness half of `CopiesFile`, which is out of the prover's reach;
and `NoFalseTakeover`, an action property of `Failover` that does not hold for every constant: how many losses a secondary survives depends on how its timeout and its peer's sleep add up, and the run is about one such setting.
Every invariant of a passing run is the statement of a theorem.

## Not modelled

- Socket errors and failures to bind (`Heartbeat.java:56-58`, `Server.java:79`), the order in which `beSecondary`'s threads are started (`UDPAccept.java:21`), and
  `TCPAccept`'s `new ServerConnection`, which reads the client's stream header and so can block the accepting thread.
- Several replications over a faulty network at once, and the secondary's pool of receivers, of which a receiver that never ends takes a thread.
- Paths and their parsing, the content of messages, configuration files, the console.
- Of sessions and accounts: what LS lists, and the `ADD` and `DELETE` of `changeUsers`, which nothing calls.
- Of TCP transfers: the loop after hashes that differ. Both ends hash what the socket carried, so they do not differ while TCP is faithful.
- Of the client: its own directory (`client-ls`, `client-cd`), CH-PASS repeated after a switch (it asks for the passwords again), and the queueing of a failed download by its thread, which
  is that of an upload.
- `tp1.py`, of which the repository has seven copies under `Client/Data` and the servers' `data` directories, is not code of this system: it is a user's exercise in signal processing that serves as sample
  content of the drive. The program stores and transfers it like any file and never runs it; what happens to a file's pieces is `Transfers`' subject.
