------------------------------ MODULE Transfers ------------------------------
(***************************************************************************)
(* The primary's transfers of one user's files: handleUpload and           *)
(* handleDownload of com.Server.CommandHandler, the three queues and the   *)
(* pool of com.Server.Server, the creators between them, ServerUpload and  *)
(* ServerDownload with the clients' ends, and the copies to the secondary  *)
(* that an upload ends with.                                               *)
(*                                                                         *)
(* A creator constructs the thread of an upload or a download, which       *)
(* starts itself, and then gives it to the pool, which runs it again: each *)
(* transfer has two runs, "own" and "pool", and one client for both.       *)
(*                                                                         *)
(* Every directory holds one file, named the same.  A file is a sequence   *)
(* of pieces, and a piece is the upload it came from (0: an older one).    *)
(* Hashes are left out: they are taken of what a socket carried, not of    *)
(* the file, and TCP carries it faithfully.  A copy is taken as UdpTransfer *)
(* shows it without losses.                                                *)
(***************************************************************************)
EXTENDS Integers, Sequences, FiniteSets

CONSTANTS
  Sessions,      \* the user's sessions on the primary
  Dirs,          \* the user's directories
  Home,          \* where the user is at first and has an older file
  Sizes,         \* the number of pieces of each upload and of the older file
  QueueSize,     \* BLOCKING_QUEUE_SIZE
  PoolThreads,   \* THREADS_PER_POOL of threadPoolFileTasks
  Missing,       \* no file in this directory
  MaxTransfers   \* bound: uploads and downloads

Ids == 1 .. MaxTransfers

ASSUME TransfersAssumption ==
  /\ Home \in Dirs
  /\ Sizes \in [0 .. MaxTransfers -> Nat]
  /\ QueueSize \in Nat \ {0} /\ PoolThreads \in Nat \ {0}
  /\ MaxTransfers \in Nat
  /\ Missing \notin Seq(0 .. MaxTransfers + 1)

VARIABLES
  dir,      \* User.serverDir, which all sessions of the user share
  session,  \* "ready", "port" (waits for a client's port) or "dead"
  asked,    \* the download whose port a session waits for, else 0
  kind,     \* the transfers, in the order they were asked for
  path,     \* of a transfer: the directory of the file it writes or reads
  client,   \* of a transfer: where the client is
  queue,    \* queueFileRcv, queueFileSend and queueUdp
  pool,     \* the tasks given to the pool and not yet run
  run,      \* where each of a transfer's two runs is
  at,       \* of a transfer: the pieces moved
  size,     \* of a download: the number of pieces it announced
  got,      \* of a download: what the client received
  copyPath, \* of an upload: the directory it registered for its copy
  copier,   \* of an upload: where the sending end of the copy is
  opened,   \* uploads whose copy the secondary has opened its file for
  sent,     \* of an upload: the pieces that were sent and approved
  written,  \* of an upload: how many of them the secondary has written
  disk,     \* the files on the primary
  remote,   \* the files on the secondary
  latest,   \* history: the upload that opened the file last
  upset     \* history: what happened to a file, see below

sessions == <<dir, session, asked>>
tasks == <<queue, pool>>
transfers == <<path, client, run, at, size, got>>
copies == <<copyPath, copier, opened, sent, written, remote>>
history == <<latest, upset>>
vars == <<sessions, kind, tasks, transfers, copies, disk, history>>

Queues == {"rcv", "send", "udp"}
Runs == {"own", "pool"}
Begun == 1 .. Len(kind)
Uploads == {k \in Begun : kind[k] = "upload"}
Downloads == {k \in Begun : kind[k] = "download"}

Whole(k) == [i \in 1 .. Sizes[k] |-> k]
Hole == MaxTransfers + 1   \* a piece of a file that was never written

Init ==
  /\ dir = Home
  /\ session = [s \in Sessions |-> "ready"] /\ asked = [s \in Sessions |-> 0]
  /\ kind = << >>
  /\ path = [k \in Ids |-> Home] /\ client = [k \in Ids |-> "none"]
  /\ queue = [q \in Queues |-> << >>] /\ pool = << >>
  /\ run = [r \in Runs |-> [k \in Ids |-> "none"]]
  /\ at = [k \in Ids |-> 0] /\ size = [k \in Ids |-> 0]
  /\ got = [k \in Ids |-> << >>]
  /\ copyPath = [k \in Ids |-> Home] /\ copier = [k \in Ids |-> "none"]
  /\ opened = {} /\ sent = [k \in Ids |-> << >>] /\ written = [k \in Ids |-> 0]
  /\ disk = [d \in Dirs |-> IF d = Home THEN Whole(0) ELSE Missing]
  /\ remote = disk
  /\ latest = [d \in Dirs |-> 0] /\ upset = {}

-----------------------------------------------------------------------------
(* Sessions. *)

\* CD, of any session of the user.
ChangeDir(s, d) ==
  /\ session[s] = "ready"
  /\ dir' = d
  /\ UNCHANGED <<session, asked, kind, tasks, transfers, copies, disk, history>>

\* Mutant: the queue has no bound.
AddAnyway(q, k, s) ==
  /\ queue' = [queue EXCEPT ![q] = Append(@, k)]
  /\ session' = [session EXCEPT ![s] = "ready"]
  /\ UNCHANGED run

\* Mutant: offer instead of add, and nobody looks at what it returns.
Offer(q, k, s) ==
  /\ queue' = IF Len(queue[q]) < QueueSize
              THEN [queue EXCEPT ![q] = Append(@, k)] ELSE queue
  /\ session' = [session EXCEPT ![s] = "ready"]
  /\ UNCHANGED run

\* LinkedBlockingQueue.add: when the queue is full it throws, and the
\* exception, which nobody catches, ends the session's thread.
AddOrDie(q, k, s) ==
  IF Len(queue[q]) < QueueSize
  THEN /\ queue' = [queue EXCEPT ![q] = Append(@, k)]
       /\ session' = [session EXCEPT ![s] = "ready"]
       /\ UNCHANGED run
  ELSE /\ session' = [session EXCEPT ![s] = "dead"]
       /\ run' = [run EXCEPT !["own"][k] = "refused"]
       /\ UNCHANGED queue

\* UPLOAD: the client is told the port before the task is queued.
RequestUpload(s) ==
  LET k == Len(kind) + 1 IN
  /\ session[s] = "ready" /\ k \in Ids
  /\ kind' = Append(kind, "upload")
  /\ client' = [client EXCEPT ![k] = "calling"]
  /\ AddOrDie("rcv", k, s)
  /\ UNCHANGED <<dir, asked, pool, path, at, size, got, copies, disk, history>>

\* DOWNLOAD of a file that exists: FILE EXISTS, then the session waits for the
\* client's port.
RequestDownload(s) ==
  LET k == Len(kind) + 1 IN
  /\ session[s] = "ready" /\ k \in Ids
  /\ disk[dir] # Missing
  /\ kind' = Append(kind, "download")
  /\ path' = [path EXCEPT ![k] = dir]
  /\ client' = [client EXCEPT ![k] = "asking"]
  /\ session' = [session EXCEPT ![s] = "port"]
  /\ asked' = [asked EXCEPT ![s] = k]
  /\ UNCHANGED <<dir, tasks, run, at, size, got, copies, disk, history>>

TakePort(s) ==
  /\ session[s] = "port" /\ client[asked[s]] = "asking"
  /\ client' = [client EXCEPT ![asked[s]] = "calling"]
  /\ AddOrDie("send", asked[s], s)
  /\ asked' = [asked EXCEPT ![s] = 0]
  /\ UNCHANGED <<dir, kind, pool, path, at, size, got, copies, disk, history>>

\* getRequest answers an empty request when the client is gone.  A session that
\* goes on stands for the client's next one.
MissPort(s) ==
  /\ session[s] = "port" /\ client[asked[s]] = "gone"
  /\ session' = [session EXCEPT ![s] = "ready"]
  /\ asked' = [asked EXCEPT ![s] = 0]
  /\ UNCHANGED <<dir, kind, tasks, transfers, copies, disk, history>>

-----------------------------------------------------------------------------
(* The creators and the pool. *)

\* An upload's run waits in accept(), a download's has yet to connect.
First(k) == IF kind[k] = "upload" THEN "waiting" ELSE "started"

\* A creator takes a task and gives it to the pool; the constructors of
\* ServerUpload and ServerDownload have started it by then.
Create(q) ==
  LET k == Head(queue[q]) IN
  /\ queue[q] # << >>
  /\ queue' = [queue EXCEPT ![q] = Tail(@)]
  /\ pool' = Append(pool, <<q, k>>)
  /\ run' = IF q = "udp" THEN run ELSE [run EXCEPT !["own"][k] = First(k)]
  /\ UNCHANGED <<sessions, kind, path, client, at, size, got, copies, disk, history>>

InPool == {k \in Ids : run["pool"][k] \in {"started", "waiting", "serving"}}
Copying == {k \in Ids : copier[k] \in {"announcing", "sending"}}

PoolRun ==
  LET q == Head(pool)[1]  k == Head(pool)[2] IN
  /\ pool # << >>
  /\ Cardinality(InPool) + Cardinality(Copying) < PoolThreads
  /\ pool' = Tail(pool)
  /\ IF q = "udp"
     THEN copier' = [copier EXCEPT ![k] = "announcing"] /\ UNCHANGED run
     ELSE run' = [run EXCEPT !["pool"][k] = First(k)] /\ UNCHANGED copier
  /\ UNCHANGED <<sessions, kind, queue, path, client, at, size, got, copyPath,
                 opened, sent, written, remote, disk, history>>

-----------------------------------------------------------------------------
(* Uploads. *)

Serving(k) == \E r \in Runs : run[r][k] = "serving"
Writers(d) == {k \in Uploads : Serving(k) /\ path[k] = d}

Readers(d) == {k \in Downloads : Serving(k) /\ path[k] = d}

\* Both ends of a copy are finished, or its sender died and the other end waits
\* for a tranche that will not come.
Through(k) == copier[k] = "done" /\ k \in opened /\ written[k] = Len(sent[k])
CopiesOf(d) == {k \in Uploads : copier[k] # "none" /\ copyPath[k] = d /\ ~Through(k)}

Become(r, k, place) == run' = [run EXCEPT ![r][k] = place]

Connect(k) ==
  /\ k \in Uploads /\ client[k] = "calling"
  /\ client' = [client EXCEPT ![k] = "connected"]
  /\ UNCHANGED <<sessions, kind, tasks, path, run, at, size, got, copies, disk, history>>

\* Mutant: the file is opened for writing but not emptied.
OpenOver(r, k) ==
  /\ k \in Uploads /\ run[r][k] = "waiting" /\ client[k] = "connected"
  /\ Become(r, k, "serving")
  /\ client' = [client EXCEPT ![k] = "held"]
  /\ path' = [path EXCEPT ![k] = dir]
  /\ disk' = [disk EXCEPT ![dir] = IF @ = Missing THEN << >> ELSE @]
  /\ latest' = [latest EXCEPT ![dir] = k]
  /\ upset' = upset \cup {<<"written", dir>> : o \in Writers(dir)}
                     \cup {<<"read", dir>> : o \in Readers(dir)}
                     \cup {<<"copied", dir>> : o \in CopiesOf(dir)}
  /\ UNCHANGED <<sessions, kind, tasks, at, size, got, copies>>

\* Whichever run accepts first serves the client: it takes the directory the
\* user is in by now and opens, which empties, the file there.
AcceptUpload(r, k) ==
  /\ k \in Uploads /\ run[r][k] = "waiting" /\ client[k] = "connected"
  /\ Become(r, k, "serving")
  /\ client' = [client EXCEPT ![k] = "held"]
  /\ path' = [path EXCEPT ![k] = dir]
  /\ disk' = [disk EXCEPT ![dir] = << >>]
  /\ latest' = [latest EXCEPT ![dir] = k]
  /\ upset' = upset \cup {<<"written", dir>> : o \in Writers(dir)}
                     \cup {<<"read", dir>> : o \in Readers(dir)}
                     \cup {<<"copied", dir>> : o \in CopiesOf(dir)}
  /\ UNCHANGED <<sessions, kind, tasks, at, size, got, copies>>

\* A connection whose client has left since ends the run that accepts it.
AcceptNobody(r, k) ==
  /\ k \in Uploads /\ run[r][k] = "waiting" /\ client[k] = "left"
  /\ Become(r, k, "done")
  /\ client' = [client EXCEPT ![k] = "gone"]
  /\ UNCHANGED <<sessions, kind, tasks, path, at, size, got, copies, disk, history>>

\* The size is no int, or the file cannot be opened (its name is a directory,
\* nothing may be written there): the run ends, and nobody closes the socket.
OpenFails(r, k) ==
  /\ k \in Uploads /\ run[r][k] = "waiting" /\ client[k] = "connected"
  /\ Become(r, k, "done")
  /\ client' = [client EXCEPT ![k] = "unserved"]
  /\ UNCHANGED <<sessions, kind, tasks, path, at, size, got, copies, disk, history>>

\* What a file becomes when a piece is written at an offset of its own.
Put(content, i, piece) ==
  [j \in 1 .. (IF i > Len(content) THEN i ELSE Len(content)) |->
     IF j = i THEN piece ELSE IF j <= Len(content) THEN content[j] ELSE Hole]

WritePiece(r, k) ==
  /\ k \in Uploads /\ run[r][k] = "serving" /\ client[k] = "held" /\ at[k] < Sizes[k]
  /\ at' = [at EXCEPT ![k] = @ + 1]
  /\ disk' = [disk EXCEPT ![path[k]] = Put(@, at[k] + 1, k)]
  /\ UNCHANGED <<sessions, kind, tasks, path, client, run, size, got, copies, history>>

\* Mutant: the copy is registered by the file's name, without its directory.
FinishByName(r, k) ==
  /\ k \in Uploads /\ run[r][k] = "serving" /\ client[k] = "held" /\ at[k] = Sizes[k]
  /\ Become(r, k, "done")
  /\ client' = [client EXCEPT ![k] = "ok"]
  /\ copyPath' = [copyPath EXCEPT ![k] = Home]
  /\ queue' = [queue EXCEPT !["udp"] = Append(@, k)]
  /\ copier' = [copier EXCEPT ![k] = "queued"]
  /\ UNCHANGED <<sessions, kind, pool, path, at, size, got, opened, sent, written,
                 remote, disk, history>>

\* The hashes match; the client has its OK; the copy is registered for the
\* directory the user is in by now, and add throws when the queue is full.
FinishUpload(r, k) ==
  /\ k \in Uploads /\ run[r][k] = "serving" /\ client[k] = "held" /\ at[k] = Sizes[k]
  /\ Become(r, k, "done")
  /\ client' = [client EXCEPT ![k] = "ok"]
  /\ copyPath' = [copyPath EXCEPT ![k] = dir]
  /\ LET strays == IF dir = path[k] THEN {}
                   ELSE {<<"strayed", dir>>, <<"strayed", path[k]>>}
     IN  IF Len(queue["udp"]) < QueueSize
         THEN /\ queue' = [queue EXCEPT !["udp"] = Append(@, k)]
              /\ copier' = [copier EXCEPT ![k] = "queued"]
              /\ upset' = upset \cup strays
         ELSE /\ upset' = upset \cup {<<"dropped", path[k]>>}
              /\ UNCHANGED <<queue, copier>>
  /\ UNCHANGED <<sessions, kind, pool, path, at, size, got, opened, sent, written,
                 remote, disk, latest>>

-----------------------------------------------------------------------------
(* Downloads. *)

\* Both runs connect to the client's port; nobody listens any more once the
\* client is gone.
Call(r, k) ==
  /\ k \in Downloads /\ run[r][k] = "started"
  /\ Become(r, k, IF client[k] = "gone" THEN "done" ELSE "waiting")
  /\ UNCHANGED <<sessions, kind, tasks, path, client, at, size, got, copies, disk, history>>

\* Mutant: the last, shorter piece is not counted.
AnnounceShort(r, k) ==
  /\ k \in Downloads /\ run[r][k] = "waiting" /\ client[k] = "calling"
  /\ Become(r, k, "serving")
  /\ client' = [client EXCEPT ![k] = "held"]
  /\ size' = [size EXCEPT ![k] = IF disk[path[k]] = << >> THEN 0 ELSE Len(disk[path[k]]) - 1]
  /\ upset' = upset \cup {<<"read", path[k]>> : o \in Writers(path[k])}
  /\ UNCHANGED <<sessions, kind, tasks, path, at, got, copies, disk, latest>>

\* The client accepts one connection, and that run announces the file's size.
AcceptDownload(r, k) ==
  /\ k \in Downloads /\ run[r][k] = "waiting" /\ client[k] = "calling"
  /\ Become(r, k, "serving")
  /\ client' = [client EXCEPT ![k] = "held"]
  /\ size' = [size EXCEPT ![k] = Len(disk[path[k]])]
  /\ upset' = upset \cup {<<"read", path[k]>> : o \in Writers(path[k])}
  /\ UNCHANGED <<sessions, kind, tasks, path, at, got, copies, disk, latest>>

SendPiece(r, k) ==
  LET i == at[k] + 1  content == disk[path[k]] IN
  /\ k \in Downloads /\ run[r][k] = "serving" /\ client[k] = "held" /\ at[k] < size[k]
  /\ \/ /\ i <= Len(content)
        /\ at' = [at EXCEPT ![k] = i]
        /\ got' = [got EXCEPT ![k] = Append(@, content[i])]
        /\ UNCHANGED <<run, client>>
     \/ \* the file became shorter: an array of length -1
        /\ i > Len(content)
        /\ Become(r, k, "done")
        /\ client' = [client EXCEPT ![k] = "cut"]
        /\ UNCHANGED <<at, got>>
  /\ UNCHANGED <<sessions, kind, tasks, path, size, copies, disk, history>>

FinishDownload(r, k) ==
  /\ k \in Downloads /\ run[r][k] = "serving" /\ client[k] = "held" /\ at[k] = size[k]
  /\ Become(r, k, "done")
  /\ client' = [client EXCEPT ![k] = "ok"]
  /\ UNCHANGED <<sessions, kind, tasks, path, at, size, got, copies, disk, history>>

\* A connection the client never accepted is reset when it is gone.
Reset(r, k) ==
  /\ k \in Downloads /\ run[r][k] = "waiting" /\ client[k] = "gone"
  /\ Become(r, k, "done")
  /\ UNCHANGED <<sessions, kind, tasks, path, client, at, size, got, copies, disk, history>>

-----------------------------------------------------------------------------
(* The end of a transfer that is not done.                                 *)

\* The run that serves it ends, and what it has written stays.
Stop(k, place) ==
  /\ client' = [client EXCEPT ![k] = place]
  /\ run' = [r \in Runs |-> [run[r] EXCEPT ![k] = IF @ = "serving" THEN "done" ELSE @]]
  /\ upset' = IF k \in Uploads /\ Serving(k) THEN upset \cup {<<"torn", path[k]>>} ELSE upset
  /\ UNCHANGED <<sessions, kind, tasks, path, at, size, got, copies, disk, latest>>

\* A client goes away, at any time: its process ends or, after a download, its
\* ServerSocket is collected.
Leave(k) ==
  /\ k \in Begun /\ client[k] \notin {"gone", "left"}
  /\ ~(k \in Uploads /\ client[k] = "ok")
  /\ Stop(k, IF client[k] = "connected" THEN "left" ELSE "gone")

\* The file of a run that serves cannot be written or read any more, and nobody
\* closes the socket.
Break(k) == k \in Begun /\ client[k] = "held" /\ Stop(k, "unserved")

-----------------------------------------------------------------------------
(* Copies: UDPTransfer run by the pool, and its other end on the secondary. *)
(* Approving a tranche is part of sending the next one.                     *)

\* Mutant: the secondary refuses a file it does not have yet.
OpenKnown(k) ==
  /\ copier[k] \in {"announcing", "sending", "done"} /\ k \notin opened
  /\ remote[copyPath[k]] # Missing
  /\ opened' = opened \cup {k}
  /\ remote' = [remote EXCEPT ![copyPath[k]] = << >>]
  /\ UNCHANGED <<sessions, kind, tasks, transfers, copyPath, copier, sent, written,
                 disk, history>>

\* The secondary answers the announcement and then opens, and empties, its file.
OpenCopy(k) ==
  /\ copier[k] \in {"announcing", "sending", "done"} /\ k \notin opened
  /\ opened' = opened \cup {k}
  /\ remote' = [remote EXCEPT ![copyPath[k]] = << >>]
  /\ UNCHANGED <<sessions, kind, tasks, transfers, copyPath, copier, sent, written,
                 disk, history>>

CopierBecomes(k, place) ==
  /\ copier' = [copier EXCEPT ![k] = place]
  /\ UNCHANGED <<sessions, kind, tasks, transfers, copyPath, opened, written, remote,
                 disk, history>>

\* The sender opens the file the upload registered, which may not exist.
OpenSource(k) ==
  /\ copier[k] = "announcing"
  /\ CopierBecomes(k, IF disk[copyPath[k]] = Missing THEN "done" ELSE "sending")
  /\ UNCHANGED sent

\* It reads as many pieces as the upload had, and dies of a length of -1 when
\* the file has become shorter.
SendTranche(k) ==
  LET i == Len(sent[k]) + 1  content == disk[copyPath[k]] IN
  /\ copier[k] = "sending" /\ i <= Sizes[k]
  /\ i > 1 => k \in opened /\ written[k] >= i - 2
  /\ IF i <= Len(content)
     THEN sent' = [sent EXCEPT ![k] = Append(@, content[i])] /\ CopierBecomes(k, "sending")
     ELSE CopierBecomes(k, "done") /\ UNCHANGED sent

WriteTranche(k) ==
  LET i == written[k] + 1 IN
  /\ k \in opened /\ i <= Len(sent[k])
  /\ written' = [written EXCEPT ![k] = i]
  /\ remote' = [remote EXCEPT ![copyPath[k]] = Put(@, i, sent[k][i])]
  /\ UNCHANGED <<sessions, kind, tasks, transfers, copyPath, copier, opened, sent,
                 disk, history>>

\* The last tranche is approved before it is written.
FinishCopy(k) ==
  /\ copier[k] = "sending" /\ Len(sent[k]) = Sizes[k]
  /\ Sizes[k] > 0 => k \in opened /\ written[k] >= Sizes[k] - 1
  /\ CopierBecomes(k, "done")
  /\ UNCHANGED sent

-----------------------------------------------------------------------------
Session(s) ==
  \/ \E d \in Dirs : ChangeDir(s, d)
  \/ RequestUpload(s) \/ RequestDownload(s)

Answer(s) == TakePort(s) \/ MissPort(s)

Run(r, k) ==
  \/ AcceptUpload(r, k) \/ AcceptNobody(r, k) \/ OpenFails(r, k)
  \/ WritePiece(r, k) \/ FinishUpload(r, k)
  \/ Call(r, k) \/ AcceptDownload(r, k) \/ SendPiece(r, k)
  \/ FinishDownload(r, k) \/ Reset(r, k)

Copy(k) ==
  OpenCopy(k) \/ OpenSource(k) \/ SendTranche(k) \/ WriteTranche(k) \/ FinishCopy(k)

Next ==
  \/ \E s \in Sessions : Session(s) \/ Answer(s)
  \/ \E q \in Queues : Create(q)
  \/ PoolRun
  \/ \E k \in Ids :
       \/ Connect(k) \/ Copy(k) \/ Leave(k) \/ Break(k)
       \/ \E r \in Runs : Run(r, k)

\* Threads that can go on do, on both servers and in a client that stays; what
\* users ask for, and when they leave, is up to them.
Fairness ==
  /\ \A s \in Sessions : WF_vars(Answer(s))
  /\ \A q \in Queues : WF_vars(Create(q))
  /\ WF_vars(PoolRun)
  /\ \A k \in Ids :
       /\ WF_vars(Connect(k)) /\ WF_vars(Copy(k))
       /\ \A r \in Runs : WF_vars(Run(r, k))

Spec == Init /\ [][Next]_vars /\ Fairness

-----------------------------------------------------------------------------
(* Properties *)

Contents == Seq(0 .. Hole)
ClientPlaces == {"none", "asking", "calling", "connected", "held", "ok", "cut",
                 "unserved", "left", "gone"}
RunPlaces == {"none", "refused", "started", "waiting", "serving", "done"}
Reasons == {"written", "read", "copied", "torn", "strayed", "dropped"}

Types ==
  /\ dir \in Dirs
  /\ session \in [Sessions -> {"ready", "port", "dead"}]
  /\ asked \in [Sessions -> 0 .. MaxTransfers]
  /\ kind \in Seq({"upload", "download"}) /\ Len(kind) <= MaxTransfers
  /\ path \in [Ids -> Dirs] /\ client \in [Ids -> ClientPlaces]
  /\ queue \in [Queues -> Seq(Ids)]
  /\ \A q \in Queues : Len(queue[q]) <= QueueSize
  /\ pool \in Seq(Queues \X Ids)
  /\ run \in [Runs -> [Ids -> RunPlaces]]
  /\ at \in [Ids -> Nat] /\ size \in [Ids -> Nat] /\ got \in [Ids -> Contents]
  /\ copyPath \in [Ids -> Dirs]
  /\ copier \in [Ids -> {"none", "queued", "announcing", "sending", "done"}]
  /\ opened \subseteq Ids /\ sent \in [Ids -> Contents] /\ written \in [Ids -> Nat]
  /\ disk \in [Dirs -> Contents \cup {Missing}]
  /\ remote \in [Dirs -> Contents \cup {Missing}]
  /\ latest \in [Dirs -> 0 .. MaxTransfers]
  /\ upset \subseteq Reasons \X Dirs

\* Every variable has its type; queues and the pool keep their limits.
TypeOK == Types /\ Cardinality(InPool) + Cardinality(Copying) <= PoolThreads

Undisturbed(d, reasons) == upset \cap (reasons \X {d}) = {}

\* A file nobody is writing is, whole, the upload that opened it last, unless
\* two uploads wrote it at the same time or one was cut off in the middle: the
\* old file is emptied at once and nothing guards the path
\* (ServerUpload 79-113).
FileIsNewest ==
  \A d \in Dirs :
    (disk[d] # Missing /\ Writers(d) = {} /\ Undisturbed(d, {"written", "torn"}))
      => disk[d] = Whole(latest[d])

\* A download that ended well is one whole file, unless the file was written
\* while it was read or was not whole already: the hash the client compares is
\* of what was read (ServerDownload 92-131).
DownloadWhole ==
  \A k \in Downloads :
    (client[k] = "ok" /\ Undisturbed(path[k], {"written", "torn", "read"}))
      => \E u \in Uploads \cup {0} : got[k] = Whole(u)

\* When a file is neither written nor copied both servers have the same, unless
\* an upload replaced it under a copy, the user changed directory under an
\* upload, or the queue of copies was full (ServerUpload 60, 79, 117, 123).
SecondaryFollows ==
  \A d \in Dirs :
    (Writers(d) = {} /\ CopiesOf(d) = {} /\
     Undisturbed(d, {"written", "torn", "copied", "strayed", "dropped"}))
      => remote[d] = disk[d]

\* A transfer whose client stays is served even when the pool is exhausted,
\* because its constructor has started it (ServerUpload 28, ServerDownload 54),
\* unless its queue was full, the file became shorter under it (cut), or the run
\* that accepted its client could not open, write or read the file (unserved):
\* then the client waits for good, the other run in accept() too.
EveryTransferServed ==
  \A k \in Ids :
    (k \in Begun) ~> \/ client[k] \in {"ok", "cut", "unserved", "left", "gone"}
                     \/ run["own"][k] = "refused"

\* Threads of the pool that wait for a client who is, or was, served by the
\* other run.
Leaked == {k \in Ids : run["pool"][k] = "waiting" /\
                       client[k] \in {"held", "ok", "cut", "unserved", "gone"}}

\* A copy that was queued is made, unless the second runs of transfers hold
\* every thread of the pool (Server 85; ServerUpload 39; ServerDownload 90).
EveryUploadCopied ==
  \A k \in Ids :
    (copier[k] = "queued") ~> Through(k) \/ Cardinality(Leaked) = PoolThreads
=============================================================================
