--------------------------- MODULE ClientFailover ---------------------------
(***************************************************************************)
(* A client that follows the service from one server to the other:         *)
(* com.Client.Client (main, switchServer, the queue of failed commands),   *)
(* com.Client.CommandHandler and com.Client.conn.ClientConnection.  Of the *)
(* servers there is what the client meets: which of them accepts clients,  *)
(* the user's directory on each, and the changes of directory (SCD) that   *)
(* one sends to the other; Failover, Sessions and CommandReplication have  *)
(* the rest.  Server 1 is the one configured as primary.                   *)
(*                                                                         *)
(* A command is its place in the order in which the user typed commands.   *)
(* A directory is a sequence of names, << >> the one without a slash.      *)
(***************************************************************************)
EXTENDS Integers, Sequences, FiniteSets

CONSTANTS
  Names,         \* names a server-cd can have
  Parent,        \* server-cd ..
  Ls, Upload,    \* server-ls; upload
  ServerInfo,    \* ch-server-info, the same servers entered again
  Existing,      \* the directories that exist on both servers
  QueueSize,     \* BLOCKING_QUEUE_SIZE of the client
  MaxTyped,      \* bound: commands typed
  MaxFaults      \* bound: crashes and takeovers from a server that serves

Servers == {1, 2}
Other(s) == 3 - s
Moves == Names \cup {Parent}
Kinds == Moves \cup {Ls, Upload, ServerInfo}
Ids == 1 .. MaxTyped

ASSUME ClientAssumption ==
  /\ Cardinality({Parent, Ls, Upload, ServerInfo}) = 4
  /\ Names \cap {Parent, Ls, Upload, ServerInfo} = {}
  /\ << >> \in Existing /\ Existing \subseteq Seq(Names)
  /\ QueueSize \in Nat \ {0} /\ MaxTyped \in Nat /\ MaxFaults \in Nat

VARIABLES
  status,    \* of a server: "primary", "secondary" or "down"
  dirOf,     \* of a server: User.serverDir
  scd,       \* of a server: the directories on their way to it, as sent
  late,      \* of a server: requests left on a connection the client closed
  held,      \* servers that have not noticed yet that the client closed
  faults,
  pc,        \* "start", "login", "ready", "wait", "switch" or "exited"
  draining,  \* whether switchServer is repeating the queue
  typed,     \* the commands typed
  cmd,       \* the command at work, 0 if none
  target,    \* the directory it asks for
  queue,     \* commandQueue
  conn,      \* the server the client is connected to, 0 if none
  broken,    \* that server has crashed since
  revoked,   \* the user's token on it is not the client's any more
  requests,  \* requests under way on the connection
  replies,   \* replies under way on it
  toPrimary, \* connectedToPrimary
  clientDir, \* Client.serverDir, which the prompt shows
  transfers, \* uploads whose thread runs in the background
  ended,     \* history: commands that came to an end
  ran,       \* history: how often each server has run a command but an upload
  from,      \* history: where the user was when a command was typed
  landed,    \* history: changes of directory answered OK, with the directory
  upset      \* history: what the properties set aside, see below

servers == <<status, dirOf, scd, late, held, faults>>
link == <<conn, broken, revoked, requests, replies>>
control == <<pc, draining, cmd, target>>
vars == <<servers, control, typed, queue, link, toPrimary, clientDir, transfers,
          ended, ran, from, landed, upset>>

Init ==
  /\ status = [s \in Servers |-> IF s = 1 THEN "primary" ELSE "secondary"]
  /\ dirOf = [s \in Servers |-> << >>]
  /\ scd = [s \in Servers |-> << >>] /\ late = [s \in Servers |-> << >>]
  /\ held = {} /\ faults = 0
  /\ pc = "start" /\ draining = FALSE /\ cmd = 0 /\ target = << >>
  /\ typed = << >> /\ queue = << >>
  /\ conn = 0 /\ broken = FALSE /\ revoked = FALSE /\ requests = << >> /\ replies = << >>
  /\ toPrimary = TRUE /\ clientDir = << >> /\ transfers = {}
  /\ ended = {} /\ ran = [k \in Ids |-> [s \in Servers |-> 0]]
  /\ from = [k \in Ids |-> << >>] /\ landed = {}
  /\ upset = {}

-----------------------------------------------------------------------------
(* The servers. *)

\* What the server may answer: the directory of server-ls, unlike that of
\* server-cd, is not computed here, and one that does not exist is an error.
Answers(r) ==
  IF typed[r.k] \in Moves THEN {IF r.to \in Existing THEN "ok" ELSE "bad"}
  ELSE IF typed[r.k] = Ls THEN {"ok", "error"} ELSE {"ok"}

\* Mutant: the directory is set before it is looked up.
SetFirst(s, r) ==
  LET moves == typed[r.k] \in Moves /\ r.to \in Existing IN
  /\ dirOf' = IF typed[r.k] \in Moves THEN [dirOf EXCEPT ![s] = r.to] ELSE dirOf
  /\ scd' = IF moves THEN [scd EXCEPT ![Other(s)] = Append(@, r.to)] ELSE scd
  /\ ran' = IF typed[r.k] = Upload THEN ran ELSE [ran EXCEPT ![r.k][s] = @ + 1]

\* Mutant: the change is not sent to the other server.
KeepToItself(s, r) ==
  /\ dirOf' = IF typed[r.k] \in Moves /\ r.to \in Existing
              THEN [dirOf EXCEPT ![s] = r.to] ELSE dirOf
  /\ ran' = IF typed[r.k] = Upload THEN ran ELSE [ran EXCEPT ![r.k][s] = @ + 1]
  /\ UNCHANGED scd

\* A directory that exists becomes the user's and is sent on.
Perform(s, r) ==
  LET moves == typed[r.k] \in Moves /\ r.to \in Existing IN
  /\ dirOf' = IF moves THEN [dirOf EXCEPT ![s] = r.to] ELSE dirOf
  /\ scd' = IF moves THEN [scd EXCEPT ![Other(s)] = Append(@, r.to)] ELSE scd
  /\ ran' = IF typed[r.k] = Upload THEN ran ELSE [ran EXCEPT ![r.k][s] = @ + 1]

Reply(r, code) == replies' = Append(replies, [k |-> r.k, code |-> code])

\* A request whose token is not the user's any more is refused.
ServerRuns(s) ==
  LET r == Head(requests) IN
  /\ conn = s /\ ~broken /\ requests # << >>
  /\ requests' = Tail(requests)
  /\ \/ /\ revoked
        /\ Reply(r, "unauthorized")
        /\ UNCHANGED <<dirOf, scd, ran>>
     \/ /\ ~revoked
        /\ Perform(s, r)
        /\ \E code \in Answers(r) : Reply(r, code)
  /\ UNCHANGED <<status, late, held, faults, control, typed, queue, conn, broken, revoked,
                 toPrimary, clientDir, transfers, ended, from, landed, upset>>

\* The thread of a connection that was closed runs what it still reads.
ServerRunsLate(s) ==
  LET r == Head(late[s]) IN
  /\ late[s] # << >>
  /\ Perform(s, r)
  /\ late' = [late EXCEPT ![s] = Tail(@)]
  /\ upset' = upset \cup (IF typed[r.k] \in Moves THEN {"pushed"} ELSE {})
  /\ UNCHANGED <<status, held, faults, control, typed, queue, link, toPrimary,
                 clientDir, transfers, ended, from, landed>>

\* Then it reads the end of the stream and clears the user's token.
ServerNotices(s) ==
  /\ s \in held /\ late[s] = << >>
  /\ held' = held \ {s}
  /\ UNCHANGED <<status, dirOf, scd, late, faults, control, typed, queue, link,
                 toPrimary, clientDir, transfers, ended, ran, from, landed, upset>>

\* An SCD arrives, or is lost, in any order.
Arrive(s, i) ==
  /\ scd' = [scd EXCEPT ![s] = SubSeq(@, 1, i - 1) \o SubSeq(@, i + 1, Len(@))]
  /\ \/ /\ status[s] # "down"
        /\ dirOf' = [dirOf EXCEPT ![s] = scd[s][i]]
        /\ upset' = upset \cup (IF i > 1 THEN {"missed"} ELSE {})
                          \cup (IF status[s] = "primary" THEN {"pushed"} ELSE {})
     \/ /\ upset' = upset \cup {"missed"}
        /\ UNCHANGED dirOf
  /\ UNCHANGED <<status, late, held, faults, control, typed, queue, link, toPrimary,
                 clientDir, transfers, ended, ran, from, landed>>

Crash(s) ==
  /\ status[s] # "down" /\ faults < MaxFaults
  /\ faults' = faults + 1
  /\ status' = [status EXCEPT ![s] = "down"]
  /\ late' = [late EXCEPT ![s] = << >>]
  /\ held' = held \ {s}
  /\ broken' = (broken \/ conn = s)
  /\ requests' = IF conn = s THEN << >> ELSE requests
  /\ UNCHANGED <<dirOf, scd, control, typed, queue, conn, revoked, replies, toPrimary,
                 clientDir, transfers, ended, ran, from, landed, upset>>

Becomes(s, role) ==
  /\ status' = [status EXCEPT ![s] = role]
  /\ UNCHANGED <<dirOf, scd, late, held, control, typed, queue, link, toPrimary,
                 clientDir, transfers, ended, ran, from, landed, upset>>

\* A server comes back, or takes over when the other does not serve.
Promote(s) ==
  /\ \/ status[s] = "down" /\ Becomes(s, "secondary")
     \/ /\ status[s] = "secondary" /\ status[Other(s)] # "primary"
        /\ Becomes(s, "primary")
  /\ UNCHANGED faults

\* A server takes over from one that serves but was too slow, or whose
\* heartbeats were lost; both serve from then on.
TakeOver(s) ==
  /\ status[s] = "secondary" /\ status[Other(s)] = "primary"
  /\ faults < MaxFaults
  /\ faults' = faults + 1
  /\ Becomes(s, "primary")

\* Another session of the user changes the token the server compares with.
Revoke ==
  /\ conn # 0 /\ pc \in {"ready", "wait"} /\ ~revoked
  /\ revoked' = TRUE
  /\ UNCHANGED <<servers, control, typed, queue, conn, broken, requests, replies, toPrimary,
                 clientDir, transfers, ended, ran, from, landed, upset>>

-----------------------------------------------------------------------------
(* The client: connecting. *)

Goto(place) ==
  /\ pc' = place
  /\ UNCHANGED <<servers, draining, cmd, target, typed, queue, link, toPrimary, clientDir,
                 transfers, ended, ran, from, landed, upset>>

\* setSocketParams closes the old connection; what it carried to a server that
\* runs is still read there, and run unless the token is refused; replies are gone.
ConnectTo(s) ==
  /\ conn' = s /\ broken' = FALSE /\ revoked' = FALSE
  /\ requests' = << >> /\ replies' = << >>
  /\ late' = IF conn # 0 /\ ~broken /\ ~revoked
             THEN [late EXCEPT ![conn] = @ \o requests] ELSE late
  /\ held' = IF conn # 0 /\ ~broken THEN held \cup {conn} ELSE held
  /\ pc' = "login"
  /\ UNCHANGED <<status, dirOf, scd, faults, queue, target, clientDir, transfers, ran,
                 landed>>

\* main: the configured primary first; when it refuses, switchServer.
Start ==
  /\ pc = "start"
  /\ \/ /\ status[1] = "primary"
        /\ ConnectTo(1)
        /\ UNCHANGED <<draining, cmd, toPrimary, typed, ended, from, upset>>
     \/ /\ status[1] # "primary"
        /\ Goto("switch")

\* Mutant: the flag is not toggled.
Stay == UNCHANGED toPrimary

Toggle == toPrimary' = ~toPrimary

\* switchServer: the other server by the flag, or the end of the client.
SwitchServer ==
  LET next == IF toPrimary THEN 2 ELSE 1 IN
  /\ pc = "switch"
  /\ \/ /\ status[next] = "primary"
        /\ ConnectTo(next)
        /\ draining' = TRUE /\ cmd' = 0
        /\ upset' = upset \ {"shifted"}
        /\ Toggle
        /\ UNCHANGED <<typed, ended, from>>
     \/ /\ status[next] # "primary"
        /\ Goto("exited")

\* What a login that finds the two servers disagreeing puts in question: the
\* changes of directory repeated after it.
Behind(s) == scd[s] # << >> \/ "missed" \in upset

\* login: the reply names the user's directory on this server.  While the server
\* has not noticed the end of the last session it refuses, and the user is asked
\* again.
Login ==
  /\ pc = "login" /\ ~broken /\ conn \notin held
  /\ clientDir' = dirOf[conn]
  /\ pc' = "ready"
  /\ upset' = IF Behind(conn) THEN upset \cup {"behind"} ELSE upset
  /\ UNCHANGED <<servers, draining, cmd, target, typed, queue, link, toPrimary, transfers,
                 ended, ran, from, landed>>

\* A timeout or a connection that is gone: only a SocketException of the first
\* login is a reason to switch.
LoginFails ==
  /\ pc = "login"
  /\ \/ Goto("exited")
     \/ broken /\ ~draining /\ typed = << >> /\ Goto("switch")

-----------------------------------------------------------------------------
(* The client: commands. *)

Move(d, name) == IF name = Parent THEN SubSeq(d, 1, Len(d) - 1) ELSE Append(d, name)

\* handleCommand up to the sending: the directory is computed from the one the
\* prompt shows, and a way up from << >> ends there.
Send(k, kind) ==
  LET to == IF kind \in Moves THEN Move(clientDir, kind) ELSE << >> IN
  IF kind = Parent /\ clientDir = << >>
  THEN /\ ended' = ended \cup {k}
       /\ UNCHANGED <<pc, cmd, target, requests>>
  ELSE /\ pc' = "wait" /\ cmd' = k /\ target' = to
       /\ requests' = IF broken THEN requests ELSE Append(requests, [k |-> k, to |-> to])
       /\ UNCHANGED ended

Type(kind) ==
  LET k == Len(typed) + 1 IN
  /\ pc = "ready" /\ ~draining /\ k \in Ids
  /\ typed' = Append(typed, kind)
  /\ from' = [from EXCEPT ![k] = clientDir]
  /\ Send(k, kind)
  /\ UNCHANGED <<servers, draining, queue, conn, broken, revoked, replies, toPrimary,
                 clientDir, transfers, ran, landed, upset>>

\* ch-server-info: ABORT, which may fail when the server is gone, and then the
\* configured primary, or else the secondary; the flag stays as it is.
ChangeServerInfo ==
  LET k == Len(typed) + 1
      next == IF status[1] = "primary" THEN 1 ELSE 2
  IN
  /\ pc = "ready" /\ ~draining /\ k \in Ids
  /\ \/ /\ status[next] = "primary"
        /\ ConnectTo(next)
        /\ typed' = Append(typed, ServerInfo)
        /\ ended' = ended \cup {k}
        /\ upset' = (upset \ {"shifted"}) \cup {"reentered"}
        /\ UNCHANGED <<draining, cmd, toPrimary, from>>
     \/ /\ broken \/ status[next] # "primary"
        /\ Goto("exited")

ExitCommand == pc = "ready" /\ ~draining /\ Goto("exited")

\* switchServer's loop over the queue.
Repeat ==
  LET k == Head(queue) IN
  /\ pc = "ready" /\ draining
  /\ \/ /\ queue = << >>
        /\ draining' = FALSE
        /\ UNCHANGED <<queue, pc, cmd, target, requests, ended>>
     \/ /\ queue # << >>
        /\ queue' = Tail(queue)
        /\ Send(k, typed[k])
        /\ UNCHANGED draining
  /\ UNCHANGED <<servers, typed, conn, broken, revoked, replies, toPrimary, clientDir,
                 transfers, ran, from, landed, upset>>

\* A command has come to its end, whatever it was.
End(k) == pc' = "ready" /\ cmd' = 0 /\ ended' = ended \cup {k}

\* Whatever reply comes next is taken for this command's.  server-cd tries again
\* on a reply it does not know, also when that is the error of another command
\* and its own request is being served; an upload starts its thread, which gives
\* up on a reply without a port.
TakeReply ==
  LET r == Head(replies) IN
  /\ pc = "wait" /\ replies # << >>
  /\ replies' = Tail(replies)
  /\ \/ /\ typed[cmd] \in Moves /\ r.code \in {"unauthorized", "error"}
        /\ upset' = IF r.code = "error" THEN upset \cup {"resent"} ELSE upset
        /\ requests' = IF broken THEN requests ELSE Append(requests, [k |-> cmd, to |-> target])
        /\ UNCHANGED <<pc, cmd, ended, clientDir, landed, transfers>>
     \/ /\ typed[cmd] \in Moves /\ r.code = "bad"
        /\ End(cmd)
        /\ UNCHANGED <<requests, clientDir, landed, transfers, upset>>
     \/ /\ typed[cmd] \in Moves /\ r.code = "ok"
        /\ End(cmd)
        /\ clientDir' = target
        /\ landed' = landed \cup {<<cmd, target>>}
        /\ UNCHANGED <<requests, transfers, upset>>
     \/ /\ typed[cmd] \notin Moves
        /\ End(cmd)
        /\ transfers' = IF typed[cmd] = Upload /\ typed[r.k] = Upload /\ r.code = "ok"
                       THEN transfers \cup {cmd} ELSE transfers
        /\ UNCHANGED <<requests, clientDir, landed, upset>>
  /\ UNCHANGED <<servers, draining, target, typed, queue, conn, broken, revoked, toPrimary,
                 ran, from>>

\* Mutant: the end of the stream is not passed on.
TimeoutOnly == pc = "wait" /\ ~broken /\ replies = << >>

\* getReply and sendRequest fail by a timeout, a reset or the end of the stream.
Failed == pc = "wait" /\ (broken \/ replies = << >>)

\* Mutant: offer instead of add.
OfferCommand ==
  /\ queue' = IF Len(queue) < QueueSize THEN Append(queue, cmd) ELSE queue
  /\ pc' = "switch"

\* main queues the command; add throws out of main when the queue is full.
QueueOrExit ==
  \/ /\ Len(queue) < QueueSize
     /\ queue' = Append(queue, cmd)
     /\ pc' = "switch"
  \/ /\ Len(queue) = QueueSize
     /\ pc' = "exited"
     /\ UNCHANGED queue

\* An upload swallows the failure, and a reply that is late stays in the stream;
\* a command that is being repeated ends the client; any other is queued.
CommandFails ==
  /\ Failed
  /\ replies' = << >>
  /\ \/ /\ typed[cmd] = Upload
        /\ End(cmd)
        /\ upset' = IF broken THEN upset ELSE upset \cup {"shifted", "misled"}
        /\ UNCHANGED queue
     \/ /\ typed[cmd] # Upload /\ draining
        /\ pc' = "exited"
        /\ UNCHANGED <<cmd, ended, upset, queue>>
     \/ /\ typed[cmd] # Upload /\ ~draining
        /\ QueueOrExit
        /\ UNCHANGED <<cmd, ended, upset>>
  /\ UNCHANGED <<servers, draining, target, typed, conn, broken, revoked, requests, toPrimary,
                 clientDir, transfers, ran, from, landed>>

\* Mutant: the queue has no bound.
TransferQueues(k) ==
  /\ k \in transfers
  /\ transfers' = transfers \ {k}
  /\ queue' \in {queue, Append(queue, k)}
  /\ UNCHANGED <<servers, control, typed, link, toPrimary, clientDir, ended, ran, from,
                 landed, upset>>

\* The thread of an upload ends, or queues it again for the next switch of
\* server, if there is room.
TransferEnds(k) ==
  /\ k \in transfers
  /\ transfers' = transfers \ {k}
  /\ queue' \in {queue} \cup (IF Len(queue) < QueueSize THEN {Append(queue, k)} ELSE {})
  /\ UNCHANGED <<servers, control, typed, link, toPrimary, clientDir, ended, ran, from,
                 landed, upset>>

-----------------------------------------------------------------------------
Client == Start \/ SwitchServer \/ Repeat \/ TakeReply \/ CommandFails

\* What waits for the user, who is asked for a name and a password at every login.
User ==
  \/ Login \/ LoginFails
  \/ (\E kind \in Kinds \ {ServerInfo} : Type(kind)) \/ ChangeServerInfo \/ ExitCommand

Server(s) == ServerRuns(s) \/ ServerRunsLate(s) \/ ServerNotices(s)

Next ==
  \/ Client \/ User \/ Revoke
  \/ \E s \in Servers :
       \/ Server(s) \/ Crash(s) \/ Promote(s) \/ TakeOver(s)
       \/ \E i \in 1 .. Len(scd[s]) : Arrive(s, i)
  \/ \E k \in Ids : TransferEnds(k)

\* The client's main thread goes on where it does not wait for the user: every
\* receive has a timeout.  Nothing else is forced, neither a login, which has no
\* timeout at the console, nor a server, whose thread may have died.
Spec == Init /\ [][Next]_vars /\ WF_vars(Client)

-----------------------------------------------------------------------------
(* Properties *)

Dirs == Seq(Names)
Requests == [k : Ids, to : Dirs]

\* Every variable has its type; the queue keeps its limit.
TypeOK ==
  /\ status \in [Servers -> {"primary", "secondary", "down"}]
  /\ dirOf \in [Servers -> Existing] /\ scd \in [Servers -> Seq(Existing)]
  /\ late \in [Servers -> Seq(Requests)]
  /\ held \subseteq Servers /\ faults \in 0 .. MaxFaults
  /\ pc \in {"start", "login", "ready", "wait", "switch", "exited"}
  /\ draining \in BOOLEAN /\ cmd \in 0 .. Len(typed) /\ target \in Dirs
  /\ typed \in Seq(Kinds) /\ Len(typed) <= MaxTyped
  /\ queue \in Seq(Ids) /\ Len(queue) <= QueueSize
  /\ conn \in {0} \cup Servers /\ broken \in BOOLEAN /\ revoked \in BOOLEAN
  /\ requests \in Seq(Requests)
  /\ replies \in Seq([k : Ids, code : {"ok", "bad", "unauthorized", "error"}])
  /\ toPrimary \in BOOLEAN /\ clientDir \in Dirs /\ transfers \subseteq Ids
  /\ ended \subseteq Ids /\ ran \in [Ids -> [Servers -> Nat]]
  /\ from \in [Ids -> Dirs] /\ landed \subseteq Ids \X Dirs
  /\ upset \subseteq {"missed", "behind", "pushed", "shifted", "misled", "reentered", "resent"}

Waiting(k) == k = cmd \/ \E i \in 1 .. Len(queue) : queue[i] = k

\* As long as the client runs, every command that was typed has come to an end,
\* is at work or is queued to be repeated (Client 124-126, 63-67).
NothingForgotten ==
  pc # "exited" => \A k \in 1 .. Len(typed) : k \in ended \/ Waiting(k)

\* No server runs a command twice: a repeated one goes to the other server, even
\* when the first still runs it late, unless the servers were entered again and
\* the flag names the wrong one (Client 40-61; CommandHandler 396-438), or a
\* server-cd, its replies behind after an upload's swallowed timeout, took the
\* error of a server-ls for its own answer and was sent again (CommandHandler
\* 215-227, 370).  Uploads are queued again by their own threads.
OncePerServer ==
  upset \cap {"reentered", "resent"} = {} =>
    \A k \in 1 .. Len(typed), s \in Servers : ran[k][s] <= 1

\* The prompt shows the directory the server will use for the next upload or
\* download, unless a swallowed timeout of an upload left the replies one behind
\* or a change made through the other server, or left behind on a closed
\* connection, came in under the session (CommandHandler 190-204, 366-370).
DirectoryAgrees ==
  (pc = "ready" /\ ~broken /\ upset \cap {"shifted", "pushed"} = {})
    => clientDir = dirOf[conn]

\* A relative change of directory that is repeated on the other server leads
\* where it would have led, or, when both servers ran it, possibly the same way
\* twice, provided the servers agreed at the login and were not entered again
\* (CommandHandler 194-210; Client 60-71).
RepeatedInPlace ==
  upset \cap {"behind", "pushed", "misled", "reentered"} = {} =>
    \A l \in landed :
      LET k == l[1]  once == Move(from[k], typed[k]) IN
      \/ l[2] = once
      \/ l[2] = Move(once, typed[k]) /\ \A s \in Servers : ran[k][s] > 0

Unfinished == {k \in 1 .. Len(typed) : k \notin ended}

\* Every command comes to an end, or the client does, unless the user leaves it
\* at the login it asks for after a switch (CommandHandler 71-105); a server that
\* refuses the token keeps server-cd trying (CommandHandler 215-228).
EveryCommandEnds ==
  <>[](pc = "login") \/ (Unfinished # {} ~> Unfinished = {} \/ pc = "exited" \/ revoked)
=============================================================================
