------------------------------ MODULE Sessions ------------------------------
(***************************************************************************)
(* One account of the primary server and the connections that use it:      *)
(* com.Server.auth.Auth and User, com.Server.conn.ServerConnection and the *)
(* LOGIN, CH-PASS, CD and ABORT handlers of com.Server.CommandHandler,     *)
(* with the client's side of those requests (com.Client.CommandHandler).   *)
(* LS, DOWNLOAD and UPLOAD change nothing here, but an exception in them   *)
(* ends a session like one in CH-PASS or CD: they are one command, FILES.  *)
(*                                                                         *)
(* Accounts share nothing but the monitor of changeUsers, so one is enough.*)
(* User objects are mutable and shared by reference: heap holds them, and  *)
(* the set of Auth, a session and a call of changeUsers refer to them by   *)
(* index.  A user's token is the user name or "", a Boolean here.          *)
(***************************************************************************)
EXTENDS Integers, Sequences, Functions

CONSTANTS
  Conns,               \* client processes, each with its current connection
  Passwords, Dirs,
  ServerDirs,          \* the members of Dirs the server can open
  FirstPassword, FirstDir,
  Torn,                \* a user's file between its truncation and its write
  MaxCommands,         \* bound: commands typed
  MaxConnects,         \* bound: connections made
  MaxCrashes           \* bound: crashes of the server

ASSUME AccountAssumption ==
  /\ FirstPassword \in Passwords /\ FirstDir \in ServerDirs
  /\ ServerDirs \subseteq Dirs
  /\ Torn \notin [pass : Passwords, dir : Dirs]
  /\ "none" \notin Conns
ASSUME SessionBoundAssumption ==
  MaxCommands \in Nat /\ MaxConnects \in Nat /\ MaxCrashes \in Nat

VARIABLES
  heap,     \* the User objects, in order of creation
  inSet,    \* the account's object in the set of Auth, 0 while there is none
  file,     \* the account's file in runfiles/usr
  monitor,  \* the connection whose thread is inside changeUsers, or "none"
  sv,       \* of a connection: the server's thread
  cl,       \* of a connection: the client
  toSrv, toCl,
  outbox,   \* commands handed to the pool that replicates them
  commands, connects, crashes,
  disputed, \* history: a login acted on a record or a token that changed after
            \* it looked, or a refused request cleared a session's token
  leaked,   \* history: since the server started, a thread ended and left its
            \* user's token set
  unsaid    \* history: a password was changed and the reply failed

vars == <<heap, inSet, file, monitor, sv, cl, toSrv, toCl, outbox, commands,
          connects, crashes, disputed, leaked, unsaid>>
history == <<disputed, leaked, unsaid>>
bounds == <<commands, connects, crashes>>

Record(u) == [pass |-> heap[u].pass, dir |-> heap[u].dir]
Object(record) == [pass |-> record.pass, dir |-> record.dir, token |-> FALSE]

\* A token in a request: null before the first login, the user name after one,
\* and "" after a change of password.
Tokens == {"null", "empty", "user"}
TokenOf(u) == IF heap[u].token THEN "user" ELSE "empty"

\* A thread: where it is ("dead": an exception ended it, and its socket is still
\* open), the session's User, whether login() was called by
\* handleRequest, the handler and its argument, the arguments of changeUsers,
\* what a FileWriter buffers; saw (history) is the token authenticate found.
NoThread == [pc |-> "off", user |-> 0, again |-> FALSE,
             op |-> "none", val |-> "none", arg |-> 0, aid |-> 0,
             buf |-> Torn, saw |-> FALSE]

EOF == [cmd |-> "EOF", tok |-> "null", val |-> "none"]

Init ==
  /\ heap = <<Object([pass |-> FirstPassword, dir |-> FirstDir])>>
  /\ inSet = 1
  /\ file = [pass |-> FirstPassword, dir |-> FirstDir]
  /\ monitor = "none"
  /\ sv = [c \in Conns |-> NoThread]
  /\ cl = [c \in Conns |-> [pc |-> "closed", tok |-> "null", last |-> EOF]]
  /\ toSrv = [c \in Conns |-> << >>] /\ toCl = [c \in Conns |-> << >>]
  /\ outbox = << >>
  /\ commands = 0 /\ connects = 0 /\ crashes = 0
  /\ disputed = FALSE /\ leaked = FALSE /\ unsaid = FALSE

-----------------------------------------------------------------------------
(* The client. *)

ServerVars == <<heap, inSet, file, monitor, outbox, crashes, history>>

Send(c, request) == toSrv' = [toSrv EXCEPT ![c] = Append(@, request)]

\* A new process has no token; one that switches servers keeps its old one.
Connect(c) ==
  /\ cl[c].pc = "closed" /\ sv[c].pc \in {"off", "dead"}
  /\ connects < MaxConnects /\ connects' = connects + 1
  /\ \E tok \in {"null", cl[c].tok} :
       cl' = [cl EXCEPT ![c] = [pc |-> "prompt", tok |-> tok, last |-> EOF]]
  /\ sv' = [sv EXCEPT ![c] = [NoThread EXCEPT !.pc = "first"]]
  /\ toSrv' = [toSrv EXCEPT ![c] = << >>]
  /\ UNCHANGED <<ServerVars, toCl, commands>>

SendLogin(c) ==
  /\ cl[c].pc = "prompt"
  /\ \E p \in Passwords : Send(c, [cmd |-> "LOGIN", tok |-> "empty", val |-> p])
  /\ cl' = [cl EXCEPT ![c].pc = "login"]
  /\ UNCHANGED <<ServerVars, sv, toCl, commands, connects>>

LoginReply(c) ==
  /\ cl[c].pc = "login" /\ toCl[c] # << >>
  /\ toCl' = [toCl EXCEPT ![c] = Tail(@)]
  /\ cl' = IF Head(toCl[c]) = "OK"
           THEN [cl EXCEPT ![c].pc = "ready", ![c].tok = "user"]
           ELSE [cl EXCEPT ![c].pc = "prompt"]
  /\ UNCHANGED <<ServerVars, sv, toSrv, commands, connects>>

\* What a user asks for; a password may be empty.
CommandsTyped(tok) ==
  [cmd : {"CH-PASS"}, tok : {tok}, val : Passwords \cup {"none"}]
  \cup [cmd : {"CD"}, tok : {tok}, val : Dirs]
  \cup [cmd : {"FILES"}, tok : {tok}, val : {"none"}]

SendCommand(c) ==
  /\ cl[c].pc = "ready"
  /\ commands < MaxCommands /\ commands' = commands + 1
  /\ \E r \in CommandsTyped(cl[c].tok) :
       Send(c, r) /\ cl' = [cl EXCEPT ![c].pc = "wait", ![c].last = r]
  /\ UNCHANGED <<ServerVars, sv, toCl, connects>>

\* After a change of password the client forgets its token and asks for the
\* credentials again; a CH-PASS or CD that is refused is sent again.
CommandReply(c) ==
  /\ cl[c].pc = "wait" /\ toCl[c] # << >>
  /\ toCl' = [toCl EXCEPT ![c] = Tail(@)]
  /\ \/ /\ Head(toCl[c]) = "OK" /\ cl[c].last.cmd = "CH-PASS"
        /\ cl' = [cl EXCEPT ![c].pc = "prompt", ![c].tok = "empty"]
        /\ UNCHANGED toSrv
     \/ /\ Head(toCl[c]) \in {"OK", "Bad Request"} /\ cl[c].last.cmd = "CD"
        /\ cl' = [cl EXCEPT ![c].pc = "ready"]
        /\ UNCHANGED toSrv
     \/ /\ cl[c].last.cmd = "FILES"
        /\ cl' = [cl EXCEPT ![c].pc = "ready"]
        /\ UNCHANGED toSrv
     \/ /\ Head(toCl[c]) = "Unauthorized" /\ cl[c].last.cmd # "FILES"
        /\ Send(c, cl[c].last)
        /\ UNCHANGED cl
  /\ UNCHANGED <<ServerVars, sv, commands, connects>>

\* The client ends: it is killed or leaves for the other server (no ABORT), or
\* it exits or gives up waiting (ABORT with the token it has).
Leave(c) ==
  /\ cl[c].pc # "closed"
  /\ \/ Send(c, EOF)
     \/ toSrv' = [toSrv EXCEPT ![c] = @ \o
          <<[cmd |-> "ABORT", tok |-> cl[c].tok, val |-> "none"], EOF>>]
  /\ cl' = [cl EXCEPT ![c].pc = "closed"]
  /\ toCl' = [toCl EXCEPT ![c] = << >>]
  /\ UNCHANGED <<ServerVars, sv, commands, connects>>

Client(c) == \/ Connect(c) \/ SendLogin(c) \/ LoginReply(c)
             \/ SendCommand(c) \/ CommandReply(c) \/ Leave(c)

-----------------------------------------------------------------------------
(* The server's thread of a connection: ServerConnection.run.              *)

Reply(c, reply) ==
  toCl' = IF cl[c].pc = "closed" THEN toCl
          ELSE [toCl EXCEPT ![c] = Append(@, reply)]

\* A write to a client that has gone may fail; the first ones often do not.
ReplyFails(c) == cl[c].pc = "closed" /\ UNCHANGED toCl

\* The thread ends and its connection with it.
End(c) == /\ sv' = [sv EXCEPT ![c] = NoThread]
          /\ toSrv' = [toSrv EXCEPT ![c] = << >>]

SetToken(u, token) == heap' = [heap EXCEPT ![u].token = token]

\* Mutant: the handlers of run forget the token.
EndKeepsToken(c) == End(c) /\ UNCHANGED heap

\* The handlers at the end of run: the user's token is cleared.
EndSession(c) == End(c) /\ SetToken(sv[c].user, FALSE)

Take(c) == toSrv' = [toSrv EXCEPT ![c] = Tail(@)]

\* Mutant: the token is not looked at.
AuthenticTwice(p) == inSet # 0 /\ heap[inSet].pass = p

\* Whoever is in the set when the request is read, before any token is set.
Authentic(p) == inSet # 0 /\ heap[inSet].pass = p /\ ~heap[inSet].token

\* login(), from its first or a later request.
LoginRequest(c, again) ==
  LET r == Head(toSrv[c]) IN
    \/ /\ r.cmd = "LOGIN" /\ Authentic(r.val)
       /\ sv' = [sv EXCEPT ![c].pc = "claim", ![c].op = "LOGIN",
                           ![c].arg = inSet, ![c].again = again,
                           ![c].saw = heap[inSet].token]
       /\ Take(c)
       /\ UNCHANGED <<heap, toCl, history>>
    \/ /\ r.cmd = "LOGIN" => ~Authentic(r.val)
       /\ Reply(c, "Unauthorized")
       /\ sv' = [sv EXCEPT ![c].pc = "login", ![c].again = again]
       /\ IF r = EOF THEN UNCHANGED toSrv ELSE Take(c)
       /\ UNCHANGED <<heap, history>>
    \/ /\ r.cmd = "LOGIN" => ~Authentic(r.val)
       /\ ReplyFails(c)
       /\ IF again THEN EndSession(c) ELSE End(c) /\ UNCHANGED heap
       /\ UNCHANGED history

Login(c) ==
  /\ toSrv[c] # << >>
  /\ \/ /\ sv[c].pc = "first" /\ Head(toSrv[c]) = EOF
        /\ End(c) /\ UNCHANGED <<heap, toCl, history>>
     \/ /\ sv[c].pc = "first" /\ Head(toSrv[c]) # EOF
        /\ LoginRequest(c, FALSE)
     \/ sv[c].pc = "login" /\ LoginRequest(c, sv[c].again)
  /\ UNCHANGED <<inSet, file, monitor, cl, outbox, bounds>>

\* Mutant: authenticate does not write the record, which has not changed.
ClaimOnly(c) ==
  /\ sv[c].pc = "claim"
  /\ SetToken(sv[c].arg, TRUE)
  /\ disputed' = (disputed \/ heap[sv[c].arg].token # sv[c].saw)
  /\ sv' = [sv EXCEPT ![c].pc = "reply"]
  /\ UNCHANGED <<inSet, file, monitor, cl, toSrv, toCl, outbox, bounds, leaked,
                 unsaid>>

\* authenticate(): the token was found empty in an earlier step.
Claim(c) ==
  /\ sv[c].pc = "claim"
  /\ SetToken(sv[c].arg, TRUE)
  /\ disputed' = (disputed \/ heap[sv[c].arg].token # sv[c].saw)
  /\ sv' = [sv EXCEPT ![c].pc = "remove"]
  /\ UNCHANGED <<inSet, file, monitor, cl, toSrv, toCl, outbox, bounds, leaked,
                 unsaid>>

-----------------------------------------------------------------------------
(* changeUsers(CHANGE, arg), with the monitor of Auth.  Readers of the set *)
(* take no lock.                                                           *)

\* Mutant: changeUsers is not synchronized.
RemoveUnlocked(c) ==
  /\ sv[c].pc = "remove"
  /\ sv' = [sv EXCEPT ![c].pc = "add", ![c].aid = inSet]
  /\ inSet' = 0
  /\ UNCHANGED <<heap, file, monitor, cl, toSrv, toCl, outbox, bounds, history>>

RemoveOld(c) ==
  /\ sv[c].pc = "remove" /\ monitor = "none"
  /\ monitor' = c
  /\ sv' = [sv EXCEPT ![c].pc = "add", ![c].aid = inSet]
  /\ inSet' = 0
  /\ disputed' = (disputed \/ (sv[c].op = "LOGIN" /\ inSet # sv[c].arg))
  /\ UNCHANGED <<heap, file, cl, toSrv, toCl, outbox, bounds, leaked, unsaid>>

\* The record written is that of the object removed, not of the one added.
AddNew(c) ==
  /\ sv[c].pc = "add"
  /\ inSet' = sv[c].arg
  /\ file' = Torn
  /\ sv' = [sv EXCEPT ![c].pc = "write", ![c].buf = Record(sv[c].aid)]
  /\ UNCHANGED <<heap, monitor, cl, toSrv, toCl, outbox, bounds, history>>

WriteRecord(c) ==
  /\ sv[c].pc = "write"
  /\ file' = sv[c].buf
  /\ monitor' = "none"
  /\ sv' = [sv EXCEPT ![c].pc = "reply"]
  /\ UNCHANGED <<heap, inSet, cl, toSrv, toCl, outbox, bounds, history>>

-----------------------------------------------------------------------------
(* What follows changeUsers in each handler.                               *)

Idle(c, u) == sv' = [sv EXCEPT ![c] = [NoThread EXCEPT !.pc = "idle",
                                                       !.user = u]]

HandOver(cmd, val) == outbox' = Append(outbox, [cmd |-> cmd, val |-> val])

\* setUser comes before the reply, so a reply that fails leaves the token of
\* a first login set: run returns without touching it.
LoginDone(c) ==
  /\ sv[c].pc = "reply" /\ sv[c].op = "LOGIN"
  /\ \/ /\ Reply(c, "OK") /\ Idle(c, sv[c].arg)
        /\ UNCHANGED <<heap, toSrv, leaked>>
     \/ /\ ReplyFails(c) /\ End(c)
        /\ IF sv[c].again
           THEN SetToken(sv[c].arg, FALSE) /\ UNCHANGED leaked
           ELSE UNCHANGED heap /\ leaked' = TRUE
  /\ UNCHANGED <<inSet, file, monitor, cl, outbox, bounds, disputed, unsaid>>

\* The session keeps the object it had.
PasswordDone(c) ==
  /\ sv[c].pc = "reply" /\ sv[c].op = "CH-PASS"
  /\ \/ /\ Reply(c, "OK") /\ Idle(c, sv[c].user)
        /\ HandOver("CH-PASS", sv[c].val)
        /\ UNCHANGED <<heap, toSrv, unsaid>>
     \/ /\ ReplyFails(c) /\ EndSession(c)
        /\ unsaid' = TRUE
        /\ UNCHANGED outbox
  /\ UNCHANGED <<inSet, file, monitor, cl, bounds, disputed, leaked>>

\* handleCd replies, whether or not that fails, and writes the file again,
\* without the monitor.
DirectoryDone(c) ==
  /\ sv[c].pc = "reply" /\ sv[c].op = "CD"
  /\ Reply(c, "OK")
  /\ file' = Torn
  /\ sv' = [sv EXCEPT ![c].pc = "save", ![c].buf = Record(sv[c].user)]
  /\ UNCHANGED <<heap, inSet, monitor, cl, toSrv, outbox, bounds, history>>

SaveDirectory(c) ==
  /\ sv[c].pc = "save"
  /\ file' = sv[c].buf
  /\ HandOver("SCD", sv[c].val)
  /\ Idle(c, sv[c].user)
  /\ UNCHANGED <<heap, inSet, monitor, cl, toSrv, toCl, bounds, history>>

-----------------------------------------------------------------------------
(* The loop of run: handleRequest.                                         *)

Verified(c, r) == r.cmd = "LOGIN" \/ r.tok = TokenOf(sv[c].user)

\* A refused request clears the token; the session goes on without it.
Unauthorized(c) ==
  /\ \/ /\ Reply(c, "Unauthorized")
        /\ Take(c) /\ UNCHANGED sv
        /\ SetToken(sv[c].user, FALSE)
        /\ disputed' = TRUE
     \/ ReplyFails(c) /\ EndSession(c) /\ UNCHANGED disputed
  /\ UNCHANGED <<leaked, unsaid>>

\* An exception that no handler of run names: the thread ends with the user's
\* token as it is, nobody closes the socket, and nothing more is read from it.
Dies(c) ==
  /\ sv' = [sv EXCEPT ![c] = [NoThread EXCEPT !.pc = "dead",
                                              !.user = sv[c].user]]
  /\ Take(c)
  /\ leaked' = TRUE
  /\ UNCHANGED <<heap, disputed, unsaid>>

\* equals on a null token.
NullToken(c) == Dies(c) /\ UNCHANGED toCl

Changing(c, op, val, user) ==
  sv' = [sv EXCEPT ![c].pc = "remove", ![c].op = op, ![c].val = val,
                   ![c].arg = user]

\* A new User object with an empty token; the session does not get it.
NewPassword(c, r) ==
  /\ heap' = Append(heap, Object([pass |-> r.val, dir |-> heap[sv[c].user].dir]))
  /\ Changing(c, "CH-PASS", r.val, Len(heap) + 1)
  /\ Take(c)
  /\ UNCHANGED <<toCl, history>>

\* An empty password is no second part of the message: sp[1] does not exist.
ChangePassword(c, r) ==
  \/ r.val # "none" /\ NewPassword(c, r)
  \/ r.val = "none" /\ Dies(c) /\ UNCHANGED toCl

\* Mutant: the directory is set before it is opened.
CdFirst(c, r) ==
  /\ heap' = [heap EXCEPT ![sv[c].user].dir = r.val]
  /\ IF r.val \in ServerDirs
     THEN Changing(c, "CD", r.val, sv[c].user) /\ UNCHANGED toCl
     ELSE Reply(c, "Bad Request") /\ UNCHANGED sv
  /\ Take(c)
  /\ UNCHANGED history

\* Opening a directory that is not there fails; some names are no path at all,
\* and that exception is not caught.
HandleCd(c, r) ==
  \/ /\ r.val \in ServerDirs
     /\ heap' = [heap EXCEPT ![sv[c].user].dir = r.val]
     /\ Changing(c, "CD", r.val, sv[c].user)
     /\ Take(c)
     /\ UNCHANGED <<toCl, history>>
  \/ /\ r.val \notin ServerDirs
     /\ Reply(c, "Bad Request")
     /\ Take(c)
     /\ UNCHANGED <<heap, sv, history>>
  \/ r.val \notin ServerDirs /\ Dies(c) /\ UNCHANGED toCl

\* LS, DOWNLOAD and UPLOAD answer (OK stands for every answer: the client goes
\* on after any), and only LS sees the answer fail.  They may throw: a name
\* that is no path before the answer; after it a listing that breaks off, a
\* port that is no number, a queue of transfers that is full.
HandleFiles(c) ==
  \/ /\ Reply(c, "OK")
     /\ Take(c)
     /\ UNCHANGED <<heap, sv, history>>
  \/ ReplyFails(c) /\ EndSession(c) /\ UNCHANGED history
  \/ (Reply(c, "OK") \/ UNCHANGED toCl) /\ Dies(c)

HandleRequest(c) ==
  /\ sv[c].pc = "idle" /\ toSrv[c] # << >>
  /\ LET r == Head(toSrv[c]) IN
       \/ r.cmd = "EOF" /\ EndSession(c) /\ UNCHANGED <<toCl, history>>
       \/ r.cmd # "EOF" /\ r.tok = "null" /\ NullToken(c)
       \/ r.cmd # "EOF" /\ r.tok # "null" /\ ~Verified(c, r) /\ Unauthorized(c)
       \/ /\ r.cmd # "EOF" /\ Verified(c, r)
          /\ \/ r.cmd = "LOGIN" /\ LoginRequest(c, TRUE)
             \/ r.cmd = "CH-PASS" /\ ChangePassword(c, r)
             \/ r.cmd = "CD" /\ HandleCd(c, r)
             \/ r.cmd = "FILES" /\ HandleFiles(c)
             \/ r.cmd = "ABORT" /\ EndSession(c) /\ UNCHANGED <<toCl, history>>
  /\ UNCHANGED <<inSet, file, monitor, cl, outbox, bounds>>

\* The client's end is reset, and what it had sent is lost.
Reset(c) ==
  /\ sv[c].pc = "idle" /\ cl[c].pc = "closed"
  /\ EndSession(c)
  /\ UNCHANGED <<inSet, file, monitor, cl, toCl, outbox, bounds, history>>

Server(c) == \/ Login(c) \/ Claim(c)
             \/ RemoveOld(c) \/ AddNew(c) \/ WriteRecord(c)
             \/ LoginDone(c) \/ PasswordDone(c)
             \/ DirectoryDone(c) \/ SaveDirectory(c)
             \/ HandleRequest(c) \/ Reset(c)

\* The server stops and starts again as primary: Auth reads the account's
\* file, and an empty one holds no account.
Crash ==
  /\ crashes < MaxCrashes /\ crashes' = crashes + 1
  /\ IF file = Torn THEN heap' = << >> /\ inSet' = 0
                    ELSE heap' = <<Object(file)>> /\ inSet' = 1
  /\ monitor' = "none"
  /\ sv' = [c \in Conns |-> NoThread]
  /\ cl' = [c \in Conns |-> [cl[c] EXCEPT !.pc = "closed"]]
  /\ toSrv' = [c \in Conns |-> << >>] /\ toCl' = [c \in Conns |-> << >>]
  /\ leaked' = FALSE
  /\ UNCHANGED <<file, outbox, commands, connects, disputed, unsaid>>

Next == (\E c \in Conns : Client(c) \/ Server(c)) \/ Crash

\* A connection's thread runs; users type, and leave, when they please.
Spec == Init /\ [][Next]_vars /\ \A c \in Conns : WF_vars(Server(c))

-----------------------------------------------------------------------------
Users == 0 .. Len(heap)
Records == [pass : Passwords, dir : Dirs]
Objects == [pass : Passwords, dir : Dirs, token : BOOLEAN]
Replies == {"OK", "Bad Request", "Unauthorized"}
Values == Passwords \cup Dirs \cup {"none"}
Commands == [cmd : {"CH-PASS", "SCD"}, val : Values]
Requests ==
  [cmd : {"LOGIN", "CH-PASS"}, tok : Tokens, val : Passwords]
  \cup [cmd : {"CD"}, tok : Tokens, val : Dirs]
  \cup [cmd : {"CH-PASS", "FILES", "ABORT", "EOF"}, tok : Tokens, val : {"none"}]

Changers == {"remove", "add", "write", "reply"}

Threads(users) ==
  [pc : {"off", "first", "login", "claim", "save", "idle", "dead"} \cup Changers,
   user : users, again : BOOLEAN, op : {"none", "LOGIN", "CH-PASS", "CD"},
   val : Values, arg : users, aid : users,
   buf : Records \cup {Torn}, saw : BOOLEAN]

ThreadOK(th, users) ==
  /\ th \in Threads(users)
  /\ th.pc \in {"idle", "save", "dead"} \/ th.op \in {"CH-PASS", "CD"} \/ th.again
       => th.user # 0
  /\ th.pc \in Changers \cup {"claim"} => th.arg # 0
  /\ th.pc \in {"add", "write"} => th.aid # 0

TypeOK ==
  /\ heap \in Seq(Objects)
  /\ inSet \in Users
  /\ file \in Records \cup {Torn}
  /\ monitor \in Conns \cup {"none"}
  /\ DOMAIN sv = Conns /\ \A c \in Conns : ThreadOK(sv[c], Users)
  /\ cl \in [Conns -> [pc : {"closed", "prompt", "login", "ready", "wait"},
                       tok : Tokens, last : Requests]]
  /\ toSrv \in [Conns -> Seq(Requests)]
  /\ toCl \in [Conns -> Seq(Replies)]
  /\ outbox \in Seq(Commands)
  /\ commands \in 0 .. MaxCommands /\ connects \in 0 .. MaxConnects
  /\ crashes \in 0 .. MaxCrashes
  /\ disputed \in BOOLEAN /\ leaked \in BOOLEAN /\ unsaid \in BOOLEAN

\* No thread is between the first and the last write of a handler.
Settled == \A c \in Conns :
  sv[c].pc \notin Changers \cup {"save"}

\* A thread will clear the token of u when its session ends.
Holds(c, u) ==
  \/ sv[c].user = u /\ sv[c].pc \notin {"off", "dead"}
  \/ sv[c].arg = u /\ sv[c].op = "LOGIN"

\* While the token of the account's record is set, so that nobody can log in
\* (Auth.java:116), some connection's thread lives to clear it, whichever of
\* its handlers ends it (ServerConnection.java:74-97): except, until the server
\* starts again, after one has ended where run clears nothing: with a first
\* login's reply that failed (54-59), or with an exception that run does not
\* catch (a null token, CommandHandler.java:45; an empty new password, 182; a
\* name that is no path; a port that is no number, 111; a full queue of
\* transfers, 116 and 134; a listing that breaks off, 211).
TokenHeld ==
  inSet # 0 /\ heap[inSet].token => leaked \/ \E c \in Conns : Holds(c, inSet)

InSession(c) ==
  \/ cl[c].pc = "ready"
  \/ cl[c].pc = "wait" /\ cl[c].last.cmd # "CH-PASS"

\* Two clients are never in session on one account (Auth.java:115-116; the
\* client is told "already in session"), however logins, changes of password,
\* departures and restarts interleave: except when two logins overlapped, or a
\* refused request made a session go on without its token.
OneSession ==
  disputed \/ \A c, d \in Conns : InSession(c) /\ InSession(d) => c = d

\* Outside the handlers the account's file has its directory, and its password
\* too while a session is open: a record that changeUsers writes one version
\* too old (Auth.java:82) is made good by the next login or CD.
DiskAgrees ==
  Settled /\ inSet # 0 /\ ~disputed =>
    /\ file.dir = heap[inSet].dir
    /\ heap[inSet].token => file = Record(inSet)

LastOf(cmd, default) ==
  LET at == {i \in DOMAIN outbox : outbox[i].cmd = cmd} IN
    IF at = {} THEN default
    ELSE outbox[CHOOSE i \in at : \A j \in at : j <= i].val

\* What the primary's record holds has been handed over for replication: the
\* directory as the last of its kind, the password at some time (two changes
\* can be handed over in the other order: CommandHandler.java:185-190 does so
\* outside the monitor).  A password whose reply failed is not handed over.
HandedOver ==
  Settled /\ ~disputed /\ ~unsaid /\ crashes = 0 =>
    /\ heap[inSet].dir = LastOf("SCD", FirstDir)
    /\ \/ heap[inSet].pass = FirstPassword
       \/ [cmd |-> "CH-PASS", val |-> heap[inSet].pass] \in Range(outbox)

\* CommandHandler.java:186 "Password changed!": outside the handlers the
\* account has the password acknowledged last, after a restart too.
AcknowledgedPasswordKept ==
  Settled /\ inSet # 0 /\ ~disputed /\ ~unsaid =>
    heap[inSet].pass = LastOf("CH-PASS", FirstPassword)
=============================================================================
