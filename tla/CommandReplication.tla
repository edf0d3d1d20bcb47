------------------------ MODULE CommandReplication --------------------------
(***************************************************************************)
(* Changes of one user's directory and password on their way from the      *)
(* primary to the secondary: com.Server.udp.UDPCommandSender,              *)
(* UDPCommandReceiver and UDPCommandHandler, the accounts of               *)
(* com.Server.auth.Auth as those handlers use them, and the second Auth    *)
(* that Server.bePrimary loads from the files while handlers still run.    *)
(*                                                                         *)
(* A command is its place in the order in which sessions handed it to the  *)
(* pool of senders.  The value it sets is that number, so values differ    *)
(* and say where they came from; 0 is what both servers started with, and  *)
(* -k is what is left of the value k when the way to the secondary changed *)
(* it.  A value has no line break, so the file gives back what it was given.*)
(***************************************************************************)
EXTENDS Integers, Sequences, FiniteSets

CONSTANTS
  Fields,          \* what a command sets: the directory (SCD), the password (CH-PASS)
  Senders,         \* threads of the primary's pool of senders
  Handlers,        \* threads of the secondary's pool of handlers
  Torn,            \* the user's file between its truncation and its write
  Other,           \* the user's file with another account's record in it
  Altered,         \* the commands whose values do not arrive whole
  MaxCommands,     \* bound: commands handed over
  MaxLosses        \* bound: datagrams the network loses

ASSUME ReplicationAssumption ==
  /\ Senders \in Nat \ {0} /\ Handlers \in Nat \ {0}
  /\ MaxCommands \in Nat /\ MaxLosses \in Nat
  /\ Torn # Other /\ {Torn, Other} \cap [Fields -> Int] = {}

VARIABLES
  commands,  \* the fields of the commands handed over, in order
  started,   \* how many of them a sender has taken and sent
  answered,  \* commands whose sender has its reply and gave its thread back
  net,       \* commands under way, in any order
  replies,   \* commands whose reply is under way
  handler,   \* of a command: its handler on the secondary
  heap,      \* the User object of each of the secondary's two Auth
  inSet,     \* the object in the set of each Auth, 0 while there is none
  auth,      \* the Auth that getAuthInfo() returns
  takeover,  \* "secondary", "loading" a new Auth, or "primary"
  file,      \* the user's file on the secondary
  last,      \* no account follows this one in the set's order (never changes)
  lost,      \* history: commands that were lost, or whose reply was
  before,    \* history: the commands applied when this one was handed over
  raced      \* history: a handler was at work on an Auth that was being replaced

network == <<net, replies, lost>>
primary == <<commands, started, answered, before>>
accounts == <<heap, inSet, file>>
role == <<auth, takeover>>
vars == <<primary, network, handler, accounts, role, last, raced>>

Issued == 1 .. Len(commands)
Auths == {1, 2}
Record == [Fields -> (-MaxCommands) .. MaxCommands]

\* What arrives of a command's value: the sender takes as many bytes as the text
\* has characters, which cuts a text that is not ASCII, and the receiver trims
\* it.  (Of some values nothing arrives: Refuse.)
Arriving(k) == IF k \in Altered THEN -k ELSE k

\* The command whose value, whole or not, v is.
Source(v) == IF v < 0 THEN -v ELSE v

\* A handler: where it is, the object findUser returned, the Auth whose
\* changeUsers it is in, the object changeUsers removed (0: another account's).
Idle == [pc |-> "idle", obj |-> 0, in |-> 0, aid |-> 0]
At(k, places) == handler[k].pc \in places
Finished == {k \in 1 .. MaxCommands : At(k, {"applied", "refused", "dead"})}
Running == {k \in 1 .. MaxCommands : ~At(k, {"idle"})} \ Finished

Init ==
  /\ commands = << >> /\ started = 0 /\ answered = {}
  /\ net = {} /\ replies = {} /\ lost = {}
  /\ handler = [k \in 1 .. MaxCommands |-> Idle]
  /\ heap = [a \in Auths |-> [f \in Fields |-> 0]]
  /\ inSet = [a \in Auths |-> IF a = 1 THEN 1 ELSE 0]
  /\ auth = 1 /\ takeover = "secondary"
  /\ file = [f \in Fields |-> 0]
  /\ last \in BOOLEAN
  /\ before = [k \in 1 .. MaxCommands |-> {}]
  /\ raced = FALSE

-----------------------------------------------------------------------------
(* The primary. *)

\* A session hands a command to the executor, whose queue has no bound.
HandOver(f) ==
  /\ Len(commands) < MaxCommands
  /\ commands' = Append(commands, f)
  /\ before' = [before EXCEPT ![Len(commands) + 1] =
                  {k \in Issued : At(k, {"applied"})}]
  /\ UNCHANGED <<started, answered, network, handler, accounts, role, last, raced>>

Waiting == (1 .. started) \ answered

\* A thread of the pool takes the oldest command, sends it, and waits for the
\* reply without a timeout.
SendCommand ==
  /\ started < Len(commands)
  /\ Cardinality(Waiting) < Senders
  /\ started' = started + 1
  /\ net' = net \cup {started + 1}
  /\ UNCHANGED <<commands, answered, before, replies, lost, handler, accounts,
                 role, last, raced>>

\* Whatever the reply says, it gives the thread back.
TakeReply(k) ==
  /\ k \in replies
  /\ replies' = replies \ {k}
  /\ answered' = answered \cup {k}
  /\ UNCHANGED <<commands, started, before, net, lost, handler, accounts, role,
                 last, raced>>

Lose(k) ==
  /\ Cardinality(lost) < MaxLosses
  /\ k \in net \cup replies
  /\ net' = net \ {k} /\ replies' = replies \ {k}
  /\ lost' = lost \cup {k}
  /\ UNCHANGED <<primary, handler, accounts, role, last, raced>>

-----------------------------------------------------------------------------
(* The secondary's handlers. *)

Step(k, h) ==
  /\ handler' = [handler EXCEPT ![k] = h]
  /\ UNCHANGED <<primary, role, last>>

\* Mutant: a datagram is handled again, as if the network or a retry repeated it.
ReceiveAgain(k) ==
  /\ k \in net /\ Cardinality(Running) < Handlers
  /\ Step(k, [Idle EXCEPT !.pc = "run"])
  /\ UNCHANGED <<network, accounts, raced>>

\* The receiver's loop hands the datagram to a thread of the pool.
Receive(k) ==
  /\ k \in net /\ Cardinality(Running) < Handlers
  /\ net' = net \ {k}
  /\ Step(k, [handler[k] EXCEPT !.pc = "run"])
  /\ UNCHANGED <<replies, lost, accounts, raced>>

\* An answer that says ERROR, to a message without a value (run) or for a user
\* that is not there (changeUserPassword, changeUserDirectory).
Refuse(k) ==
  /\ Step(k, [handler[k] EXCEPT !.pc = "refused"])
  /\ replies' = replies \cup {k}
  /\ UNCHANGED <<net, lost, accounts, raced>>

\* Mutant: nothing is sent when there is no such user.
MissSilently(k) ==
  /\ Step(k, [handler[k] EXCEPT !.pc = IF last THEN "dead" ELSE "refused"])
  /\ UNCHANGED <<network, accounts, raced>>

\* A handler whose search found no account at all meets a null pointer and
\* dies without a reply; one that found another account answers with an error.
Miss(k) ==
  \/ /\ last
     /\ Step(k, [handler[k] EXCEPT !.pc = "dead"])
     /\ UNCHANGED <<network, accounts, raced>>
  \/ ~last /\ Refuse(k)

\* A value that was empty, or is after the cut, is no third part of the message.
\* findUser takes no lock: it finds nothing while changeUsers replaces the user.
FindUser(k) ==
  /\ At(k, {"run"})
  /\ \/ Refuse(k)
     \/ inSet[auth] = 0 /\ Miss(k)
     \/ /\ inSet[auth] # 0
        /\ Step(k, [handler[k] EXCEPT !.pc = "found", !.obj = inSet[auth]])
        /\ raced' = (raced \/ takeover = "loading")
        /\ UNCHANGED <<network, accounts>>

\* Mutant: the case of CH-PASS falls through to the one of SCD.
SetEveryField(k) ==
  /\ At(k, {"found"})
  /\ heap' = [heap EXCEPT ![handler[k].obj] = [f \in Fields |-> k]]
  /\ Step(k, [handler[k] EXCEPT !.pc = "set", !.in = auth])
  /\ UNCHANGED <<inSet, file, network, raced>>

\* setServerDir or setPasswordHash on the shared object; getAuthInfo() again.
SetField(k) ==
  /\ At(k, {"found"})
  /\ heap' = [heap EXCEPT ![handler[k].obj][commands[k]] = Arriving(k)]
  /\ Step(k, [handler[k] EXCEPT !.pc = "set", !.in = auth])
  /\ UNCHANGED <<inSet, file, network, raced>>

\* Mutant: changeUsers is not synchronized.
NoMonitor(a) == {}

InMonitor(a) == {k \in 1 .. MaxCommands :
                   At(k, {"removed", "added"}) /\ handler[k].in = a}

\* changeUsers(CHANGE), synchronized on its Auth: look the user up and remove it.
RemoveOld(k) ==
  LET a == handler[k].in IN
  /\ At(k, {"set"}) /\ InMonitor(a) = {}
  /\ \/ /\ inSet[a] = 0 /\ last
        /\ Miss(k)
     \/ /\ inSet[a] # 0 \/ ~last
        /\ inSet' = [inSet EXCEPT ![a] = 0]
        /\ Step(k, [handler[k] EXCEPT !.pc = "removed", !.aid = inSet[a]])
        /\ UNCHANGED <<heap, file, network, raced>>

\* Add the handler's object unless the name differed; FileWriter truncates.
AddNew(k) ==
  LET h == handler[k] IN
  /\ At(k, {"removed"})
  /\ inSet' = [inSet EXCEPT ![h.in] = IF h.aid = 0 THEN @ ELSE h.obj]
  /\ file' = Torn
  /\ Step(k, [h EXCEPT !.pc = "added"])
  /\ UNCHANGED <<heap, network, raced>>

\* Write the record that was removed, leave the monitor, and reply OK.
WriteRecord(k) ==
  LET aid == handler[k].aid IN
  /\ At(k, {"added"})
  /\ file' = IF aid = 0 THEN Other ELSE heap[aid]
  /\ replies' = replies \cup {k}
  /\ Step(k, [handler[k] EXCEPT !.pc = "applied"])
  /\ UNCHANGED <<heap, inSet, net, lost, raced>>

-----------------------------------------------------------------------------
(* The secondary takes over: bePrimary builds a new Auth from the files and *)
(* then makes it the server's.  The receiver and its handlers go on.        *)

\* Mutant: an empty file is read as a record.
ReadAnything(content) == content # Other

Readable(content) == content \notin {Torn, Other}

\* A handler that has found its user in the old Auth and is not finished.
AtWork == {k \in 1 .. MaxCommands : At(k, {"found", "set", "removed", "added"})}

LoadUsers ==
  /\ takeover = "secondary" /\ takeover' = "loading"
  /\ IF Readable(file)
     THEN heap' = [heap EXCEPT ![2] = file] /\ inSet' = [inSet EXCEPT ![2] = 2]
     ELSE UNCHANGED <<heap, inSet>>
  /\ raced' = (raced \/ AtWork # {})
  /\ UNCHANGED <<primary, network, handler, file, auth, last>>

BecomePrimary ==
  /\ takeover = "loading" /\ takeover' = "primary"
  /\ auth' = 2
  /\ UNCHANGED <<primary, network, handler, accounts, last, raced>>

-----------------------------------------------------------------------------
Handle(k) ==
  FindUser(k) \/ SetField(k) \/ RemoveOld(k) \/ AddNew(k) \/ WriteRecord(k)

Next ==
  \/ \E f \in Fields : HandOver(f)
  \/ SendCommand
  \/ LoadUsers
  \/ BecomePrimary
  \/ \E k \in 1 .. MaxCommands :
       TakeReply(k) \/ Lose(k) \/ Receive(k) \/ Handle(k)

\* Threads run and what is not lost arrives; sessions, losses and the
\* takeover are never forced.
Fairness ==
  /\ WF_vars(SendCommand)
  /\ \A k \in 1 .. MaxCommands :
       WF_vars(TakeReply(k)) /\ WF_vars(Receive(k)) /\ WF_vars(Handle(k))

Spec == Init /\ [][Next]_vars /\ Fairness

-----------------------------------------------------------------------------
(* Properties *)

Places == {"idle", "run", "found", "set", "removed", "added", "applied",
           "refused", "dead"}
Handlings == [pc : Places, obj : 0 .. 2, in : 0 .. 2, aid : 0 .. 2]

\* Every variable has its type; an object that is found or removed exists.
TypeOK ==
  /\ commands \in Seq(Fields) /\ Len(commands) <= MaxCommands
  /\ started \in 0 .. Len(commands)
  /\ answered \subseteq 1 .. started
  /\ net \subseteq 1 .. started /\ replies \subseteq 1 .. started
  /\ lost \subseteq 1 .. started
  /\ handler \in [1 .. MaxCommands -> Handlings]
  /\ heap \in [Auths -> Record]
  /\ inSet \in [Auths -> 0 .. 2]
  /\ auth \in Auths
  /\ takeover \in {"secondary", "loading", "primary"}
  /\ file \in Record \cup {Torn, Other}
  /\ last \in BOOLEAN
  /\ before \in [1 .. MaxCommands -> SUBSET (1 .. MaxCommands)]
  /\ raced \in BOOLEAN

\* The record the secondary serves from: its Auth's object for the account.
Served == heap[inSet[auth]]

\* Nothing sets a field of the secondary's record, or of its file, to anything
\* but what arrived of a value that a session of the primary gave that very
\* field: through objects shared between handlers, records read back and
\* records written late (UDPCommandHandler 52, 63; Auth 72-83; Server 78).
\* What arrives may be less than the value (UDPCommandSender 23,
\* UDPCommandHandler 34).
OnlyHandedOver ==
  LET Given(f) == {0} \cup {k \in 1 .. started : commands[k] = f}
      FromPrimary(r) == \A f \in Fields : Source(r[f]) \in Given(f)
  IN  /\ \A a \in Auths : FromPrimary(heap[a])
      /\ Readable(file) => FromPrimary(file)

\* A change that the secondary had applied before a later one was handed over
\* never shows again in the record or the file once the later one is applied,
\* however senders, datagrams and handlers overtake each other: commands are
\* only reordered with those they overlap.  A takeover under a handler that
\* has found its user undoes this: it brings an older object back.
NoChangeUndone ==
  ~raced =>
    \A k \in Issued : At(k, {"applied"}) =>
      /\ inSet[auth] # 0 => Source(Served[commands[k]]) \notin before[k]
      /\ Readable(file) => Source(file[commands[k]]) \notin before[k]

\* When no handler is at work the account is in the set and its file holds the
\* record served: every handler's write is followed by its own, and the last
\* one to leave changeUsers has seen the others' changes (UDPCommandHandler
\* 52-54, 63-66; Auth 65-88).  A takeover that reads the file under a handler
\* can lose the account or leave the file behind.
FileFollowsRecord ==
  (~raced /\ AtWork = {}) =>
    /\ inSet[auth] # 0
    /\ file = Served

\* The commands that no reply will come to.
Silenced == lost \cup {k \in Issued : At(k, {"dead"})}

\* Every command handed over is answered, whatever the others do, unless it was
\* itself lost or died of a search in another's replacement, or such commands
\* hold every thread of the pool (UDPCommandSender 29: no timeout).
EveryCommandAnswered ==
  \A k \in 1 .. MaxCommands :
    (k <= Len(commands)) ~>
      \/ k \in answered \cup Silenced
      \/ Cardinality(Silenced) = Senders
=============================================================================
