-------------------------- MODULE Sessions_proofs --------------------------
(***************************************************************************)
(* Proofs about Sessions, for every set of connections, passwords and      *)
(* directories and every bound.                                            *)
(***************************************************************************)
EXTENDS Sessions, SequenceTheorems, TLAPS

\* Where a thread's fields mean something.
ThreadControl(th) ==
  /\ th.pc \in {"off", "first", "login", "idle", "dead"} => th.op = "none"
  /\ th.pc \in {"off", "first"} => th.user = 0
  /\ th.pc = "login" => th.again \/ th.user = 0
  /\ th.pc \in Changers => th.op \in {"LOGIN", "CH-PASS", "CD"}
  /\ th.pc = "claim" => th.op = "LOGIN"
  /\ th.pc = "save" => th.op = "CD"
  /\ th.op = "CD" => th.arg = th.user

ControlOK == \A c \in Conns : ThreadControl(sv[c])

\* The thread in the monitor is the one between the removal and the write, and
\* only there, or after a file was lost, does the account have no object.
MonitorOK ==
  /\ \A c \in Conns : sv[c].pc \in {"add", "write"} <=> monitor = c
  /\ inSet = 0 => heap = << >> \/ \E c \in Conns : sv[c].pc = "add"

TypeInv == TypeOK /\ ControlOK /\ MonitorOK

InMonitor(th) == th.pc \in {"add", "write"}

\* The types of what a thread writes besides the objects and its own state.
DataOK ==
  /\ file \in Records \cup {Torn}
  /\ toSrv \in [Conns -> Seq(Requests)]
  /\ toCl \in [Conns -> Seq(Replies)]
  /\ outbox \in Seq(Commands)
  /\ disputed \in BOOLEAN /\ leaked \in BOOLEAN /\ unsaid \in BOOLEAN

-----------------------------------------------------------------------------
\* A thread well-typed for some objects is so when there are more.
LEMMA MoreUsers ==
  ASSUME NEW m \in Nat, NEW n \in Nat, m <= n, NEW th, ThreadOK(th, 0 .. m)
  PROVE  ThreadOK(th, 0 .. n)
<1>1. 0 .. m \subseteq 0 .. n
  OBVIOUS
<1> QED
  BY <1>1 DEF ThreadOK, Threads

LEMMA NoThreadOK ==
  ASSUME NEW n \in Nat
  PROVE  ThreadOK(NoThread, 0 .. n)
BY DEF ThreadOK, Threads, NoThread, Changers, Values

\* Setting a token changes one token and nothing else.
LEMMA SetTokenOK ==
  ASSUME heap \in Seq(Objects), NEW u \in 1 .. Len(heap), NEW t \in BOOLEAN,
         SetToken(u, t)
  PROVE  /\ heap' \in Seq(Objects)
         /\ Len(heap') = Len(heap)
         /\ heap' # << >>
         /\ \A v \in 1 .. Len(heap) : v # u => heap'[v] = heap[v]
         /\ heap'[u].token = t
<1>1. DOMAIN heap = 1 .. Len(heap) /\ heap[u] \in Objects
  BY LenProperties, ElementOfSeq
<1>2. [heap[u] EXCEPT !.token = t] \in Objects
  BY <1>1 DEF Objects
<1>3. heap' = [heap EXCEPT ![u] = [heap[u] EXCEPT !.token = t]]
  BY DEF SetToken
<1>4. heap' \in Seq(Objects) /\ Len(heap') = Len(heap)
  BY <1>1, <1>2, <1>3, ExceptSeq
<1>5. heap'[u] = [heap[u] EXCEPT !.token = t]
  BY <1>1, <1>3
<1>6. heap'[u].token = t
  BY <1>1, <1>5 DEF Objects
<1>7. heap' # << >>
  BY <1>4, LenProperties
<1> QED
  BY <1>1, <1>3, <1>4, <1>6, <1>7

\* One thread's step leaves every thread well-typed if it leaves that one so.
LEMMA ThreadStep ==
  ASSUME TypeOK, NEW c \in Conns, NEW th,
         sv' = [sv EXCEPT ![c] = th] \/ (sv' = sv /\ sv[c] = th),
         heap' \in Seq(Objects), Len(heap) <= Len(heap'),
         ThreadOK(th, 0 .. Len(heap'))
  PROVE  /\ DOMAIN sv' = Conns
         /\ sv'[c] = th
         /\ \A d \in Conns : d # c => sv'[d] = sv[d]
         /\ \A d \in Conns : ThreadOK(sv'[d], Users')
<1>1. Len(heap) \in Nat /\ Len(heap') \in Nat
  BY LenProperties DEF TypeOK
<1>2. DOMAIN sv = Conns /\ \A d \in Conns : ThreadOK(sv[d], 0 .. Len(heap))
  BY DEF TypeOK, Users
<1>3. /\ DOMAIN sv' = Conns /\ sv'[c] = th
      /\ \A d \in Conns : d # c => sv'[d] = sv[d]
  BY <1>2
<1>4. ASSUME NEW d \in Conns PROVE ThreadOK(sv'[d], 0 .. Len(heap'))
  BY <1>1, <1>2, <1>3, MoreUsers
<1> QED
  BY <1>3, <1>4 DEF Users

LEMMA TakeOK ==
  ASSUME toSrv \in [Conns -> Seq(Requests)], NEW c \in Conns,
         toSrv[c] # << >>
  PROVE  /\ Head(toSrv[c]) \in Requests
         /\ Take(c) => toSrv' \in [Conns -> Seq(Requests)]
<1>1. Head(toSrv[c]) \in Requests /\ Tail(toSrv[c]) \in Seq(Requests)
  BY HeadTailProperties
<1> QED
  BY <1>1 DEF Take

LEMMA ReplyOK ==
  ASSUME toCl \in [Conns -> Seq(Replies)], NEW c \in Conns,
         NEW reply \in Replies, Reply(c, reply)
  PROVE  toCl' \in [Conns -> Seq(Replies)]
<1>1. Append(toCl[c], reply) \in Seq(Replies)
  BY AppendProperties
<1> QED
  BY <1>1 DEF Reply

\* Ending a thread, with or without its user's token.
LEMMA EndOK ==
  ASSUME TypeOK, NEW c \in Conns, End(c),
         heap' \in Seq(Objects), Len(heap) <= Len(heap')
  PROVE  /\ DOMAIN sv' = Conns
         /\ sv'[c] = NoThread
         /\ \A d \in Conns : d # c => sv'[d] = sv[d]
         /\ \A d \in Conns : ThreadOK(sv'[d], Users')
         /\ toSrv' \in [Conns -> Seq(Requests)]
<1>1. Len(heap') \in Nat
  BY LenProperties
<1>2. ThreadOK(NoThread, 0 .. Len(heap'))
  BY <1>1, NoThreadOK
<1>3. << >> \in Seq(Requests)
  BY EmptySeq
<1>4. toSrv' \in [Conns -> Seq(Requests)]
  BY <1>3 DEF End, TypeOK
<1> QED
  BY <1>2, <1>4, ThreadStep DEF End

\* What a step of one thread, which leaves it as th, has to show.
StepOK(c, th) ==
  /\ sv' = [sv EXCEPT ![c] = th] \/ (sv' = sv /\ sv[c] = th)
  /\ heap' \in Seq(Objects) /\ Len(heap) <= Len(heap')
  /\ heap = << >> => heap' = << >>
  /\ ThreadOK(th, 0 .. Len(heap')) /\ ThreadControl(th)
  /\ \/ monitor' = monitor /\ (InMonitor(th) <=> InMonitor(sv[c]))
     \/ monitor = "none" /\ monitor' = c /\ InMonitor(th)
     \/ monitor = c /\ monitor' = "none" /\ ~InMonitor(th)
  /\ inSet' \in 0 .. Len(heap')
  /\ inSet' = 0 => th.pc = "add" \/ (inSet = 0 /\ sv[c].pc # "add")
  /\ DataOK'
  /\ cl' = cl /\ bounds' = bounds

LEMMA ServerStep ==
  ASSUME TypeInv, NEW c \in Conns, NEW th, StepOK(c, th)
  PROVE  TypeInv'
<1> USE DEF StepOK
<1>1. /\ DOMAIN sv' = Conns /\ sv'[c] = th
      /\ \A d \in Conns : d # c => sv'[d] = sv[d]
      /\ \A d \in Conns : ThreadOK(sv'[d], Users')
  BY ThreadStep DEF TypeInv
<1>2. TypeOK'
  <2>1. /\ heap' \in Seq(Objects) /\ inSet' \in Users'
    BY DEF Users
  <2>2. monitor' \in Conns \cup {"none"}
    BY DEF TypeInv, TypeOK
  <2>3. /\ cl' = cl /\ commands' = commands /\ connects' = connects
        /\ crashes' = crashes
    BY DEF bounds
  <2> QED
    BY <1>1, <2>1, <2>2, <2>3 DEF TypeOK, TypeInv, DataOK
<1>3. ControlOK'
  <2>1. ASSUME NEW d \in Conns PROVE ThreadControl(sv'[d])
    BY <1>1 DEF TypeInv, ControlOK
  <2> QED
    BY <2>1 DEF ControlOK
<1>4. ASSUME NEW d \in Conns PROVE sv'[d].pc \in {"add", "write"} <=> monitor' = d
  BY <1>1, AccountAssumption DEF InMonitor, TypeInv, MonitorOK, AccountAssumption
<1>5. inSet' = 0 => heap' = << >> \/ \E d \in Conns : sv'[d].pc = "add"
  BY <1>1 DEF TypeInv, MonitorOK
<1> QED
  BY <1>2, <1>3, <1>4, <1>5 DEF TypeInv, MonitorOK

LEMMA Typing ==
  ASSUME TypeInv, NEW c \in Conns
  PROVE  /\ heap \in Seq(Objects) /\ Len(heap) \in Nat
         /\ heap = << >> <=> Len(heap) = 0
         /\ inSet \in 0 .. Len(heap)
         /\ ThreadOK(sv[c], 0 .. Len(heap)) /\ ThreadControl(sv[c])
         /\ DataOK
         /\ \A u \in 1 .. Len(heap) : Record(u) \in Records /\ heap[u] \in Objects
<1>1. heap \in Seq(Objects) /\ Len(heap) \in Nat /\ (heap = << >> <=> Len(heap) = 0)
  BY LenProperties, EmptySeq DEF TypeInv, TypeOK
<1>2. \A u \in 1 .. Len(heap) : heap[u] \in Objects
  BY <1>1, ElementOfSeq
<1>3. \A u \in 1 .. Len(heap) : Record(u) \in Records
  BY <1>2 DEF Record, Records, Objects
<1> QED
  BY <1>1, <1>2, <1>3 DEF TypeInv, TypeOK, Users, ControlOK, DataOK

-----------------------------------------------------------------------------
(* changeUsers. *)

LEMMA RemoveOldType ==
  ASSUME TypeInv, NEW c \in Conns, RemoveOld(c)
  PROVE  TypeInv'
<1> DEFINE th == [sv[c] EXCEPT !.pc = "add", !.aid = inSet]
<1>1. sv' = [sv EXCEPT ![c] = th] /\ heap' = heap
  BY DEF RemoveOld
<1>2. inSet # 0
  <2>1. heap # << >>
    BY Typing DEF RemoveOld, ThreadOK, Threads, Changers
  <2>2. \A d \in Conns : sv[d].pc # "add"
    BY AccountAssumption DEF RemoveOld, TypeInv, MonitorOK, AccountAssumption
  <2> QED
    BY <2>1, <2>2 DEF TypeInv, MonitorOK
<1>3. ThreadOK(th, 0 .. Len(heap)) /\ ThreadControl(th)
  BY <1>2, Typing, ZenonT(60) DEF ThreadOK, Threads, ThreadControl, Changers, RemoveOld
<1>4. DataOK'
  BY Typing DEF RemoveOld, DataOK
<1>5. monitor = "none" /\ monitor' = c /\ InMonitor(th)
  BY Typing DEF RemoveOld, InMonitor, ThreadOK, Threads
<1>6. inSet' = 0 /\ th.pc = "add" /\ cl' = cl /\ bounds' = bounds
  BY Typing DEF RemoveOld, ThreadOK, Threads, bounds
<1> HIDE DEF th
<1> StepOK(c, th)
  BY <1>1, <1>3, <1>4, <1>5, <1>6, Typing DEF StepOK
<1> QED
  BY ServerStep

LEMMA AddNewType ==
  ASSUME TypeInv, NEW c \in Conns, AddNew(c)
  PROVE  TypeInv'
<1> DEFINE th == [sv[c] EXCEPT !.pc = "write", !.buf = Record(sv[c].aid)]
<1>1. sv' = [sv EXCEPT ![c] = th] /\ heap' = heap
  BY DEF AddNew
<1>2. sv[c].arg \in 1 .. Len(heap) /\ sv[c].aid \in 1 .. Len(heap)
  BY Typing DEF AddNew, ThreadOK, Threads, Changers
<1>3. ThreadOK(th, 0 .. Len(heap)) /\ ThreadControl(th)
  BY <1>2, Typing, ZenonT(60) DEF ThreadOK, Threads, ThreadControl, Changers, AddNew
<1>4. DataOK'
  BY Typing DEF AddNew, DataOK, history
<1>5. monitor' = monitor /\ InMonitor(th) /\ InMonitor(sv[c])
  BY Typing DEF AddNew, InMonitor, ThreadOK, Threads
<1>6. inSet' \in 1 .. Len(heap) /\ cl' = cl /\ bounds' = bounds
  BY <1>2 DEF AddNew, bounds
<1> HIDE DEF th
<1> StepOK(c, th)
  BY <1>1, <1>3, <1>4, <1>5, <1>6, Typing DEF StepOK
<1> QED
  BY ServerStep

LEMMA WriteRecordType ==
  ASSUME TypeInv, NEW c \in Conns, WriteRecord(c)
  PROVE  TypeInv'
<1> DEFINE th == [sv[c] EXCEPT !.pc = "reply"]
<1>1. sv' = [sv EXCEPT ![c] = th] /\ heap' = heap /\ inSet' = inSet
  BY DEF WriteRecord
<1>2. ThreadOK(th, 0 .. Len(heap)) /\ ThreadControl(th)
  BY Typing DEF ThreadOK, Threads, ThreadControl, Changers, WriteRecord
<1>3. DataOK'
  BY Typing DEF WriteRecord, DataOK, history, ThreadOK, Threads
<1>4. monitor = c /\ monitor' = "none" /\ ~InMonitor(th)
  BY Typing DEF WriteRecord, InMonitor, ThreadOK, Threads, TypeInv, MonitorOK
<1>5. sv[c].pc # "add" /\ cl' = cl /\ bounds' = bounds
  BY DEF WriteRecord, bounds
<1> HIDE DEF th
<1> StepOK(c, th)
  BY <1>1, <1>2, <1>3, <1>4, <1>5, Typing DEF StepOK
<1> QED
  BY ServerStep

-----------------------------------------------------------------------------
(* The ends of the handlers. *)

\* A thread that ends outside the monitor.
LEMMA EndStep ==
  ASSUME TypeInv, NEW c \in Conns, End(c), ~InMonitor(sv[c]),
         heap' \in Seq(Objects), Len(heap) = Len(heap'),
         inSet' = inSet, file' = file, monitor' = monitor,
         toCl' \in [Conns -> Seq(Replies)], outbox' = outbox,
         disputed' \in BOOLEAN, leaked' \in BOOLEAN, unsaid' \in BOOLEAN,
         cl' = cl, bounds' = bounds
  PROVE  TypeInv'
<1> DEFINE th == NoThread
<1>1. sv' = [sv EXCEPT ![c] = th] /\ Len(heap') \in Nat
  BY LenProperties DEF End
<1>2. heap = << >> => heap' = << >>
  BY Typing, EmptySeq, LenProperties
<1>3. ThreadOK(th, 0 .. Len(heap'))
  BY <1>1, NoThreadOK
<1>4. ThreadControl(th) /\ ~InMonitor(th)
  BY DEF ThreadControl, NoThread, InMonitor, Changers
<1>5. toSrv' \in [Conns -> Seq(Requests)]
  BY EmptySeq DEF End, TypeInv, TypeOK
<1>6. DataOK'
  BY <1>5, Typing DEF DataOK
<1>7. sv[c].pc # "add"
  BY DEF InMonitor
<1> HIDE DEF th
<1> StepOK(c, th)
  BY <1>1, <1>2, <1>3, <1>4, <1>6, <1>7, Typing DEF StepOK
<1> QED
  BY ServerStep

LEMMA EndSessionStep ==
  ASSUME TypeInv, NEW c \in Conns, EndSession(c), sv[c].user # 0,
         ~InMonitor(sv[c]),
         inSet' = inSet, file' = file, monitor' = monitor,
         toCl' \in [Conns -> Seq(Replies)], outbox' = outbox,
         disputed' \in BOOLEAN, leaked' \in BOOLEAN, unsaid' \in BOOLEAN,
         cl' = cl, bounds' = bounds
  PROVE  TypeInv'
<1>1. sv[c].user \in 1 .. Len(heap)
  BY Typing DEF ThreadOK, Threads
<1>2. heap' \in Seq(Objects) /\ Len(heap') = Len(heap)
  BY <1>1, Typing, SetTokenOK DEF EndSession
<1> QED
  BY <1>2, EndStep DEF EndSession

LEMMA ClaimType ==
  ASSUME TypeInv, NEW c \in Conns, Claim(c)
  PROVE  TypeInv'
<1> DEFINE th == [sv[c] EXCEPT !.pc = "remove"]
<1>1. sv[c].arg \in 1 .. Len(heap)
  BY Typing DEF Claim, ThreadOK, Threads, Changers
<1>2. /\ sv' = [sv EXCEPT ![c] = th] /\ inSet' = inSet /\ monitor' = monitor
      /\ cl' = cl /\ bounds' = bounds
  BY DEF Claim, bounds
<1>3. heap' \in Seq(Objects) /\ Len(heap') = Len(heap) /\ heap # << >>
  <2>1. SetToken(sv[c].arg, TRUE)
    BY DEF Claim
  <2>2. heap' \in Seq(Objects) /\ Len(heap') = Len(heap)
    BY <2>1, <1>1, Typing, SetTokenOK
  <2>3. heap # << >>
    BY <1>1, Typing
  <2> QED
    BY <2>2, <2>3
<1>4. ThreadOK(th, 0 .. Len(heap)) /\ ThreadControl(th)
  BY Typing DEF ThreadOK, Threads, ThreadControl, Changers, Claim
<1>5. DataOK'
  BY Typing DEF Claim, DataOK
<1>6. ~InMonitor(th) /\ ~InMonitor(sv[c]) /\ sv[c].pc # "add"
  BY Typing DEF InMonitor, ThreadOK, Threads, Claim
<1> HIDE DEF th
<1> StepOK(c, th)
  BY <1>2, <1>3, <1>4, <1>5, <1>6, Typing DEF StepOK
<1> QED
  BY ServerStep

\* A thread goes back to reading requests.
LEMMA IdleStep ==
  ASSUME TypeInv, NEW c \in Conns, NEW u \in 1 .. Len(heap), Idle(c, u),
         ~InMonitor(sv[c]),
         heap' = heap, inSet' = inSet, monitor' = monitor,
         DataOK', cl' = cl, bounds' = bounds
  PROVE  TypeInv'
<1> DEFINE th == [NoThread EXCEPT !.pc = "idle", !.user = u]
<1>1. sv' = [sv EXCEPT ![c] = th]
  BY DEF Idle
<1>2. ThreadOK(th, 0 .. Len(heap))
  <2>1. ThreadOK(NoThread, 0 .. Len(heap))
    BY Typing, NoThreadOK
  <2>2. NoThread.op = "none" /\ NoThread.again = FALSE
    BY DEF NoThread
  <2>3. u \in 0 .. Len(heap) /\ u # 0
    BY Typing
  <2>4. th.pc = "idle" /\ th.user = u /\ th.op = "none" /\ th.again = FALSE
    BY <2>1, <2>2 DEF ThreadOK, Threads
  <2> QED
    BY <2>1, <2>3, <2>4 DEF ThreadOK, Threads, Changers
<1>3. ThreadControl(th) /\ ~InMonitor(th)
  BY <1>2 DEF ThreadOK, Threads, ThreadControl, InMonitor, NoThread, Changers
<1>4. sv[c].pc # "add"
  BY DEF InMonitor
<1> HIDE DEF th
<1> StepOK(c, th)
  BY <1>1, <1>2, <1>3, <1>4, Typing DEF StepOK
<1> QED
  BY ServerStep

LEMMA LoginDoneType ==
  ASSUME TypeInv, NEW c \in Conns, LoginDone(c)
  PROVE  TypeInv'
<1>1. sv[c].arg \in 1 .. Len(heap) /\ ~InMonitor(sv[c])
  BY Typing DEF LoginDone, ThreadOK, Threads, Changers, InMonitor
<1>2. /\ inSet' = inSet /\ file' = file /\ monitor' = monitor
      /\ cl' = cl /\ outbox' = outbox /\ bounds' = bounds
      /\ disputed' = disputed /\ unsaid' = unsaid
  BY DEF LoginDone, bounds
<1>3. CASE /\ Reply(c, "OK") /\ Idle(c, sv[c].arg)
           /\ UNCHANGED <<heap, toSrv, leaked>>
  <2>1. toCl' \in [Conns -> Seq(Replies)]
    BY <1>3, Typing, ReplyOK DEF Replies, DataOK
  <2>2. DataOK'
    BY <2>1, <1>2, <1>3, Typing DEF DataOK
  <2> QED
    BY <2>2, <1>1, <1>2, <1>3, IdleStep
<1>4. CASE /\ ReplyFails(c) /\ End(c)
           /\ IF sv[c].again
              THEN SetToken(sv[c].arg, FALSE) /\ UNCHANGED leaked
              ELSE UNCHANGED heap /\ leaked' = TRUE
  <2>1. heap' \in Seq(Objects) /\ Len(heap') = Len(heap)
    BY <1>1, <1>4, Typing, SetTokenOK
  <2>2. toCl' \in [Conns -> Seq(Replies)] /\ leaked' \in BOOLEAN
    BY <1>4, Typing DEF ReplyFails, DataOK
  <2>3. disputed' \in BOOLEAN /\ unsaid' \in BOOLEAN
    BY <1>2, Typing DEF DataOK
  <2> QED
    BY <2>1, <2>2, <2>3, <1>1, <1>2, <1>4, EndStep
<1> QED
  BY <1>3, <1>4 DEF LoginDone

LEMMA HandOverOK ==
  ASSUME outbox \in Seq(Commands), NEW cmd \in {"CH-PASS", "SCD"},
         NEW val \in Values, HandOver(cmd, val)
  PROVE  outbox' \in Seq(Commands)
<1>1. [cmd |-> cmd, val |-> val] \in Commands
  BY DEF Commands
<1> QED
  BY <1>1, AppendProperties DEF HandOver

LEMMA PasswordDoneType ==
  ASSUME TypeInv, NEW c \in Conns, PasswordDone(c)
  PROVE  TypeInv'
<1>1. /\ sv[c].user \in 1 .. Len(heap) /\ ~InMonitor(sv[c])
      /\ sv[c].val \in Values
  BY Typing DEF PasswordDone, ThreadOK, Threads, InMonitor
<1>2. /\ inSet' = inSet /\ file' = file /\ monitor' = monitor
      /\ cl' = cl /\ bounds' = bounds
      /\ disputed' = disputed /\ leaked' = leaked
  BY DEF PasswordDone, bounds
<1>3. CASE /\ Reply(c, "OK") /\ Idle(c, sv[c].user)
           /\ HandOver("CH-PASS", sv[c].val)
           /\ UNCHANGED <<heap, toSrv, unsaid>>
  <2>1. toCl' \in [Conns -> Seq(Replies)]
    BY <1>3, Typing, ReplyOK DEF Replies, DataOK
  <2>2. outbox' \in Seq(Commands)
    BY <1>1, <1>3, Typing, HandOverOK DEF DataOK
  <2>3. DataOK'
    BY <2>1, <2>2, <1>2, <1>3, Typing DEF DataOK
  <2> QED
    BY <2>3, <1>1, <1>2, <1>3, IdleStep
<1>4. CASE ReplyFails(c) /\ EndSession(c) /\ unsaid' = TRUE /\ UNCHANGED outbox
  <2>1. toCl' \in [Conns -> Seq(Replies)] /\ unsaid' \in BOOLEAN
    BY <1>4, Typing DEF ReplyFails, DataOK
  <2>2. disputed' \in BOOLEAN /\ leaked' \in BOOLEAN
    BY <1>2, Typing DEF DataOK
  <2> QED
    BY <2>1, <2>2, <1>1, <1>2, <1>4, EndSessionStep
<1> QED
  BY <1>3, <1>4 DEF PasswordDone

LEMMA DirectoryDoneType ==
  ASSUME TypeInv, NEW c \in Conns, DirectoryDone(c)
  PROVE  TypeInv'
<1> DEFINE th == [sv[c] EXCEPT !.pc = "save", !.buf = Record(sv[c].user)]
<1>1. /\ sv' = [sv EXCEPT ![c] = th] /\ heap' = heap /\ inSet' = inSet
      /\ monitor' = monitor /\ cl' = cl /\ bounds' = bounds
  BY DEF DirectoryDone, bounds
<1>2. sv[c].user \in 1 .. Len(heap)
  BY Typing DEF DirectoryDone, ThreadOK, Threads
<1>3. ThreadOK(th, 0 .. Len(heap)) /\ ThreadControl(th)
  BY <1>2, Typing, ZenonT(60) DEF ThreadOK, Threads, ThreadControl, Changers, DirectoryDone
<1>4. toCl' \in [Conns -> Seq(Replies)]
  BY Typing, ReplyOK DEF Replies, DataOK, DirectoryDone
<1>5. DataOK'
  BY <1>4, Typing DEF DirectoryDone, DataOK, history
<1>6. ~InMonitor(th) /\ ~InMonitor(sv[c]) /\ sv[c].pc # "add"
  BY Typing DEF InMonitor, ThreadOK, Threads, DirectoryDone
<1> HIDE DEF th
<1> StepOK(c, th)
  BY <1>1, <1>3, <1>5, <1>6, Typing DEF StepOK
<1> QED
  BY ServerStep

LEMMA SaveDirectoryType ==
  ASSUME TypeInv, NEW c \in Conns, SaveDirectory(c)
  PROVE  TypeInv'
<1>1. /\ sv[c].user \in 1 .. Len(heap) /\ ~InMonitor(sv[c])
      /\ sv[c].val \in Values /\ sv[c].buf \in Records \cup {Torn}
  BY Typing DEF SaveDirectory, ThreadOK, Threads, InMonitor
<1>2. outbox' \in Seq(Commands)
  BY <1>1, Typing, HandOverOK DEF SaveDirectory, DataOK
<1>3. DataOK'
  BY <1>1, <1>2, Typing DEF SaveDirectory, DataOK, history
<1>4. /\ Idle(c, sv[c].user) /\ heap' = heap /\ inSet' = inSet
      /\ monitor' = monitor /\ cl' = cl /\ bounds' = bounds
  BY DEF SaveDirectory, bounds
<1> QED
  BY <1>1, <1>3, <1>4, IdleStep

-----------------------------------------------------------------------------
(* Reading a request. *)

LEMMA ClaimThread ==
  ASSUME NEW users, NEW th \in Threads(users), NEW u \in users,
         NEW again \in BOOLEAN, NEW saw \in BOOLEAN
  PROVE  [th EXCEPT !.pc = "claim", !.op = "LOGIN", !.arg = u,
                    !.again = again, !.saw = saw] \in Threads(users)
<1>1. [th EXCEPT !.pc = "claim", !.op = "LOGIN", !.arg = u] \in Threads(users)
  BY DEF Threads
<1> DEFINE th1 == [th EXCEPT !.pc = "claim", !.op = "LOGIN", !.arg = u]
<1> HIDE DEF th1
<1>2. [th1 EXCEPT !.again = again] \in Threads(users)
  BY <1>1 DEF Threads, th1
<1> DEFINE th2 == [th1 EXCEPT !.again = again]
<1> HIDE DEF th2
<1>3. [th2 EXCEPT !.saw = saw] \in Threads(users)
  BY <1>2 DEF Threads, th2
<1> QED
  BY <1>3 DEF th1, th2

LEMMA LoginRequestType ==
  ASSUME TypeInv, NEW c \in Conns, NEW again \in BOOLEAN,
         toSrv[c] # << >>, LoginRequest(c, again),
         sv[c].pc \in {"first", "login", "idle"},
         again <=> sv[c].user # 0,
         inSet' = inSet, file' = file, monitor' = monitor, cl' = cl,
         outbox' = outbox, bounds' = bounds
  PROVE  TypeInv'
<1> DEFINE r == Head(toSrv[c])
<1>1. ~InMonitor(sv[c]) /\ sv[c].op = "none"
  BY Typing DEF InMonitor, ThreadControl
<1>2. CASE /\ r.cmd = "LOGIN" /\ Authentic(r.val)
           /\ sv' = [sv EXCEPT ![c].pc = "claim", ![c].op = "LOGIN",
                               ![c].arg = inSet, ![c].again = again,
                               ![c].saw = heap[inSet].token]
           /\ Take(c)
           /\ UNCHANGED <<heap, toCl, history>>
  <2> DEFINE th == [sv[c] EXCEPT !.pc = "claim", !.op = "LOGIN",
                                 !.arg = inSet, !.again = again,
                                 !.saw = heap[inSet].token]
  <2>1. sv' = [sv EXCEPT ![c] = th] /\ heap' = heap
    BY <1>2
  <2>2. inSet \in 1 .. Len(heap)
    BY <1>2, Typing DEF Authentic
  <2>3. heap[inSet].token \in BOOLEAN
    BY <2>2, Typing DEF Objects
  <2>4. ThreadOK(th, 0 .. Len(heap)) /\ ThreadControl(th)
    <3>1. sv[c] \in Threads(0 .. Len(heap)) /\ inSet \in 0 .. Len(heap)
      BY Typing DEF ThreadOK
    <3>2. th \in Threads(0 .. Len(heap))
      BY <3>1, <2>3, ClaimThread, Zenon
    <3>3. /\ th.pc = "claim" /\ th.user = sv[c].user /\ th.op = "LOGIN"
          /\ th.arg = inSet /\ th.again = again
      BY <3>1 DEF Threads
    <3>4. ThreadOK(th, 0 .. Len(heap))
      BY <3>2, <3>3, <2>2 DEF ThreadOK, Threads, Changers
    <3> QED
      BY <3>3, <3>4 DEF ThreadControl, Changers
  <2>5. DataOK'
    BY <1>2, Typing, TakeOK DEF DataOK, history
  <2>6. ~InMonitor(th)
    BY Typing DEF InMonitor, ThreadOK, Threads
  <2> HIDE DEF th
  <2> StepOK(c, th)
    BY <2>1, <2>4, <2>5, <2>6, <1>1, Typing DEF StepOK
  <2> QED
    BY ServerStep
<1>3. CASE /\ Reply(c, "Unauthorized")
           /\ sv' = [sv EXCEPT ![c].pc = "login", ![c].again = again]
           /\ IF r = EOF THEN UNCHANGED toSrv ELSE Take(c)
           /\ UNCHANGED <<heap, history>>
  <2> DEFINE th == [sv[c] EXCEPT !.pc = "login", !.again = again]
  <2>1. sv' = [sv EXCEPT ![c] = th] /\ heap' = heap
    BY <1>3
  <2>2. ThreadOK(th, 0 .. Len(heap)) /\ ThreadControl(th)
    BY <1>1, Typing, ZenonT(60) DEF ThreadOK, Threads, ThreadControl, Changers
  <2>3. toCl' \in [Conns -> Seq(Replies)]
    BY <1>3, Typing, ReplyOK DEF Replies, DataOK
  <2>4. toSrv' \in [Conns -> Seq(Requests)]
    BY <1>3, Typing, TakeOK DEF DataOK
  <2>5. DataOK'
    BY <1>3, <2>3, <2>4, Typing DEF DataOK, history
  <2>6. ~InMonitor(th) /\ sv[c].pc # "add"
    BY Typing DEF InMonitor, ThreadOK, Threads
  <2> HIDE DEF th
  <2> StepOK(c, th)
    BY <2>1, <2>2, <2>5, <2>6, <1>1, Typing DEF StepOK
  <2> QED
    BY ServerStep
<1>4. CASE /\ ReplyFails(c)
           /\ IF again THEN EndSession(c) ELSE End(c) /\ UNCHANGED heap
           /\ UNCHANGED history
  <2>1. /\ toCl' \in [Conns -> Seq(Replies)]
        /\ disputed' \in BOOLEAN /\ leaked' \in BOOLEAN /\ unsaid' \in BOOLEAN
    BY <1>4, Typing DEF ReplyFails, DataOK, history
  <2>2. CASE again
    BY <2>1, <2>2, <1>1, <1>4, EndSessionStep
  <2>3. CASE ~again
    <3>1. heap' \in Seq(Objects) /\ Len(heap') = Len(heap)
      BY <2>3, <1>4, Typing
    <3>2. End(c)
      BY <2>3, <1>4
    <3> QED
      BY <3>1, <3>2, <2>1, <1>1, EndStep
  <2> QED
    BY <2>2, <2>3
<1> QED
  BY <1>2, <1>3, <1>4 DEF LoginRequest

LEMMA LoginType ==
  ASSUME TypeInv, NEW c \in Conns, Login(c)
  PROVE  TypeInv'
<1>1. /\ toSrv[c] # << >>
      /\ inSet' = inSet /\ file' = file /\ monitor' = monitor /\ cl' = cl
      /\ outbox' = outbox /\ bounds' = bounds
  BY DEF Login
<1>2. CASE sv[c].pc = "first" /\ End(c) /\ UNCHANGED <<heap, toCl, history>>
  <2>1. /\ heap' \in Seq(Objects) /\ Len(heap') = Len(heap)
        /\ toCl' \in [Conns -> Seq(Replies)] /\ ~InMonitor(sv[c])
        /\ disputed' \in BOOLEAN /\ leaked' \in BOOLEAN /\ unsaid' \in BOOLEAN
    BY <1>2, Typing DEF DataOK, history, InMonitor
  <2> QED
    BY <2>1, <1>1, <1>2, EndStep
<1>3. CASE sv[c].pc = "first" /\ LoginRequest(c, FALSE)
  <2>1. sv[c].user = 0
    BY <1>3, Typing DEF ThreadControl
  <2> QED
    BY <2>1, <1>1, <1>3, LoginRequestType
<1>4. CASE sv[c].pc = "login" /\ LoginRequest(c, sv[c].again)
  <2>1. sv[c].again \in BOOLEAN /\ (sv[c].again <=> sv[c].user # 0)
    BY <1>4, Typing DEF ThreadControl, ThreadOK, Threads
  <2> QED
    BY <2>1, <1>1, <1>4, LoginRequestType
<1> QED
  BY <1>2, <1>3, <1>4 DEF Login

LEMMA UnauthorizedType ==
  ASSUME TypeInv, NEW c \in Conns, Unauthorized(c),
         toSrv[c] # << >>, sv[c].pc = "idle",
         inSet' = inSet, file' = file, monitor' = monitor, cl' = cl,
         outbox' = outbox, bounds' = bounds
  PROVE  TypeInv'
<1>1. sv[c].user \in 1 .. Len(heap) /\ ~InMonitor(sv[c])
  BY Typing DEF ThreadOK, Threads, InMonitor
<1>2. leaked' = leaked /\ unsaid' = unsaid
  BY DEF Unauthorized
<1>3. CASE /\ Reply(c, "Unauthorized")
           /\ Take(c) /\ UNCHANGED sv
           /\ SetToken(sv[c].user, FALSE)
           /\ disputed' = TRUE
  <2> DEFINE th == sv[c]
  <2>1. sv' = sv /\ sv[c] = th
    BY <1>3
  <2>2. heap' \in Seq(Objects) /\ Len(heap') = Len(heap)
    BY <1>1, <1>3, Typing, SetTokenOK
  <2>3. heap # << >>
    BY <1>1, Typing
  <2>4. toCl' \in [Conns -> Seq(Replies)]
    BY <1>3, Typing, ReplyOK DEF Replies, DataOK
  <2>5. toSrv' \in [Conns -> Seq(Requests)]
    BY <1>3, Typing, TakeOK DEF DataOK
  <2>6. DataOK'
    BY <1>2, <1>3, <2>4, <2>5, Typing DEF DataOK
  <2>7. th.pc # "add"
    OBVIOUS
  <2>8. ThreadOK(th, 0 .. Len(heap)) /\ ThreadControl(th)
    BY Typing
  <2>9. inSet \in 0 .. Len(heap) /\ Len(heap) \in Nat /\ th = sv[c]
    BY Typing
  <2> HIDE DEF th
  <2> StepOK(c, th)
    BY <2>1, <2>2, <2>3, <2>6, <2>7, <2>8, <2>9 DEF StepOK
  <2> QED
    BY ServerStep
<1>4. CASE ReplyFails(c) /\ EndSession(c) /\ UNCHANGED disputed
  <2>1. toCl' \in [Conns -> Seq(Replies)]
    BY <1>4, Typing DEF ReplyFails, DataOK
  <2>2. disputed' \in BOOLEAN /\ leaked' \in BOOLEAN /\ unsaid' \in BOOLEAN
    BY <1>2, <1>4, Typing DEF DataOK
  <2> QED
    BY <2>1, <2>2, <1>1, <1>4, EndSessionStep
<1> QED
  BY <1>3, <1>4 DEF Unauthorized

\* A thread that dies keeps its user.
LEMMA DiesType ==
  ASSUME TypeInv, NEW c \in Conns, Dies(c), toSrv[c] # << >>, sv[c].pc = "idle",
         inSet' = inSet, file' = file, monitor' = monitor, cl' = cl,
         outbox' = outbox, bounds' = bounds, toCl' \in [Conns -> Seq(Replies)]
  PROVE  TypeInv'
<1> DEFINE u == sv[c].user
           th == [NoThread EXCEPT !.pc = "dead", !.user = u]
<1>1. sv' = [sv EXCEPT ![c] = th] /\ heap' = heap
  BY DEF Dies
<1>2. u \in 0 .. Len(heap) /\ u # 0
  BY Typing DEF ThreadOK, Threads
<1> HIDE DEF u
<1>3. ThreadOK(th, 0 .. Len(heap))
  <2>1. ThreadOK(NoThread, 0 .. Len(heap))
    BY Typing, NoThreadOK
  <2>2. th.pc = "dead" /\ th.user = u /\ th.op = "none" /\ th.again = FALSE
    BY <2>1 DEF ThreadOK, Threads, NoThread
  <2> QED
    BY <1>2, <2>1, <2>2 DEF ThreadOK, Threads, Changers
<1>4. th.pc = "dead" /\ th.op = "none" /\ ThreadControl(th) /\ ~InMonitor(th)
  BY <1>3 DEF ThreadOK, Threads, ThreadControl, InMonitor, NoThread, Changers
<1>5. DataOK'
  BY Typing, TakeOK DEF Dies, DataOK
<1>6. ~InMonitor(sv[c]) /\ sv[c].pc # "add"
  BY DEF InMonitor
<1> HIDE DEF th
<1> StepOK(c, th)
  BY <1>1, <1>3, <1>4, <1>5, <1>6, Typing DEF StepOK
<1> QED
  BY ServerStep

LEMMA ChangePasswordType ==
  ASSUME TypeInv, NEW c \in Conns, NEW r, r = Head(toSrv[c]),
         r.cmd = "CH-PASS", ChangePassword(c, r),
         toSrv[c] # << >>, sv[c].pc = "idle",
         inSet' = inSet, file' = file, monitor' = monitor, cl' = cl,
         outbox' = outbox, bounds' = bounds
  PROVE  TypeInv'
<1>1. CASE r.val = "none" /\ Dies(c) /\ UNCHANGED toCl
  BY <1>1, Typing, DiesType DEF DataOK
<1>2. CASE r.val # "none" /\ NewPassword(c, r)
  <2> DEFINE n == Len(heap) + 1
             th == [sv[c] EXCEPT !.pc = "remove", !.op = "CH-PASS",
                                 !.val = r.val, !.arg = n]
             object == Object([pass |-> r.val, dir |-> heap[sv[c].user].dir])
  <2>1. sv[c].user \in 1 .. Len(heap)
    BY Typing DEF ThreadOK, Threads
  <2>2. r.val \in Passwords
    BY <1>2, Typing, TakeOK DEF DataOK, Requests
  <2>3. object \in Objects
    BY <2>1, <2>2, Typing DEF Object, Objects
  <2>4. sv' = [sv EXCEPT ![c] = th] /\ heap' = Append(heap, object)
    BY <1>2 DEF NewPassword, Changing
  <2> HIDE DEF object
  <2>5. heap' \in Seq(Objects) /\ Len(heap') = n
    BY <2>3, <2>4, Typing, AppendProperties
  <2>6. heap # << >> /\ n \in Nat /\ n # 0 /\ Len(heap) <= n
    BY <2>1, Typing
  <2>7. ThreadOK(sv[c], 0 .. n)
    BY <2>6, Typing, MoreUsers
  <2>8. r.val \in Values
    BY <2>2 DEF Values
  <2> HIDE DEF n
  <2>9. ThreadOK(th, 0 .. n) /\ ThreadControl(th)
    <3>1. sv[c].user # 0 /\ n \in 0 .. n
      BY <2>1, <2>6, Typing
    <3>2. th \in Threads(0 .. n)
      BY <3>1, <2>7, <2>8 DEF ThreadOK, Threads, Changers
    <3>3. /\ th.pc = "remove" /\ th.op = "CH-PASS" /\ th.arg = n
          /\ th.user = sv[c].user
      BY <2>7 DEF ThreadOK, Threads
    <3> QED
      BY <3>1, <3>2, <3>3, <2>6 DEF ThreadOK, ThreadControl, Changers
  <2>10. DataOK'
    BY <1>2, Typing, TakeOK DEF NewPassword, DataOK, history
  <2>11. ~InMonitor(th) /\ ~InMonitor(sv[c]) /\ sv[c].pc # "add"
    BY Typing DEF ThreadOK, Threads, InMonitor
  <2>12. inSet \in 0 .. n
    BY Typing DEF n
  <2> HIDE DEF th
  <2> StepOK(c, th)
    BY <2>4, <2>5, <2>6, <2>9, <2>10, <2>11, <2>12 DEF StepOK
  <2> QED
    BY ServerStep
<1> QED
  BY <1>1, <1>2 DEF ChangePassword

LEMMA HandleCdType ==
  ASSUME TypeInv, NEW c \in Conns, NEW r, r = Head(toSrv[c]),
         r.cmd = "CD", HandleCd(c, r),
         toSrv[c] # << >>, sv[c].pc = "idle",
         inSet' = inSet, file' = file, monitor' = monitor, cl' = cl,
         outbox' = outbox, bounds' = bounds
  PROVE  TypeInv'
<1> DEFINE u == sv[c].user
<1>1. u \in 1 .. Len(heap)
  BY Typing DEF ThreadOK, Threads
<1>2. r.val \in Dirs /\ r.val \in Values
  BY Typing, TakeOK DEF DataOK, Requests, Values
<1>3. toSrv' \in [Conns -> Seq(Requests)]
  BY Typing, TakeOK DEF DataOK, HandleCd, Dies
<1>4. ~InMonitor(sv[c]) /\ sv[c].pc # "add"
  BY DEF InMonitor
<1>6. CASE /\ heap' = [heap EXCEPT ![u].dir = r.val]
           /\ Changing(c, "CD", r.val, u)
           /\ UNCHANGED <<toCl, history>>
  <2> DEFINE th == [sv[c] EXCEPT !.pc = "remove", !.op = "CD",
                                 !.val = r.val, !.arg = u]
             object == [heap[u] EXCEPT !.dir = r.val]
  <2>1. sv' = [sv EXCEPT ![c] = th]
    BY <1>6 DEF Changing
  <2>2. object \in Objects
    BY <1>1, <1>2, Typing DEF Objects
  <2>3. heap' = [heap EXCEPT ![u] = object]
    BY <1>6
  <2> HIDE DEF object
  <2>4. heap' \in Seq(Objects) /\ Len(heap') = Len(heap)
    BY <1>1, <2>2, <2>3, Typing, ExceptSeq
  <2>5. heap # << >>
    BY <1>1, Typing
  <2>6. ThreadOK(th, 0 .. Len(heap)) /\ ThreadControl(th)
    BY <1>2, Typing, ZenonT(60) DEF ThreadOK, Threads, ThreadControl, Changers
  <2>7. ~InMonitor(th)
    BY Typing DEF ThreadOK, Threads, InMonitor
  <2>8. DataOK'
    BY <1>3, <1>6, Typing DEF DataOK, history
  <2> HIDE DEF th
  <2> StepOK(c, th)
    BY <2>1, <2>4, <2>5, <2>6, <2>7, <2>8, <1>4, Typing DEF StepOK
  <2> QED
    BY ServerStep
<1>7. CASE Reply(c, "Bad Request") /\ UNCHANGED <<heap, sv, history>>
  <2> DEFINE th == sv[c]
  <2>1. sv' = sv /\ sv[c] = th /\ heap' = heap
    BY <1>7
  <2>2. toCl' \in [Conns -> Seq(Replies)]
    BY <1>7, Typing, ReplyOK DEF Replies, DataOK
  <2>3. DataOK'
    BY <1>3, <1>7, <2>2, Typing DEF DataOK, history
  <2>4. ThreadOK(th, 0 .. Len(heap)) /\ ThreadControl(th) /\ ~InMonitor(th)
    BY <1>4, Typing
  <2> HIDE DEF th
  <2> StepOK(c, th)
    BY <2>1, <2>3, <2>4, <1>4, Typing DEF StepOK
  <2> QED
    BY ServerStep
<1>8. CASE Dies(c) /\ UNCHANGED toCl
  BY <1>8, Typing, DiesType DEF DataOK
<1> QED
  BY <1>6, <1>7, <1>8 DEF HandleCd

\* What only reads files answers, ends or dies.
LEMMA HandleFilesType ==
  ASSUME TypeInv, NEW c \in Conns, HandleFiles(c),
         toSrv[c] # << >>, sv[c].pc = "idle",
         inSet' = inSet, file' = file, monitor' = monitor, cl' = cl,
         outbox' = outbox, bounds' = bounds
  PROVE  TypeInv'
<1>1. ~InMonitor(sv[c]) /\ sv[c].pc # "add" /\ sv[c].user # 0
  BY Typing DEF InMonitor, ThreadOK
<1>2. Reply(c, "OK") \/ UNCHANGED toCl => toCl' \in [Conns -> Seq(Replies)]
  BY Typing, ReplyOK DEF Replies, DataOK
<1>3. CASE Reply(c, "OK") /\ Take(c) /\ UNCHANGED <<heap, sv, history>>
  <2> DEFINE th == sv[c]
  <2>1. sv' = sv /\ sv[c] = th /\ heap' = heap
    BY <1>3
  <2>2. DataOK'
    BY <1>2, <1>3, Typing, TakeOK DEF DataOK, history
  <2>3. ThreadOK(th, 0 .. Len(heap)) /\ ThreadControl(th) /\ ~InMonitor(th)
    BY <1>1, Typing
  <2> HIDE DEF th
  <2> StepOK(c, th)
    BY <1>1, <2>1, <2>2, <2>3, Typing DEF StepOK
  <2> QED
    BY ServerStep
<1>4. CASE ReplyFails(c) /\ EndSession(c) /\ UNCHANGED history
  <2>1. /\ toCl' \in [Conns -> Seq(Replies)]
        /\ disputed' \in BOOLEAN /\ leaked' \in BOOLEAN /\ unsaid' \in BOOLEAN
    BY <1>4, Typing DEF ReplyFails, DataOK, history
  <2> QED
    BY <1>1, <1>4, <2>1, EndSessionStep
<1>5. CASE (Reply(c, "OK") \/ UNCHANGED toCl) /\ Dies(c)
  BY <1>2, <1>5, DiesType
<1> QED
  BY <1>3, <1>4, <1>5 DEF HandleFiles

LEMMA HandleRequestType ==
  ASSUME TypeInv, NEW c \in Conns, HandleRequest(c)
  PROVE  TypeInv'
<1> DEFINE r == Head(toSrv[c])
<1>1. /\ sv[c].pc = "idle" /\ toSrv[c] # << >>
      /\ inSet' = inSet /\ file' = file /\ monitor' = monitor /\ cl' = cl
      /\ outbox' = outbox /\ bounds' = bounds
  BY DEF HandleRequest
<1>2. sv[c].user # 0 /\ ~InMonitor(sv[c])
  BY <1>1, Typing DEF ThreadOK, Threads, InMonitor
<1>3. CASE EndSession(c) /\ UNCHANGED <<toCl, history>>
  <2>1. /\ toCl' \in [Conns -> Seq(Replies)]
        /\ disputed' \in BOOLEAN /\ leaked' \in BOOLEAN /\ unsaid' \in BOOLEAN
    BY <1>3, Typing DEF DataOK, history
  <2> QED
    BY <2>1, <1>1, <1>2, <1>3, EndSessionStep
<1>4. CASE NullToken(c)
  BY <1>1, <1>4, Typing, DiesType DEF NullToken, DataOK
<1>5. CASE Unauthorized(c)
  BY <1>1, <1>5, UnauthorizedType
<1>6. CASE LoginRequest(c, TRUE)
  BY <1>1, <1>2, <1>6, LoginRequestType
<1>7. CASE r.cmd = "CH-PASS" /\ ChangePassword(c, r)
  BY <1>1, <1>7, ChangePasswordType
<1>8. CASE r.cmd = "CD" /\ HandleCd(c, r)
  BY <1>1, <1>8, HandleCdType
<1>9. CASE HandleFiles(c)
  BY <1>1, <1>9, HandleFilesType
<1> QED
  BY <1>3, <1>4, <1>5, <1>6, <1>7, <1>8, <1>9 DEF HandleRequest

LEMMA ResetType ==
  ASSUME TypeInv, NEW c \in Conns, Reset(c)
  PROVE  TypeInv'
<1>1. /\ inSet' = inSet /\ file' = file /\ monitor' = monitor /\ cl' = cl
      /\ outbox' = outbox /\ bounds' = bounds /\ EndSession(c)
  BY DEF Reset
<1>2. sv[c].user # 0 /\ ~InMonitor(sv[c])
  BY Typing DEF Reset, ThreadOK, Threads, InMonitor
<1>3. /\ toCl' \in [Conns -> Seq(Replies)]
      /\ disputed' \in BOOLEAN /\ leaked' \in BOOLEAN /\ unsaid' \in BOOLEAN
  BY Typing DEF Reset, DataOK, history
<1> QED
  BY <1>1, <1>2, <1>3, EndSessionStep

-----------------------------------------------------------------------------
(* The clients, which leave the server's data alone. *)

Clients == [pc : {"closed", "prompt", "login", "ready", "wait"},
            tok : Tokens, last : Requests]

\* What a step of a client has to show.
ClientOK ==
  /\ UNCHANGED ServerVars
  /\ cl' \in [Conns -> Clients]
  /\ toSrv' \in [Conns -> Seq(Requests)]
  /\ toCl' \in [Conns -> Seq(Replies)]
  /\ commands' \in 0 .. MaxCommands /\ connects' \in 0 .. MaxConnects

LEMMA ClientTyping ==
  ASSUME TypeInv, NEW c \in Conns
  PROVE  /\ cl \in [Conns -> Clients] /\ cl[c] \in Clients
         /\ toSrv \in [Conns -> Seq(Requests)] /\ toSrv[c] \in Seq(Requests)
         /\ toCl \in [Conns -> Seq(Replies)]
         /\ commands \in 0 .. MaxCommands /\ connects \in 0 .. MaxConnects
BY DEF TypeInv, TypeOK, Clients

LEMMA ClientStep ==
  ASSUME TypeInv, ClientOK, sv' = sv
  PROVE  TypeInv'
<1>1. /\ heap' = heap /\ inSet' = inSet /\ file' = file /\ monitor' = monitor
      /\ outbox' = outbox /\ crashes' = crashes
      /\ disputed' = disputed /\ leaked' = leaked /\ unsaid' = unsaid
  BY DEF ClientOK, ServerVars, history
<1>2. Users' = Users
  BY <1>1 DEF Users
<1>3. \A d \in Conns : ThreadOK(sv'[d], Users')
  BY <1>2 DEF TypeInv, TypeOK
<1>4. TypeOK'
  BY <1>1, <1>2, <1>3 DEF TypeInv, TypeOK, ClientOK, Clients
<1>5. ControlOK' /\ MonitorOK'
  BY <1>1 DEF TypeInv, ControlOK, MonitorOK
<1> QED
  BY <1>4, <1>5 DEF TypeInv

LEMMA EOFType == EOF \in Requests
BY DEF EOF, Requests, Tokens

LEMMA SendOK ==
  ASSUME TypeInv, NEW c \in Conns, NEW r \in Requests, Send(c, r)
  PROVE  toSrv' \in [Conns -> Seq(Requests)]
<1>1. Append(toSrv[c], r) \in Seq(Requests)
  BY ClientTyping, AppendProperties
<1> QED
  BY <1>1, ClientTyping DEF Send

LEMMA ConnectType ==
  ASSUME TypeInv, NEW c \in Conns, Connect(c)
  PROVE  TypeInv'
<1> DEFINE th == [NoThread EXCEPT !.pc = "first"]
<1>1. sv[c].pc \in {"off", "dead"}
  BY DEF Connect
<1>2. sv' = [sv EXCEPT ![c] = th]
  BY DEF Connect
<1>3. /\ heap' = heap /\ inSet' = inSet /\ file' = file /\ monitor' = monitor
      /\ outbox' = outbox /\ crashes' = crashes /\ commands' = commands
      /\ toSrv' \in [Conns -> Seq(Requests)] /\ toCl' = toCl
      /\ disputed' = disputed /\ leaked' = leaked /\ unsaid' = unsaid
  BY EmptySeq, ClientTyping DEF Connect, ServerVars, history
<1>4. cl' \in [Conns -> Clients]
  <2>1. PICK tok \in {"null", cl[c].tok} :
          cl' = [cl EXCEPT ![c] = [pc |-> "prompt", tok |-> tok, last |-> EOF]]
    BY DEF Connect
  <2>2. tok \in Tokens
    BY <2>1, ClientTyping DEF Clients, Tokens
  <2>3. [pc |-> "prompt", tok |-> tok, last |-> EOF] \in Clients
    BY <2>2, EOFType DEF Clients
  <2> QED
    BY <2>1, <2>3, ClientTyping
<1>5. connects' \in 0 .. MaxConnects
  BY ClientTyping, SessionBoundAssumption DEF Connect, SessionBoundAssumption
<1>6. ThreadOK(th, 0 .. Len(heap)) /\ ThreadControl(th)
  <2>1. ThreadOK(NoThread, 0 .. Len(heap))
    BY Typing, NoThreadOK
  <2>2. th.pc = "first" /\ th.user = 0 /\ th.op = "none" /\ th.again = FALSE
    BY <2>1 DEF ThreadOK, Threads, NoThread
  <2>3. ThreadOK(th, 0 .. Len(heap))
    BY <2>1, <2>2 DEF ThreadOK, Threads, Changers
  <2> QED
    BY <2>2, <2>3 DEF ThreadControl, Changers
<1>7. th.pc = "first"
  BY DEF NoThread
<1> HIDE DEF th
<1>8. /\ DOMAIN sv' = Conns /\ sv'[c] = th
      /\ \A d \in Conns : d # c => sv'[d] = sv[d]
      /\ \A d \in Conns : ThreadOK(sv'[d], Users')
  <2>1. heap' \in Seq(Objects) /\ Len(heap) <= Len(heap')
    BY <1>3, Typing
  <2>2. ThreadOK(th, 0 .. Len(heap'))
    BY <1>3, <1>6
  <2> QED
    BY <2>1, <2>2, <1>2, ThreadStep DEF TypeInv
<1>9. TypeOK'
  BY <1>3, <1>4, <1>5, <1>8 DEF TypeInv, TypeOK, Clients, Users
<1>10. ControlOK'
  BY <1>6, <1>8 DEF TypeInv, ControlOK
<1>11. MonitorOK'
  BY <1>1, <1>3, <1>7, <1>8 DEF TypeInv, MonitorOK
<1> QED
  BY <1>9, <1>10, <1>11 DEF TypeInv

LEMMA ClientType ==
  ASSUME TypeInv, NEW c \in Conns, Client(c)
  PROVE  TypeInv'
<1>1. CASE Connect(c)
  BY <1>1, ConnectType
<1>2. CASE SendLogin(c)
  <2>1. PICK p \in Passwords :
          Send(c, [cmd |-> "LOGIN", tok |-> "empty", val |-> p])
    BY <1>2 DEF SendLogin
  <2>2. [cmd |-> "LOGIN", tok |-> "empty", val |-> p] \in Requests
    BY DEF Requests, Tokens
  <2>3. toSrv' \in [Conns -> Seq(Requests)]
    BY <2>1, <2>2, SendOK
  <2>4. cl' \in [Conns -> Clients]
    BY <1>2, ClientTyping DEF SendLogin, Clients
  <2>5. ClientOK /\ sv' = sv
    BY <1>2, <2>3, <2>4, ClientTyping DEF SendLogin, ClientOK
  <2> QED
    BY <2>5, ClientStep
<1>3. CASE LoginReply(c)
  <2>1. cl' \in [Conns -> Clients]
    BY <1>3, ClientTyping, ZenonT(60) DEF LoginReply, Clients, Tokens
  <2>2. toCl' \in [Conns -> Seq(Replies)]
    BY <1>3, ClientTyping, HeadTailProperties DEF LoginReply
  <2>3. ClientOK /\ sv' = sv
    BY <1>3, <2>1, <2>2, ClientTyping DEF LoginReply, ClientOK
  <2> QED
    BY <2>3, ClientStep
<1>4. CASE SendCommand(c)
  <2>1. PICK r \in CommandsTyped(cl[c].tok) :
          Send(c, r) /\ cl' = [cl EXCEPT ![c].pc = "wait", ![c].last = r]
    BY <1>4 DEF SendCommand
  <2>2. r \in Requests
    BY <2>1, ClientTyping DEF CommandsTyped, Requests, Clients
  <2>3. cl' \in [Conns -> Clients]
    BY <2>1, <2>2, ClientTyping DEF Clients
  <2>4. commands' \in 0 .. MaxCommands
    BY <1>4, ClientTyping, SessionBoundAssumption
       DEF SendCommand, SessionBoundAssumption
  <2>5. ClientOK /\ sv' = sv
    BY <1>4, <2>1, <2>2, <2>3, <2>4, SendOK, ClientTyping
       DEF SendCommand, ClientOK
  <2> QED
    BY <2>5, ClientStep
<1>5. CASE CommandReply(c)
  <2>1. toCl' \in [Conns -> Seq(Replies)]
    BY <1>5, ClientTyping, HeadTailProperties DEF CommandReply
  <2>2. cl' \in [Conns -> Clients]
    <3>1. \/ cl' = [cl EXCEPT ![c].pc = "prompt", ![c].tok = "empty"]
          \/ cl' = [cl EXCEPT ![c].pc = "ready"]
          \/ cl' = cl
      BY <1>5 DEF CommandReply
    <3>2. cl[c] \in Clients /\ cl \in [Conns -> Clients]
      BY ClientTyping
    <3>3. [cl[c] EXCEPT !.pc = "prompt", !.tok = "empty"] \in Clients
      BY <3>2 DEF Clients, Tokens
    <3>4. [cl[c] EXCEPT !.pc = "ready"] \in Clients
      BY <3>2 DEF Clients
    <3> QED
      BY <3>1, <3>2, <3>3, <3>4
  <2>3. cl[c].last \in Requests
    BY ClientTyping DEF Clients
  <2>4. toSrv' \in [Conns -> Seq(Requests)]
    BY <1>5, <2>3, SendOK, ClientTyping DEF CommandReply
  <2>5. ClientOK /\ sv' = sv
    BY <1>5, <2>1, <2>2, <2>4, ClientTyping DEF CommandReply, ClientOK
  <2> QED
    BY <2>5, ClientStep
<1>6. CASE Leave(c)
  <2> DEFINE abort == [cmd |-> "ABORT", tok |-> cl[c].tok, val |-> "none"]
  <2>1. abort \in Requests
    BY ClientTyping DEF Requests, Clients
  <2>2. <<abort, EOF>> \in Seq(Requests)
    BY <2>1, EOFType
  <2>3. toSrv[c] \o <<abort, EOF>> \in Seq(Requests)
    BY <2>2, ClientTyping, ConcatProperties
  <2>4. toSrv' \in [Conns -> Seq(Requests)]
    BY <1>6, <2>3, EOFType, SendOK, ClientTyping DEF Leave
  <2>5. cl' \in [Conns -> Clients]
    BY <1>6, ClientTyping DEF Leave, Clients
  <2>6. toCl' \in [Conns -> Seq(Replies)]
    BY <1>6, ClientTyping, EmptySeq DEF Leave
  <2>7. ClientOK /\ sv' = sv
    BY <1>6, <2>4, <2>5, <2>6, ClientTyping DEF Leave, ClientOK
  <2> QED
    BY <2>7, ClientStep
<1> QED
  BY <1>1, <1>2, <1>3, <1>4, <1>5, <1>6 DEF Client

-----------------------------------------------------------------------------
(* Type correctness. *)

LEMMA CrashType ==
  ASSUME TypeInv, Crash
  PROVE  TypeInv'
<1>1. /\ monitor' = "none" /\ file' = file /\ outbox' = outbox
      /\ commands' = commands /\ connects' = connects
      /\ disputed' = disputed /\ leaked' = FALSE /\ unsaid' = unsaid
      /\ sv' = [c \in Conns |-> NoThread]
  BY DEF Crash, history
<1>2. /\ heap' \in Seq(Objects) /\ Len(heap') \in Nat /\ inSet' \in 0 .. Len(heap')
      /\ inSet' = 0 => heap' = << >>
  <2>1. CASE file = Torn
    <3>1. heap' = << >> /\ inSet' = 0
      BY <2>1 DEF Crash
    <3> QED
      BY <3>1, EmptySeq
  <2>2. CASE file # Torn
    <3>1. heap' = <<Object(file)>> /\ inSet' = 1
      BY <2>2 DEF Crash
    <3>2. file \in Records
      BY <2>2 DEF TypeInv, TypeOK
    <3>3. Object(file) \in Objects
      BY <3>2 DEF Object, Objects, Records
    <3> QED
      BY <3>1, <3>3
  <2> QED
    BY <2>1, <2>2
<1>3. /\ DOMAIN sv' = Conns
      /\ \A c \in Conns : sv'[c] = NoThread
  BY <1>1
<1>4. \A c \in Conns : ThreadOK(sv'[c], Users')
  BY <1>2, <1>3, NoThreadOK DEF Users
<1>5. cl' \in [Conns -> Clients]
  <2>1. cl' = [c \in Conns |-> [cl[c] EXCEPT !.pc = "closed"]]
    BY DEF Crash
  <2> QED
    BY <2>1, ClientTyping DEF Clients
<1>6. toSrv' \in [Conns -> Seq(Requests)] /\ toCl' \in [Conns -> Seq(Replies)]
  BY EmptySeq DEF Crash
<1>7. crashes' \in 0 .. MaxCrashes
  BY SessionBoundAssumption DEF Crash, TypeInv, TypeOK, SessionBoundAssumption
<1>8. TypeOK'
  <2>1. inSet' \in Users'
    BY <1>2 DEF Users
  <2> QED
    BY <1>1, <1>2, <1>3, <1>4, <1>5, <1>6, <1>7, <2>1
       DEF TypeInv, TypeOK, Clients
<1>9. ControlOK'
  BY <1>3 DEF ControlOK, ThreadControl, NoThread, Changers
<1>10. MonitorOK'
  BY <1>1, <1>2, <1>3, AccountAssumption
     DEF MonitorOK, NoThread, AccountAssumption
<1> QED
  BY <1>8, <1>9, <1>10 DEF TypeInv

LEMMA InitTypeInv == Init => TypeInv
<1> SUFFICES ASSUME Init PROVE TypeInv
  OBVIOUS
<1>1. Object([pass |-> FirstPassword, dir |-> FirstDir]) \in Objects
  BY AccountAssumption DEF AccountAssumption, Object, Objects
<1>2. heap \in Seq(Objects) /\ Len(heap) = 1 /\ inSet = 1
  BY <1>1 DEF Init
<1>3. [pass |-> FirstPassword, dir |-> FirstDir] \in Records
  BY AccountAssumption DEF AccountAssumption, Records
<1>4. \A c \in Conns : sv[c] = NoThread /\ ThreadOK(sv[c], Users)
  BY <1>2, NoThreadOK DEF Init, Users
<1>5. [pc |-> "closed", tok |-> "null", last |-> EOF] \in Clients
  BY EOFType DEF Clients, Tokens
<1>6. cl \in [Conns -> Clients]
  BY <1>5 DEF Init
<1>7. /\ toSrv \in [Conns -> Seq(Requests)] /\ toCl \in [Conns -> Seq(Replies)]
      /\ outbox \in Seq(Commands)
  BY EmptySeq DEF Init
<1>8. TypeOK
  <2>1. inSet \in Users /\ DOMAIN sv = Conns /\ file \in Records
    BY <1>2, <1>3 DEF Init, Users
  <2>2. /\ commands \in 0 .. MaxCommands /\ connects \in 0 .. MaxConnects
        /\ crashes \in 0 .. MaxCrashes
    BY SessionBoundAssumption DEF Init, SessionBoundAssumption
  <2>3. /\ monitor = "none" /\ disputed = FALSE /\ leaked = FALSE
        /\ unsaid = FALSE
    BY DEF Init
  <2> QED
    BY <1>2, <1>4, <1>6, <1>7, <2>1, <2>2, <2>3 DEF TypeOK, Clients
<1>9. ControlOK
  BY <1>4 DEF ControlOK, ThreadControl, NoThread, Changers
<1>10. MonitorOK
  BY <1>2, <1>4, AccountAssumption DEF Init, MonitorOK, NoThread, AccountAssumption
<1> QED
  BY <1>8, <1>9, <1>10 DEF TypeInv

LEMMA NextTypeInv == TypeInv /\ [Next]_vars => TypeInv'
<1> SUFFICES ASSUME TypeInv, [Next]_vars PROVE TypeInv'
  OBVIOUS
<1>1. ASSUME NEW c \in Conns, Client(c) PROVE TypeInv'
  BY <1>1, ClientType
<1>2. ASSUME NEW c \in Conns, Server(c) PROVE TypeInv'
  BY <1>2, LoginType, ClaimType, RemoveOldType, AddNewType, WriteRecordType,
     LoginDoneType, PasswordDoneType, DirectoryDoneType, SaveDirectoryType,
     HandleRequestType, ResetType DEF Server
<1>3. CASE Crash
  BY <1>3, CrashType
<1>4. CASE UNCHANGED vars
  BY <1>4 DEF vars, TypeInv, TypeOK, ControlOK, MonitorOK, Users
<1> QED
  BY <1>1, <1>2, <1>3, <1>4 DEF Next

\* Every state of the account, its file, its threads and its connections is
\* well-typed: in particular a handler reads the object it means to, there is
\* one to remove when changeUsers removes one, and the monitor has one owner.
THEOREM SessionsTypeCorrect == Spec => []TypeOK
<1>1. Init => TypeInv
  BY InitTypeInv
<1>2. TypeInv /\ [Next]_vars => TypeInv'
  BY NextTypeInv
<1>3. TypeInv => TypeOK
  BY DEF TypeInv
<1> QED
  BY <1>1, <1>2, <1>3, PTL DEF Spec

-----------------------------------------------------------------------------
(* The token of the account's record is always held (TokenHeld). *)

\* A thread with an object that only it knows of: handleChangePassword made
\* it, and changeUsers has not added it yet.
New(th) == th.op = "CH-PASS" /\ th.pc \in {"remove", "add"}

Fresh ==
  \A c \in Conns : New(sv[c]) =>
    /\ ~heap[sv[c].arg].token /\ inSet # sv[c].arg
    /\ \A d \in Conns :
         /\ sv[d].user # sv[c].arg
         /\ d # c => sv[d].arg # sv[c].arg

\* A thread that will clear the token of u if u is the account's when it ends.
\* One that is about to take another object for its user no longer will.
Keeps(th, u) ==
  \/ th.op = "LOGIN" /\ th.arg = u
  \/ /\ th.user = u /\ th.pc # "dead"
     /\ ~(th.op = "LOGIN" /\ th.pc \in {"write", "reply"})

Kept ==
  inSet # 0 /\ heap[inSet].token => leaked \/ \E c \in Conns : Keeps(sv[c], inSet)

HeldInv == Fresh /\ Kept

-----------------------------------------------------------------------------
\* The objects a step of c can refer to.
Known(c) == {0, inSet, sv[c].user, sv[c].arg}

\* What a step of c, which leaves it as th, has to show.
HeldOK(c, th) ==
  /\ sv' = [sv EXCEPT ![c] = th] \/ (sv' = sv /\ sv[c] = th)
  /\ th.user \in Known(c) /\ inSet' \in Known(c)
  /\ th.arg \in Known(c) \/ th.arg = Len(heap) + 1
  /\ \A u \in 1 .. Len(heap) :
       u \notin {sv[c].user, sv[c].arg} => heap'[u].token = heap[u].token
  /\ New(th) =>
       /\ ~heap'[th.arg].token /\ inSet' # th.arg /\ th.user # th.arg
       /\ \A d \in Conns : d # c => sv[d].user # th.arg /\ sv[d].arg # th.arg
  /\ leaked => leaked'
  /\ inSet' # 0 /\ heap'[inSet'].token =>
       \/ leaked'
       \/ Keeps(th, inSet')
       \/ inSet' = inSet /\ heap[inSet].token /\ ~Keeps(sv[c], inSet)

\* An object only another thread knows of is not among those.
LEMMA NotKnown ==
  ASSUME TypeInv, Fresh, NEW c \in Conns, NEW e \in Conns, e # c, New(sv[e])
  PROVE  /\ sv[e].arg \in 1 .. Len(heap)
         /\ sv[e].arg \notin Known(c) /\ sv[e].arg # Len(heap) + 1
         /\ ~heap[sv[e].arg].token
<1>1. sv[e].arg \in 1 .. Len(heap)
  BY Typing DEF New, ThreadOK, Threads, Changers
<1>2. sv[e].arg # Len(heap) + 1 /\ sv[e].arg # 0
  BY <1>1, Typing
<1> QED
  BY <1>1, <1>2 DEF Fresh, Known

LEMMA HeldStep ==
  ASSUME TypeInv, HeldInv, NEW c \in Conns, NEW th, HeldOK(c, th)
  PROVE  HeldInv'
<1>1. sv'[c] = th /\ \A d \in Conns : d # c => sv'[d] = sv[d]
  BY DEF HeldOK, TypeInv, TypeOK
<1>2. Fresh'
  <2> SUFFICES ASSUME NEW e \in Conns, New(sv'[e])
               PROVE  /\ ~heap'[sv'[e].arg].token /\ inSet' # sv'[e].arg
                      /\ \A d \in Conns :
                           /\ sv'[d].user # sv'[e].arg
                           /\ d # e => sv'[d].arg # sv'[e].arg
    BY DEF Fresh, New
  <2>1. CASE e = c
    BY <1>1, <2>1 DEF HeldOK
  <2>2. CASE e # c
    <3>1. sv'[e] = sv[e] /\ New(sv[e])
      BY <1>1, <2>2
    <3>2. /\ sv[e].arg \in 1 .. Len(heap)
          /\ sv[e].arg \notin Known(c) /\ sv[e].arg # Len(heap) + 1
          /\ ~heap[sv[e].arg].token
      BY <2>2, <3>1, NotKnown DEF HeldInv
    <3>3. ~heap'[sv[e].arg].token
      BY <3>2 DEF HeldOK, Known
    <3>4. inSet' # sv[e].arg /\ th.user # sv[e].arg /\ th.arg # sv[e].arg
      BY <3>2 DEF HeldOK
    <3>5. ASSUME NEW d \in Conns
          PROVE  /\ sv[d].user # sv[e].arg
                 /\ d # e => sv[d].arg # sv[e].arg
      BY <3>1 DEF HeldInv, Fresh
    <3> QED
      BY <1>1, <2>2, <3>1, <3>3, <3>4, <3>5
  <2> QED
    BY <2>1, <2>2
<1>3. Kept'
  <2> SUFFICES ASSUME inSet' # 0, heap'[inSet'].token
               PROVE  leaked' \/ \E d \in Conns : Keeps(sv'[d], inSet')
    BY DEF Kept, Keeps
  <2>1. CASE leaked'
    BY <2>1
  <2>2. CASE Keeps(th, inSet')
    BY <1>1, <2>2
  <2>3. CASE inSet' = inSet /\ heap[inSet].token /\ ~Keeps(sv[c], inSet)
    <3>1. leaked \/ \E d \in Conns : Keeps(sv[d], inSet)
      BY <2>3 DEF HeldInv, Kept
    <3>2. CASE leaked
      BY <3>2 DEF HeldOK
    <3>3. ASSUME NEW d \in Conns, Keeps(sv[d], inSet)
          PROVE  Keeps(sv'[d], inSet')
      BY <1>1, <2>3, <3>3
    <3> QED
      BY <3>1, <3>2, <3>3
  <2> QED
    BY <2>1, <2>2, <2>3 DEF HeldOK
<1> QED
  BY <1>2, <1>3 DEF HeldInv

-----------------------------------------------------------------------------
(* changeUsers and what comes before it. *)

LEMMA ClaimHeld ==
  ASSUME TypeInv, HeldInv, NEW c \in Conns, Claim(c)
  PROVE  HeldInv'
<1> DEFINE th == [sv[c] EXCEPT !.pc = "remove"]
<1>1. sv' = [sv EXCEPT ![c] = th] /\ inSet' = inSet /\ leaked' = leaked
  BY DEF Claim
<1>2. sv[c].arg \in 1 .. Len(heap) /\ sv[c].op = "LOGIN"
  BY Typing DEF Claim, ThreadOK, Threads, ThreadControl, Changers
<1>3. /\ th.user = sv[c].user /\ th.arg = sv[c].arg /\ th.op = "LOGIN"
      /\ th.pc = "remove"
  BY <1>2, Typing DEF ThreadOK, Threads
<1>4. \A u \in 1 .. Len(heap) : u # sv[c].arg => heap'[u] = heap[u]
  <2>1. SetToken(sv[c].arg, TRUE)
    BY DEF Claim
  <2> QED
    BY <2>1, <1>2, Typing, SetTokenOK
<1>5. ASSUME inSet' # 0, heap'[inSet'].token
      PROVE  \/ Keeps(th, inSet')
             \/ inSet' = inSet /\ heap[inSet].token /\ ~Keeps(sv[c], inSet)
  <2>1. CASE inSet = sv[c].arg
    BY <2>1, <1>1, <1>3 DEF Keeps
  <2>2. CASE inSet # sv[c].arg
    <3>1. heap'[inSet] = heap[inSet]
      BY <2>2, <1>1, <1>4, <1>5, Typing
    <3> QED
      BY <3>1, <1>1, <1>2, <1>3, <1>5 DEF Keeps, Claim
  <2> QED
    BY <2>1, <2>2
<1>6. ~New(th)
  BY <1>3 DEF New
<1> HIDE DEF th
<1> HeldOK(c, th)
  BY <1>1, <1>3, <1>4, <1>5, <1>6 DEF HeldOK, Known
<1> QED
  BY HeldStep

LEMMA RemoveOldHeld ==
  ASSUME TypeInv, HeldInv, NEW c \in Conns, RemoveOld(c)
  PROVE  HeldInv'
<1> DEFINE th == [sv[c] EXCEPT !.pc = "add", !.aid = inSet]
<1>1. /\ sv' = [sv EXCEPT ![c] = th] /\ heap' = heap /\ inSet' = 0
      /\ leaked' = leaked
  BY DEF RemoveOld
<1>2. sv[c].arg # 0
  BY Typing DEF RemoveOld, ThreadOK, Changers
<1>3. th.user = sv[c].user /\ th.arg = sv[c].arg /\ th.op = sv[c].op
  BY Typing DEF ThreadOK, Threads
<1>4. New(th) => New(sv[c])
  BY <1>3 DEF New, RemoveOld
<1> HIDE DEF th
<1>5. New(th) =>
        /\ ~heap'[th.arg].token /\ inSet' # th.arg /\ th.user # th.arg
        /\ \A d \in Conns : d # c => sv[d].user # th.arg /\ sv[d].arg # th.arg
  BY <1>1, <1>2, <1>3, <1>4 DEF HeldInv, Fresh
<1> HeldOK(c, th)
  BY <1>1, <1>3, <1>5 DEF HeldOK, Known
<1> QED
  BY HeldStep

LEMMA AddNewHeld ==
  ASSUME TypeInv, HeldInv, NEW c \in Conns, AddNew(c)
  PROVE  HeldInv'
<1> DEFINE th == [sv[c] EXCEPT !.pc = "write", !.buf = Record(sv[c].aid)]
<1>1. /\ sv' = [sv EXCEPT ![c] = th] /\ heap' = heap /\ inSet' = sv[c].arg
      /\ leaked' = leaked /\ sv[c].pc = "add"
  BY DEF AddNew, history
<1>2. /\ th.user = sv[c].user /\ th.arg = sv[c].arg /\ th.op = sv[c].op
      /\ th.pc = "write"
  BY Typing DEF ThreadOK, Threads
<1>3. heap'[inSet'].token => Keeps(th, inSet')
  <2>1. CASE sv[c].op = "LOGIN"
    BY <2>1, <1>1, <1>2 DEF Keeps
  <2>2. CASE sv[c].op = "CD"
    BY <2>2, <1>1, <1>2, Typing DEF Keeps, ThreadControl
  <2>3. CASE sv[c].op = "CH-PASS"
    BY <2>3, <1>1 DEF HeldInv, Fresh, New
  <2> QED
    BY <2>1, <2>2, <2>3, <1>1, Typing DEF ThreadControl, Changers
<1>4. ~New(th)
  BY <1>2 DEF New
<1> HIDE DEF th
<1> HeldOK(c, th)
  BY <1>1, <1>2, <1>3, <1>4 DEF HeldOK, Known
<1> QED
  BY HeldStep

\* A thread that goes on with the same user and hides nothing new.
LEMMA SameUserHeld ==
  ASSUME TypeInv, HeldInv, NEW c \in Conns, NEW th,
         sv' = [sv EXCEPT ![c] = th], inSet' = inSet, leaked' = leaked,
         \A u \in 1 .. Len(heap) : heap'[u].token = heap[u].token,
         th.user = sv[c].user, th.arg \in Known(c), ~New(th),
         \A u : Keeps(sv[c], u) /\ u # 0 => Keeps(th, u)
  PROVE  HeldInv'
<1>1. inSet' # 0 /\ heap'[inSet'].token =>
        \/ Keeps(th, inSet')
        \/ inSet' = inSet /\ heap[inSet].token /\ ~Keeps(sv[c], inSet)
  <2>1. inSet # 0 => inSet \in 1 .. Len(heap)
    BY Typing
  <2> QED
    BY <2>1
<1> HeldOK(c, th)
  BY <1>1 DEF HeldOK, Known
<1> QED
  BY HeldStep

LEMMA WriteRecordHeld ==
  ASSUME TypeInv, HeldInv, NEW c \in Conns, WriteRecord(c)
  PROVE  HeldInv'
<1> DEFINE th == [sv[c] EXCEPT !.pc = "reply"]
<1>1. /\ sv' = [sv EXCEPT ![c] = th] /\ heap' = heap /\ inSet' = inSet
      /\ leaked' = leaked /\ sv[c].pc = "write"
  BY DEF WriteRecord, history
<1>2. /\ th.user = sv[c].user /\ th.arg = sv[c].arg /\ th.op = sv[c].op
      /\ th.pc = "reply"
  BY Typing DEF ThreadOK, Threads
<1> HIDE DEF th
<1>3. \A u : Keeps(sv[c], u) => Keeps(th, u)
  BY <1>1, <1>2 DEF Keeps
<1>4. ~New(th) /\ th.arg \in Known(c)
  BY <1>2 DEF New, Known
<1> QED
  BY <1>1, <1>2, <1>3, <1>4, SameUserHeld

LEMMA DirectoryDoneHeld ==
  ASSUME TypeInv, HeldInv, NEW c \in Conns, DirectoryDone(c)
  PROVE  HeldInv'
<1> DEFINE th == [sv[c] EXCEPT !.pc = "save", !.buf = Record(sv[c].user)]
<1>1. /\ sv' = [sv EXCEPT ![c] = th] /\ heap' = heap /\ inSet' = inSet
      /\ leaked' = leaked /\ sv[c].op = "CD"
  BY DEF DirectoryDone, history
<1>2. /\ th.user = sv[c].user /\ th.arg = sv[c].arg /\ th.op = "CD"
      /\ th.pc = "save"
  BY <1>1, Typing DEF ThreadOK, Threads
<1> HIDE DEF th
<1>3. \A u : Keeps(sv[c], u) => Keeps(th, u)
  BY <1>1, <1>2 DEF Keeps
<1>4. ~New(th) /\ th.arg \in Known(c)
  BY <1>2 DEF New, Known
<1> QED
  BY <1>1, <1>2, <1>3, <1>4, SameUserHeld

-----------------------------------------------------------------------------
(* The ends of the handlers. *)

\* A thread that ends having cleared the token of the one object it kept.
LEMMA EndHeld ==
  ASSUME TypeInv, HeldInv, NEW c \in Conns, NEW u \in {sv[c].user, sv[c].arg},
         End(c), SetToken(u, FALSE), u # 0, inSet' = inSet, leaked' = leaked,
         \A v : Keeps(sv[c], v) /\ v # 0 => v = u
  PROVE  HeldInv'
<1> DEFINE th == NoThread
<1>1. sv' = [sv EXCEPT ![c] = th]
  BY DEF End
<1>2. th.user = 0 /\ th.arg = 0 /\ ~New(th)
  BY DEF NoThread, New
<1>3. u \in 1 .. Len(heap)
  BY Typing DEF ThreadOK, Threads
<1>4. /\ heap'[u].token = FALSE
      /\ \A v \in 1 .. Len(heap) : v # u => heap'[v] = heap[v]
  BY <1>3, Typing, SetTokenOK
<1>5. inSet # 0 /\ heap'[inSet].token => heap[inSet].token /\ ~Keeps(sv[c], inSet)
  <2>1. inSet # 0 => inSet \in 1 .. Len(heap)
    BY Typing
  <2> QED
    BY <2>1, <1>4
<1> HIDE DEF th
<1> HeldOK(c, th)
  BY <1>1, <1>2, <1>4, <1>5 DEF HeldOK, Known
<1> QED
  BY HeldStep

LEMMA EndSessionHeld ==
  ASSUME TypeInv, HeldInv, NEW c \in Conns, EndSession(c), sv[c].user # 0,
         sv[c].op # "LOGIN", inSet' = inSet, leaked' = leaked
  PROVE  HeldInv'
<1>1. \A v : Keeps(sv[c], v) /\ v # 0 => v = sv[c].user
  BY DEF Keeps
<1> QED
  BY <1>1, EndHeld DEF EndSession

\* A thread that ends and keeps no object, or whose end is on record.
LEMMA LeakHeld ==
  ASSUME TypeInv, HeldInv, NEW c \in Conns, End(c), heap' = heap,
         inSet' = inSet, leaked => leaked',
         leaked' \/ \A v : ~(Keeps(sv[c], v) /\ v # 0)
  PROVE  HeldInv'
<1> DEFINE th == NoThread
<1>1. sv' = [sv EXCEPT ![c] = th]
  BY DEF End
<1>2. th.user = 0 /\ th.arg = 0 /\ ~New(th)
  BY DEF NoThread, New
<1> HIDE DEF th
<1> HeldOK(c, th)
  BY <1>1, <1>2 DEF HeldOK, Known
<1> QED
  BY HeldStep

\* A thread that dies is on record.
LEMMA DiesHeld ==
  ASSUME TypeInv, HeldInv, NEW c \in Conns, Dies(c), inSet' = inSet
  PROVE  HeldInv'
<1> DEFINE th == [NoThread EXCEPT !.pc = "dead", !.user = sv[c].user]
<1>1. sv' = [sv EXCEPT ![c] = th] /\ heap' = heap /\ leaked'
  BY DEF Dies
<1>2. th.user = sv[c].user /\ th.arg = 0 /\ ~New(th)
  BY DEF NoThread, New
<1> HIDE DEF th
<1> HeldOK(c, th)
  BY <1>1, <1>2 DEF HeldOK, Known
<1> QED
  BY HeldStep

\* A thread that goes back to reading requests.
LEMMA IdleHeld ==
  ASSUME TypeInv, HeldInv, NEW c \in Conns, NEW u \in {sv[c].user, sv[c].arg},
         Idle(c, u), heap' = heap, inSet' = inSet, leaked' = leaked,
         \A v : Keeps(sv[c], v) /\ v # 0 => v = u
  PROVE  HeldInv'
<1> DEFINE th == [NoThread EXCEPT !.pc = "idle", !.user = u]
<1>1. sv' = [sv EXCEPT ![c] = th]
  BY DEF Idle
<1>2. th.user = u /\ th.arg = 0 /\ th.op = "none" /\ th.pc = "idle"
  BY DEF NoThread
<1> HIDE DEF th
<1>3. \A v : Keeps(sv[c], v) /\ v # 0 => Keeps(th, v)
  BY <1>2 DEF Keeps
<1>4. ~New(th)
  BY <1>2 DEF New
<1> HeldOK(c, th)
  BY <1>1, <1>2, <1>3, <1>4 DEF HeldOK, Known
<1> QED
  BY HeldStep

LEMMA LoginDoneHeld ==
  ASSUME TypeInv, HeldInv, NEW c \in Conns, LoginDone(c)
  PROVE  HeldInv'
<1>1. sv[c].pc = "reply" /\ sv[c].op = "LOGIN" /\ inSet' = inSet
  BY DEF LoginDone
<1>2. sv[c].arg # 0
  BY <1>1, Typing DEF ThreadOK, Changers
<1>3. \A v : Keeps(sv[c], v) => v = sv[c].arg
  BY <1>1 DEF Keeps
<1>4. CASE Idle(c, sv[c].arg) /\ UNCHANGED <<heap, toSrv, leaked>>
  BY <1>1, <1>3, <1>4, IdleHeld
<1>5. CASE End(c) /\ SetToken(sv[c].arg, FALSE) /\ UNCHANGED leaked
  BY <1>1, <1>2, <1>3, <1>5, EndHeld
<1>6. CASE End(c) /\ UNCHANGED heap /\ leaked' = TRUE
  BY <1>1, <1>6, LeakHeld
<1> QED
  BY <1>4, <1>5, <1>6 DEF LoginDone

LEMMA PasswordDoneHeld ==
  ASSUME TypeInv, HeldInv, NEW c \in Conns, PasswordDone(c)
  PROVE  HeldInv'
<1>1. sv[c].op = "CH-PASS" /\ inSet' = inSet /\ leaked' = leaked
  BY DEF PasswordDone
<1>2. sv[c].user # 0
  BY <1>1, Typing DEF ThreadOK
<1>3. \A v : Keeps(sv[c], v) => v = sv[c].user
  BY <1>1 DEF Keeps
<1>4. CASE Idle(c, sv[c].user) /\ UNCHANGED <<heap, toSrv, unsaid>>
  BY <1>1, <1>3, <1>4, IdleHeld
<1>5. CASE EndSession(c)
  BY <1>1, <1>2, <1>5, EndSessionHeld
<1> QED
  BY <1>4, <1>5 DEF PasswordDone

LEMMA SaveDirectoryHeld ==
  ASSUME TypeInv, HeldInv, NEW c \in Conns, SaveDirectory(c)
  PROVE  HeldInv'
<1>1. /\ Idle(c, sv[c].user) /\ heap' = heap /\ inSet' = inSet
      /\ leaked' = leaked /\ sv[c].pc = "save"
  BY DEF SaveDirectory, history
<1>2. sv[c].op = "CD"
  BY <1>1, Typing DEF ThreadControl
<1>3. \A v : Keeps(sv[c], v) => v = sv[c].user
  BY <1>2 DEF Keeps
<1> QED
  BY <1>1, <1>3, IdleHeld

-----------------------------------------------------------------------------
(* Reading a request. *)

LEMMA LoginRequestHeld ==
  ASSUME TypeInv, HeldInv, NEW c \in Conns, NEW again,
         LoginRequest(c, again), sv[c].op = "none",
         again => sv[c].user # 0, ~again => sv[c].user = 0,
         inSet' = inSet
  PROVE  HeldInv'
<1>1. \A v : Keeps(sv[c], v) => v = sv[c].user
  BY DEF Keeps
<1>2. ASSUME NEW th, sv' = [sv EXCEPT ![c] = th], UNCHANGED <<heap, history>>,
             th.user = sv[c].user, th.arg \in Known(c),
             \/ th.op = "none" /\ th.pc = "login"
             \/ th.op = "LOGIN" /\ th.pc = "claim"
      PROVE  HeldInv'
  <2>1. ~New(th) /\ \A v : Keeps(sv[c], v) => Keeps(th, v)
    BY <1>1, <1>2 DEF Keeps, New
  <2>2. heap' = heap /\ leaked' = leaked
    BY <1>2 DEF history
  <2> QED
    BY <1>2, <2>1, <2>2, SameUserHeld
<1>3. CASE /\ sv' = [sv EXCEPT ![c].pc = "claim", ![c].op = "LOGIN",
                               ![c].arg = inSet, ![c].again = again,
                               ![c].saw = heap[inSet].token]
           /\ UNCHANGED <<heap, history>>
  <2> DEFINE th == [sv[c] EXCEPT !.pc = "claim", !.op = "LOGIN",
                                 !.arg = inSet, !.again = again,
                                 !.saw = heap[inSet].token]
  <2>1. sv' = [sv EXCEPT ![c] = th]
    BY <1>3
  <2>2. sv[c] \in Threads(0 .. Len(heap))
    BY Typing DEF ThreadOK
  <2>3. /\ th.user = sv[c].user /\ th.arg = inSet /\ th.op = "LOGIN"
        /\ th.pc = "claim"
    BY <2>2 DEF Threads
  <2> HIDE DEF th
  <2> QED
    BY <1>2, <1>3, <2>1, <2>3 DEF Known
<1>4. CASE /\ sv' = [sv EXCEPT ![c].pc = "login", ![c].again = again]
           /\ UNCHANGED <<heap, history>>
  <2> DEFINE th == [sv[c] EXCEPT !.pc = "login", !.again = again]
  <2>1. sv' = [sv EXCEPT ![c] = th]
    BY <1>4
  <2>2. sv[c] \in Threads(0 .. Len(heap))
    BY Typing DEF ThreadOK
  <2>3. th.user = sv[c].user /\ th.arg = sv[c].arg /\ th.op = "none" /\ th.pc = "login"
    BY <2>2 DEF Threads
  <2> HIDE DEF th
  <2> QED
    BY <1>2, <1>4, <2>1, <2>3 DEF Known
<1>5. CASE /\ IF again THEN EndSession(c) ELSE End(c) /\ UNCHANGED heap
           /\ UNCHANGED history
  <2>1. leaked' = leaked
    BY <1>5 DEF history
  <2>2. CASE again
    BY <1>5, <2>1, <2>2, EndSessionHeld
  <2>3. CASE ~again
    BY <1>1, <1>5, <2>1, <2>3, LeakHeld
  <2> QED
    BY <2>2, <2>3
<1> QED
  BY <1>3, <1>4, <1>5 DEF LoginRequest, history

LEMMA LoginHeld ==
  ASSUME TypeInv, HeldInv, NEW c \in Conns, Login(c)
  PROVE  HeldInv'
<1>1. inSet' = inSet
  BY DEF Login
<1>2. sv[c].pc \in {"first", "login"} => sv[c].op = "none"
  BY Typing DEF ThreadControl
<1>3. CASE sv[c].pc = "first" /\ End(c) /\ UNCHANGED <<heap, toCl, history>>
  <2>1. sv[c].user = 0
    BY <1>3, Typing DEF ThreadControl
  <2>2. \A v : ~(Keeps(sv[c], v) /\ v # 0)
    BY <1>2, <1>3, <2>1 DEF Keeps
  <2> QED
    BY <1>1, <1>3, <2>2, LeakHeld DEF history
<1>4. CASE sv[c].pc = "first" /\ LoginRequest(c, FALSE)
  <2>1. sv[c].user = 0
    BY <1>4, Typing DEF ThreadControl
  <2> QED
    BY <1>1, <1>2, <1>4, <2>1, LoginRequestHeld
<1>5. CASE sv[c].pc = "login" /\ LoginRequest(c, sv[c].again)
  <2>1. /\ sv[c].again => sv[c].user # 0
        /\ ~sv[c].again => sv[c].user = 0
    BY <1>5, Typing DEF ThreadControl, ThreadOK
  <2> QED
    BY <1>1, <1>2, <1>5, <2>1, LoginRequestHeld
<1> QED
  BY <1>3, <1>4, <1>5 DEF Login

LEMMA UnauthorizedHeld ==
  ASSUME TypeInv, HeldInv, NEW c \in Conns, Unauthorized(c),
         sv[c].pc = "idle", inSet' = inSet
  PROVE  HeldInv'
<1>1. sv[c].op = "none" /\ sv[c].user # 0 /\ leaked' = leaked
  BY Typing DEF ThreadControl, ThreadOK, Unauthorized
<1>2. CASE UNCHANGED sv /\ SetToken(sv[c].user, FALSE)
  <2> DEFINE th == sv[c]
             u == sv[c].user
  <2>1. u \in 1 .. Len(heap)
    BY <1>1, Typing DEF ThreadOK, Threads
  <2>2. /\ heap'[u].token = FALSE
        /\ \A v \in 1 .. Len(heap) : v # u => heap'[v] = heap[v]
    BY <1>2, <2>1, Typing, SetTokenOK
  <2>3. ~New(th)
    BY <1>1 DEF New
  <2>4. inSet # 0 /\ heap'[inSet].token =>
          heap[inSet].token /\ ~Keeps(sv[c], inSet)
    <3>1. inSet # 0 => inSet \in 1 .. Len(heap)
      BY Typing
    <3> QED
      BY <3>1, <2>2, <1>1 DEF Keeps
  <2>5. th.user \in Known(c) /\ th.arg \in Known(c) /\ sv' = sv /\ sv[c] = th
    BY <1>2 DEF Known
  <2> HIDE DEF th
  <2> HeldOK(c, th)
    BY <1>1, <2>2, <2>3, <2>4, <2>5 DEF HeldOK, Known
  <2> QED
    BY HeldStep
<1>3. CASE EndSession(c)
  BY <1>1, <1>3, EndSessionHeld
<1> QED
  BY <1>2, <1>3 DEF Unauthorized

LEMMA ChangePasswordHeld ==
  ASSUME TypeInv, HeldInv, NEW c \in Conns, NEW r, ChangePassword(c, r),
         r.cmd = "CH-PASS", r = Head(toSrv[c]), toSrv[c] # << >>,
         sv[c].pc = "idle", inSet' = inSet
  PROVE  HeldInv'
<1>1. CASE Dies(c)
  BY <1>1, DiesHeld
<1>2. CASE r.val # "none" /\ NewPassword(c, r)
  <2> DEFINE n == Len(heap) + 1
             th == [sv[c] EXCEPT !.pc = "remove", !.op = "CH-PASS",
                                 !.val = r.val, !.arg = n]
             object == Object([pass |-> r.val, dir |-> heap[sv[c].user].dir])
  <2>1. /\ sv' = [sv EXCEPT ![c] = th] /\ heap' = Append(heap, object)
        /\ leaked' = leaked
    BY <1>2 DEF NewPassword, Changing, history
  <2>2. /\ th.user = sv[c].user /\ th.arg = n /\ th.op = "CH-PASS"
        /\ th.pc = "remove"
    BY Typing DEF ThreadOK, Threads
  <2>3. heap \in Seq(Objects) /\ Len(heap) \in Nat /\ ~object.token
    BY Typing DEF Object
  <2>4. object \in Objects
    <3>1. sv[c].user \in 1 .. Len(heap)
      BY Typing DEF ThreadOK, Threads
    <3>2. r.val \in Passwords
      BY <1>2, Typing, TakeOK DEF DataOK, Requests
    <3> QED
      BY <3>1, <3>2, Typing DEF Object, Objects
  <2> HIDE DEF object, th
  <2>5. heap'[n] = object /\ \A u \in 1 .. Len(heap) : heap'[u] = heap[u]
    BY <2>1, <2>3, <2>4, AppendProperties
  <2>6. \A d \in Conns : sv[d].user # n /\ sv[d].arg # n
    <3> SUFFICES ASSUME NEW d \in Conns PROVE sv[d].user # n /\ sv[d].arg # n
      OBVIOUS
    <3>1. sv[d].user \in 0 .. Len(heap) /\ sv[d].arg \in 0 .. Len(heap)
      BY Typing DEF ThreadOK, Threads
    <3> QED
      BY <2>3, <3>1
  <2>7. inSet \in 0 .. Len(heap) /\ inSet # n
    BY <2>3, Typing
  <2>8. \A v : Keeps(sv[c], v) => Keeps(th, v)
    <3>1. sv[c].op = "none"
      BY Typing DEF ThreadControl
    <3> QED
      BY <2>2, <3>1 DEF Keeps
  <2>9. inSet # 0 /\ heap'[inSet].token =>
          Keeps(th, inSet) \/ (heap[inSet].token /\ ~Keeps(sv[c], inSet))
    <3>1. inSet # 0 => inSet \in 1 .. Len(heap)
      BY <2>7
    <3> QED
      BY <2>5, <2>8, <3>1
  <2>10. ~heap'[th.arg].token
    BY <2>2, <2>3, <2>5
  <2>11. \A u \in 1 .. Len(heap) : heap'[u].token = heap[u].token
    BY <2>5
  <2> HeldOK(c, th)
    BY <2>1, <2>2, <2>6, <2>7, <2>9, <2>10, <2>11 DEF HeldOK, Known
  <2> QED
    BY HeldStep
<1> QED
  BY <1>1, <1>2 DEF ChangePassword

LEMMA HandleCdHeld ==
  ASSUME TypeInv, HeldInv, NEW c \in Conns, NEW r, HandleCd(c, r),
         sv[c].pc = "idle", inSet' = inSet
  PROVE  HeldInv'
<1> DEFINE u == sv[c].user
<1>1. u \in 1 .. Len(heap) /\ sv[c].op = "none"
  BY Typing DEF ThreadOK, Threads, ThreadControl
<1>2. CASE Dies(c)
  BY <1>2, DiesHeld
<1>3. CASE heap' = [heap EXCEPT ![u].dir = r.val] /\ Changing(c, "CD", r.val, u)
           /\ UNCHANGED history
  <2> DEFINE th == [sv[c] EXCEPT !.pc = "remove", !.op = "CD",
                                 !.val = r.val, !.arg = u]
             object == [heap[u] EXCEPT !.dir = r.val]
  <2>1. /\ sv' = [sv EXCEPT ![c] = th] /\ heap' = [heap EXCEPT ![u] = object]
        /\ leaked' = leaked
    BY <1>3 DEF Changing, history
  <2>2. object.token = heap[u].token
    BY <1>1, Typing DEF Objects
  <2>3. th.user = u /\ th.arg = u /\ th.op = "CD" /\ th.pc = "remove"
    BY Typing DEF ThreadOK, Threads
  <2> HIDE DEF th, object
  <2>4. \A v \in 1 .. Len(heap) : heap'[v].token = heap[v].token
    <3>1. DOMAIN heap = 1 .. Len(heap)
      BY Typing, LenProperties
    <3> QED
      BY <3>1, <1>1, <2>1, <2>2
  <2>5. ~New(th) /\ \A v : Keeps(sv[c], v) => Keeps(th, v)
    BY <1>1, <2>3 DEF New, Keeps
  <2> QED
    BY <2>1, <2>3, <2>4, <2>5, SameUserHeld DEF Known
<1>4. CASE UNCHANGED <<heap, sv, history>>
  BY <1>4 DEF HeldInv, Fresh, Kept, New, Keeps, history
<1> QED
  BY <1>2, <1>3, <1>4 DEF HandleCd

LEMMA HandleFilesHeld ==
  ASSUME TypeInv, HeldInv, NEW c \in Conns, HandleFiles(c),
         sv[c].pc = "idle", inSet' = inSet
  PROVE  HeldInv'
<1>1. CASE UNCHANGED <<heap, sv, history>>
  BY <1>1 DEF HeldInv, Fresh, Kept, New, Keeps, history
<1>2. CASE EndSession(c) /\ UNCHANGED history
  <2>1. sv[c].op = "none" /\ sv[c].user # 0
    BY Typing DEF ThreadControl, ThreadOK
  <2> QED
    BY <1>2, <2>1, EndSessionHeld DEF history
<1>3. CASE Dies(c)
  BY <1>3, DiesHeld
<1> QED
  BY <1>1, <1>2, <1>3 DEF HandleFiles

LEMMA HandleRequestHeld ==
  ASSUME TypeInv, HeldInv, NEW c \in Conns, HandleRequest(c)
  PROVE  HeldInv'
<1> DEFINE r == Head(toSrv[c])
<1>1. sv[c].pc = "idle" /\ toSrv[c] # << >> /\ inSet' = inSet
  BY DEF HandleRequest
<1>2. sv[c].user # 0 /\ sv[c].op = "none"
  BY <1>1, Typing DEF ThreadOK, ThreadControl
<1>3. CASE EndSession(c) /\ UNCHANGED <<toCl, history>>
  BY <1>1, <1>2, <1>3, EndSessionHeld DEF history
<1>4. CASE NullToken(c)
  BY <1>1, <1>4, DiesHeld DEF NullToken
<1>5. CASE Unauthorized(c)
  BY <1>1, <1>5, UnauthorizedHeld
<1>6. CASE LoginRequest(c, TRUE)
  BY <1>1, <1>2, <1>6, LoginRequestHeld
<1>7. CASE r.cmd = "CH-PASS" /\ ChangePassword(c, r)
  BY <1>1, <1>7, ChangePasswordHeld
<1>8. CASE r.cmd = "CD" /\ HandleCd(c, r)
  BY <1>1, <1>8, HandleCdHeld
<1>9. CASE HandleFiles(c)
  BY <1>1, <1>9, HandleFilesHeld
<1> QED
  BY <1>3, <1>4, <1>5, <1>6, <1>7, <1>8, <1>9 DEF HandleRequest

LEMMA ResetHeld ==
  ASSUME TypeInv, HeldInv, NEW c \in Conns, Reset(c)
  PROVE  HeldInv'
<1>1. EndSession(c) /\ inSet' = inSet /\ leaked' = leaked
  BY DEF Reset, history
<1>2. sv[c].user # 0 /\ sv[c].op = "none"
  BY Typing DEF Reset, ThreadOK, ThreadControl
<1> QED
  BY <1>1, <1>2, EndSessionHeld

-----------------------------------------------------------------------------
(* The invariant. *)

LEMMA ClientHeld ==
  ASSUME TypeInv, HeldInv, NEW c \in Conns, Client(c)
  PROVE  HeldInv'
<1>1. CASE Connect(c)
  <2> DEFINE th == [NoThread EXCEPT !.pc = "first"]
  <2>1. /\ sv' = [sv EXCEPT ![c] = th] /\ heap' = heap /\ inSet' = inSet
        /\ leaked' = leaked /\ sv[c].pc \in {"off", "dead"}
    BY <1>1 DEF Connect, ServerVars, history
  <2>2. sv[c].op = "none" /\ (sv[c].pc = "off" => sv[c].user = 0)
    BY <2>1, Typing DEF ThreadControl
  <2>3. th.user = 0 /\ th.arg = 0 /\ th.op = "none" /\ ~New(th)
    BY DEF NoThread, New
  <2> HIDE DEF th
  <2>4. inSet # 0 => ~Keeps(sv[c], inSet)
    BY <2>1, <2>2 DEF Keeps
  <2> HeldOK(c, th)
    BY <2>1, <2>3, <2>4 DEF HeldOK, Known
  <2> QED
    BY HeldStep
<1>2. CASE UNCHANGED <<ServerVars, sv>>
  BY <1>2 DEF ServerVars, history, HeldInv, Fresh, Kept, New, Keeps
<1> QED
  BY <1>1, <1>2 DEF Client, SendLogin, LoginReply, SendCommand, CommandReply,
     Leave

LEMMA CrashHeld ==
  ASSUME TypeInv, Crash
  PROVE  HeldInv'
<1>1. \A c \in Conns : sv'[c].op = "none"
  BY DEF Crash, NoThread
<1>2. inSet' = 0 \/ ~heap'[inSet'].token
  BY DEF Crash, Object
<1> QED
  BY <1>1, <1>2 DEF HeldInv, Fresh, Kept, New

LEMMA InitHeld == Init => HeldInv
<1> SUFFICES ASSUME Init PROVE HeldInv
  OBVIOUS
<1>1. \A c \in Conns : sv[c].op = "none"
  BY DEF Init, NoThread
<1>2. ~heap[inSet].token
  BY DEF Init, Object
<1> QED
  BY <1>1, <1>2 DEF HeldInv, Fresh, Kept, New

LEMMA NextHeld == TypeInv /\ HeldInv /\ [Next]_vars => HeldInv'
<1> SUFFICES ASSUME TypeInv, HeldInv, [Next]_vars PROVE HeldInv'
  OBVIOUS
<1>1. ASSUME NEW c \in Conns, Client(c) PROVE HeldInv'
  BY <1>1, ClientHeld
<1>2. ASSUME NEW c \in Conns, Server(c) PROVE HeldInv'
  BY <1>2, LoginHeld, ClaimHeld, RemoveOldHeld, AddNewHeld, WriteRecordHeld,
     LoginDoneHeld, PasswordDoneHeld, DirectoryDoneHeld, SaveDirectoryHeld,
     HandleRequestHeld, ResetHeld DEF Server
<1>3. CASE Crash
  BY <1>3, CrashHeld
<1>4. CASE UNCHANGED vars
  BY <1>4 DEF vars, HeldInv, Fresh, Kept, New, Keeps
<1> QED
  BY <1>1, <1>2, <1>3, <1>4 DEF Next

\* A token that is set on the account's record is held by a thread that has
\* not ended, unless one died without clearing its user's.
LEMMA HeldHolds == TypeInv /\ HeldInv => TokenHeld
<1> SUFFICES ASSUME TypeInv, HeldInv, inSet # 0, heap[inSet].token, ~leaked
             PROVE  \E c \in Conns : Holds(c, inSet)
  BY DEF TokenHeld
<1>1. PICK c \in Conns : Keeps(sv[c], inSet)
  BY DEF HeldInv, Kept
<1>2. sv[c].pc = "off" => sv[c].user = 0 /\ sv[c].op = "none"
  BY Typing DEF ThreadControl
<1>3. Holds(c, inSet)
  BY <1>1, <1>2 DEF Keeps, Holds
<1> QED
  BY <1>3

\* Nobody can log in while the token of the account's record is set, and it
\* stays set only while a thread lives whose end clears it, or after one ended,
\* since the server started, with a first login's reply that failed or with an
\* exception that run does not catch (ServerConnection.java:54-97): however
\* logins, changes of password and of directory, departures, failed replies and
\* restarts interleave.
THEOREM TokenAlwaysHeld == Spec => []TokenHeld
<1>1. Init => TypeInv /\ HeldInv
  BY InitTypeInv, InitHeld
<1>2. TypeInv /\ HeldInv /\ [Next]_vars => TypeInv' /\ HeldInv'
  BY NextTypeInv, NextHeld
<1>3. TypeInv /\ HeldInv => TokenHeld
  BY HeldHolds
<1> QED
  BY <1>1, <1>2, <1>3, PTL DEF Spec
=============================================================================
