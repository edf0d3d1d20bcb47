-------------------------- MODULE OneSession_proofs --------------------------
(***************************************************************************)
(* That two clients are never in session on one account (OneSession), for  *)
(* every set of connections, passwords and directories and every bound.    *)
(***************************************************************************)
EXTENDS Sessions_proofs

\* The account's object: the one in the set, or the one changeUsers removed.
Current ==
  IF monitor # "none" /\ sv[monitor].pc = "add" THEN sv[monitor].aid ELSE inSet

\* A thread whose session or login the token of u is set for.
Owns(th, u) ==
  u # 0 /\ (th.user = u \/ (th.op = "LOGIN" /\ th.pc \in Changers /\ th.arg = u))

\* A thread in session on u between two commands, but for what CD still writes,
\* or one that died so.
Serves(th, u) == th.pc \in {"idle", "save", "dead"} /\ th.user = u

\* The account has at most one owner, and then its token is set.
Sole ==
  /\ \A c, d \in Conns : Owns(sv[c], Current) /\ Owns(sv[d], Current) => c = d
  /\ \A c \in Conns : Owns(sv[c], Current) => heap[Current].token

\* Whoever changes the account owns it; a login found it free.
Work(th, u) ==
  /\ th.pc = "claim" => ~th.saw
  /\ New(th) \/ th.op = "CD" => th.user = u
  /\ th.op = "LOGIN" /\ th.pc \in {"add", "write", "reply"} => th.arg = u

Asks == {"CH-PASS", "CD", "FILES"}

USE DEF Asks

\* A command is read by a thread in session on u.
Asked(th, u, requests) ==
  \A i \in 1 .. Len(requests) :
    requests[i].cmd \in Asks => i = 1 /\ Serves(th, u)

LoginAsked == {[cmd |-> "LOGIN", tok |-> "empty", val |-> p] : p \in Passwords}

\* What lies between a client and its thread: one request or one reply.
Logging(th, u, requests, replies) ==
  \/ /\ \E r \in LoginAsked : requests = <<r>>
     /\ replies = << >> /\ th.pc \in {"first", "login", "idle"}
  \/ requests = << >> /\ replies = << >> /\ th.op = "LOGIN"
  \/ requests = << >> /\ replies = <<"OK">> /\ th.pc = "idle" /\ th.user = u
  \/ requests = << >> /\ replies = <<"Unauthorized">> /\ th.pc = "login"

Commanding(th, u, r, requests, replies) ==
  \/ requests = <<r>> /\ replies = << >> /\ Serves(th, u)
  \/ requests = << >> /\ replies = << >> /\ th.op = r.cmd /\ th.pc \in Changers
  \/ requests = << >> /\ r.cmd = "CH-PASS" /\ replies = <<"OK">> /\ th.pc = "idle"
  \/ /\ requests = << >> /\ r.cmd \in {"CD", "FILES"} /\ Serves(th, u)
     /\ replies = <<"OK">> \/ replies = <<"Bad Request">>
  \/ requests = << >> /\ replies = << >> /\ th.pc = "dead" /\ th.user = u

Talk(th, u, client, requests, replies) ==
  /\ Asked(th, u, requests)
  /\ client.pc = "closed" => replies = << >>
  /\ th.pc = "off" => requests = << >> /\ client.pc = "closed"
  /\ client.pc = "prompt" =>
       requests = << >> /\ replies = << >> /\ th.pc \in {"first", "login", "idle"}
  /\ client.pc = "login" => Logging(th, u, requests, replies)
  /\ client.pc = "ready" =>
       requests = << >> /\ replies = << >> /\ Serves(th, u) /\ client.tok = "user"
  /\ client.pc = "wait" =>
       /\ client.tok = "user" /\ client.last.tok = "user"
       /\ client.last.cmd \in Asks
       /\ Commanding(th, u, client.last, requests, replies)

Line(c) == Talk(sv[c], Current, cl[c], toSrv[c], toCl[c])

OneInv ==
  ~disputed => Sole /\ \A c \in Conns : Work(sv[c], Current) /\ Line(c)

-----------------------------------------------------------------------------
(* A step of one thread. *)

\* What a step of c, which leaves it as th, has to show.
OneOK(c, th) ==
  /\ sv' = [sv EXCEPT ![c] = th] \/ (sv' = sv /\ sv[c] = th)
  /\ Current' = Current
  /\ Owns(th, Current) =>
       (Owns(sv[c], Current) \/ ~heap[Current].token) /\ heap'[Current].token
  /\ \/ Owns(sv[c], Current)
     \/ Current # 0 /\ heap[Current].token => heap'[Current].token
  /\ Work(th, Current)
  /\ Talk(th, Current, cl'[c], toSrv'[c], toCl'[c])
  /\ \A d \in Conns : d # c =>
       cl'[d] = cl[d] /\ toSrv'[d] = toSrv[d] /\ toCl'[d] = toCl[d]

LEMMA OneStep ==
  ASSUME TypeInv, OneInv, ~disputed, NEW c \in Conns, NEW th, OneOK(c, th)
  PROVE  OneInv'
<1>1. sv'[c] = th /\ \A d \in Conns : d # c => sv'[d] = sv[d]
  BY DEF OneOK, TypeInv, TypeOK
<1>2. Current' = Current
  BY DEF OneOK
<1>3. Sole /\ \A d \in Conns : Work(sv[d], Current) /\ Line(d)
  BY DEF OneInv
<1>4. ASSUME NEW d \in Conns PROVE Work(sv'[d], Current')
  <2>1. CASE d = c
    BY <1>1, <1>2, <2>1 DEF OneOK
  <2>2. CASE d # c
    BY <1>1, <1>2, <1>3, <2>2
  <2> QED
    BY <2>1, <2>2
<1>5. ASSUME NEW d \in Conns PROVE Talk(sv'[d], Current', cl'[d], toSrv'[d], toCl'[d])
  <2>1. CASE d = c
    BY <1>1, <1>2, <2>1 DEF OneOK
  <2>2. CASE d # c
    <3>1. cl'[d] = cl[d] /\ toSrv'[d] = toSrv[d] /\ toCl'[d] = toCl[d] /\ sv'[d] = sv[d]
      BY <1>1, <2>2 DEF OneOK
    <3> QED
      BY <1>2, <1>3, <3>1 DEF Line
  <2> QED
    BY <2>1, <2>2
<1>6. ASSUME NEW d \in Conns, Owns(sv'[d], Current') PROVE heap'[Current'].token
  <2>1. CASE d = c
    BY <1>1, <1>2, <1>6, <2>1 DEF OneOK
  <2>2. CASE d # c
    <3>1. Owns(sv[d], Current) /\ Current # 0
      BY <1>1, <1>2, <1>6, <2>2 DEF Owns
    <3>2. heap[Current].token /\ ~Owns(sv[c], Current)
      BY <1>3, <2>2, <3>1 DEF Sole
    <3> QED
      BY <1>2, <3>1, <3>2 DEF OneOK
  <2> QED
    BY <2>1, <2>2
<1>7. ASSUME NEW d \in Conns, NEW e \in Conns, Owns(sv'[d], Current'), Owns(sv'[e], Current'),
             d # e
      PROVE  FALSE
  <2>1. ASSUME NEW f \in Conns, f # c, Owns(sv'[f], Current'), Owns(th, Current')
        PROVE  FALSE
    <3>1. Owns(sv[f], Current)
      BY <1>1, <1>2, <2>1
    <3>2. heap[Current].token /\ ~Owns(sv[c], Current)
      BY <1>3, <2>1, <3>1 DEF Sole
    <3> QED
      BY <1>2, <2>1, <3>2 DEF OneOK
  <2>2. CASE d # c /\ e # c
    BY <1>1, <1>2, <1>3, <1>7, <2>2 DEF Sole
  <2> QED
    BY <1>1, <1>7, <2>1, <2>2
<1> QED
  BY <1>4, <1>5, <1>6, <1>7 DEF OneInv, Sole, Line

\* Outside the monitor a thread does not change which object is the account's.
LEMMA SameCurrent ==
  ASSUME TypeInv, NEW c \in Conns, NEW th,
         sv' = [sv EXCEPT ![c] = th] \/ (sv' = sv /\ sv[c] = th),
         ~InMonitor(sv[c]), inSet' = inSet, monitor' = monitor
  PROVE  Current' = Current
<1>1. DOMAIN sv = Conns /\ monitor \in Conns \cup {"none"} /\ monitor # c
  BY AccountAssumption DEF TypeInv, TypeOK, MonitorOK, InMonitor
<1>2. monitor # "none" => sv'[monitor] = sv[monitor]
  BY <1>1
<1> QED
  BY <1>2 DEF Current

LEMMA CurrentType ==
  ASSUME TypeInv
  PROVE  Current \in 0 .. Len(heap)
<1>1. inSet \in 0 .. Len(heap) /\ \A c \in Conns : ThreadOK(sv[c], 0 .. Len(heap))
  BY DEF TypeInv, TypeOK, Users
<1>2. monitor \in Conns \cup {"none"}
  BY DEF TypeInv, TypeOK
<1>3. \A c \in Conns : sv[c].aid \in 0 .. Len(heap)
  BY <1>1 DEF ThreadOK, Threads
<1> QED
  BY <1>1, <1>2, <1>3 DEF Current

\* A thread that reads a request leaves no command behind it.
LEMMA AskedOnce ==
  ASSUME NEW requests \in Seq(Requests), requests # << >>, NEW th, NEW u,
         Asked(th, u, requests), NEW other, NEW v
  PROVE  /\ Asked(other, v, Tail(requests))
         /\ Head(requests).cmd \notin Asks => Asked(other, v, requests)
         /\ Head(requests).cmd \in Asks => Serves(th, u)
<1>1. /\ Len(requests) \in Nat \ {0} /\ Len(Tail(requests)) = Len(requests) - 1
      /\ Head(requests) = requests[1]
      /\ \A i \in 1 .. Len(Tail(requests)) : Tail(requests)[i] = requests[i + 1]
  BY HeadTailProperties, LenProperties, EmptySeq
<1> QED
  BY <1>1 DEF Asked

LEMMA AskedNone ==
  ASSUME NEW th, NEW u
  PROVE  Asked(th, u, << >>)
BY DEF Asked

LEMMA OneElement ==
  ASSUME NEW x
  PROVE  /\ Append(<< >>, x) = <<x>> /\ Head(<<x>>) = x /\ Tail(<<x>>) = << >>
         /\ <<x>> # << >>
  OBVIOUS

-----------------------------------------------------------------------------
(* changeUsers and what comes before it. *)

Clean == TypeInv /\ OneInv /\ ~disputed

LEMMA Cleanly ==
  ASSUME Clean, NEW c \in Conns
  PROVE  /\ TypeInv /\ OneInv /\ Sole /\ Work(sv[c], Current) /\ Line(c)
         /\ sv[c] \in Threads(0 .. Len(heap)) /\ ThreadControl(sv[c])
         /\ ThreadOK(sv[c], 0 .. Len(heap))
         /\ Current \in 0 .. Len(heap) /\ toSrv[c] \in Seq(Requests)
         /\ DOMAIN toSrv = Conns /\ DOMAIN toCl = Conns /\ DOMAIN cl = Conns
         /\ DOMAIN heap = 1 .. Len(heap)
<1>1. Current \in 0 .. Len(heap)
  BY CurrentType DEF Clean
<1>2. ThreadOK(sv[c], 0 .. Len(heap)) /\ ThreadControl(sv[c])
  BY Typing DEF Clean
<1>3. DOMAIN heap = 1 .. Len(heap)
  BY LenProperties DEF Clean, TypeInv, TypeOK
<1> QED
  BY <1>1, <1>2, <1>3 DEF Clean, OneInv, ThreadOK, TypeInv, TypeOK

Busy(th) == th.pc \in Changers \cup {"claim"}

\* While a thread works on a request its client waits for the reply.
LEMMA Working ==
  ASSUME NEW th, NEW u, NEW k, NEW requests, NEW replies,
         Talk(th, u, k, requests, replies), Busy(th)
  PROVE  /\ \A other, v : Asked(other, v, requests)
         /\ k.pc \notin {"prompt", "ready"}
         /\ k.pc = "login" => requests = << >> /\ replies = << >> /\ th.op = "LOGIN"
         /\ k.pc = "wait" => /\ requests = << >> /\ replies = << >> /\ th.op = k.last.cmd
                             /\ k.last.tok = "user" /\ k.last.cmd \in Asks
BY DEF Talk, Busy, Changers, Asked, Serves, Logging, Commanding

LEMMA BusyTalk ==
  ASSUME NEW th, NEW u, NEW k, NEW requests, NEW replies,
         Talk(th, u, k, requests, replies), Busy(th),
         NEW other, NEW v, Busy(other), other.op = th.op,
         other.pc = "claim" => th.op = "LOGIN"
  PROVE  Talk(other, v, k, requests, replies)
<1>1. \A x, y : Asked(x, y, requests)
  BY Working
<1>2. CASE other.pc \in Changers
  BY <1>1, <1>2 DEF Talk, Busy, Changers, Serves, Logging, Commanding
<1>3. CASE other.pc = "claim"
  BY <1>1, <1>3 DEF Talk, Busy, Changers, Serves, Logging, Commanding
<1> QED
  BY <1>2, <1>3 DEF Busy

\* A thread ends when its client has gone.
LEMMA EndTalk ==
  ASSUME NEW th, NEW u, NEW k, NEW requests, NEW replies,
         Talk(th, u, k, requests, replies), k.pc = "closed", NEW v
  PROVE  Talk(NoThread, v, k, << >>, replies)
BY AskedNone DEF Talk

LEMMA ClaimOne ==
  ASSUME Clean, NEW c \in Conns, Claim(c), ~disputed'
  PROVE  OneInv'
<1> DEFINE th == [sv[c] EXCEPT !.pc = "remove"]
<1> USE Cleanly
<1>1. /\ sv' = [sv EXCEPT ![c] = th] /\ sv[c].pc = "claim"
      /\ inSet' = inSet /\ monitor' = monitor /\ cl' = cl /\ toSrv' = toSrv /\ toCl' = toCl
  BY DEF Claim
<1>2. sv[c].arg \in 1 .. Len(heap) /\ sv[c].op = "LOGIN" /\ ~sv[c].saw
  BY <1>1 DEF ThreadOK, Threads, ThreadControl, Work
<1>3. /\ th.user = sv[c].user /\ th.arg = sv[c].arg /\ th.op = "LOGIN" /\ th.pc = "remove"
  BY <1>2 DEF Threads
<1> HIDE DEF th
<1>4. ~heap[sv[c].arg].token
  BY <1>2 DEF Claim
<1>5. /\ heap'[sv[c].arg].token
      /\ \A v \in 1 .. Len(heap) : v # sv[c].arg => heap'[v] = heap[v]
  <2>1. SetToken(sv[c].arg, TRUE) /\ heap \in Seq(Objects)
    BY Typing DEF Claim
  <2> QED
    BY <2>1, <1>2, SetTokenOK
<1>6. ~InMonitor(sv[c]) /\ Current' = Current
  BY <1>1, SameCurrent DEF InMonitor
<1>7. Current # 0 /\ heap[Current].token => heap'[Current].token
  BY <1>5
<1>8. Owns(th, Current) => (Owns(sv[c], Current) \/ ~heap[Current].token) /\ heap'[Current].token
  BY <1>3, <1>4, <1>5, <1>7 DEF Owns, Sole
<1>9. Work(th, Current)
  BY <1>3 DEF Work, New
<1>10. Talk(th, Current, cl'[c], toSrv'[c], toCl'[c])
  BY <1>1, <1>2, <1>3, BusyTalk DEF Line, Busy, Changers
<1> OneOK(c, th)
  BY <1>1, <1>6, <1>7, <1>8, <1>9, <1>10 DEF OneOK
<1> QED
  BY OneStep DEF Clean

LEMMA RemoveOldOne ==
  ASSUME Clean, NEW c \in Conns, RemoveOld(c), ~disputed'
  PROVE  OneInv'
<1> DEFINE th == [sv[c] EXCEPT !.pc = "add", !.aid = inSet]
<1> USE Cleanly
<1>1. /\ sv' = [sv EXCEPT ![c] = th] /\ sv[c].pc = "remove" /\ heap' = heap
      /\ monitor = "none" /\ monitor' = c /\ cl' = cl /\ toSrv' = toSrv /\ toCl' = toCl
      /\ sv[c].op = "LOGIN" => inSet = sv[c].arg
  BY DEF RemoveOld
<1>2. /\ th.user = sv[c].user /\ th.arg = sv[c].arg /\ th.op = sv[c].op /\ th.pc = "add"
      /\ th.aid = inSet
  BY DEF Threads
<1> HIDE DEF th
<1>3. sv'[c] = th
  BY <1>1 DEF TypeInv, TypeOK
<1>4. Current = inSet /\ Current' = inSet
  BY <1>1, <1>2, <1>3, AccountAssumption DEF Current
<1>5. Owns(th, Current) => Owns(sv[c], Current)
  BY <1>1, <1>2 DEF Owns, Changers
<1>6. Owns(sv[c], Current) => heap[Current].token
  BY DEF Sole
<1>7. Work(th, Current)
  BY <1>1, <1>2, <1>4 DEF Work, New
<1>8. Talk(th, Current, cl'[c], toSrv'[c], toCl'[c])
  BY <1>1, <1>2, BusyTalk DEF Line, Busy, Changers
<1> OneOK(c, th)
  BY <1>1, <1>4, <1>5, <1>6, <1>7, <1>8 DEF OneOK
<1> QED
  BY OneStep DEF Clean

LEMMA WriteRecordOne ==
  ASSUME Clean, NEW c \in Conns, WriteRecord(c), ~disputed'
  PROVE  OneInv'
<1> DEFINE th == [sv[c] EXCEPT !.pc = "reply"]
<1> USE Cleanly
<1>1. /\ sv' = [sv EXCEPT ![c] = th] /\ sv[c].pc = "write" /\ heap' = heap /\ inSet' = inSet
      /\ monitor' = "none" /\ cl' = cl /\ toSrv' = toSrv /\ toCl' = toCl
  BY DEF WriteRecord
<1>2. /\ th.user = sv[c].user /\ th.arg = sv[c].arg /\ th.op = sv[c].op /\ th.pc = "reply"
  BY DEF Threads
<1> HIDE DEF th
<1>3. monitor = c
  BY <1>1 DEF TypeInv, MonitorOK
<1>4. Current = inSet /\ Current' = inSet
  BY <1>1, <1>3 DEF Current
<1>5. Owns(th, Current) => Owns(sv[c], Current)
  BY <1>1, <1>2 DEF Owns, Changers
<1>6. Owns(sv[c], Current) => heap[Current].token
  BY DEF Sole
<1>7. Work(th, Current)
  BY <1>1, <1>2 DEF Work, New
<1>8. Talk(th, Current, cl'[c], toSrv'[c], toCl'[c])
  BY <1>1, <1>2, BusyTalk DEF Line, Busy, Changers
<1> OneOK(c, th)
  BY <1>1, <1>4, <1>5, <1>6, <1>7, <1>8 DEF OneOK
<1> QED
  BY OneStep DEF Clean

\* A change of password leaves the account without an owner, any other call of
\* changeUsers with the object it had.
LEMMA AddNewOne ==
  ASSUME Clean, HeldInv, NEW c \in Conns, AddNew(c), ~disputed'
  PROVE  OneInv'
<1> DEFINE th == [sv[c] EXCEPT !.pc = "write", !.buf = Record(sv[c].aid)]
<1> USE Cleanly
<1>1. /\ sv' = [sv EXCEPT ![c] = th] /\ sv[c].pc = "add" /\ heap' = heap /\ inSet' = sv[c].arg
      /\ monitor' = monitor /\ cl' = cl /\ toSrv' = toSrv /\ toCl' = toCl
  BY DEF AddNew
<1>2. /\ th.user = sv[c].user /\ th.arg = sv[c].arg /\ th.op = sv[c].op /\ th.pc = "write"
  BY DEF Threads
<1> HIDE DEF th
<1>3. monitor = c /\ c # "none" /\ sv'[c] = th /\ \A d \in Conns : d # c => sv'[d] = sv[d]
  BY <1>1, AccountAssumption DEF TypeInv, TypeOK, MonitorOK
<1>4. Current = sv[c].aid /\ Current' = sv[c].arg /\ Current # 0 /\ sv[c].arg # 0
  BY <1>1, <1>2, <1>3 DEF Current, ThreadOK, Changers
<1>5. Talk(th, Current', cl'[c], toSrv'[c], toCl'[c])
  BY <1>1, <1>2, BusyTalk DEF Line, Busy, Changers
<1>6. CASE sv[c].op \in {"LOGIN", "CD"}
  <2>1. sv[c].arg = Current
    BY <1>1, <1>6 DEF Work, ThreadControl
  <2>2. Owns(th, Current) => Owns(sv[c], Current)
    BY <1>1, <1>2 DEF Owns, Changers
  <2>3. Owns(sv[c], Current) => heap[Current].token
    BY DEF Sole
  <2>4. Work(th, Current)
    BY <1>1, <1>2, <1>6, <2>1 DEF Work, New
  <2> OneOK(c, th)
    BY <1>1, <1>4, <1>5, <2>1, <2>2, <2>3, <2>4 DEF OneOK
  <2> QED
    BY OneStep DEF Clean
<1>7. CASE sv[c].op = "CH-PASS"
  <2>1. New(sv[c]) /\ sv[c].user = Current
    BY <1>1, <1>7 DEF New, Work
  <2>2. Owns(sv[c], Current)
    BY <1>4, <2>1 DEF Owns
  <2>3. ASSUME NEW d \in Conns, d # c PROVE ~Owns(sv[d], Current)
    BY <2>2, <2>3 DEF Sole
  <2>4. ASSUME NEW d \in Conns PROVE sv[d].user # sv[c].arg /\ (d # c => sv[d].arg # sv[c].arg)
    BY <2>1 DEF HeldInv, Fresh
  <2>5. ASSUME NEW d \in Conns PROVE ~Owns(sv'[d], Current')
    BY <1>2, <1>3, <1>4, <1>7, <2>4 DEF Owns
  <2>6. ASSUME NEW d \in Conns
        PROVE  Work(sv'[d], Current') /\ Talk(sv'[d], Current', cl'[d], toSrv'[d], toCl'[d])
    <3>1. CASE d = c
      BY <1>2, <1>3, <1>5, <1>7, <3>1 DEF Work, New
    <3>2. CASE d # c
      <4>1. sv[d].user # Current
        BY <1>4, <2>3, <3>2 DEF Owns
      <4>2. /\ Work(sv[d], Current) /\ Line(d) /\ sv'[d] = sv[d]
            /\ sv[d].op = "LOGIN" /\ sv[d].pc \in {"add", "write", "reply"} =>
                 Owns(sv[d], Current)
        BY <1>3, <1>4, <3>2, Cleanly DEF Work, Owns, Changers
      <4>3. Work(sv'[d], Current')
        BY <2>3, <3>2, <4>1, <4>2 DEF Work
      <4>4. Talk(sv[d], sv[c].arg, cl[d], toSrv[d], toCl[d])
        <5>1. Asked(sv[d], sv[c].arg, toSrv[d])
          BY <4>1, <4>2 DEF Line, Talk, Asked, Serves
        <5> QED
          BY <4>1, <4>2, <5>1 DEF Line, Talk, Serves, Logging, Commanding
      <4> QED
        BY <1>1, <1>4, <4>2, <4>3, <4>4
    <3> QED
      BY <3>1, <3>2
  <2> QED
    BY <2>5, <2>6 DEF OneInv, Sole, Line
<1> QED
  BY <1>1, <1>6, <1>7 DEF ThreadControl, Changers

-----------------------------------------------------------------------------
(* The ends of the handlers. *)

\* A thread that ends when its client has gone disturbs no owner: it clears no
\* token but its own user's or that of its login.
LEMMA EndOne ==
  ASSUME Clean, NEW c \in Conns, End(c), cl[c].pc = "closed", ~InMonitor(sv[c]),
         inSet' = inSet, monitor' = monitor, cl' = cl, toCl' = toCl,
         \/ heap' = heap
         \/ \E u \in 1 .. Len(heap) :
              SetToken(u, FALSE) /\ (u = Current => Owns(sv[c], Current))
  PROVE  OneInv'
<1> DEFINE th == NoThread
<1> USE Cleanly
<1>1. sv' = [sv EXCEPT ![c] = th] /\ toSrv' = [toSrv EXCEPT ![c] = << >>]
  BY DEF End
<1>2. th.user = 0 /\ th.op = "none" /\ th.pc = "off"
  BY DEF NoThread
<1>3. Talk(th, Current, cl'[c], toSrv'[c], toCl'[c])
  BY <1>1, EndTalk DEF Line
<1> HIDE DEF th
<1>4. Current' = Current
  BY <1>1, SameCurrent
<1>5. Owns(sv[c], Current) \/ (Current # 0 /\ heap[Current].token => heap'[Current].token)
  <2>1. CASE heap' = heap
    BY <2>1
  <2>2. ASSUME NEW u \in 1 .. Len(heap), SetToken(u, FALSE), u # Current
        PROVE  Current # 0 => heap'[Current] = heap[Current]
    <3>1. \A v \in 1 .. Len(heap) : v # u => heap'[v] = heap[v]
      <4>1. heap \in Seq(Objects)
        BY DEF TypeInv, TypeOK
      <4> QED
        BY <4>1, <2>2, SetTokenOK
    <3> QED
      BY <3>1, <2>2
  <2> QED
    BY <2>1, <2>2
<1>6. ~Owns(th, Current) /\ Work(th, Current)
  BY <1>2 DEF Owns, Work, New, Changers
<1> OneOK(c, th)
  BY <1>1, <1>3, <1>4, <1>5, <1>6 DEF OneOK
<1> QED
  BY OneStep DEF Clean

\* The session's end clears the token of its user.
LEMMA EndSessionOne ==
  ASSUME Clean, NEW c \in Conns, EndSession(c), sv[c].user # 0, cl[c].pc = "closed",
         ~InMonitor(sv[c]), inSet' = inSet, monitor' = monitor, cl' = cl, toCl' = toCl
  PROVE  OneInv'
<1>1. sv[c].user \in 1 .. Len(heap)
  BY Cleanly DEF Threads
<1>2. sv[c].user = Current => Owns(sv[c], Current)
  BY <1>1 DEF Owns
<1> QED
  BY <1>1, <1>2, EndOne DEF EndSession

LEMMA SameReply ==
  ASSUME NEW c \in Conns, NEW reply, Reply(c, reply)
  PROVE  /\ cl[c].pc = "closed" => toCl' = toCl
         /\ cl[c].pc # "closed" => toCl' = [toCl EXCEPT ![c] = Append(@, reply)]
BY DEF Reply

\* A thread that goes on as it was but for what the reply tells its client.
LEMMA ReplyOne ==
  ASSUME Clean, NEW c \in Conns, NEW th,
         sv' = [sv EXCEPT ![c] = th] \/ (sv' = sv /\ sv[c] = th), ~InMonitor(sv[c]),
         heap' = heap, inSet' = inSet, monitor' = monitor, cl' = cl,
         \A d \in Conns : d # c => toSrv'[d] = toSrv[d] /\ toCl'[d] = toCl[d],
         Owns(th, Current) => Owns(sv[c], Current), Work(th, Current),
         Talk(th, Current, cl[c], toSrv'[c], toCl'[c])
  PROVE  OneInv'
<1>1. Current' = Current
  BY SameCurrent DEF Clean
<1>2. Owns(sv[c], Current) => heap[Current].token
  BY Cleanly DEF Sole
<1> OneOK(c, th)
  BY <1>1, <1>2 DEF OneOK
<1> QED
  BY OneStep DEF Clean

LEMMA LoginDoneOne ==
  ASSUME Clean, NEW c \in Conns, LoginDone(c)
  PROVE  OneInv'
<1> USE Cleanly
<1>1. /\ sv[c].pc = "reply" /\ sv[c].op = "LOGIN" /\ inSet' = inSet /\ monitor' = monitor
      /\ cl' = cl
  BY DEF LoginDone
<1>2. sv[c].arg = Current /\ Current # 0 /\ ~InMonitor(sv[c]) /\ Owns(sv[c], Current)
  BY <1>1 DEF Work, ThreadOK, Changers, InMonitor, Owns
<1>3. CASE Reply(c, "OK") /\ Idle(c, sv[c].arg) /\ UNCHANGED <<heap, toSrv, leaked>>
  <2> DEFINE th == [NoThread EXCEPT !.pc = "idle", !.user = sv[c].arg]
  <2>1. sv' = [sv EXCEPT ![c] = th]
    BY <1>3 DEF Idle
  <2>2. th.pc = "idle" /\ th.user = Current /\ th.op = "none"
    BY <1>2 DEF NoThread
  <2> HIDE DEF th
  <2>3. Work(th, Current)
    BY <2>2 DEF Work, New
  <2>4. Busy(sv[c]) /\ Talk(sv[c], Current, cl[c], toSrv[c], toCl[c])
    BY <1>1 DEF Busy, Changers, Line
  <2>5. Talk(th, Current, cl[c], toSrv'[c], toCl'[c])
    <3>1. CASE cl[c].pc = "closed"
      <4>1. toCl' = toCl /\ toSrv' = toSrv
        BY <1>3, <3>1, SameReply
      <4>2. Asked(th, Current, toSrv[c])
        BY <2>4, Working
      <4>3. toCl[c] = << >>
        BY <2>4, <3>1 DEF Talk
      <4> QED
        BY <2>2, <3>1, <4>1, <4>2, <4>3 DEF Talk
    <3>2. CASE cl[c].pc # "closed"
      <4>1. toCl'[c] = Append(toCl[c], "OK")
        BY <1>3, <3>2, SameReply
      <4>2. cl[c].pc \notin {"prompt", "ready", "wait"}
        BY <1>1, <2>4, <3>2, Working
      <4>3. cl[c].pc = "login" => toSrv'[c] = << >> /\ toCl'[c] = <<"OK">>
        <5>1. cl[c].pc = "login" => toSrv[c] = << >> /\ toCl[c] = << >>
          BY <2>4, Working
        <5> QED
          BY <5>1, <1>3, <4>1, OneElement
      <4> QED
        BY <1>3, <2>2, <2>4, <3>2, <4>2, <4>3, Working DEF Talk, Logging
    <3> QED
      BY <3>1, <3>2
  <2>6. \A d \in Conns : d # c => toCl'[d] = toCl[d]
    BY <1>3, SameReply
  <2> QED
    BY <1>1, <1>2, <1>3, <2>1, <2>3, <2>5, <2>6, ReplyOne
<1>4. CASE /\ ReplyFails(c) /\ End(c)
           /\ IF sv[c].again
              THEN SetToken(sv[c].arg, FALSE) /\ UNCHANGED leaked
              ELSE UNCHANGED heap /\ leaked' = TRUE
  <2>1. cl[c].pc = "closed" /\ toCl' = toCl
    BY <1>4 DEF ReplyFails
  <2>2. sv[c].arg \in 1 .. Len(heap)
    BY <1>2
  <2> QED
    BY <1>1, <1>2, <1>4, <2>1, <2>2, EndOne
<1> QED
  BY <1>3, <1>4 DEF LoginDone

\* What the client of a thread at work gets is the first reply to its request.
LEMMA ReplyTalk ==
  ASSUME Clean, NEW c \in Conns, NEW reply, Reply(c, reply), Busy(sv[c])
  PROVE  /\ \A d \in Conns : d # c => toCl'[d] = toCl[d]
         /\ \A th, u : Asked(th, u, toSrv[c])
         /\ cl[c].pc = "closed" => toCl'[c] = << >>
         /\ cl[c].pc \notin {"prompt", "ready"}
         /\ cl[c].pc = "login" =>
              toSrv[c] = << >> /\ toCl'[c] = <<reply>> /\ sv[c].op = "LOGIN"
         /\ cl[c].pc = "wait" =>
              /\ toSrv[c] = << >> /\ toCl'[c] = <<reply>> /\ sv[c].op = cl[c].last.cmd
              /\ cl[c].tok = "user" /\ cl[c].last.tok = "user"
              /\ cl[c].last.cmd \in Asks
<1>1. Talk(sv[c], Current, cl[c], toSrv[c], toCl[c]) /\ DOMAIN toCl = Conns
  BY Cleanly DEF Line
<1>2. /\ \A th, u : Asked(th, u, toSrv[c])
      /\ cl[c].pc \notin {"prompt", "ready"}
      /\ cl[c].pc = "login" => toSrv[c] = << >> /\ toCl[c] = << >> /\ sv[c].op = "LOGIN"
      /\ cl[c].pc = "wait" =>
           toSrv[c] = << >> /\ toCl[c] = << >> /\ sv[c].op = cl[c].last.cmd
  BY <1>1, Working
<1>3. cl[c].pc = "wait" => /\ cl[c].tok = "user" /\ cl[c].last.tok = "user"
                           /\ cl[c].last.cmd \in Asks
  BY <1>1 DEF Talk
<1>4. CASE cl[c].pc = "closed"
  BY <1>1, <1>2, <1>4, SameReply DEF Talk
<1>5. CASE cl[c].pc # "closed"
  <2>1. toCl'[c] = Append(toCl[c], reply) /\ \A d \in Conns : d # c => toCl'[d] = toCl[d]
    BY <1>1, <1>5, SameReply
  <2>2. Append(<< >>, reply) = <<reply>>
    BY OneElement
  <2> QED
    BY <1>2, <1>3, <1>5, <2>1, <2>2
<1> QED
  BY <1>4, <1>5

LEMMA PasswordDoneOne ==
  ASSUME Clean, NEW c \in Conns, PasswordDone(c)
  PROVE  OneInv'
<1> USE Cleanly
<1>1. /\ sv[c].pc = "reply" /\ sv[c].op = "CH-PASS" /\ inSet' = inSet /\ monitor' = monitor
      /\ cl' = cl
  BY DEF PasswordDone
<1>2. sv[c].user # 0 /\ ~InMonitor(sv[c]) /\ Busy(sv[c])
  BY <1>1 DEF ThreadOK, InMonitor, Busy, Changers
<1>3. CASE /\ Reply(c, "OK") /\ Idle(c, sv[c].user)
           /\ UNCHANGED <<heap, toSrv, unsaid>>
  <2> DEFINE th == [NoThread EXCEPT !.pc = "idle", !.user = sv[c].user]
  <2>1. sv' = [sv EXCEPT ![c] = th]
    BY <1>3 DEF Idle
  <2>2. th.pc = "idle" /\ th.user = sv[c].user /\ th.op = "none"
    BY DEF NoThread
  <2> HIDE DEF th
  <2>3. Work(th, Current) /\ (Owns(th, Current) => Owns(sv[c], Current))
    BY <2>2 DEF Work, New, Owns
  <2>4. Talk(th, Current, cl[c], toSrv'[c], toCl'[c])
    BY <1>1, <1>2, <1>3, <2>2, ReplyTalk DEF Talk, Commanding
  <2> QED
    BY <1>1, <1>2, <1>3, <2>1, <2>3, <2>4, ReplyOne, ReplyTalk
<1>4. CASE ReplyFails(c) /\ EndSession(c)
  BY <1>1, <1>2, <1>4, EndSessionOne DEF ReplyFails
<1> QED
  BY <1>3, <1>4 DEF PasswordDone

LEMMA DirectoryDoneOne ==
  ASSUME Clean, NEW c \in Conns, DirectoryDone(c)
  PROVE  OneInv'
<1> USE Cleanly
<1> DEFINE th == [sv[c] EXCEPT !.pc = "save", !.buf = Record(sv[c].user)]
<1>1. /\ sv[c].pc = "reply" /\ sv[c].op = "CD" /\ inSet' = inSet /\ monitor' = monitor
      /\ cl' = cl /\ heap' = heap /\ toSrv' = toSrv /\ sv' = [sv EXCEPT ![c] = th]
      /\ Reply(c, "OK")
  BY DEF DirectoryDone
<1>2. sv[c].user = Current /\ ~InMonitor(sv[c]) /\ Busy(sv[c])
  BY <1>1 DEF Work, InMonitor, Busy, Changers
<1>3. th.pc = "save" /\ th.user = sv[c].user /\ th.op = "CD"
  BY <1>1 DEF Threads
<1> HIDE DEF th
<1>4. Work(th, Current) /\ (Owns(th, Current) => Owns(sv[c], Current))
  BY <1>2, <1>3 DEF Work, New, Owns
<1>5. Talk(th, Current, cl[c], toSrv'[c], toCl'[c])
  BY <1>1, <1>2, <1>3, ReplyTalk DEF Talk, Commanding, Serves
<1> QED
  BY <1>1, <1>2, <1>4, <1>5, ReplyOne, ReplyTalk

LEMMA SaveDirectoryOne ==
  ASSUME Clean, NEW c \in Conns, SaveDirectory(c)
  PROVE  OneInv'
<1> USE Cleanly
<1> DEFINE th == [NoThread EXCEPT !.pc = "idle", !.user = sv[c].user]
<1>1. /\ sv[c].pc = "save" /\ inSet' = inSet /\ monitor' = monitor
      /\ cl' = cl /\ heap' = heap /\ toSrv' = toSrv /\ toCl' = toCl
      /\ sv' = [sv EXCEPT ![c] = th]
  BY DEF SaveDirectory, Idle
<1>2. sv[c].op = "CD" /\ ~InMonitor(sv[c])
  BY <1>1 DEF ThreadControl, InMonitor
<1>3. th.pc = "idle" /\ th.user = sv[c].user /\ th.op = "none"
  BY DEF NoThread
<1> HIDE DEF th
<1>4. Work(th, Current) /\ (Owns(th, Current) => Owns(sv[c], Current))
  BY <1>3 DEF Work, New, Owns
<1>5. Talk(th, Current, cl[c], toSrv'[c], toCl'[c])
  BY <1>1, <1>2, <1>3 DEF Line, Talk, Asked, Commanding, Logging, Serves, Changers
<1> QED
  BY <1>1, <1>2, <1>4, <1>5, ReplyOne

-----------------------------------------------------------------------------
(* Reading a request. *)

\* What a thread finds to read when its client is there.
LEMMA Reading ==
  ASSUME Clean, NEW c \in Conns, toSrv[c] # << >>, cl[c].pc # "closed",
         sv[c].pc \in {"first", "login", "idle"}
  PROVE  /\ toCl[c] = << >> /\ toSrv[c] = <<Head(toSrv[c])>> /\ Tail(toSrv[c]) = << >>
         /\ \/ cl[c].pc = "login" /\ Head(toSrv[c]) \in LoginAsked
            \/ /\ cl[c].pc = "wait" /\ Head(toSrv[c]) = cl[c].last
               /\ sv[c].pc = "idle" /\ sv[c].user = Current
               /\ cl[c].tok = "user" /\ cl[c].last.tok = "user"
               /\ cl[c].last.cmd \in Asks
<1>1. Talk(sv[c], Current, cl[c], toSrv[c], toCl[c])
  BY Cleanly DEF Line
<1>2. cl[c].pc \in {"prompt", "login", "ready", "wait"}
  BY ClientTyping DEF Clean, Clients
<1>3. cl[c].pc \notin {"prompt", "ready"}
  BY <1>1 DEF Talk
<1>4. CASE cl[c].pc = "login"
  <2>1. toCl[c] = << >> /\ \E r \in LoginAsked : toSrv[c] = <<r>>
    BY <1>1, <1>4 DEF Talk, Logging
  <2> QED
    BY <1>4, <2>1, OneElement
<1>5. CASE cl[c].pc = "wait"
  <2>1. /\ toCl[c] = << >> /\ toSrv[c] = <<cl[c].last>> /\ Serves(sv[c], Current)
        /\ cl[c].tok = "user" /\ cl[c].last.tok = "user"
        /\ cl[c].last.cmd \in Asks
    BY <1>1, <1>5 DEF Talk, Commanding
  <2> QED
    BY <1>5, <2>1, OneElement DEF Serves
<1> QED
  BY <1>2, <1>3, <1>4, <1>5

\* What is left to read once a request was taken.
LEMMA Taken ==
  ASSUME Clean, NEW c \in Conns, toSrv[c] # << >>, Take(c)
  PROVE  /\ \A d \in Conns : d # c => toSrv'[d] = toSrv[d]
         /\ toSrv'[c] = Tail(toSrv[c])
         /\ \A th, u : Asked(th, u, toSrv'[c])
<1>1. /\ toSrv[c] \in Seq(Requests) /\ DOMAIN toSrv = Conns
      /\ Asked(sv[c], Current, toSrv[c])
  BY Cleanly DEF Line, Talk
<1>2. ASSUME NEW th, NEW u PROVE Asked(th, u, Tail(toSrv[c]))
  BY <1>1, AskedOnce
<1> QED
  BY <1>1, <1>2 DEF Take

LEMMA LoginRequestOne ==
  ASSUME Clean, NEW c \in Conns, NEW again \in BOOLEAN, toSrv[c] # << >>,
         LoginRequest(c, again), sv[c].pc \in {"first", "login", "idle"},
         sv[c].pc = "idle" => Head(toSrv[c]).cmd = "LOGIN",
         again => sv[c].user # 0,
         inSet' = inSet, monitor' = monitor, cl' = cl
  PROVE  OneInv'
<1> USE Cleanly
<1> DEFINE r == Head(toSrv[c])
<1>1. ~InMonitor(sv[c]) /\ sv[c].op = "none"
  BY DEF InMonitor, ThreadControl
<1>2. Talk(sv[c], Current, cl[c], toSrv[c], toCl[c])
  BY DEF Line
<1>3. cl[c].pc # "closed" => /\ cl[c].pc = "login" /\ r.cmd = "LOGIN" /\ toCl[c] = << >>
                             /\ Tail(toSrv[c]) = << >>
  <2>1. \A x \in LoginAsked : x.cmd = "LOGIN"
    BY DEF LoginAsked
  <2> QED
    BY <2>1, Reading
<1>4. cl[c].pc = "closed" => toCl[c] = << >>
  BY <1>2 DEF Talk
<1>5. CASE /\ r.cmd = "LOGIN" /\ Authentic(r.val)
           /\ sv' = [sv EXCEPT ![c].pc = "claim", ![c].op = "LOGIN",
                               ![c].arg = inSet, ![c].again = again,
                               ![c].saw = heap[inSet].token]
           /\ Take(c)
           /\ UNCHANGED <<heap, toCl, history>>
  <2> DEFINE th == [sv[c] EXCEPT !.pc = "claim", !.op = "LOGIN",
                                 !.arg = inSet, !.again = again,
                                 !.saw = heap[inSet].token]
  <2>1. sv' = [sv EXCEPT ![c] = th] /\ heap' = heap /\ toCl' = toCl
    BY <1>5
  <2>2. /\ th.pc = "claim" /\ th.op = "LOGIN" /\ th.user = sv[c].user
        /\ th.saw = heap[inSet].token
    BY DEF Threads
  <2> HIDE DEF th
  <2>3. Work(th, Current) /\ (Owns(th, Current) => Owns(sv[c], Current))
    BY <1>5, <2>2 DEF Work, New, Owns, Changers, Authentic
  <2>4. Talk(th, Current, cl[c], toSrv'[c], toCl'[c])
    BY <1>3, <1>4, <1>5, <2>1, <2>2, Taken DEF Talk, Logging
  <2> QED
    BY <1>1, <1>5, <2>1, <2>3, <2>4, ReplyOne, Taken
<1>6. CASE /\ Reply(c, "Unauthorized")
           /\ sv' = [sv EXCEPT ![c].pc = "login", ![c].again = again]
           /\ IF r = EOF THEN UNCHANGED toSrv ELSE Take(c)
           /\ UNCHANGED <<heap, history>>
  <2> DEFINE th == [sv[c] EXCEPT !.pc = "login", !.again = again]
  <2>1. sv' = [sv EXCEPT ![c] = th] /\ heap' = heap
    BY <1>6
  <2>2. th.pc = "login" /\ th.op = "none" /\ th.user = sv[c].user
    BY <1>1 DEF Threads
  <2> HIDE DEF th
  <2>3. Work(th, Current) /\ (Owns(th, Current) => Owns(sv[c], Current))
    BY <2>2 DEF Work, New, Owns
  <2>4. /\ \A d \in Conns : d # c => toSrv'[d] = toSrv[d]
        /\ Asked(th, Current, toSrv'[c])
        /\ cl[c].pc # "closed" => toSrv'[c] = << >>
    <3>1. CASE r = EOF
      <4>1. r.cmd = "EOF" /\ toSrv' = toSrv
        BY <1>6, <3>1 DEF EOF
      <4>2. Asked(th, Current, toSrv[c])
        BY <1>2, <4>1, AskedOnce DEF Talk
      <4> QED
        BY <1>3, <4>1, <4>2
    <3>2. CASE r # EOF
      BY <1>3, <1>6, <3>2, Taken
    <3> QED
      BY <3>1, <3>2
  <2>5. /\ \A d \in Conns : d # c => toCl'[d] = toCl[d]
        /\ cl[c].pc = "closed" => toCl'[c] = << >>
        /\ cl[c].pc # "closed" => toCl'[c] = <<"Unauthorized">>
    BY <1>3, <1>4, <1>6, SameReply, OneElement
  <2>6. Talk(th, Current, cl[c], toSrv'[c], toCl'[c])
    BY <1>3, <2>2, <2>4, <2>5 DEF Talk, Logging
  <2> QED
    BY <1>1, <2>1, <2>3, <2>4, <2>5, <2>6, ReplyOne
<1>7. CASE /\ ReplyFails(c)
           /\ IF again THEN EndSession(c) ELSE End(c) /\ UNCHANGED heap
  <2>1. CASE again
    BY <1>1, <1>7, <2>1, EndSessionOne DEF ReplyFails
  <2>2. CASE ~again
    BY <1>1, <1>7, <2>2, EndOne DEF ReplyFails
  <2> QED
    BY <2>1, <2>2
<1> QED
  BY <1>5, <1>6, <1>7 DEF LoginRequest

LEMMA LoginOne ==
  ASSUME Clean, NEW c \in Conns, Login(c)
  PROVE  OneInv'
<1> USE Cleanly
<1>1. toSrv[c] # << >> /\ inSet' = inSet /\ monitor' = monitor /\ cl' = cl
  BY DEF Login
<1>2. CASE /\ sv[c].pc = "first" /\ Head(toSrv[c]) = EOF
           /\ End(c) /\ UNCHANGED <<heap, toCl, history>>
  <2>1. cl[c].pc = "closed"
    <3>1. \A r \in LoginAsked : r.cmd = "LOGIN"
      BY DEF LoginAsked
    <3> QED
      BY <1>1, <1>2, <3>1, Reading DEF EOF
  <2> QED
    BY <1>1, <1>2, <2>1, EndOne DEF InMonitor
<1>3. CASE sv[c].pc = "first" /\ LoginRequest(c, FALSE)
  BY <1>1, <1>3, LoginRequestOne
<1>4. CASE sv[c].pc = "login" /\ LoginRequest(c, sv[c].again)
  <2>1. sv[c].again \in BOOLEAN /\ (sv[c].again => sv[c].user # 0)
    BY DEF ThreadOK, Threads
  <2> QED
    BY <1>1, <1>4, <2>1, LoginRequestOne
<1> QED
  BY <1>2, <1>3, <1>4 DEF Login

\* A thread that dies serves whom it served, and never again.
LEMMA DiesOne ==
  ASSUME Clean, NEW c \in Conns, Dies(c), toSrv[c] # << >>, sv[c].pc = "idle",
         inSet' = inSet, monitor' = monitor, cl' = cl,
         cl[c].pc # "closed" => Head(toSrv[c]).cmd \in Asks,
         \/ toCl' = toCl
         \/ Reply(c, "OK") /\ Head(toSrv[c]).cmd = "FILES"
  PROVE  OneInv'
<1> USE Cleanly
<1> DEFINE th == [NoThread EXCEPT !.pc = "dead", !.user = sv[c].user]
<1>1. sv' = [sv EXCEPT ![c] = th] /\ heap' = heap /\ Take(c)
  BY DEF Dies
<1>2. th.pc = "dead" /\ th.user = sv[c].user /\ th.op = "none"
  BY DEF NoThread
<1> HIDE DEF th
<1>3. Work(th, Current) /\ (Owns(th, Current) => Owns(sv[c], Current)) /\ ~InMonitor(sv[c])
  BY <1>2 DEF Work, New, Owns, InMonitor
<1>4. /\ \A d \in Conns : d # c => toSrv'[d] = toSrv[d]
      /\ toSrv'[c] = Tail(toSrv[c])
      /\ \A x, u : Asked(x, u, toSrv'[c])
  BY <1>1, Taken
<1>5. /\ cl[c].pc # "closed" =>
           /\ cl[c].pc = "wait" /\ sv[c].user = Current /\ cl[c].tok = "user"
           /\ cl[c].last.tok = "user" /\ cl[c].last.cmd \in Asks
           /\ cl[c].last = Head(toSrv[c])
           /\ toCl[c] = << >> /\ Tail(toSrv[c]) = << >>
      /\ cl[c].pc = "closed" => toCl[c] = << >>
  <2>1. \A x \in LoginAsked : x.cmd = "LOGIN"
    BY DEF LoginAsked
  <2> QED
    BY <2>1, Reading DEF Line, Talk
<1>6. /\ \A d \in Conns : d # c => toCl'[d] = toCl[d]
      /\ cl[c].pc = "closed" => toCl'[c] = << >>
      /\ cl[c].pc # "closed" =>
           toCl'[c] = << >> \/ (cl[c].last.cmd = "FILES" /\ toCl'[c] = <<"OK">>)
  <2>1. CASE toCl' = toCl
    BY <1>5, <2>1
  <2>2. CASE Reply(c, "OK") /\ Head(toSrv[c]).cmd = "FILES" /\ cl[c].pc = "closed"
    BY <1>5, <2>2, SameReply
  <2>3. CASE Reply(c, "OK") /\ Head(toSrv[c]).cmd = "FILES" /\ cl[c].pc # "closed"
    <3>1. toCl' = [toCl EXCEPT ![c] = Append(@, "OK")]
      BY <2>3, SameReply
    <3>2. Append(<< >>, "OK") = <<"OK">>
      BY OneElement
    <3> QED
      BY <1>5, <2>3, <3>1, <3>2
  <2> QED
    BY <2>1, <2>2, <2>3
<1>7. Talk(th, Current, cl[c], toSrv'[c], toCl'[c])
  BY <1>2, <1>4, <1>5, <1>6 DEF Talk, Commanding, Serves
<1> QED
  BY <1>1, <1>3, <1>4, <1>6, <1>7, ReplyOne

\* What only reads files leaves the session as it was.
LEMMA HandleFilesOne ==
  ASSUME Clean, NEW c \in Conns, HandleFiles(c), toSrv[c] # << >>, sv[c].pc = "idle",
         Head(toSrv[c]).cmd = "FILES", inSet' = inSet, monitor' = monitor, cl' = cl
  PROVE  OneInv'
<1> USE Cleanly
<1>1. ~InMonitor(sv[c]) /\ sv[c].user # 0
  BY DEF InMonitor, ThreadOK
<1>2. CASE Reply(c, "OK") /\ Take(c) /\ UNCHANGED <<heap, sv, history>>
  <2> DEFINE th == sv[c]
  <2>1. th = sv[c] /\ sv' = sv /\ heap' = heap /\ th.pc = "idle"
    BY <1>2
  <2>2. Work(th, Current) /\ (Owns(th, Current) => Owns(sv[c], Current))
    OBVIOUS
  <2> HIDE DEF th
  <2>3. /\ \A d \in Conns : d # c => toSrv'[d] = toSrv[d]
        /\ toSrv'[c] = Tail(toSrv[c])
        /\ \A x, u : Asked(x, u, toSrv'[c])
    BY <1>2, Taken
  <2>4. /\ cl[c].pc # "closed" =>
             /\ cl[c].pc = "wait" /\ sv[c].user = Current /\ cl[c].tok = "user"
             /\ cl[c].last.tok = "user" /\ cl[c].last.cmd = "FILES"
             /\ toCl[c] = << >> /\ Tail(toSrv[c]) = << >>
        /\ cl[c].pc = "closed" => toCl[c] = << >>
    <3>1. \A x \in LoginAsked : x.cmd = "LOGIN"
      BY DEF LoginAsked
    <3> QED
      BY <3>1, Reading DEF Line, Talk
  <2>5. /\ \A d \in Conns : d # c => toCl'[d] = toCl[d]
        /\ cl[c].pc = "closed" => toCl'[c] = << >>
        /\ cl[c].pc # "closed" => toCl'[c] = <<"OK">>
    <3>1. CASE cl[c].pc = "closed"
      BY <1>2, <2>4, <3>1, SameReply
    <3>2. CASE cl[c].pc # "closed"
      <4>1. toCl' = [toCl EXCEPT ![c] = Append(@, "OK")]
        BY <1>2, <3>2, SameReply
      <4>2. Append(<< >>, "OK") = <<"OK">>
        BY OneElement
      <4> QED
        BY <2>4, <3>2, <4>1, <4>2
    <3> QED
      BY <3>1, <3>2
  <2>6. Talk(th, Current, cl[c], toSrv'[c], toCl'[c])
    BY <2>1, <2>3, <2>4, <2>5 DEF Talk, Commanding, Serves
  <2> QED
    BY <1>1, <2>1, <2>2, <2>3, <2>5, <2>6, ReplyOne
<1>3. CASE ReplyFails(c) /\ EndSession(c) /\ UNCHANGED history
  BY <1>1, <1>3, EndSessionOne DEF ReplyFails
<1>4. CASE (Reply(c, "OK") \/ UNCHANGED toCl) /\ Dies(c)
  BY <1>4, DiesOne
<1> QED
  BY <1>2, <1>3, <1>4 DEF HandleFiles

\* The new object has no owner, and waits to be added.
LEMMA NewPasswordOne ==
  ASSUME Clean, NEW c \in Conns, NEW r, r = Head(toSrv[c]), r.cmd = "CH-PASS",
         NewPassword(c, r), toSrv[c] # << >>, sv[c].pc = "idle",
         inSet' = inSet, monitor' = monitor, cl' = cl
  PROVE  OneInv'
<1> USE Cleanly
<1> DEFINE n == Len(heap) + 1
           th == [sv[c] EXCEPT !.pc = "remove", !.op = "CH-PASS",
                               !.val = r.val, !.arg = n]
           object == Object([pass |-> r.val, dir |-> heap[sv[c].user].dir])
<1>1. sv' = [sv EXCEPT ![c] = th] /\ heap' = Append(heap, object) /\ Take(c) /\ toCl' = toCl
  BY DEF NewPassword, Changing
<1>2. th.pc = "remove" /\ th.op = "CH-PASS" /\ th.user = sv[c].user
  BY DEF Threads
<1> HIDE DEF th, object
<1>3. Asked(sv[c], Current, toSrv[c]) /\ sv[c].user = Current /\ ~InMonitor(sv[c])
  <2>1. Asked(sv[c], Current, toSrv[c])
    BY DEF Line, Talk
  <2> QED
    BY <2>1, AskedOnce DEF Serves, InMonitor
<1>4. Current' = Current
  BY <1>1, <1>3, SameCurrent
<1>5. Current # 0 => heap'[Current] = heap[Current]
  <2>1. heap \in Seq(Objects)
    BY DEF TypeInv, TypeOK
  <2> QED
    BY <1>1, <2>1, LenProperties
<1>6. Work(th, Current) /\ (Owns(th, Current) => Owns(sv[c], Current))
  BY <1>2, <1>3 DEF Work, New, Owns
<1>7. Owns(sv[c], Current) => heap[Current].token /\ Current # 0
  BY DEF Sole, Owns
<1>8. Talk(th, Current, cl[c], toSrv'[c], toCl'[c])
  <2>1. \A x \in LoginAsked : x.cmd = "LOGIN"
    BY DEF LoginAsked
  <2>2. cl[c].pc # "closed" =>
          /\ cl[c].pc = "wait" /\ r = cl[c].last /\ cl[c].tok = "user"
          /\ cl[c].last.tok = "user" /\ toCl[c] = << >> /\ Tail(toSrv[c]) = << >>
    BY <2>1, Reading
  <2>3. cl[c].pc = "closed" => toCl[c] = << >>
    BY DEF Line, Talk
  <2> QED
    BY <1>1, <1>2, <2>2, <2>3, Taken DEF Talk, Commanding, Changers
<1>9. OneOK(c, th)
  BY <1>1, <1>4, <1>5, <1>6, <1>7, <1>8, Taken DEF OneOK
<1> QED
  BY <1>9, OneStep DEF Clean

LEMMA HandleCdOne ==
  ASSUME Clean, NEW c \in Conns, NEW r, r = Head(toSrv[c]), r.cmd = "CD",
         HandleCd(c, r), toSrv[c] # << >>, sv[c].pc = "idle",
         inSet' = inSet, monitor' = monitor, cl' = cl
  PROVE  OneInv'
<1> USE Cleanly
<1> DEFINE u == sv[c].user
<1>1. Asked(sv[c], Current, toSrv[c]) /\ u = Current /\ ~InMonitor(sv[c]) /\ Take(c)
  <2>1. Asked(sv[c], Current, toSrv[c])
    BY DEF Line, Talk
  <2> QED
    BY <2>1, AskedOnce DEF Serves, InMonitor, HandleCd, Dies
<1>2. /\ cl[c].pc # "closed" =>
           /\ cl[c].pc = "wait" /\ r = cl[c].last /\ cl[c].tok = "user"
           /\ cl[c].last.tok = "user" /\ toCl[c] = << >> /\ Tail(toSrv[c]) = << >>
      /\ cl[c].pc = "closed" => toCl[c] = << >>
  <2>1. \A x \in LoginAsked : x.cmd = "LOGIN"
    BY DEF LoginAsked
  <2> QED
    BY <2>1, Reading DEF Line, Talk
<1>3. u \in 1 .. Len(heap) /\ u # 0 /\ sv[c].op = "none"
  BY DEF ThreadOK, Threads, ThreadControl
<1>4. CASE heap' = [heap EXCEPT ![u].dir = r.val] /\ Changing(c, "CD", r.val, u) /\ UNCHANGED toCl
  <2> DEFINE th == [sv[c] EXCEPT !.pc = "remove", !.op = "CD", !.val = r.val, !.arg = u]
  <2>1. sv' = [sv EXCEPT ![c] = th]
    BY <1>4 DEF Changing
  <2>2. th.pc = "remove" /\ th.op = "CD" /\ th.user = u
    BY DEF Threads
  <2> HIDE DEF th
  <2>3. Current' = Current
    BY <1>1, <2>1, SameCurrent
  <2>4. heap'[Current].token = heap[Current].token
    <3>1. heap[u] \in Objects
      BY <1>3, Typing
    <3> QED
      BY <1>1, <1>3, <1>4, <3>1 DEF Objects
  <2>5. Work(th, Current) /\ Owns(th, Current) /\ Owns(sv[c], Current)
    BY <1>1, <1>3, <2>2 DEF Work, New, Owns
  <2>6. heap[Current].token
    BY <2>5 DEF Sole
  <2>7. Talk(th, Current, cl[c], toSrv'[c], toCl'[c])
    BY <1>1, <1>2, <1>4, <2>2, Taken DEF Talk, Commanding, Changers
  <2>8. OneOK(c, th)
    BY <1>1, <1>4, <2>1, <2>3, <2>4, <2>5, <2>6, <2>7, Taken DEF OneOK
  <2> QED
    BY <2>8, OneStep DEF Clean
<1>5. CASE Reply(c, "Bad Request") /\ UNCHANGED <<heap, sv>>
  <2> DEFINE th == sv[c]
  <2>1. sv' = sv /\ sv[c] = th
    BY <1>5
  <2>2. th.pc = "idle" /\ th.user = Current
    BY <1>1
  <2>3. Work(th, Current) /\ (Owns(th, Current) => Owns(sv[c], Current))
    OBVIOUS
  <2>4. /\ \A d \in Conns : d # c => toCl'[d] = toCl[d]
        /\ cl[c].pc = "closed" => toCl'[c] = << >>
        /\ cl[c].pc # "closed" => toCl'[c] = <<"Bad Request">>
    <3>1. CASE cl[c].pc = "closed"
      BY <1>2, <1>5, <3>1, SameReply
    <3>2. CASE cl[c].pc # "closed"
      <4>1. toCl' = [toCl EXCEPT ![c] = Append(@, "Bad Request")]
        BY <1>5, <3>2, SameReply
      <4>2. Append(<< >>, "Bad Request") = <<"Bad Request">>
        BY OneElement
      <4> QED
        BY <1>2, <3>2, <4>1, <4>2
    <3> QED
      BY <3>1, <3>2
  <2> HIDE DEF th
  <2>5. Talk(th, Current, cl[c], toSrv'[c], toCl'[c])
    BY <1>1, <1>2, <2>2, <2>4, Taken DEF Talk, Commanding, Serves
  <2> QED
    BY <1>1, <1>5, <2>1, <2>3, <2>4, <2>5, ReplyOne, Taken
<1>6. CASE Dies(c) /\ UNCHANGED toCl
  BY <1>6, DiesOne
<1> QED
  BY <1>4, <1>5, <1>6 DEF HandleCd

LEMMA HandleRequestOne ==
  ASSUME Clean, NEW c \in Conns, HandleRequest(c), ~disputed'
  PROVE  OneInv'
<1> USE Cleanly
<1> DEFINE r == Head(toSrv[c])
<1>1. /\ sv[c].pc = "idle" /\ toSrv[c] # << >>
      /\ inSet' = inSet /\ monitor' = monitor /\ cl' = cl
  BY DEF HandleRequest
<1>2. sv[c].user # 0 /\ ~InMonitor(sv[c])
  BY <1>1 DEF ThreadOK, InMonitor
<1>3. cl[c].pc # "closed" =>
        r.cmd \in {"LOGIN", "CH-PASS", "CD", "FILES"} /\ r.tok # "null"
  <2>1. \A x \in LoginAsked : x.cmd = "LOGIN" /\ x.tok = "empty"
    BY DEF LoginAsked
  <2> QED
    BY <1>1, <2>1, Reading
<1>4. CASE r.cmd \in {"EOF", "ABORT"} /\ EndSession(c) /\ UNCHANGED <<toCl, history>>
  BY <1>1, <1>2, <1>3, <1>4, EndSessionOne
<1>5. CASE r.tok = "null" /\ NullToken(c)
  BY <1>1, <1>2, <1>3, <1>5, DiesOne DEF NullToken
<1>6. CASE Unauthorized(c)
  <2>1. ReplyFails(c) /\ EndSession(c)
    BY <1>6 DEF Unauthorized
  <2> QED
    BY <1>1, <1>2, <2>1, EndSessionOne DEF ReplyFails
<1>7. CASE r.cmd = "LOGIN" /\ LoginRequest(c, TRUE)
  BY <1>1, <1>2, <1>7, LoginRequestOne
<1>8. CASE r.cmd = "CH-PASS" /\ ChangePassword(c, r)
  <2>1. CASE NewPassword(c, r)
    BY <1>1, <1>8, <2>1, NewPasswordOne
  <2>2. CASE Dies(c) /\ UNCHANGED toCl
    BY <1>1, <1>8, <2>2, DiesOne
  <2> QED
    BY <1>8, <2>1, <2>2 DEF ChangePassword
<1>9. CASE r.cmd = "CD" /\ HandleCd(c, r)
  BY <1>1, <1>9, HandleCdOne
<1>10. CASE r.cmd = "FILES" /\ HandleFiles(c)
  BY <1>1, <1>10, HandleFilesOne
<1> QED
  BY <1>4, <1>5, <1>6, <1>7, <1>8, <1>9, <1>10 DEF HandleRequest

LEMMA ResetOne ==
  ASSUME Clean, NEW c \in Conns, Reset(c)
  PROVE  OneInv'
<1>1. sv[c].user # 0 /\ ~InMonitor(sv[c])
  BY Cleanly DEF Reset, ThreadOK, InMonitor
<1> QED
  BY <1>1, EndSessionOne DEF Reset

-----------------------------------------------------------------------------
(* The clients. *)

\* A client that sends or takes something, and leaves the server alone.
LEMMA ClientOne ==
  ASSUME Clean, NEW c \in Conns, NEW th,
         sv' = [sv EXCEPT ![c] = th] \/ (sv' = sv /\ sv[c] = th), ~InMonitor(sv[c]),
         heap' = heap, inSet' = inSet, monitor' = monitor,
         \A d \in Conns : d # c =>
           cl'[d] = cl[d] /\ toSrv'[d] = toSrv[d] /\ toCl'[d] = toCl[d],
         Owns(th, Current) => Owns(sv[c], Current), Work(th, Current),
         Talk(th, Current, cl'[c], toSrv'[c], toCl'[c])
  PROVE  OneInv'
<1>1. Current' = Current
  BY SameCurrent DEF Clean
<1>2. Owns(sv[c], Current) => heap[Current].token
  BY Cleanly DEF Sole
<1> OneOK(c, th)
  BY <1>1, <1>2 DEF OneOK
<1> QED
  BY OneStep DEF Clean

\* The same for one whose thread may be in the monitor.
LEMMA ClientTalk ==
  ASSUME Clean, NEW c \in Conns, UNCHANGED <<ServerVars, sv>>,
         \A d \in Conns : d # c =>
           cl'[d] = cl[d] /\ toSrv'[d] = toSrv[d] /\ toCl'[d] = toCl[d],
         Talk(sv[c], Current, cl'[c], toSrv'[c], toCl'[c])
  PROVE  OneInv'
<1> DEFINE th == sv[c]
<1>1. heap' = heap /\ inSet' = inSet /\ monitor' = monitor /\ sv' = sv /\ sv[c] = th
  BY DEF ServerVars
<1>2. Current' = Current
  BY <1>1 DEF Current
<1>3. (Owns(sv[c], Current) => heap[Current].token) /\ Work(th, Current)
  BY Cleanly DEF Sole
<1> OneOK(c, th)
  BY <1>1, <1>2, <1>3 DEF OneOK
<1> QED
  BY OneStep DEF Clean

LEMMA ConnectOne ==
  ASSUME Clean, NEW c \in Conns, Connect(c)
  PROVE  OneInv'
<1> USE Cleanly
<1> DEFINE th == [NoThread EXCEPT !.pc = "first"]
<1>1. /\ cl[c].pc = "closed" /\ sv[c].pc \in {"off", "dead"} /\ sv' = [sv EXCEPT ![c] = th]
      /\ heap' = heap /\ inSet' = inSet /\ monitor' = monitor /\ toCl' = toCl
      /\ toSrv' = [toSrv EXCEPT ![c] = << >>]
  BY DEF Connect, ServerVars
<1>2. th.pc = "first" /\ th.user = 0 /\ th.op = "none"
  BY DEF NoThread
<1> HIDE DEF th
<1>3. Work(th, Current) /\ ~Owns(th, Current)
  BY <1>2 DEF Work, New, Owns
<1>4. toSrv'[c] = << >> /\ toCl[c] = << >>
  BY <1>1 DEF Line, Talk
<1>5. (\A d \in Conns : d # c => cl'[d] = cl[d]) /\ cl'[c].pc = "prompt"
  BY DEF Connect
<1>6. Talk(th, Current, cl'[c], toSrv'[c], toCl'[c])
  BY <1>1, <1>2, <1>4, <1>5, AskedNone DEF Talk
<1>7. ~InMonitor(sv[c])
  BY <1>1 DEF InMonitor
<1> QED
  BY <1>1, <1>3, <1>5, <1>6, <1>7, ClientOne

LEMMA SendLoginOne ==
  ASSUME Clean, NEW c \in Conns, SendLogin(c)
  PROVE  OneInv'
<1> USE Cleanly
<1>1. PICK p \in Passwords : Send(c, [cmd |-> "LOGIN", tok |-> "empty", val |-> p])
  BY DEF SendLogin
<1> DEFINE r == [cmd |-> "LOGIN", tok |-> "empty", val |-> p]
<1>2. /\ cl[c].pc = "prompt" /\ cl' = [cl EXCEPT ![c].pc = "login"] /\ toCl' = toCl
      /\ UNCHANGED <<ServerVars, sv>>
  BY DEF SendLogin
<1>3. toSrv[c] = << >> /\ toCl[c] = << >> /\ sv[c].pc \in {"first", "login", "idle"}
  BY <1>2 DEF Line, Talk
<1>4. r \in LoginAsked /\ r.cmd = "LOGIN"
  BY DEF LoginAsked
<1> HIDE DEF r
<1>5. toSrv' = [toSrv EXCEPT ![c] = Append(@, r)]
  BY <1>1 DEF Send, r
<1>6. toSrv'[c] = <<r>>
  <2>1. Append(<< >>, r) = <<r>>
    BY OneElement
  <2> QED
    BY <1>3, <1>5, <2>1
<1>7. Asked(sv[c], Current, <<r>>)
  BY <1>4 DEF Asked
<1>8. cl'[c].pc = "login"
  BY <1>2, ClientTyping DEF Clients
<1>9. Talk(sv[c], Current, cl'[c], toSrv'[c], toCl'[c])
  BY <1>2, <1>3, <1>4, <1>6, <1>7, <1>8 DEF Talk, Logging
<1> QED
  BY <1>2, <1>5, <1>9, ClientTalk

LEMMA LoginReplyOne ==
  ASSUME Clean, NEW c \in Conns, LoginReply(c)
  PROVE  OneInv'
<1> USE Cleanly
<1>1. /\ cl[c].pc = "login" /\ toCl[c] # << >> /\ toSrv' = toSrv
      /\ toCl' = [toCl EXCEPT ![c] = Tail(@)] /\ UNCHANGED <<ServerVars, sv>>
  BY DEF LoginReply
<1>2. /\ toSrv[c] = << >>
      /\ \/ toCl[c] = <<"OK">> /\ Serves(sv[c], Current) /\ sv[c].pc = "idle"
         \/ toCl[c] = <<"Unauthorized">> /\ sv[c].pc = "login"
  BY <1>1 DEF Line, Talk, Logging, Serves
<1>3. toCl'[c] = << >> /\ Head(toCl[c]) = (IF sv[c].pc = "idle" THEN "OK" ELSE "Unauthorized")
  <2>1. \A x : Head(<<x>>) = x /\ Tail(<<x>>) = << >>
    BY OneElement
  <2> QED
    BY <1>1, <1>2, <2>1
<1>4. cl[c] \in Clients
  BY ClientTyping
<1>5. /\ \A d \in Conns : d # c => cl'[d] = cl[d] /\ toCl'[d] = toCl[d]
      /\ sv[c].pc = "idle" => cl'[c].pc = "ready" /\ cl'[c].tok = "user"
      /\ sv[c].pc = "login" => cl'[c].pc = "prompt"
  <2>1. CASE sv[c].pc = "idle"
    <3>1. cl' = [cl EXCEPT ![c].pc = "ready", ![c].tok = "user"]
      BY <1>3, <2>1 DEF LoginReply
    <3> QED
      BY <1>1, <1>4, <2>1, <3>1 DEF Clients
  <2>2. CASE sv[c].pc = "login"
    <3>1. cl' = [cl EXCEPT ![c].pc = "prompt"]
      BY <1>3, <2>2 DEF LoginReply
    <3> QED
      BY <1>1, <1>4, <2>2, <3>1 DEF Clients
  <2> QED
    BY <1>2, <2>1, <2>2
<1>6. Talk(sv[c], Current, cl'[c], toSrv'[c], toCl'[c])
  BY <1>1, <1>2, <1>3, <1>5, AskedNone DEF Talk
<1> QED
  BY <1>1, <1>5, <1>6, ClientTalk

LEMMA SendCommandOne ==
  ASSUME Clean, NEW c \in Conns, SendCommand(c)
  PROVE  OneInv'
<1> USE Cleanly
<1>1. PICK r \in CommandsTyped(cl[c].tok) :
        Send(c, r) /\ cl' = [cl EXCEPT ![c].pc = "wait", ![c].last = r]
  BY DEF SendCommand
<1>2. cl[c].pc = "ready" /\ toCl' = toCl /\ UNCHANGED <<ServerVars, sv>>
  BY DEF SendCommand
<1>3. /\ toSrv[c] = << >> /\ toCl[c] = << >> /\ Serves(sv[c], Current)
      /\ cl[c].tok = "user" /\ sv[c].pc # "off"
  BY <1>2 DEF Line, Talk, Serves
<1>4. r.cmd \in Asks /\ r.tok = "user"
  BY <1>1, <1>3 DEF CommandsTyped
<1>5. toSrv' = [toSrv EXCEPT ![c] = Append(@, r)]
  BY <1>1 DEF Send
<1>6. toSrv'[c] = <<r>>
  <2>1. Append(<< >>, r) = <<r>>
    BY OneElement
  <2> QED
    BY <1>3, <1>5, <2>1
<1>7. Asked(sv[c], Current, <<r>>)
  BY <1>3 DEF Asked
<1>8. cl'[c].pc = "wait" /\ cl'[c].last = r /\ cl'[c].tok = "user"
  BY <1>1, <1>3, ClientTyping DEF Clients
<1>9. Talk(sv[c], Current, cl'[c], toSrv'[c], toCl'[c])
  BY <1>2, <1>3, <1>4, <1>6, <1>7, <1>8 DEF Talk, Commanding
<1> QED
  BY <1>1, <1>2, <1>5, <1>9, ClientTalk

\* A command is never refused while no token is disputed.
LEMMA CommandReplyOne ==
  ASSUME Clean, NEW c \in Conns, CommandReply(c)
  PROVE  OneInv'
<1> USE Cleanly
<1>1. /\ cl[c].pc = "wait" /\ toCl[c] # << >>
      /\ toCl' = [toCl EXCEPT ![c] = Tail(@)] /\ UNCHANGED <<ServerVars, sv>>
  BY DEF CommandReply
<1>2. /\ toSrv[c] = << >> /\ cl[c].tok = "user"
      /\ \/ cl[c].last.cmd = "CH-PASS" /\ toCl[c] = <<"OK">> /\ sv[c].pc = "idle"
         \/ /\ cl[c].last.cmd \in {"CD", "FILES"} /\ Serves(sv[c], Current)
            /\ toCl[c] = <<"OK">> \/ toCl[c] = <<"Bad Request">>
  BY <1>1 DEF Line, Talk, Commanding
<1>3. toCl'[c] = << >> /\ Head(toCl[c]) # "Unauthorized"
  <2>1. \A x : Head(<<x>>) = x /\ Tail(<<x>>) = << >>
    BY OneElement
  <2> QED
    BY <1>1, <1>2, <2>1
<1>4. cl[c] \in Clients
  BY ClientTyping
<1>5. CASE cl[c].last.cmd = "CH-PASS"
  <2>1. cl' = [cl EXCEPT ![c].pc = "prompt", ![c].tok = "empty"] /\ toSrv' = toSrv
    BY <1>3, <1>5 DEF CommandReply
  <2>2. cl'[c].pc = "prompt" /\ sv[c].pc = "idle"
    BY <1>2, <1>4, <1>5, <2>1 DEF Clients
  <2>3. Talk(sv[c], Current, cl'[c], toSrv'[c], toCl'[c])
    BY <1>2, <1>3, <2>1, <2>2, AskedNone DEF Talk
  <2> QED
    BY <1>1, <2>1, <2>3, ClientTalk
<1>6. CASE cl[c].last.cmd \in {"CD", "FILES"}
  <2>1. cl' = [cl EXCEPT ![c].pc = "ready"] /\ toSrv' = toSrv
    BY <1>3, <1>6 DEF CommandReply
  <2>2. cl'[c].pc = "ready" /\ cl'[c].tok = "user" /\ Serves(sv[c], Current)
    BY <1>2, <1>4, <1>6, <2>1 DEF Clients
  <2>3. Talk(sv[c], Current, cl'[c], toSrv'[c], toCl'[c])
    BY <1>2, <1>3, <2>1, <2>2, AskedNone DEF Talk, Serves
  <2> QED
    BY <1>1, <2>1, <2>3, ClientTalk
<1> QED
  BY <1>2, <1>5, <1>6

LEMMA AskedAppend ==
  ASSUME NEW requests \in Seq(Requests), NEW r \in Requests, r.cmd \notin Asks,
         NEW th, NEW u, Asked(th, u, requests)
  PROVE  Append(requests, r) \in Seq(Requests) /\ Asked(th, u, Append(requests, r))
<1>1. /\ Append(requests, r) \in Seq(Requests) /\ Len(requests) \in Nat
      /\ Len(Append(requests, r)) = Len(requests) + 1
      /\ Append(requests, r)[Len(requests) + 1] = r
      /\ \A i \in 1 .. Len(requests) : Append(requests, r)[i] = requests[i]
  BY AppendProperties, LenProperties
<1> QED
  BY <1>1 DEF Asked

LEMMA LeaveOne ==
  ASSUME Clean, NEW c \in Conns, Leave(c)
  PROVE  OneInv'
<1> USE Cleanly
<1> DEFINE abort == [cmd |-> "ABORT", tok |-> cl[c].tok, val |-> "none"]
<1>1. /\ cl[c].pc # "closed" /\ cl' = [cl EXCEPT ![c].pc = "closed"]
      /\ toCl' = [toCl EXCEPT ![c] = << >>] /\ UNCHANGED <<ServerVars, sv>>
      /\ \/ toSrv' = [toSrv EXCEPT ![c] = Append(@, EOF)]
         \/ toSrv' = [toSrv EXCEPT ![c] = @ \o <<abort, EOF>>]
  BY DEF Leave, Send
<1>2. Asked(sv[c], Current, toSrv[c]) /\ sv[c].pc # "off"
  BY <1>1 DEF Line, Talk
<1>3. EOF \in Requests /\ EOF.cmd = "EOF" /\ abort \in Requests /\ abort.cmd = "ABORT"
  BY EOFType, ClientTyping DEF EOF, Requests, Clients
<1> HIDE DEF abort
<1>4. toSrv[c] \o <<abort, EOF>> = Append(Append(toSrv[c], abort), EOF)
  BY <1>3
<1>5. Asked(sv[c], Current, toSrv'[c])
  <2>1. Asked(sv[c], Current, Append(toSrv[c], EOF))
    BY <1>2, <1>3, AskedAppend
  <2>2. Asked(sv[c], Current, Append(Append(toSrv[c], abort), EOF))
    BY <1>2, <1>3, AskedAppend
  <2> QED
    BY <1>1, <1>4, <2>1, <2>2
<1>6. cl'[c].pc = "closed" /\ toCl'[c] = << >>
  BY <1>1, ClientTyping DEF Clients
<1>7. Talk(sv[c], Current, cl'[c], toSrv'[c], toCl'[c])
  BY <1>1, <1>2, <1>5, <1>6 DEF Talk
<1> QED
  BY <1>1, <1>7, ClientTalk

-----------------------------------------------------------------------------
(* The invariant. *)

\* Nothing but a connection's buffers was on the server when it starts again.
LEMMA CrashOne ==
  ASSUME TypeInv, Crash
  PROVE  OneInv'
<1>1. /\ \A c \in Conns : /\ sv'[c] = NoThread /\ toSrv'[c] = << >> /\ toCl'[c] = << >>
                          /\ cl'[c].pc = "closed"
      /\ monitor' = "none"
  BY ClientTyping DEF Crash, Clients
<1>2. NoThread.pc = "off" /\ NoThread.user = 0 /\ NoThread.op = "none"
  BY DEF NoThread
<1>3. ASSUME NEW c \in Conns
      PROVE  /\ ~Owns(sv'[c], Current') /\ Work(sv'[c], Current')
             /\ Talk(sv'[c], Current', cl'[c], toSrv'[c], toCl'[c])
  BY <1>1, <1>2, AskedNone DEF Owns, Work, New, Talk
<1> QED
  BY <1>3 DEF OneInv, Sole, Line

LEMMA InitOne == Init => OneInv
<1> SUFFICES ASSUME Init PROVE OneInv
  OBVIOUS
<1>1. \A c \in Conns : /\ sv[c] = NoThread /\ toSrv[c] = << >> /\ toCl[c] = << >>
                       /\ cl[c].pc = "closed"
  BY DEF Init
<1>2. NoThread.pc = "off" /\ NoThread.user = 0 /\ NoThread.op = "none"
  BY DEF NoThread
<1>3. ASSUME NEW c \in Conns
      PROVE  ~Owns(sv[c], Current) /\ Work(sv[c], Current) /\ Line(c)
  BY <1>1, <1>2, AskedNone DEF Owns, Work, New, Talk, Line
<1> QED
  BY <1>3 DEF OneInv, Sole

\* What was disputed once stays so.
LEMMA StaysDisputed == [Next]_vars /\ disputed => disputed'
<1> SUFFICES ASSUME [Next]_vars, disputed PROVE disputed'
  OBVIOUS
<1>1. ASSUME NEW c \in Conns, Client(c) PROVE disputed'
  BY <1>1 DEF Client, Connect, SendLogin, LoginReply, SendCommand, CommandReply, Leave,
     ServerVars, history
<1>2. ASSUME NEW c \in Conns, NEW again, LoginRequest(c, again) PROVE disputed'
  BY <1>2 DEF LoginRequest, history
<1>3. ASSUME NEW c \in Conns, Login(c) PROVE disputed'
  BY <1>2, <1>3 DEF Login, history
<1>4. ASSUME NEW c \in Conns, HandleRequest(c) PROVE disputed'
  BY <1>2, <1>4 DEF HandleRequest, NullToken, Unauthorized, ChangePassword,
     NewPassword, HandleCd, HandleFiles, Dies, history
<1>5. ASSUME NEW c \in Conns, Server(c) PROVE disputed'
  BY <1>3, <1>4, <1>5 DEF Server, Claim, RemoveOld, AddNew, WriteRecord, LoginDone, PasswordDone,
     DirectoryDone, SaveDirectory, Reset, history
<1>6. CASE Crash
  BY <1>6 DEF Crash, history
<1>7. CASE UNCHANGED vars
  BY <1>7 DEF vars
<1> QED
  BY <1>1, <1>5, <1>6, <1>7 DEF Next

LEMMA NextOne == TypeInv /\ HeldInv /\ OneInv /\ [Next]_vars => OneInv'
<1> SUFFICES ASSUME TypeInv, HeldInv, OneInv, [Next]_vars, ~disputed' PROVE OneInv'
  BY DEF OneInv
<1>1. Clean
  BY StaysDisputed DEF Clean
<1>2. ASSUME NEW c \in Conns, Client(c) PROVE OneInv'
  BY <1>1, <1>2, ConnectOne, SendLoginOne, LoginReplyOne, SendCommandOne, CommandReplyOne,
     LeaveOne DEF Client
<1>3. ASSUME NEW c \in Conns, Server(c) PROVE OneInv'
  BY <1>1, <1>3, LoginOne, ClaimOne, RemoveOldOne, AddNewOne, WriteRecordOne, LoginDoneOne,
     PasswordDoneOne, DirectoryDoneOne, SaveDirectoryOne, HandleRequestOne, ResetOne DEF Server
<1>4. CASE Crash
  BY <1>4, CrashOne
<1>5. CASE UNCHANGED vars
  <2>1. Current' = Current
    BY <1>5 DEF vars, Current
  <2> QED
    BY <1>5, <2>1 DEF vars, OneInv, Sole, Line
<1> QED
  BY <1>2, <1>3, <1>4, <1>5 DEF Next

LEMMA OneInSession == TypeInv /\ OneInv => OneSession
<1> SUFFICES ASSUME TypeInv, OneInv, ~disputed, NEW c \in Conns, NEW d \in Conns,
                    InSession(c), InSession(d)
             PROVE  c = d
  BY DEF OneSession
<1>1. ASSUME NEW e \in Conns, InSession(e) PROVE Owns(sv[e], Current)
  <2>1. /\ Line(e) /\ Work(sv[e], Current) /\ ThreadOK(sv[e], 0 .. Len(heap))
        /\ ThreadControl(sv[e])
    BY Cleanly DEF Clean
  <2>2. Serves(sv[e], Current) \/ sv[e].op = "CD"
    BY <1>1, <2>1 DEF InSession, Line, Talk, Commanding, Serves, ThreadControl
  <2>3. sv[e].user = Current /\ sv[e].user # 0
    BY <2>1, <2>2 DEF Serves, Work, ThreadOK
  <2> QED
    BY <2>3 DEF Owns
<1> QED
  BY <1>1 DEF OneInv, Sole

\* Two clients are never in session on one account (Auth.java:115-116), however
\* logins, changes of password and of directory, departures and restarts
\* interleave, unless two logins overlapped or a refused request made a session
\* go on without its token.
THEOREM NeverTwoSessions == Spec => []OneSession
<1>1. Init => TypeInv /\ HeldInv /\ OneInv
  BY InitTypeInv, InitHeld, InitOne
<1>2. TypeInv /\ HeldInv /\ OneInv /\ [Next]_vars => TypeInv' /\ HeldInv' /\ OneInv'
  BY NextTypeInv, NextHeld, NextOne
<1>3. TypeInv /\ OneInv => OneSession
  BY OneInSession
<1> QED
  BY <1>1, <1>2, <1>3, PTL DEF Spec
=============================================================================
