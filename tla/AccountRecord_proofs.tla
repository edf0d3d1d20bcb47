------------------------ MODULE AccountRecord_proofs ------------------------
(***************************************************************************)
(* That the account's file follows its record (DiskAgrees), and that what  *)
(* the record holds was handed over for replication (HandedOver), for      *)
(* every set of connections, passwords and directories and every bound.    *)
(***************************************************************************)
EXTENDS OneSession_proofs

USE DEF Asks

\* A login that has the token and will write the record.
Behind(th, u) == th.op = "LOGIN" /\ th.pc \in {"remove", "add"} /\ th.arg = u

\* A change of directory that is not in a buffer yet.
Moved(th) == th.op = "CD" /\ th.pc \in {"remove", "add"}

Writing(th) == th.pc \in {"write", "save"}

\* A thread that has nothing to do with what the file or the record becomes.
Plain(th) == ~Writing(th) /\ ~Moved(th) /\ ~New(th)

\* While a change of password is written, whoever owns the new object waits to
\* write it.
Queued ==
  \A c \in Conns : sv[c].op = "CH-PASS" /\ sv[c].pc = "write" =>
    /\ \A d \in Conns : Owns(sv[d], Current) => Behind(sv[d], Current)
    /\ heap[Current].token => \E d \in Conns : Behind(sv[d], Current)

\* changeUsers writes the record it removed, which has the right directory.
Buffered(th, record) ==
  /\ th.pc = "write" =>
       /\ th.buf # Torn /\ th.buf.dir = record.dir
       /\ th.op # "CH-PASS" => th.buf = record
  /\ th.pc = "save" => th.buf = record

\* The object a change of password adds has the directory of the one it replaces.
Copied == \A c \in Conns : New(sv[c]) => heap[sv[c].arg].dir = heap[Current].dir

OnDisk ==
  (\A c \in Conns : ~Writing(sv[c]) /\ ~Moved(sv[c])) =>
    /\ file # Torn /\ file.dir = heap[Current].dir
    /\ heap[Current].token =>
         file = Record(Current) \/ \E c \in Conns : Behind(sv[c], Current)

DiskOK ==
  Queued /\ Copied /\ OnDisk /\ \A c \in Conns : Buffered(sv[c], Record(Current))
DiskInv == ~disputed /\ Current # 0 => DiskOK

-----------------------------------------------------------------------------
(* A step of one thread. *)

LEMMA OneThread ==
  ASSUME TypeInv, NEW c \in Conns, NEW th,
         sv' = [sv EXCEPT ![c] = th] \/ (sv' = sv /\ sv[c] = th)
  PROVE  sv'[c] = th /\ \A d \in Conns : d # c => sv'[d] = sv[d]
BY DEF TypeInv, TypeOK

\* What a step of c, which leaves it as th, has to show when it neither changes
\* a record nor its way to the file.
DiskSafe(c, th) ==
  /\ sv' = [sv EXCEPT ![c] = th] \/ (sv' = sv /\ sv[c] = th)
  /\ file' = file /\ Current' = Current
  /\ Current # 0 =>
       /\ heap'[Current].pass = heap[Current].pass
       /\ heap'[Current].dir = heap[Current].dir
       /\ heap'[Current].token => heap[Current].token \/ Behind(th, Current)
  /\ \A d \in Conns : New(sv[d]) => heap'[sv[d].arg].dir = heap[sv[d].arg].dir
  /\ ~Writing(sv[c]) /\ ~Writing(th)
  /\ Moved(sv[c]) => Moved(th)
  /\ Moved(th) => Moved(sv[c])
  /\ New(th) => \/ New(sv[c]) /\ th.arg = sv[c].arg
                \/ heap'[th.arg].dir = heap[Current].dir
  /\ Behind(sv[c], Current) => Behind(th, Current)
  /\ Owns(th, Current) => Owns(sv[c], Current) \/ Behind(th, Current)

LEMMA DiskStep ==
  ASSUME Clean, DiskInv, NEW c \in Conns, NEW th, DiskSafe(c, th)
  PROVE  DiskInv'
<1> SUFFICES ASSUME Current # 0 PROVE DiskOK'
  BY DEF DiskInv, DiskSafe
<1>1. sv'[c] = th /\ \A d \in Conns : d # c => sv'[d] = sv[d]
  BY OneThread DEF Clean, DiskSafe
<1>2. /\ \A d \in Conns : Behind(sv[d], Current) => Behind(sv'[d], Current)
      /\ \A d \in Conns : Owns(sv'[d], Current) =>
                            Owns(sv[d], Current) \/ Behind(sv'[d], Current)
      /\ \A d \in Conns : Writing(sv[d]) \/ Writing(sv'[d]) => sv'[d] = sv[d]
      /\ \A d \in Conns : Moved(sv'[d]) <=> Moved(sv[d])
  BY <1>1 DEF DiskSafe
<1>3. Record(Current)' = Record(Current)
  BY DEF Record, DiskSafe
<1>4. DiskOK
  BY DEF DiskInv, Clean
<1>5. Queued'
  <2> SUFFICES ASSUME NEW e \in Conns, sv'[e].op = "CH-PASS", sv'[e].pc = "write"
               PROVE  /\ \A d \in Conns : Owns(sv'[d], Current) => Behind(sv'[d], Current)
                      /\ heap'[Current].token => \E d \in Conns : Behind(sv'[d], Current)
    BY DEF Queued, DiskSafe
  <2>1. sv[e].op = "CH-PASS" /\ sv[e].pc = "write"
    BY <1>1, <1>2 DEF Writing, DiskSafe
  <2>2. /\ \A d \in Conns : Owns(sv[d], Current) => Behind(sv[d], Current)
        /\ heap[Current].token => \E d \in Conns : Behind(sv[d], Current)
    BY <1>4, <2>1 DEF DiskOK, Queued
  <2> QED
    BY <1>1, <1>2, <2>2 DEF DiskSafe
<1>6. Copied'
  <2> SUFFICES ASSUME NEW d \in Conns, New(sv'[d])
               PROVE  heap'[sv'[d].arg].dir = heap'[Current].dir
    BY DEF Copied, DiskSafe
  <2>1. New(sv[d]) => heap[sv[d].arg].dir = heap[Current].dir
    BY <1>4 DEF DiskOK, Copied
  <2> QED
    BY <1>1, <2>1 DEF DiskSafe
<1>7. OnDisk'
  <2> SUFFICES ASSUME \A d \in Conns : ~Writing(sv'[d]) /\ ~Moved(sv'[d])
               PROVE  /\ file' # Torn /\ file'.dir = heap'[Current].dir
                      /\ heap'[Current].token =>
                           file' = Record(Current)' \/ \E d \in Conns : Behind(sv'[d], Current)
    BY DEF OnDisk, DiskSafe
  <2>1. \A d \in Conns : ~Writing(sv[d]) /\ ~Moved(sv[d])
    BY <1>2
  <2> QED
    BY <1>1, <1>2, <1>3, <1>4, <2>1 DEF DiskOK, OnDisk, DiskSafe
<1>8. \A d \in Conns : Buffered(sv'[d], Record(Current)')
  BY <1>2, <1>3, <1>4 DEF DiskOK, Buffered, Writing, DiskSafe
<1> QED
  BY <1>5, <1>6, <1>7, <1>8 DEF DiskOK, DiskSafe

\* A step of a thread while no other has anything to do with record and file.
LEMMA DiskAlone ==
  ASSUME Clean, NEW c \in Conns, NEW th,
         sv' = [sv EXCEPT ![c] = th] \/ (sv' = sv /\ sv[c] = th),
         \A d \in Conns : d # c => Plain(sv[d]),
         ~(th.op = "CH-PASS" /\ th.pc = "write"), ~New(th),
         NEW record, record = Record(Current)', Buffered(th, record),
         ~Writing(th) /\ ~Moved(th) => file' = record /\ record # Torn
  PROVE  DiskOK'
<1>1. sv'[c] = th /\ \A d \in Conns : d # c => sv'[d] = sv[d]
  BY OneThread DEF Clean
<1>2. Queued' /\ Copied'
  BY <1>1 DEF Queued, Copied, Plain, Writing
<1>3. record.dir = heap'[Current'].dir
  BY DEF Record
<1>4. OnDisk'
  BY <1>1, <1>3 DEF OnDisk
<1>5. \A d \in Conns : Buffered(sv'[d], record)
  BY <1>1 DEF Buffered, Plain, Writing
<1> QED
  BY <1>2, <1>4, <1>5 DEF DiskOK

\* While the owner does not wait to write, nobody else changes anything.
LEMMA OnlyOwner ==
  ASSUME Clean, DiskInv, NEW c \in Conns, Owns(sv[c], Current), ~Behind(sv[c], Current),
         NEW d \in Conns, d # c
  PROVE  Plain(sv[d])
<1> USE Cleanly
<1>1. ~Owns(sv[d], Current) /\ Current # 0
  BY DEF Sole, Owns
<1>2. ~New(sv[d]) /\ sv[d].op # "CD"
  BY <1>1 DEF Work, Owns
<1>3. sv[d].pc # "write"
  <2>1. CASE sv[d].op = "LOGIN"
    BY <1>1, <2>1 DEF Work, Owns, Changers
  <2>2. CASE sv[d].op = "CH-PASS"
    BY <1>1, <2>2 DEF DiskInv, DiskOK, Queued, Clean
  <2> QED
    BY <1>2, <2>1, <2>2 DEF ThreadControl, Changers
<1>4. sv[d].pc # "save"
  BY <1>2 DEF ThreadControl
<1> QED
  BY <1>2, <1>3, <1>4 DEF Plain, Writing, Moved

\* Nor does anybody while the owner is in the monitor.
LEMMA OnlyInMonitor ==
  ASSUME Clean, NEW c \in Conns, Owns(sv[c], Current), InMonitor(sv[c]),
         NEW d \in Conns, d # c
  PROVE  Plain(sv[d])
<1> USE Cleanly
<1>1. ~Owns(sv[d], Current) /\ Current # 0
  BY DEF Sole, Owns
<1>2. ~New(sv[d]) /\ sv[d].op # "CD"
  BY <1>1 DEF Work, Owns
<1>3. sv[d].pc \notin {"add", "write"}
  BY DEF TypeInv, MonitorOK, InMonitor
<1>4. sv[d].pc # "save"
  BY <1>2 DEF ThreadControl
<1> QED
  BY <1>2, <1>3, <1>4 DEF Plain, Writing, Moved

\* Setting a token leaves every record.
LEMMA SetTokenRecord ==
  ASSUME TypeInv, NEW u \in 1 .. Len(heap), NEW t \in BOOLEAN, SetToken(u, t)
  PROVE  \A v \in 1 .. Len(heap) :
           heap'[v].pass = heap[v].pass /\ heap'[v].dir = heap[v].dir
<1>1. heap \in Seq(Objects) /\ DOMAIN heap = 1 .. Len(heap) /\ heap[u] \in Objects
  BY LenProperties, ElementOfSeq DEF TypeInv, TypeOK
<1>2. heap' = [heap EXCEPT ![u] = [heap[u] EXCEPT !.token = t]]
  BY DEF SetToken
<1>3. /\ [heap[u] EXCEPT !.token = t].pass = heap[u].pass
      /\ [heap[u] EXCEPT !.token = t].dir = heap[u].dir
  BY <1>1 DEF Objects
<1> QED
  BY <1>1, <1>2, <1>3

-----------------------------------------------------------------------------
(* changeUsers and what comes before it. *)

LEMMA ClaimDisk ==
  ASSUME Clean, DiskInv, NEW c \in Conns, Claim(c), ~disputed'
  PROVE  DiskInv'
<1> DEFINE th == [sv[c] EXCEPT !.pc = "remove"]
<1> USE Cleanly
<1>1. /\ sv' = [sv EXCEPT ![c] = th] /\ sv[c].pc = "claim"
      /\ inSet' = inSet /\ monitor' = monitor /\ file' = file
  BY DEF Claim
<1>2. sv[c].arg \in 1 .. Len(heap) /\ sv[c].op = "LOGIN"
  BY <1>1 DEF ThreadOK, Threads, ThreadControl
<1>3. th.user = sv[c].user /\ th.arg = sv[c].arg /\ th.op = "LOGIN" /\ th.pc = "remove"
  BY <1>2 DEF Threads
<1> HIDE DEF th
<1>4. heap \in Seq(Objects) /\ SetToken(sv[c].arg, TRUE)
  BY Typing DEF Claim
<1>5. \A v \in 1 .. Len(heap) : v # sv[c].arg => heap'[v] = heap[v]
  BY <1>2, <1>4, SetTokenOK
<1>6. \A v \in 1 .. Len(heap) :
        heap'[v].pass = heap[v].pass /\ heap'[v].dir = heap[v].dir
  BY <1>2, <1>4, SetTokenRecord
<1>7. Current' = Current
  BY <1>1, SameCurrent DEF InMonitor
<1>8. /\ ~Writing(sv[c]) /\ ~Writing(th) /\ ~Moved(sv[c]) /\ ~Moved(th) /\ ~New(th)
      /\ ~Behind(sv[c], Current)
      /\ Owns(th, Current) => Owns(sv[c], Current) \/ Behind(th, Current)
      /\ Current = sv[c].arg => Behind(th, Current)
  BY <1>1, <1>3 DEF Writing, Moved, New, Behind, Owns
<1>9. \A d \in Conns : New(sv[d]) => heap'[sv[d].arg].dir = heap[sv[d].arg].dir
  BY <1>6 DEF New, ThreadOK, Threads, Changers
<1>10. DiskSafe(c, th)
  BY <1>1, <1>5, <1>6, <1>7, <1>8, <1>9 DEF DiskSafe
<1> QED
  BY <1>10, DiskStep

LEMMA RemoveOldDisk ==
  ASSUME Clean, DiskInv, NEW c \in Conns, RemoveOld(c)
  PROVE  DiskInv'
<1> DEFINE th == [sv[c] EXCEPT !.pc = "add", !.aid = inSet]
<1> USE Cleanly
<1>1. /\ sv' = [sv EXCEPT ![c] = th] /\ sv[c].pc = "remove" /\ heap' = heap
      /\ monitor = "none" /\ monitor' = c /\ file' = file
  BY DEF RemoveOld
<1>2. /\ th.user = sv[c].user /\ th.arg = sv[c].arg /\ th.op = sv[c].op /\ th.pc = "add"
      /\ th.aid = inSet
  BY DEF Threads
<1> HIDE DEF th
<1>3. sv'[c] = th
  BY <1>1 DEF TypeInv, TypeOK
<1>4. Current' = Current
  BY <1>1, <1>2, <1>3, AccountAssumption DEF Current
<1>5. /\ ~Writing(sv[c]) /\ ~Writing(th)
      /\ Moved(th) => Moved(sv[c])
      /\ Moved(sv[c]) => Moved(th)
      /\ New(th) => New(sv[c])
      /\ Behind(sv[c], Current) => Behind(th, Current)
      /\ Owns(th, Current) => Owns(sv[c], Current)
  BY <1>1, <1>2 DEF Writing, Moved, New, Behind, Owns, Changers
<1>6. DiskSafe(c, th)
  BY <1>1, <1>2, <1>4, <1>5 DEF DiskSafe
<1> QED
  BY <1>6, DiskStep

\* A login or a change of directory adds the object it removed.
LEMMA AddNewDisk ==
  ASSUME Clean, HeldInv, DiskInv, NEW c \in Conns, AddNew(c)
  PROVE  DiskInv'
<1> DEFINE th == [sv[c] EXCEPT !.pc = "write", !.buf = Record(sv[c].aid)]
<1> USE Cleanly
<1>1. /\ sv' = [sv EXCEPT ![c] = th] /\ sv[c].pc = "add" /\ heap' = heap /\ inSet' = sv[c].arg
      /\ monitor' = monitor
  BY DEF AddNew
<1>2. /\ th.user = sv[c].user /\ th.arg = sv[c].arg /\ th.op = sv[c].op /\ th.pc = "write"
      /\ th.buf = Record(sv[c].aid)
  BY DEF Threads
<1> HIDE DEF th
<1>3. monitor = c /\ c # "none" /\ sv'[c] = th /\ \A d \in Conns : d # c => sv'[d] = sv[d]
  BY <1>1, AccountAssumption DEF TypeInv, TypeOK, MonitorOK
<1>4. Current = sv[c].aid /\ Current' = sv[c].arg /\ Current # 0 /\ sv[c].arg # 0
  BY <1>1, <1>2, <1>3 DEF Current, ThreadOK, Changers
<1>5. Record(Current) \in Records /\ Record(Current) # Torn
  BY <1>4, Typing, AccountAssumption DEF AccountAssumption, Records
<1>6. DiskOK
  BY <1>4 DEF DiskInv, Clean
<1>7. CASE sv[c].op \in {"LOGIN", "CD"}
  <2>1. sv[c].arg = Current
    BY <1>1, <1>7 DEF Work, ThreadControl
  <2>2. Owns(sv[c], Current)
    BY <1>1, <1>4, <1>7, <2>1 DEF Owns, Work, Changers
  <2>3. \A d \in Conns : d # c => Plain(sv[d])
    BY <1>1, <2>2, OnlyInMonitor DEF InMonitor
  <2>4. Record(Current)' = Record(Current)
    BY <1>1, <1>4, <2>1 DEF Record
  <2>5. Buffered(th, Record(Current))
    BY <1>2, <1>4, <1>5 DEF Buffered
  <2>6. ~(th.op = "CH-PASS" /\ th.pc = "write") /\ ~New(th) /\ Writing(th)
    BY <1>2, <1>7 DEF New, Writing
  <2>7. DiskOK'
    BY <1>1, <2>3, <2>4, <2>5, <2>6, DiskAlone
  <2> QED
    BY <2>7 DEF DiskInv
<1>8. CASE sv[c].op = "CH-PASS"
  <2>1. New(sv[c]) /\ sv[c].user = Current
    BY <1>1, <1>8 DEF New, Work
  <2>2. Owns(sv[c], Current)
    BY <1>4, <2>1 DEF Owns
  <2>3. ASSUME NEW d \in Conns, d # c PROVE Plain(sv[d])
    BY <1>1, <2>2, <2>3, OnlyInMonitor DEF InMonitor
  <2>4. ASSUME NEW d \in Conns PROVE sv[d].user # sv[c].arg /\ (d # c => sv[d].arg # sv[c].arg)
    BY <2>1 DEF HeldInv, Fresh
  <2>5. ASSUME NEW d \in Conns PROVE ~Owns(sv'[d], Current')
    BY <1>2, <1>3, <1>4, <1>8, <2>4 DEF Owns
  <2>6. ~heap'[Current'].token /\ heap'[Current'].dir = heap[Current].dir
    BY <1>1, <1>4, <1>6, <2>1 DEF HeldInv, Fresh, DiskOK, Copied
  <2>7. Queued'
    BY <2>5, <2>6 DEF Queued
  <2>8. Copied'
    BY <1>2, <1>3, <2>3 DEF Copied, New, Plain
  <2>9. OnDisk'
    BY <1>2, <1>3 DEF OnDisk, Writing
  <2>10. ASSUME NEW d \in Conns PROVE Buffered(sv'[d], Record(Current)')
    <3>1. CASE d = c
      <4>1. Record(Current)'.dir = Record(Current).dir
        BY <2>6 DEF Record
      <4> QED
        BY <1>2, <1>3, <1>4, <1>5, <1>8, <3>1, <4>1 DEF Buffered
    <3>2. CASE d # c
      BY <1>3, <2>3, <3>2 DEF Buffered, Plain, Writing
    <3> QED
      BY <3>1, <3>2
  <2> QED
    BY <2>7, <2>8, <2>9, <2>10 DEF DiskInv, DiskOK
<1> QED
  BY <1>1, <1>7, <1>8 DEF ThreadControl, Changers

\* A change of password is followed by the login that owns the new object.
LEMMA WriteRecordDisk ==
  ASSUME Clean, DiskInv, NEW c \in Conns, WriteRecord(c)
  PROVE  DiskInv'
<1> DEFINE th == [sv[c] EXCEPT !.pc = "reply"]
<1> USE Cleanly
<1>1. /\ sv' = [sv EXCEPT ![c] = th] /\ sv[c].pc = "write" /\ heap' = heap /\ inSet' = inSet
      /\ monitor' = "none" /\ file' = sv[c].buf
  BY DEF WriteRecord
<1>2. /\ th.user = sv[c].user /\ th.arg = sv[c].arg /\ th.op = sv[c].op /\ th.pc = "reply"
  BY DEF Threads
<1> HIDE DEF th
<1>3. monitor = c
  BY <1>1 DEF TypeInv, MonitorOK
<1>4. Current = inSet /\ Current' = inSet
  BY <1>1, <1>3 DEF Current
<1> SUFFICES ASSUME Current # 0 PROVE DiskOK'
  BY <1>4 DEF DiskInv
<1>5. DiskOK /\ Buffered(sv[c], Record(Current)) /\ Record(Current)' = Record(Current)
  BY <1>1, <1>4 DEF DiskInv, DiskOK, Clean, Record
<1>6. CASE sv[c].op \in {"LOGIN", "CD"}
  <2>1. Owns(sv[c], Current)
    BY <1>1, <1>6 DEF Owns, Work, Changers
  <2>2. \A d \in Conns : d # c => Plain(sv[d])
    BY <1>1, <2>1, OnlyInMonitor DEF InMonitor
  <2>3. file' = Record(Current) /\ file' # Torn
    BY <1>1, <1>5, <1>6 DEF Buffered
  <2>4. Buffered(th, Record(Current)) /\ ~New(th) /\ ~(th.op = "CH-PASS" /\ th.pc = "write")
    BY <1>2 DEF Buffered, New
  <2> QED
    BY <1>1, <1>5, <2>2, <2>3, <2>4, DiskAlone
<1>7. CASE sv[c].op = "CH-PASS"
  <2>1. /\ \A d \in Conns : Owns(sv[d], Current) => Behind(sv[d], Current)
        /\ heap[Current].token => \E d \in Conns : Behind(sv[d], Current)
    BY <1>1, <1>5, <1>7 DEF DiskOK, Queued
  <2>2. sv'[c] = th /\ \A d \in Conns : d # c => sv'[d] = sv[d]
    BY <1>1, OneThread
  <2>3. ASSUME NEW d \in Conns PROVE ~Writing(sv'[d]) /\ ~New(sv'[d])
    <3>1. CASE d = c
      BY <1>2, <2>2, <3>1 DEF Writing, New
    <3>2. CASE d # c
      <4>1. sv[d].pc \notin {"add", "write"}
        BY <1>3, <3>2 DEF TypeInv, MonitorOK
      <4>2. New(sv[d]) \/ sv[d].pc = "save" => Owns(sv[d], Current)
        BY DEF Work, ThreadControl, Owns
      <4>3. New(sv[d]) \/ sv[d].pc = "save" => ~Behind(sv[d], Current)
        BY DEF Behind, New
      <4> QED
        BY <2>1, <2>2, <3>2, <4>1, <4>2, <4>3 DEF Writing
    <3> QED
      BY <3>1, <3>2
  <2>4. \A d \in Conns : Behind(sv[d], Current) => sv'[d] = sv[d]
    BY <1>1, <2>2 DEF Behind
  <2>5. Queued' /\ Copied'
    BY <2>3 DEF Queued, Copied, Writing
  <2>6. file' # Torn /\ file'.dir = heap'[Current].dir
    BY <1>1, <1>5 DEF Buffered, Record
  <2>7. heap'[Current].token => \E d \in Conns : Behind(sv'[d], Current)
    BY <1>1, <2>1, <2>4
  <2>8. OnDisk'
    BY <1>4, <2>6, <2>7 DEF OnDisk
  <2>9. \A d \in Conns : Buffered(sv'[d], Record(Current))
    BY <2>3 DEF Buffered, Writing
  <2> QED
    BY <1>5, <2>5, <2>8, <2>9 DEF DiskOK
<1> QED
  BY <1>1, <1>6, <1>7 DEF ThreadControl, Changers

-----------------------------------------------------------------------------
(* The other steps of a connection's thread. *)

\* A thread that does not change the record, and may clear a token.
LEMMA QuietDisk ==
  ASSUME Clean, DiskInv, NEW c \in Conns, NEW th,
         sv' = [sv EXCEPT ![c] = th] \/ (sv' = sv /\ sv[c] = th), ~InMonitor(sv[c]),
         Plain(sv[c]), ~Behind(sv[c], Current), Plain(th),
         Owns(th, Current) => Owns(sv[c], Current),
         file' = file, inSet' = inSet, monitor' = monitor,
         heap' = heap \/ \E u \in 1 .. Len(heap) : SetToken(u, FALSE)
  PROVE  DiskInv'
<1>1. Current' = Current
  BY SameCurrent DEF Clean
<1>2. heap \in Seq(Objects) /\ Current \in 0 .. Len(heap) /\ Len(heap) \in Nat
  BY Cleanly, LenProperties DEF TypeInv, TypeOK
<1>3. /\ \A v \in 1 .. Len(heap) :
           heap'[v].pass = heap[v].pass /\ heap'[v].dir = heap[v].dir
      /\ \A v \in 1 .. Len(heap) : heap'[v].token => heap[v].token
  <2>1. CASE heap' = heap
    BY <2>1
  <2>2. ASSUME NEW u \in 1 .. Len(heap), SetToken(u, FALSE)
        PROVE  \A v \in 1 .. Len(heap) :
                 /\ heap'[v].pass = heap[v].pass /\ heap'[v].dir = heap[v].dir
                 /\ heap'[v].token => heap[v].token
    <3>1. /\ \A v \in 1 .. Len(heap) : v # u => heap'[v] = heap[v]
          /\ heap'[u].token = FALSE
      BY <1>2, <2>2, SetTokenOK
    <3> QED
      BY <2>2, <3>1, SetTokenRecord DEF Clean
  <2> QED
    BY <2>1, <2>2
<1>4. \A d \in Conns : New(sv[d]) => sv[d].arg \in 1 .. Len(heap)
  BY Cleanly DEF New, ThreadOK, Threads, Changers
<1>5. DiskSafe(c, th)
  BY <1>1, <1>2, <1>3, <1>4 DEF DiskSafe, Plain
<1> QED
  BY <1>5, DiskStep

\* A thread that ends.
LEMMA EndDisk ==
  ASSUME Clean, DiskInv, NEW c \in Conns, End(c), sv[c].pc \in {"first", "login", "reply", "idle"},
         file' = file, inSet' = inSet, monitor' = monitor,
         heap' = heap \/ \E u \in 1 .. Len(heap) : SetToken(u, FALSE)
  PROVE  DiskInv'
<1>1. sv' = [sv EXCEPT ![c] = NoThread]
  BY DEF End
<1>2. NoThread.user = 0 /\ NoThread.op = "none" /\ NoThread.pc = "off"
  BY DEF NoThread
<1>3. ~InMonitor(sv[c]) /\ Plain(sv[c]) /\ ~Behind(sv[c], Current)
  BY DEF InMonitor, Plain, Writing, Moved, New, Behind
<1>4. Plain(NoThread) /\ ~Owns(NoThread, Current)
  BY <1>2 DEF Plain, Writing, Moved, New, Owns
<1> QED
  BY <1>1, <1>3, <1>4, QuietDisk

LEMMA EndSessionDisk ==
  ASSUME Clean, DiskInv, NEW c \in Conns, EndSession(c), sv[c].user # 0,
         sv[c].pc \in {"first", "login", "reply", "idle"},
         file' = file, inSet' = inSet, monitor' = monitor
  PROVE  DiskInv'
<1>1. sv[c].user \in 1 .. Len(heap)
  BY Cleanly DEF Threads
<1> QED
  BY <1>1, EndDisk DEF EndSession

\* A thread that dies keeps its user and its token.
LEMMA DiesDisk ==
  ASSUME Clean, DiskInv, NEW c \in Conns, Dies(c), sv[c].pc = "idle",
         file' = file, inSet' = inSet, monitor' = monitor
  PROVE  DiskInv'
<1> DEFINE th == [NoThread EXCEPT !.pc = "dead", !.user = sv[c].user]
<1>1. sv' = [sv EXCEPT ![c] = th] /\ heap' = heap
  BY DEF Dies
<1>2. th.user = sv[c].user /\ th.op = "none" /\ th.pc = "dead"
  BY DEF NoThread
<1> HIDE DEF th
<1>3. ~InMonitor(sv[c]) /\ Plain(sv[c]) /\ ~Behind(sv[c], Current)
  BY DEF InMonitor, Plain, Writing, Moved, New, Behind
<1>4. Plain(th) /\ (Owns(th, Current) => Owns(sv[c], Current))
  BY <1>2 DEF Plain, Writing, Moved, New, Owns
<1> QED
  BY <1>1, <1>3, <1>4, QuietDisk

LEMMA LoginDoneDisk ==
  ASSUME Clean, DiskInv, NEW c \in Conns, LoginDone(c)
  PROVE  DiskInv'
<1> USE Cleanly
<1>1. /\ sv[c].pc = "reply" /\ sv[c].op = "LOGIN" /\ inSet' = inSet /\ monitor' = monitor
      /\ file' = file
  BY DEF LoginDone
<1>2. sv[c].arg = Current /\ sv[c].arg \in 1 .. Len(heap) /\ Owns(sv[c], Current)
  BY <1>1 DEF Work, ThreadOK, Changers, Owns
<1>3. CASE Idle(c, sv[c].arg) /\ heap' = heap
  <2> DEFINE th == [NoThread EXCEPT !.pc = "idle", !.user = sv[c].arg]
  <2>1. sv' = [sv EXCEPT ![c] = th]
    BY <1>3 DEF Idle
  <2>2. th.pc = "idle"
    BY DEF NoThread
  <2> HIDE DEF th
  <2>3. ~InMonitor(sv[c]) /\ Plain(sv[c]) /\ ~Behind(sv[c], Current) /\ Plain(th)
    BY <1>1, <2>2 DEF InMonitor, Plain, Writing, Moved, New, Behind
  <2> QED
    BY <1>1, <1>2, <1>3, <2>1, <2>3, QuietDisk
<1>4. CASE End(c) /\ (SetToken(sv[c].arg, FALSE) \/ heap' = heap)
  BY <1>1, <1>2, <1>4, EndDisk
<1> QED
  BY <1>3, <1>4 DEF LoginDone

LEMMA PasswordDoneDisk ==
  ASSUME Clean, DiskInv, NEW c \in Conns, PasswordDone(c)
  PROVE  DiskInv'
<1> USE Cleanly
<1>1. /\ sv[c].pc = "reply" /\ sv[c].op = "CH-PASS" /\ inSet' = inSet /\ monitor' = monitor
      /\ file' = file /\ sv[c].user # 0
  BY DEF PasswordDone, ThreadOK
<1>2. CASE Idle(c, sv[c].user) /\ heap' = heap
  <2> DEFINE th == [NoThread EXCEPT !.pc = "idle", !.user = sv[c].user]
  <2>1. sv' = [sv EXCEPT ![c] = th]
    BY <1>2 DEF Idle
  <2>2. th.pc = "idle" /\ th.user = sv[c].user
    BY DEF NoThread
  <2> HIDE DEF th
  <2>3. /\ ~InMonitor(sv[c]) /\ Plain(sv[c]) /\ ~Behind(sv[c], Current) /\ Plain(th)
        /\ Owns(th, Current) => Owns(sv[c], Current)
    BY <1>1, <2>2 DEF InMonitor, Plain, Writing, Moved, New, Behind, Owns, Changers
  <2> QED
    BY <1>1, <1>2, <2>1, <2>3, QuietDisk
<1>3. CASE EndSession(c)
  BY <1>1, <1>3, EndSessionDisk
<1> QED
  BY <1>2, <1>3 DEF PasswordDone

LEMMA DirectoryDoneDisk ==
  ASSUME Clean, DiskInv, NEW c \in Conns, DirectoryDone(c)
  PROVE  DiskInv'
<1> USE Cleanly
<1> DEFINE th == [sv[c] EXCEPT !.pc = "save", !.buf = Record(sv[c].user)]
<1>1. /\ sv[c].pc = "reply" /\ sv[c].op = "CD" /\ inSet' = inSet /\ monitor' = monitor
      /\ heap' = heap /\ sv' = [sv EXCEPT ![c] = th]
  BY DEF DirectoryDone
<1>2. sv[c].user = Current /\ sv[c].user # 0 /\ ~InMonitor(sv[c])
  BY <1>1 DEF Work, InMonitor, ThreadOK
<1>3. th.pc = "save" /\ th.op = "CD" /\ th.buf = Record(Current)
  BY <1>1, <1>2 DEF Threads
<1> HIDE DEF th
<1>4. Owns(sv[c], Current) /\ ~Behind(sv[c], Current)
  BY <1>1, <1>2 DEF Owns, Behind
<1>5. \A d \in Conns : d # c => Plain(sv[d])
  BY <1>4, OnlyOwner
<1>6. Current' = Current
  BY <1>1, <1>2, SameCurrent
<1>7. Record(Current)' = Record(Current)
  BY <1>1, <1>6 DEF Record
<1>8. Buffered(th, Record(Current)) /\ ~New(th) /\ Writing(th)
  BY <1>3 DEF Buffered, New, Writing
<1>9. ~(th.op = "CH-PASS" /\ th.pc = "write")
  BY <1>3
<1>10. DiskOK'
  BY <1>1, <1>5, <1>7, <1>8, <1>9, DiskAlone
<1> QED
  BY <1>10 DEF DiskInv

LEMMA SaveDirectoryDisk ==
  ASSUME Clean, DiskInv, NEW c \in Conns, SaveDirectory(c)
  PROVE  DiskInv'
<1> USE Cleanly
<1> DEFINE th == [NoThread EXCEPT !.pc = "idle", !.user = sv[c].user]
<1>1. /\ sv[c].pc = "save" /\ inSet' = inSet /\ monitor' = monitor
      /\ heap' = heap /\ file' = sv[c].buf /\ sv' = [sv EXCEPT ![c] = th]
  BY DEF SaveDirectory, Idle
<1>2. sv[c].op = "CD" /\ sv[c].user = Current /\ sv[c].user # 0 /\ ~InMonitor(sv[c])
  BY <1>1 DEF ThreadControl, InMonitor, Work, ThreadOK
<1>3. th.pc = "idle"
  BY DEF NoThread
<1> HIDE DEF th
<1>4. Owns(sv[c], Current) /\ ~Behind(sv[c], Current)
  BY <1>1, <1>2 DEF Owns, Behind
<1>5. \A d \in Conns : d # c => Plain(sv[d])
  BY <1>4, OnlyOwner
<1>6. Current' = Current
  BY <1>1, <1>2, SameCurrent
<1>7. Record(Current)' = Record(Current)
  BY <1>1, <1>6 DEF Record
<1>8. file' = Record(Current)
  BY <1>1, <1>2 DEF DiskInv, DiskOK, Buffered, Clean
<1>9. Record(Current) # Torn
  <2>1. Current \in 1 .. Len(heap)
    BY <1>2
  <2>2. Record(Current) \in Records
    BY <2>1, Typing
  <2> QED
    BY <2>2, AccountAssumption DEF AccountAssumption, Records
<1>10. Buffered(th, Record(Current)) /\ ~New(th) /\ ~(th.op = "CH-PASS" /\ th.pc = "write")
  BY <1>3 DEF Buffered, New
<1>11. DiskOK'
  BY <1>1, <1>5, <1>7, <1>8, <1>9, <1>10, DiskAlone
<1> QED
  BY <1>11 DEF DiskInv

-----------------------------------------------------------------------------
(* Reading a request. *)

LEMMA LoginRequestDisk ==
  ASSUME Clean, DiskInv, NEW c \in Conns, NEW again \in BOOLEAN, LoginRequest(c, again),
         sv[c].pc \in {"first", "login", "idle"}, again => sv[c].user # 0,
         file' = file, inSet' = inSet, monitor' = monitor
  PROVE  DiskInv'
<1> USE Cleanly
<1> DEFINE r == Head(toSrv[c])
<1>1. /\ ~InMonitor(sv[c]) /\ sv[c].op = "none" /\ Plain(sv[c]) /\ ~Behind(sv[c], Current)
  BY DEF InMonitor, ThreadControl, Plain, Writing, Moved, New, Behind
<1>2. CASE /\ sv' = [sv EXCEPT ![c].pc = "claim", ![c].op = "LOGIN",
                               ![c].arg = inSet, ![c].again = again,
                               ![c].saw = heap[inSet].token]
           /\ heap' = heap
  <2> DEFINE th == [sv[c] EXCEPT !.pc = "claim", !.op = "LOGIN",
                                 !.arg = inSet, !.again = again,
                                 !.saw = heap[inSet].token]
  <2>1. sv' = [sv EXCEPT ![c] = th]
    BY <1>2
  <2>2. th.pc = "claim" /\ th.user = sv[c].user
    BY DEF Threads
  <2> HIDE DEF th
  <2>3. Plain(th) /\ (Owns(th, Current) => Owns(sv[c], Current))
    BY <2>2 DEF Plain, Writing, Moved, New, Owns, Changers
  <2> QED
    BY <1>1, <1>2, <2>1, <2>3, QuietDisk
<1>3. CASE sv' = [sv EXCEPT ![c].pc = "login", ![c].again = again] /\ heap' = heap
  <2> DEFINE th == [sv[c] EXCEPT !.pc = "login", !.again = again]
  <2>1. sv' = [sv EXCEPT ![c] = th]
    BY <1>3
  <2>2. th.pc = "login" /\ th.user = sv[c].user
    BY DEF Threads
  <2> HIDE DEF th
  <2>3. Plain(th) /\ (Owns(th, Current) => Owns(sv[c], Current))
    BY <2>2 DEF Plain, Writing, Moved, New, Owns, Changers
  <2> QED
    BY <1>1, <1>3, <2>1, <2>3, QuietDisk
<1>4. CASE again /\ EndSession(c)
  BY <1>4, EndSessionDisk
<1>5. CASE End(c) /\ heap' = heap
  BY <1>5, EndDisk
<1> QED
  BY <1>2, <1>3, <1>4, <1>5 DEF LoginRequest

LEMMA LoginDisk ==
  ASSUME Clean, DiskInv, NEW c \in Conns, Login(c)
  PROVE  DiskInv'
<1> USE Cleanly
<1>1. inSet' = inSet /\ monitor' = monitor /\ file' = file
  BY DEF Login
<1>2. CASE sv[c].pc = "first" /\ End(c) /\ heap' = heap
  BY <1>1, <1>2, EndDisk
<1>3. CASE sv[c].pc = "first" /\ LoginRequest(c, FALSE)
  BY <1>1, <1>3, LoginRequestDisk
<1>4. CASE sv[c].pc = "login" /\ LoginRequest(c, sv[c].again)
  <2>1. sv[c].again \in BOOLEAN /\ (sv[c].again => sv[c].user # 0)
    BY DEF Threads, ThreadOK
  <2> QED
    BY <1>1, <1>4, <2>1, LoginRequestDisk
<1> QED
  BY <1>2, <1>3, <1>4 DEF Login

\* The new object gets the directory of the account's.
LEMMA NewPasswordDisk ==
  ASSUME Clean, DiskInv, NEW c \in Conns, NEW r, r = Head(toSrv[c]), r.cmd = "CH-PASS",
         NewPassword(c, r), toSrv[c] # << >>, sv[c].pc = "idle",
         file' = file, inSet' = inSet, monitor' = monitor
  PROVE  DiskInv'
<1> USE Cleanly
<1> DEFINE n == Len(heap) + 1
           th == [sv[c] EXCEPT !.pc = "remove", !.op = "CH-PASS",
                               !.val = r.val, !.arg = n]
           object == Object([pass |-> r.val, dir |-> heap[sv[c].user].dir])
<1>1. sv' = [sv EXCEPT ![c] = th] /\ heap' = Append(heap, object)
  BY DEF NewPassword, Changing
<1>2. th.pc = "remove" /\ th.op = "CH-PASS" /\ th.user = sv[c].user /\ th.arg = n
  BY DEF Threads
<1>3. object.dir = heap[sv[c].user].dir
  BY DEF Object
<1> HIDE DEF th, object
<1>4. Asked(sv[c], Current, toSrv[c]) /\ sv[c].user = Current /\ sv[c].user # 0
  <2>1. Asked(sv[c], Current, toSrv[c])
    BY DEF Line, Talk
  <2> QED
    BY <2>1, AskedOnce DEF Serves, ThreadOK
<1>5. Current' = Current
  BY <1>1, SameCurrent DEF InMonitor
<1>6. heap \in Seq(Objects) /\ Len(heap) \in Nat
  BY LenProperties DEF TypeInv, TypeOK
<1>7. heap'[n] = object /\ \A v \in 1 .. Len(heap) : heap'[v] = heap[v]
  BY <1>1, <1>6, AppendProperties
<1>8. \A d \in Conns : New(sv[d]) => sv[d].arg \in 1 .. Len(heap)
  BY DEF New, ThreadOK, Threads, Changers
<1>9. /\ ~Writing(sv[c]) /\ ~Writing(th) /\ ~Moved(sv[c]) /\ ~Moved(th)
      /\ ~Behind(sv[c], Current)
      /\ Owns(th, Current) => Owns(sv[c], Current)
  BY <1>2 DEF Writing, Moved, Behind, Owns
<1>10. DiskSafe(c, th)
  BY <1>1, <1>2, <1>3, <1>4, <1>5, <1>7, <1>8, <1>9 DEF DiskSafe
<1> QED
  BY <1>10, DiskStep

LEMMA HandleCdDisk ==
  ASSUME Clean, DiskInv, NEW c \in Conns, NEW r, r = Head(toSrv[c]), r.cmd = "CD",
         HandleCd(c, r), toSrv[c] # << >>, sv[c].pc = "idle",
         file' = file, inSet' = inSet, monitor' = monitor
  PROVE  DiskInv'
<1> USE Cleanly
<1> DEFINE u == sv[c].user
<1>1. CASE Changing(c, "CD", r.val, u)
  <2> DEFINE th == [sv[c] EXCEPT !.pc = "remove", !.op = "CD", !.val = r.val, !.arg = u]
  <2>1. sv' = [sv EXCEPT ![c] = th]
    BY <1>1 DEF Changing
  <2>2. th.pc = "remove" /\ th.op = "CD"
    BY DEF Threads
  <2> HIDE DEF th
  <2>3. Asked(sv[c], Current, toSrv[c]) /\ sv[c].user = Current /\ sv[c].user # 0
    <3>1. Asked(sv[c], Current, toSrv[c])
      BY DEF Line, Talk
    <3> QED
      BY <3>1, AskedOnce DEF Serves, ThreadOK
  <2>4. Owns(sv[c], Current) /\ ~Behind(sv[c], Current)
    BY <2>3 DEF Owns, Behind
  <2>5. \A d \in Conns : d # c => Plain(sv[d])
    BY <2>4, OnlyOwner
  <2>6. ~(th.op = "CH-PASS" /\ th.pc = "write") /\ ~New(th) /\ Moved(th)
    BY <2>2 DEF New, Moved
  <2>7. Buffered(th, Record(Current)')
    BY <2>2 DEF Buffered
  <2>8. DiskOK'
    BY <2>1, <2>5, <2>6, <2>7, DiskAlone
  <2> QED
    BY <2>8 DEF DiskInv
<1>2. CASE heap' = heap /\ sv' = sv
  <2>1. sv[c].op = "none"
    BY DEF ThreadControl
  <2>2. ~InMonitor(sv[c]) /\ Plain(sv[c]) /\ ~Behind(sv[c], Current)
    BY <2>1 DEF InMonitor, Plain, Writing, Moved, New, Behind
  <2> QED
    BY <1>2, <2>2, QuietDisk
<1>3. CASE Dies(c)
  BY <1>3, DiesDisk
<1> QED
  BY <1>1, <1>2, <1>3 DEF HandleCd

LEMMA HandleFilesDisk ==
  ASSUME Clean, DiskInv, NEW c \in Conns, HandleFiles(c), sv[c].pc = "idle",
         sv[c].user # 0, file' = file, inSet' = inSet, monitor' = monitor
  PROVE  DiskInv'
<1>1. CASE heap' = heap /\ sv' = sv
  <2>1. ~InMonitor(sv[c]) /\ Plain(sv[c]) /\ ~Behind(sv[c], Current)
    BY DEF InMonitor, Plain, Writing, Moved, New, Behind
  <2> QED
    BY <1>1, <2>1, QuietDisk
<1>2. CASE EndSession(c)
  BY <1>2, EndSessionDisk
<1>3. CASE Dies(c)
  BY <1>3, DiesDisk
<1> QED
  BY <1>1, <1>2, <1>3 DEF HandleFiles

LEMMA HandleRequestDisk ==
  ASSUME Clean, DiskInv, NEW c \in Conns, HandleRequest(c), ~disputed'
  PROVE  DiskInv'
<1> USE Cleanly
<1> DEFINE r == Head(toSrv[c])
<1>1. /\ sv[c].pc = "idle" /\ toSrv[c] # << >>
      /\ inSet' = inSet /\ monitor' = monitor /\ file' = file
  BY DEF HandleRequest
<1>2. sv[c].user # 0
  BY <1>1 DEF ThreadOK
<1>3. CASE EndSession(c)
  BY <1>1, <1>2, <1>3, EndSessionDisk
<1>4. CASE Dies(c)
  BY <1>1, <1>4, DiesDisk
<1>5. CASE Unauthorized(c)
  BY <1>3, <1>5 DEF Unauthorized
<1>6. CASE LoginRequest(c, TRUE)
  BY <1>1, <1>2, <1>6, LoginRequestDisk
<1>7. CASE r.cmd = "CH-PASS" /\ NewPassword(c, r)
  BY <1>1, <1>7, NewPasswordDisk
<1>8. CASE r.cmd = "CD" /\ HandleCd(c, r)
  BY <1>1, <1>8, HandleCdDisk
<1>9. CASE HandleFiles(c)
  BY <1>1, <1>2, <1>9, HandleFilesDisk
<1> QED
  BY <1>3, <1>4, <1>5, <1>6, <1>7, <1>8, <1>9 DEF HandleRequest, ChangePassword, NullToken

LEMMA ResetDisk ==
  ASSUME Clean, DiskInv, NEW c \in Conns, Reset(c)
  PROVE  DiskInv'
<1>1. sv[c].user # 0
  BY Cleanly DEF Reset, ThreadOK
<1> QED
  BY <1>1, EndSessionDisk DEF Reset

-----------------------------------------------------------------------------
(* The invariant. *)

LEMMA SameDisk ==
  ASSUME DiskInv, sv' = sv, heap' = heap, inSet' = inSet, file' = file,
         monitor' = monitor, disputed' = disputed
  PROVE  DiskInv'
<1>1. Current' = Current /\ Record(Current)' = Record(Current)
  BY DEF Current, Record
<1> QED
  BY <1>1 DEF DiskInv, DiskOK, Queued, Copied, OnDisk

LEMMA ConnectDisk ==
  ASSUME Clean, DiskInv, NEW c \in Conns, Connect(c)
  PROVE  DiskInv'
<1> USE Cleanly
<1> DEFINE th == [NoThread EXCEPT !.pc = "first"]
<1>1. /\ sv[c].pc \in {"off", "dead"} /\ sv' = [sv EXCEPT ![c] = th]
      /\ heap' = heap /\ inSet' = inSet /\ monitor' = monitor /\ file' = file
  BY DEF Connect, ServerVars
<1>2. th.pc = "first" /\ th.user = 0
  BY DEF NoThread
<1> HIDE DEF th
<1>3. /\ ~InMonitor(sv[c]) /\ Plain(sv[c]) /\ ~Behind(sv[c], Current) /\ Plain(th)
      /\ ~Owns(th, Current)
  BY <1>1, <1>2 DEF InMonitor, Plain, Writing, Moved, New, Behind, Owns, Changers
<1> QED
  BY <1>1, <1>3, QuietDisk

\* A restart reads the account from its file.
LEMMA CrashDisk ==
  ASSUME TypeInv, Crash
  PROVE  DiskInv'
<1>1. \A c \in Conns : sv'[c] = NoThread
  BY DEF Crash
<1>2. NoThread.pc = "off" /\ NoThread.op = "none"
  BY DEF NoThread
<1>3. Current' = inSet'
  BY DEF Crash, Current
<1> SUFFICES ASSUME inSet' # 0 PROVE DiskOK'
  BY <1>3 DEF DiskInv
<1>4. file # Torn /\ file' = file /\ heap' = <<Object(file)>> /\ inSet' = 1
  BY DEF Crash
<1>5. heap'[1] = Object(file) /\ file \in Records
  BY <1>4 DEF TypeInv, TypeOK
<1>6. file' = Record(Current)' /\ file'.dir = heap'[Current'].dir
  BY <1>3, <1>4, <1>5 DEF Record, Object, Records
<1>7. Queued' /\ Copied' /\ OnDisk'
  BY <1>1, <1>2, <1>4, <1>6 DEF Queued, Copied, OnDisk, New
<1>8. \A c \in Conns : Buffered(sv'[c], Record(Current)')
  BY <1>1, <1>2 DEF Buffered
<1> QED
  BY <1>7, <1>8 DEF DiskOK

LEMMA InitDisk == Init => DiskInv
<1> SUFFICES ASSUME Init PROVE DiskInv
  OBVIOUS
<1>1. \A c \in Conns : sv[c] = NoThread
  BY DEF Init
<1>2. NoThread.pc = "off" /\ NoThread.op = "none"
  BY DEF NoThread
<1>3. Current = 1
  BY DEF Init, Current
<1>4. heap[1] = Object(file) /\ file = [pass |-> FirstPassword, dir |-> FirstDir]
  BY DEF Init
<1>5. file = Record(Current) /\ file.dir = heap[Current].dir
  BY <1>3, <1>4 DEF Record, Object
<1>6. file # Torn
  BY <1>4, AccountAssumption DEF AccountAssumption
<1>7. Queued /\ Copied /\ OnDisk
  BY <1>1, <1>2, <1>5, <1>6 DEF Queued, Copied, OnDisk, New
<1>8. \A c \in Conns : Buffered(sv[c], Record(Current))
  BY <1>1, <1>2 DEF Buffered
<1> QED
  BY <1>7, <1>8 DEF DiskInv, DiskOK

LEMMA NextDisk == TypeInv /\ HeldInv /\ OneInv /\ DiskInv /\ [Next]_vars => DiskInv'
<1> SUFFICES ASSUME TypeInv, HeldInv, OneInv, DiskInv, [Next]_vars, ~disputed'
             PROVE  DiskInv'
  BY DEF DiskInv
<1>1. Clean
  BY StaysDisputed DEF Clean
<1>2. ASSUME NEW c \in Conns, Client(c) PROVE DiskInv'
  <2>1. CASE Connect(c)
    BY <1>1, <2>1, ConnectDisk
  <2>2. CASE UNCHANGED <<ServerVars, sv>>
    BY <2>2, SameDisk DEF ServerVars, history
  <2> QED
    BY <1>2, <2>1, <2>2 DEF Client, SendLogin, LoginReply, SendCommand, CommandReply, Leave
<1>3. ASSUME NEW c \in Conns, Server(c) PROVE DiskInv'
  BY <1>1, <1>3, LoginDisk, ClaimDisk, RemoveOldDisk, AddNewDisk, WriteRecordDisk,
     LoginDoneDisk, PasswordDoneDisk, DirectoryDoneDisk, SaveDirectoryDisk,
     HandleRequestDisk, ResetDisk DEF Server
<1>4. CASE Crash
  BY <1>4, CrashDisk
<1>5. CASE UNCHANGED vars
  BY <1>5, SameDisk DEF vars
<1> QED
  BY <1>2, <1>3, <1>4, <1>5 DEF Next

LEMMA DiskSettled == TypeInv /\ DiskInv => DiskAgrees
<1> SUFFICES ASSUME TypeInv, DiskInv, Settled, inSet # 0, ~disputed
             PROVE  /\ file.dir = heap[inSet].dir
                    /\ heap[inSet].token => file = Record(inSet)
  BY DEF DiskAgrees
<1>1. \A c \in Conns : ~Writing(sv[c]) /\ ~Moved(sv[c]) /\ ~Behind(sv[c], Current)
  BY DEF Settled, Changers, Writing, Moved, Behind
<1>2. Current = inSet
  BY DEF Current, Settled, Changers, TypeInv, TypeOK
<1> QED
  BY <1>1, <1>2 DEF DiskInv, DiskOK, OnDisk

\* Outside the handlers the account's file has its directory, and the password
\* too while a session is open, unless two logins overlapped or a refused
\* request made a session go on without its token: what changeUsers writes one
\* version too old (Auth.java:82) is made good by the next login or CD.
THEOREM FileFollowsRecord == Spec => []DiskAgrees
<1>1. Init => TypeInv /\ HeldInv /\ OneInv /\ DiskInv
  BY InitTypeInv, InitHeld, InitOne, InitDisk
<1>2. TypeInv /\ HeldInv /\ OneInv /\ DiskInv /\ [Next]_vars
        => TypeInv' /\ HeldInv' /\ OneInv' /\ DiskInv'
  BY NextTypeInv, NextHeld, NextOne, NextDisk
<1>3. TypeInv /\ DiskInv => DiskAgrees
  BY DiskSettled
<1> QED
  BY <1>1, <1>2, <1>3, PTL DEF Spec

-----------------------------------------------------------------------------
(* What the record holds was handed over. *)

\* A password the account has got and whose client has no answer yet.
Renewed(th) == th.op = "CH-PASS" /\ th.pc \in {"write", "reply"}

\* The last command of its kind in s has the value val.
LastIs(s, cmd, val, default) ==
  \/ (\A i \in 1 .. Len(s) : s[i].cmd # cmd) /\ val = default
  \/ \E i \in 1 .. Len(s) :
       /\ s[i].cmd = cmd /\ s[i].val = val
       /\ \A j \in 1 .. Len(s) : s[j].cmd = cmd => j <= i

Said(val) ==
  \/ val = FirstPassword
  \/ \E c \in Conns : Renewed(sv[c]) /\ sv[c].val = val
  \/ [cmd |-> "CH-PASS", val |-> val] \in Range(outbox)

HandedOK ==
  /\ Current # 0
  /\ \A c \in Conns : sv[c].op = "CD" => sv[c].val = heap[Current].dir
  /\ (\A c \in Conns : sv[c].op # "CD") =>
       LastIs(outbox, "SCD", heap[Current].dir, FirstDir)
  /\ \A c \in Conns : New(sv[c]) => heap[sv[c].arg].pass = sv[c].val
  /\ ~unsaid => Said(heap[Current].pass)

HandedInv == ~disputed /\ crashes = 0 => HandedOK

LEMMA LastAppend ==
  ASSUME NEW s \in Seq(Commands), NEW m \in Commands
  PROVE  /\ \A cmd, val, default :
              m.cmd # cmd /\ LastIs(s, cmd, val, default) =>
                LastIs(Append(s, m), cmd, val, default)
         /\ \A default : LastIs(Append(s, m), m.cmd, m.val, default)
         /\ m \in Range(Append(s, m)) /\ Range(s) \subseteq Range(Append(s, m))
<1>1. /\ Len(s) \in Nat /\ Append(s, m) \in Seq(Commands)
      /\ Len(Append(s, m)) = Len(s) + 1 /\ Append(s, m)[Len(s) + 1] = m
      /\ \A i \in 1 .. Len(s) : Append(s, m)[i] = s[i]
  BY AppendProperties, LenProperties
<1>2. DOMAIN s = 1 .. Len(s) /\ DOMAIN Append(s, m) = 1 .. Len(s) + 1
  BY <1>1, LenProperties
<1> DEFINE t == Append(s, m)
<1> HIDE DEF t
<1>3. /\ Len(t) = Len(s) + 1 /\ t[Len(s) + 1] = m /\ Len(s) \in Nat
      /\ \A i \in 1 .. Len(s) : t[i] = s[i]
      /\ DOMAIN s = 1 .. Len(s) /\ DOMAIN t = 1 .. Len(s) + 1
  BY <1>1, <1>2 DEF t
<1>4. ASSUME NEW cmd, NEW val, NEW default, m.cmd # cmd, LastIs(s, cmd, val, default)
      PROVE  LastIs(t, cmd, val, default)
  <2>1. CASE (\A i \in 1 .. Len(s) : s[i].cmd # cmd) /\ val = default
    BY <1>3, <1>4, <2>1 DEF LastIs
  <2>2. ASSUME NEW i \in 1 .. Len(s), s[i].cmd = cmd, s[i].val = val,
               \A j \in 1 .. Len(s) : s[j].cmd = cmd => j <= i
        PROVE  LastIs(t, cmd, val, default)
    <3>1. i \in 1 .. Len(t) /\ t[i].cmd = cmd /\ t[i].val = val
      BY <1>3, <2>2
    <3>2. \A j \in 1 .. Len(t) : t[j].cmd = cmd => j <= i
      BY <1>3, <1>4, <2>2
    <3> QED
      BY <3>1, <3>2 DEF LastIs
  <2> QED
    BY <1>4, <2>1, <2>2 DEF LastIs
<1>5. ASSUME NEW default PROVE LastIs(t, m.cmd, m.val, default)
  <2>1. Len(s) + 1 \in 1 .. Len(t) /\ \A j \in 1 .. Len(t) : j <= Len(s) + 1
    BY <1>3
  <2> QED
    BY <1>3, <2>1 DEF LastIs
<1>6. m \in Range(t) /\ Range(s) \subseteq Range(t)
  BY <1>3 DEF Range
<1> QED
  BY <1>4, <1>5, <1>6 DEF t

LEMMA LastOfIs ==
  ASSUME outbox \in Seq(Commands), NEW cmd, NEW val, NEW default,
         LastIs(outbox, cmd, val, default)
  PROVE  LastOf(cmd, default) = val
<1> DEFINE at == {i \in DOMAIN outbox : outbox[i].cmd = cmd}
<1>1. DOMAIN outbox = 1 .. Len(outbox) /\ Len(outbox) \in Nat
  BY LenProperties
<1>2. CASE (\A i \in 1 .. Len(outbox) : outbox[i].cmd # cmd) /\ val = default
  BY <1>1, <1>2 DEF LastOf
<1>3. ASSUME NEW i \in 1 .. Len(outbox), outbox[i].cmd = cmd, outbox[i].val = val,
             \A j \in 1 .. Len(outbox) : outbox[j].cmd = cmd => j <= i
      PROVE  LastOf(cmd, default) = val
  <2>1. i \in at /\ (\A j \in at : j <= i) /\ at \subseteq Nat
    BY <1>1, <1>3
  <2> DEFINE last == CHOOSE k \in at : \A j \in at : j <= k
  <2>2. last \in at /\ \A j \in at : j <= last
    BY <2>1
  <2>3. last = i
    <3>1. last <= i /\ i <= last
      BY <2>1, <2>2
    <3> QED
      BY <2>1, <2>2, <3>1
  <2>4. LastOf(cmd, default) = outbox[last].val
    BY <2>1 DEF LastOf
  <2> QED
    BY <1>3, <2>3, <2>4
<1> QED
  BY <1>2, <1>3 DEF LastIs

\* What a step of c, which leaves it as th, has to show when it changes no
\* record and hands over no change of directory.
HandedSafe(c, th) ==
  /\ sv' = [sv EXCEPT ![c] = th] \/ (sv' = sv /\ sv[c] = th)
  /\ Current' = Current /\ crashes' = crashes
  /\ \A v \in 1 .. Len(heap) :
       heap'[v].pass = heap[v].pass /\ heap'[v].dir = heap[v].dir
  /\ sv[c].op = "CD" => th.op = "CD"
  /\ th.op = "CD" => sv[c].op = "CD" /\ th.val = sv[c].val
  /\ New(th) => \/ New(sv[c]) /\ th.arg = sv[c].arg /\ th.val = sv[c].val
                \/ heap'[th.arg].pass = th.val
  /\ outbox' = outbox \/
     \E m \in Commands : m.cmd = "CH-PASS" /\ outbox' = Append(outbox, m)
  /\ unsaid => unsaid'
  /\ ~unsaid' /\ Renewed(sv[c]) =>
       \/ Renewed(th) /\ th.val = sv[c].val
       \/ [cmd |-> "CH-PASS", val |-> sv[c].val] \in Range(outbox')

LEMMA HandedStep ==
  ASSUME Clean, HandedInv, NEW c \in Conns, NEW th, HandedSafe(c, th)
  PROVE  HandedInv'
<1> USE Cleanly
<1> SUFFICES ASSUME crashes = 0 PROVE HandedOK'
  BY DEF HandedInv, HandedSafe
<1>1. sv'[c] = th /\ \A d \in Conns : d # c => sv'[d] = sv[d]
  BY OneThread DEF HandedSafe
<1>2. HandedOK
  BY DEF HandedInv, Clean
<1>3. /\ Current' = Current /\ Current \in 1 .. Len(heap)
      /\ heap'[Current].pass = heap[Current].pass
      /\ heap'[Current].dir = heap[Current].dir
  BY <1>2 DEF HandedOK, HandedSafe
<1>4. \A d \in Conns : sv'[d].op = "CD" => sv'[d].val = heap'[Current].dir
  BY <1>1, <1>2, <1>3 DEF HandedOK, HandedSafe
<1>5. /\ \A val : LastIs(outbox, "SCD", val, FirstDir) =>
                    LastIs(outbox', "SCD", val, FirstDir)
      /\ Range(outbox) \subseteq Range(outbox')
  <2>1. outbox \in Seq(Commands)
    BY DEF TypeInv, TypeOK
  <2>2. CASE outbox' = outbox
    BY <2>2
  <2>3. CASE \E m \in Commands : m.cmd = "CH-PASS" /\ outbox' = Append(outbox, m)
    BY <2>1, <2>3, LastAppend
  <2> QED
    BY <2>2, <2>3 DEF HandedSafe
<1>6. (\A d \in Conns : sv'[d].op # "CD") =>
        LastIs(outbox', "SCD", heap'[Current].dir, FirstDir)
  BY <1>1, <1>2, <1>3, <1>5 DEF HandedOK, HandedSafe
<1>7. ASSUME NEW d \in Conns, New(sv'[d]) PROVE heap'[sv'[d].arg].pass = sv'[d].val
  <2>1. New(sv[d]) => sv[d].arg \in 1 .. Len(heap) /\ heap[sv[d].arg].pass = sv[d].val
    BY <1>2 DEF HandedOK, New, ThreadOK, Threads, Changers
  <2> QED
    BY <1>1, <1>7, <2>1 DEF HandedSafe
<1>8. ~unsaid' => Said(heap[Current].pass)'
  <2> SUFFICES ASSUME ~unsaid' PROVE Said(heap[Current].pass)'
    OBVIOUS
  <2>1. Said(heap[Current].pass)
    BY <1>2 DEF HandedOK, HandedSafe
  <2>2. ASSUME NEW d \in Conns, Renewed(sv[d]), sv[d].val = heap[Current].pass
        PROVE  Said(heap[Current].pass)'
    BY <1>1, <1>3, <2>2 DEF Said, HandedSafe
  <2> QED
    BY <1>3, <1>5, <2>1, <2>2 DEF Said
<1> QED
  BY <1>3, <1>4, <1>6, <1>7, <1>8 DEF HandedOK

\* A thread that is not in a change of password or directory before or after.
LEMMA QuietHanded ==
  ASSUME Clean, HandedInv, NEW c \in Conns, NEW th,
         sv' = [sv EXCEPT ![c] = th] \/ (sv' = sv /\ sv[c] = th), Current' = Current,
         sv[c].op \notin {"CH-PASS", "CD"}, th.op \notin {"CH-PASS", "CD"},
         heap' = heap \/ \E u \in 1 .. Len(heap), t \in BOOLEAN : SetToken(u, t),
         outbox' = outbox, unsaid' = unsaid, crashes' = crashes
  PROVE  HandedInv'
<1>1. \A v \in 1 .. Len(heap) :
        heap'[v].pass = heap[v].pass /\ heap'[v].dir = heap[v].dir
  <2>1. CASE heap' = heap
    BY <2>1
  <2>2. ASSUME NEW u \in 1 .. Len(heap), NEW t \in BOOLEAN, SetToken(u, t)
        PROVE  \A v \in 1 .. Len(heap) :
                 heap'[v].pass = heap[v].pass /\ heap'[v].dir = heap[v].dir
    BY <2>2, SetTokenRecord DEF Clean
  <2> QED
    BY <2>1, <2>2
<1>2. ~New(th) /\ ~Renewed(sv[c])
  BY DEF New, Renewed
<1>3. HandedSafe(c, th)
  BY <1>1, <1>2 DEF HandedSafe
<1> QED
  BY <1>3, HandedStep

\* A thread that ends, but for one whose reply to CH-PASS fails.
LEMMA EndHanded ==
  ASSUME Clean, HandedInv, NEW c \in Conns, End(c),
         sv[c].op \notin {"CH-PASS", "CD"}, ~InMonitor(sv[c]),
         inSet' = inSet, monitor' = monitor,
         heap' = heap \/ \E u \in 1 .. Len(heap) : SetToken(u, FALSE),
         outbox' = outbox, unsaid' = unsaid, crashes' = crashes
  PROVE  HandedInv'
<1>1. sv' = [sv EXCEPT ![c] = NoThread] /\ NoThread.op = "none"
  BY DEF End, NoThread
<1>2. Current' = Current
  BY <1>1, SameCurrent DEF Clean
<1> QED
  BY <1>1, <1>2, QuietHanded

LEMMA EndSessionHanded ==
  ASSUME Clean, HandedInv, NEW c \in Conns, EndSession(c), sv[c].user # 0,
         sv[c].op \notin {"CH-PASS", "CD"}, ~InMonitor(sv[c]),
         inSet' = inSet, monitor' = monitor,
         outbox' = outbox, unsaid' = unsaid, crashes' = crashes
  PROVE  HandedInv'
<1>1. sv[c].user \in 1 .. Len(heap)
  BY Cleanly DEF Threads
<1> QED
  BY <1>1, EndHanded DEF EndSession

LEMMA DiesHanded ==
  ASSUME Clean, HandedInv, NEW c \in Conns, Dies(c), sv[c].pc = "idle",
         inSet' = inSet, monitor' = monitor, outbox' = outbox, crashes' = crashes
  PROVE  HandedInv'
<1> DEFINE th == [NoThread EXCEPT !.pc = "dead", !.user = sv[c].user]
<1>1. sv' = [sv EXCEPT ![c] = th] /\ heap' = heap /\ unsaid' = unsaid
  BY DEF Dies
<1>2. th.op = "none"
  BY DEF NoThread
<1> HIDE DEF th
<1>3. sv[c].op = "none" /\ ~InMonitor(sv[c])
  BY Cleanly DEF ThreadControl, InMonitor
<1>4. Current' = Current
  BY <1>1, <1>3, SameCurrent DEF Clean
<1> QED
  BY <1>1, <1>2, <1>3, <1>4, QuietHanded

LEMMA ClaimHanded ==
  ASSUME Clean, HandedInv, NEW c \in Conns, Claim(c)
  PROVE  HandedInv'
<1> DEFINE th == [sv[c] EXCEPT !.pc = "remove"]
<1> USE Cleanly
<1>1. /\ sv' = [sv EXCEPT ![c] = th] /\ sv[c].pc = "claim" /\ inSet' = inSet
      /\ monitor' = monitor /\ outbox' = outbox /\ unsaid' = unsaid /\ crashes' = crashes
      /\ SetToken(sv[c].arg, TRUE)
  BY DEF Claim, bounds
<1>2. sv[c].arg \in 1 .. Len(heap) /\ sv[c].op = "LOGIN" /\ th.op = "LOGIN"
  BY <1>1 DEF ThreadOK, Threads, ThreadControl
<1> HIDE DEF th
<1>3. Current' = Current
  BY <1>1, SameCurrent DEF InMonitor
<1> QED
  BY <1>1, <1>2, <1>3, QuietHanded

LEMMA RemoveOldHanded ==
  ASSUME Clean, HandedInv, NEW c \in Conns, RemoveOld(c)
  PROVE  HandedInv'
<1> DEFINE th == [sv[c] EXCEPT !.pc = "add", !.aid = inSet]
<1> USE Cleanly
<1>1. /\ sv' = [sv EXCEPT ![c] = th] /\ sv[c].pc = "remove" /\ heap' = heap
      /\ monitor = "none" /\ monitor' = c
      /\ outbox' = outbox /\ unsaid' = unsaid /\ crashes' = crashes
  BY DEF RemoveOld, bounds
<1>2. /\ th.arg = sv[c].arg /\ th.op = sv[c].op /\ th.pc = "add" /\ th.val = sv[c].val
      /\ th.aid = inSet
  BY DEF Threads
<1> HIDE DEF th
<1>3. sv'[c] = th
  BY <1>1 DEF TypeInv, TypeOK
<1>4. Current' = Current
  BY <1>1, <1>2, <1>3, AccountAssumption DEF Current
<1>5. (New(th) => New(sv[c])) /\ ~Renewed(sv[c])
  BY <1>1, <1>2 DEF New, Renewed
<1>6. HandedSafe(c, th)
  BY <1>1, <1>2, <1>4, <1>5 DEF HandedSafe
<1> QED
  BY <1>6, HandedStep

\* A change of password makes the object with the new one the account's.
LEMMA AddNewHanded ==
  ASSUME Clean, DiskInv, HandedInv, NEW c \in Conns, AddNew(c)
  PROVE  HandedInv'
<1> DEFINE th == [sv[c] EXCEPT !.pc = "write", !.buf = Record(sv[c].aid)]
<1> USE Cleanly
<1>1. /\ sv' = [sv EXCEPT ![c] = th] /\ sv[c].pc = "add" /\ heap' = heap /\ inSet' = sv[c].arg
      /\ monitor' = monitor /\ outbox' = outbox /\ unsaid' = unsaid /\ crashes' = crashes
  BY DEF AddNew, history, bounds
<1>2. /\ th.user = sv[c].user /\ th.arg = sv[c].arg /\ th.op = sv[c].op /\ th.pc = "write"
      /\ th.val = sv[c].val
  BY DEF Threads
<1> HIDE DEF th
<1>3. monitor = c /\ c # "none" /\ sv'[c] = th /\ \A d \in Conns : d # c => sv'[d] = sv[d]
  BY <1>1, AccountAssumption DEF TypeInv, TypeOK, MonitorOK
<1>4. Current = sv[c].aid /\ Current' = sv[c].arg /\ Current # 0 /\ sv[c].arg # 0
  BY <1>1, <1>2, <1>3 DEF Current, ThreadOK, Changers
<1>5. CASE sv[c].op \in {"LOGIN", "CD"}
  <2>1. Current' = Current
    BY <1>1, <1>4, <1>5 DEF Work, ThreadControl
  <2>2. ~New(th) /\ ~Renewed(sv[c])
    BY <1>1, <1>2, <1>5 DEF New, Renewed
  <2>3. HandedSafe(c, th)
    BY <1>1, <1>2, <2>1, <2>2 DEF HandedSafe
  <2> QED
    BY <2>3, HandedStep
<1>6. CASE sv[c].op = "CH-PASS"
  <2> SUFFICES ASSUME crashes = 0 PROVE HandedOK'
    BY <1>1 DEF HandedInv
  <2>1. HandedOK
    BY DEF HandedInv, Clean
  <2>2. New(sv[c]) /\ Owns(sv[c], Current)
    BY <1>1, <1>4, <1>6 DEF New, Work, Owns
  <2>3. ASSUME NEW d \in Conns PROVE sv'[d].op # "CD" /\ ~New(sv'[d])
    <3>1. CASE d = c
      BY <1>2, <1>3, <1>6, <3>1 DEF New
    <3>2. CASE d # c
      <4>1. ~Owns(sv[d], Current) /\ Work(sv[d], Current)
        BY <2>2, <3>2, Cleanly DEF Sole
      <4> QED
        BY <1>3, <1>4, <3>2, <4>1 DEF Work, Owns
    <3> QED
      BY <3>1, <3>2
  <2>4. \A d \in Conns : sv[d].op # "CD"
    BY <1>2, <1>3, <2>3
  <2>5. heap[sv[c].arg].dir = heap[Current].dir
    BY <1>4, <2>2 DEF DiskInv, DiskOK, Copied, Clean
  <2>6. LastIs(outbox', "SCD", heap'[Current'].dir, FirstDir)
    BY <1>1, <1>4, <2>1, <2>4, <2>5 DEF HandedOK
  <2>7. heap'[Current'].pass = th.val /\ Renewed(th)
    BY <1>1, <1>2, <1>4, <1>6, <2>1, <2>2 DEF HandedOK, Renewed
  <2>8. Said(heap[Current].pass)'
    BY <1>3, <2>7 DEF Said
  <2> QED
    BY <1>4, <2>3, <2>6, <2>8 DEF HandedOK
<1> QED
  BY <1>1, <1>5, <1>6 DEF ThreadControl, Changers

LEMMA WriteRecordHanded ==
  ASSUME Clean, HandedInv, NEW c \in Conns, WriteRecord(c)
  PROVE  HandedInv'
<1> DEFINE th == [sv[c] EXCEPT !.pc = "reply"]
<1> USE Cleanly
<1>1. /\ sv' = [sv EXCEPT ![c] = th] /\ sv[c].pc = "write" /\ heap' = heap /\ inSet' = inSet
      /\ monitor' = "none" /\ outbox' = outbox /\ unsaid' = unsaid /\ crashes' = crashes
  BY DEF WriteRecord, history, bounds
<1>2. th.op = sv[c].op /\ th.pc = "reply" /\ th.val = sv[c].val
  BY DEF Threads
<1> HIDE DEF th
<1>3. monitor = c
  BY <1>1 DEF TypeInv, MonitorOK
<1>4. Current' = Current
  BY <1>1, <1>3 DEF Current
<1>5. ~New(th) /\ (Renewed(sv[c]) => Renewed(th))
  BY <1>2 DEF New, Renewed
<1>6. HandedSafe(c, th)
  BY <1>1, <1>2, <1>4, <1>5 DEF HandedSafe
<1> QED
  BY <1>6, HandedStep

LEMMA LoginDoneHanded ==
  ASSUME Clean, HandedInv, NEW c \in Conns, LoginDone(c)
  PROVE  HandedInv'
<1> USE Cleanly
<1>1. /\ sv[c].pc = "reply" /\ sv[c].op = "LOGIN" /\ inSet' = inSet /\ monitor' = monitor
      /\ outbox' = outbox /\ unsaid' = unsaid /\ crashes' = crashes
  BY DEF LoginDone, bounds
<1>2. sv[c].arg \in 1 .. Len(heap) /\ ~InMonitor(sv[c])
  BY <1>1 DEF ThreadOK, Threads, Changers, InMonitor
<1>3. CASE Idle(c, sv[c].arg) /\ heap' = heap
  <2> DEFINE th == [NoThread EXCEPT !.pc = "idle", !.user = sv[c].arg]
  <2>1. sv' = [sv EXCEPT ![c] = th] /\ th.op = "none"
    BY <1>3 DEF Idle, NoThread
  <2> HIDE DEF th
  <2>2. Current' = Current
    BY <1>1, <1>2, <2>1, SameCurrent
  <2> QED
    BY <1>1, <1>3, <2>1, <2>2, QuietHanded
<1>4. CASE End(c) /\ (SetToken(sv[c].arg, FALSE) \/ heap' = heap)
  BY <1>1, <1>2, <1>4, EndHanded
<1> QED
  BY <1>3, <1>4 DEF LoginDone

LEMMA PasswordDoneHanded ==
  ASSUME Clean, HandedInv, NEW c \in Conns, PasswordDone(c)
  PROVE  HandedInv'
<1> USE Cleanly
<1>1. /\ sv[c].pc = "reply" /\ sv[c].op = "CH-PASS" /\ inSet' = inSet /\ monitor' = monitor
      /\ crashes' = crashes /\ sv[c].user # 0 /\ ~InMonitor(sv[c])
  BY DEF PasswordDone, ThreadOK, InMonitor, bounds
<1>2. CASE /\ Idle(c, sv[c].user) /\ HandOver("CH-PASS", sv[c].val)
           /\ UNCHANGED <<heap, toSrv, unsaid>>
  <2> DEFINE th == [NoThread EXCEPT !.pc = "idle", !.user = sv[c].user]
             m == [cmd |-> "CH-PASS", val |-> sv[c].val]
  <2>1. sv' = [sv EXCEPT ![c] = th] /\ th.op = "none"
    BY <1>2 DEF Idle, NoThread
  <2>2. m \in Commands /\ m.cmd = "CH-PASS" /\ outbox' = Append(outbox, m)
    BY <1>2 DEF HandOver, Commands, Threads
  <2>3. m \in Range(outbox')
    BY <2>2, LastAppend DEF TypeInv, TypeOK
  <2>4. Current' = Current
    BY <1>1, <2>1, SameCurrent
  <2>5. ~New(th)
    BY <2>1 DEF New
  <2> HIDE DEF th
  <2>6. HandedSafe(c, th)
    BY <1>1, <1>2, <2>1, <2>2, <2>3, <2>4, <2>5 DEF HandedSafe
  <2> QED
    BY <2>6, HandedStep
<1>3. CASE EndSession(c) /\ unsaid' = TRUE /\ outbox' = outbox
  <2> DEFINE th == NoThread
  <2>1. sv' = [sv EXCEPT ![c] = th] /\ th.op = "none"
    BY <1>3 DEF EndSession, End, NoThread
  <2> HIDE DEF th
  <2>2. Current' = Current
    BY <1>1, <2>1, SameCurrent
  <2>3. \A v \in 1 .. Len(heap) :
          heap'[v].pass = heap[v].pass /\ heap'[v].dir = heap[v].dir
    <3>1. sv[c].user \in 1 .. Len(heap)
      BY <1>1 DEF Threads
    <3>2. SetToken(sv[c].user, FALSE)
      BY <1>3 DEF EndSession
    <3> QED
      BY <3>1, <3>2, SetTokenRecord
  <2>4. ~New(th)
    BY <2>1 DEF New
  <2>5. HandedSafe(c, th)
    BY <1>1, <1>3, <2>1, <2>2, <2>3, <2>4 DEF HandedSafe
  <2> QED
    BY <2>5, HandedStep
<1> QED
  BY <1>2, <1>3 DEF PasswordDone

LEMMA DirectoryDoneHanded ==
  ASSUME Clean, HandedInv, NEW c \in Conns, DirectoryDone(c)
  PROVE  HandedInv'
<1> USE Cleanly
<1> DEFINE th == [sv[c] EXCEPT !.pc = "save", !.buf = Record(sv[c].user)]
<1>1. /\ sv[c].pc = "reply" /\ sv[c].op = "CD" /\ inSet' = inSet /\ monitor' = monitor
      /\ heap' = heap /\ sv' = [sv EXCEPT ![c] = th]
      /\ outbox' = outbox /\ unsaid' = unsaid /\ crashes' = crashes
  BY DEF DirectoryDone, history, bounds
<1>2. th.op = "CD" /\ th.val = sv[c].val
  BY <1>1 DEF Threads
<1> HIDE DEF th
<1>3. Current' = Current
  BY <1>1, SameCurrent DEF InMonitor
<1>4. ~New(th) /\ ~Renewed(sv[c])
  BY <1>1, <1>2 DEF New, Renewed
<1>5. HandedSafe(c, th)
  BY <1>1, <1>2, <1>3, <1>4 DEF HandedSafe
<1> QED
  BY <1>5, HandedStep

\* The only change of directory under way is handed over last.
LEMMA SaveDirectoryHanded ==
  ASSUME Clean, HandedInv, NEW c \in Conns, SaveDirectory(c)
  PROVE  HandedInv'
<1> USE Cleanly
<1> DEFINE th == [NoThread EXCEPT !.pc = "idle", !.user = sv[c].user]
           m == [cmd |-> "SCD", val |-> sv[c].val]
<1>1. /\ sv[c].pc = "save" /\ inSet' = inSet /\ monitor' = monitor
      /\ heap' = heap /\ sv' = [sv EXCEPT ![c] = th] /\ outbox' = Append(outbox, m)
      /\ unsaid' = unsaid /\ crashes' = crashes
  BY DEF SaveDirectory, Idle, HandOver, history, bounds
<1>2. sv[c].op = "CD" /\ sv[c].user = Current /\ sv[c].user # 0
  BY <1>1 DEF ThreadControl, Work, ThreadOK
<1>3. th.op = "none"
  BY DEF NoThread
<1> HIDE DEF th
<1>4. sv'[c] = th /\ (\A d \in Conns : d # c => sv'[d] = sv[d]) /\ Current' = Current
  BY <1>1, OneThread, SameCurrent DEF InMonitor
<1> SUFFICES ASSUME crashes = 0 PROVE HandedOK'
  BY <1>1 DEF HandedInv
<1>5. HandedOK
  BY DEF HandedInv, Clean
<1>6. m \in Commands /\ m.cmd = "SCD" /\ m.val = heap[Current].dir /\ outbox \in Seq(Commands)
  BY <1>2, <1>5 DEF HandedOK, Commands, Threads, TypeInv, TypeOK
<1> HIDE DEF m
<1>7. /\ LastIs(outbox', "SCD", heap[Current].dir, FirstDir)
      /\ Range(outbox) \subseteq Range(outbox')
  BY <1>1, <1>6, LastAppend
<1>8. ASSUME NEW d \in Conns PROVE sv'[d].op # "CD"
  <2>1. CASE d = c
    BY <1>3, <1>4, <2>1
  <2>2. CASE d # c
    <3>1. ~Owns(sv[d], Current)
      BY <1>2, <2>2 DEF Sole, Owns
    <3> QED
      BY <1>2, <1>4, <2>2, <3>1 DEF Work, Owns
  <2> QED
    BY <2>1, <2>2
<1>9. ASSUME NEW d \in Conns PROVE /\ New(sv'[d]) => sv'[d] = sv[d]
                                   /\ Renewed(sv[d]) => sv'[d] = sv[d]
  BY <1>2, <1>3, <1>4 DEF New, Renewed
<1>10. \A d \in Conns : New(sv'[d]) => heap'[sv'[d].arg].pass = sv'[d].val
  BY <1>1, <1>5, <1>9 DEF HandedOK
<1>11. ~unsaid' => Said(heap[Current].pass)'
  BY <1>1, <1>4, <1>5, <1>7, <1>9 DEF HandedOK, Said
<1> QED
  BY <1>1, <1>4, <1>5, <1>7, <1>8, <1>10, <1>11 DEF HandedOK

LEMMA LoginRequestHanded ==
  ASSUME Clean, HandedInv, NEW c \in Conns, NEW again \in BOOLEAN, LoginRequest(c, again),
         sv[c].pc \in {"first", "login", "idle"}, again => sv[c].user # 0,
         inSet' = inSet, monitor' = monitor, outbox' = outbox, crashes' = crashes
  PROVE  HandedInv'
<1> USE Cleanly
<1>1. ~InMonitor(sv[c]) /\ sv[c].op = "none" /\ unsaid' = unsaid
  BY DEF InMonitor, ThreadControl, LoginRequest, history
<1>2. CASE /\ sv' = [sv EXCEPT ![c].pc = "claim", ![c].op = "LOGIN",
                               ![c].arg = inSet, ![c].again = again,
                               ![c].saw = heap[inSet].token]
           /\ heap' = heap
  <2> DEFINE th == [sv[c] EXCEPT !.pc = "claim", !.op = "LOGIN",
                                 !.arg = inSet, !.again = again,
                                 !.saw = heap[inSet].token]
  <2>1. sv' = [sv EXCEPT ![c] = th] /\ th.op = "LOGIN"
    BY <1>2 DEF Threads
  <2> HIDE DEF th
  <2>2. Current' = Current
    BY <1>1, <2>1, SameCurrent
  <2> QED
    BY <1>1, <1>2, <2>1, <2>2, QuietHanded
<1>3. CASE sv' = [sv EXCEPT ![c].pc = "login", ![c].again = again] /\ heap' = heap
  <2> DEFINE th == [sv[c] EXCEPT !.pc = "login", !.again = again]
  <2>1. sv' = [sv EXCEPT ![c] = th] /\ th.op = "none"
    BY <1>1, <1>3 DEF Threads
  <2> HIDE DEF th
  <2>2. Current' = Current
    BY <1>1, <2>1, SameCurrent
  <2> QED
    BY <1>1, <1>3, <2>1, <2>2, QuietHanded
<1>4. CASE again /\ EndSession(c)
  BY <1>1, <1>4, EndSessionHanded
<1>5. CASE End(c) /\ heap' = heap
  BY <1>1, <1>5, EndHanded
<1> QED
  BY <1>2, <1>3, <1>4, <1>5 DEF LoginRequest

LEMMA LoginHanded ==
  ASSUME Clean, HandedInv, NEW c \in Conns, Login(c)
  PROVE  HandedInv'
<1> USE Cleanly
<1>1. inSet' = inSet /\ monitor' = monitor /\ outbox' = outbox /\ crashes' = crashes
  BY DEF Login, bounds
<1>2. CASE sv[c].pc = "first" /\ End(c) /\ heap' = heap /\ unsaid' = unsaid
  <2>1. sv[c].op = "none" /\ ~InMonitor(sv[c])
    BY <1>2 DEF ThreadControl, InMonitor
  <2> QED
    BY <1>1, <1>2, <2>1, EndHanded
<1>3. CASE sv[c].pc = "first" /\ LoginRequest(c, FALSE)
  BY <1>1, <1>3, LoginRequestHanded
<1>4. CASE sv[c].pc = "login" /\ LoginRequest(c, sv[c].again)
  <2>1. sv[c].again \in BOOLEAN /\ (sv[c].again => sv[c].user # 0)
    BY DEF Threads, ThreadOK
  <2> QED
    BY <1>1, <1>4, <2>1, LoginRequestHanded
<1> QED
  BY <1>2, <1>3, <1>4 DEF Login, history

LEMMA NewPasswordHanded ==
  ASSUME Clean, HandedInv, NEW c \in Conns, NEW r \in Requests, r.cmd = "CH-PASS",
         NewPassword(c, r), sv[c].pc = "idle",
         inSet' = inSet, monitor' = monitor, outbox' = outbox, crashes' = crashes
  PROVE  HandedInv'
<1> USE Cleanly
<1> DEFINE n == Len(heap) + 1
           th == [sv[c] EXCEPT !.pc = "remove", !.op = "CH-PASS",
                               !.val = r.val, !.arg = n]
           object == Object([pass |-> r.val, dir |-> heap[sv[c].user].dir])
<1>1. sv' = [sv EXCEPT ![c] = th] /\ heap' = Append(heap, object) /\ unsaid' = unsaid
  BY DEF NewPassword, Changing, history
<1>2. th.pc = "remove" /\ th.op = "CH-PASS" /\ th.arg = n /\ th.val = r.val
  BY DEF Threads
<1>3. object.pass = r.val
  BY DEF Object
<1> HIDE DEF th, object
<1>4. Current' = Current
  BY <1>1, SameCurrent DEF InMonitor
<1>5. heap \in Seq(Objects) /\ Len(heap) \in Nat
  BY LenProperties DEF TypeInv, TypeOK
<1>6. heap'[n] = object /\ \A v \in 1 .. Len(heap) : heap'[v] = heap[v]
  BY <1>1, <1>5, AppendProperties
<1>7. sv[c].op = "none"
  BY DEF ThreadControl
<1>8. HandedSafe(c, th)
  BY <1>1, <1>2, <1>3, <1>4, <1>6, <1>7 DEF HandedSafe, Renewed
<1> QED
  BY <1>8, HandedStep

\* The directory is the record's at once, and handed over at the end.
LEMMA HandleCdHanded ==
  ASSUME Clean, HandedInv, NEW c \in Conns, NEW r, r = Head(toSrv[c]), r.cmd = "CD",
         HandleCd(c, r), toSrv[c] # << >>, sv[c].pc = "idle",
         inSet' = inSet, monitor' = monitor, outbox' = outbox, crashes' = crashes
  PROVE  HandedInv'
<1> USE Cleanly
<1> DEFINE u == sv[c].user
<1>1. unsaid' = unsaid /\ sv[c].op = "none" /\ ~InMonitor(sv[c])
  BY DEF HandleCd, Dies, history, ThreadControl, InMonitor
<1>2. CASE heap' = [heap EXCEPT ![u].dir = r.val] /\ Changing(c, "CD", r.val, u)
  <2> DEFINE th == [sv[c] EXCEPT !.pc = "remove", !.op = "CD", !.val = r.val, !.arg = u]
  <2>1. sv' = [sv EXCEPT ![c] = th]
    BY <1>2 DEF Changing
  <2>2. th.pc = "remove" /\ th.op = "CD" /\ th.val = r.val
    BY DEF Threads
  <2> HIDE DEF th
  <2>3. u = Current /\ Current \in 1 .. Len(heap)
    <3>1. Asked(sv[c], Current, toSrv[c])
      BY DEF Line, Talk
    <3>2. u \in 1 .. Len(heap)
      BY DEF ThreadOK, Threads
    <3> QED
      BY <3>1, <3>2, AskedOnce DEF Serves
  <2>4. Current' = Current
    BY <1>1, <2>1, SameCurrent
  <2>5. heap[u] \in Objects /\ heap' = [heap EXCEPT ![u] = [heap[u] EXCEPT !.dir = r.val]]
    BY <1>2, <2>3, Typing
  <2>6. /\ heap'[Current].dir = r.val
        /\ \A v \in 1 .. Len(heap) : heap'[v].pass = heap[v].pass
    <3>1. /\ [heap[u] EXCEPT !.dir = r.val].dir = r.val
          /\ [heap[u] EXCEPT !.dir = r.val].pass = heap[u].pass
      BY <2>5 DEF Objects
    <3> QED
      BY <2>3, <2>5, <3>1
  <2> SUFFICES ASSUME crashes = 0 PROVE HandedOK'
    BY DEF HandedInv
  <2>7. HandedOK
    BY DEF HandedInv, Clean
  <2>8. sv'[c] = th /\ \A d \in Conns : d # c => sv'[d] = sv[d]
    BY <2>1, OneThread
  <2>9. ASSUME NEW d \in Conns, sv'[d].op = "CD" PROVE sv'[d].val = heap'[Current].dir
    <3>1. d # c => sv[d].op # "CD"
      <4>1. d # c => ~Owns(sv[d], Current)
        BY <2>3 DEF Sole, Owns
      <4> QED
        BY <2>3, <4>1 DEF Work, Owns
    <3> QED
      BY <2>2, <2>6, <2>8, <2>9, <3>1
  <2>10. ASSUME NEW d \in Conns PROVE /\ New(sv'[d]) => sv'[d] = sv[d]
                                      /\ Renewed(sv[d]) => sv'[d] = sv[d]
    BY <1>1, <2>2, <2>8 DEF New, Renewed
  <2>11. ASSUME NEW d \in Conns, New(sv'[d]) PROVE heap'[sv'[d].arg].pass = sv'[d].val
    <3>1. sv'[d] = sv[d] /\ sv[d].arg \in 1 .. Len(heap)
      BY <2>10, <2>11 DEF New, ThreadOK, Threads, Changers
    <3> QED
      BY <2>6, <2>7, <2>11, <3>1 DEF HandedOK
  <2>12. ~unsaid' => Said(heap[Current].pass)'
    BY <1>1, <2>3, <2>4, <2>6, <2>7, <2>10 DEF HandedOK, Said
  <2> QED
    BY <2>2, <2>3, <2>4, <2>8, <2>9, <2>11, <2>12 DEF HandedOK
<1>3. CASE heap' = heap /\ sv' = sv
  <2>1. Current' = Current
    BY <1>1, <1>3 DEF Current
  <2> QED
    BY <1>1, <1>3, <2>1, QuietHanded
<1>4. CASE Dies(c)
  BY <1>4, DiesHanded
<1> QED
  BY <1>2, <1>3, <1>4 DEF HandleCd

LEMMA HandleFilesHanded ==
  ASSUME Clean, HandedInv, NEW c \in Conns, HandleFiles(c), sv[c].pc = "idle",
         inSet' = inSet, monitor' = monitor, outbox' = outbox, crashes' = crashes
  PROVE  HandedInv'
<1> USE Cleanly
<1>1. sv[c].op = "none" /\ ~InMonitor(sv[c]) /\ sv[c].user # 0
  BY DEF ThreadControl, InMonitor, ThreadOK
<1>2. CASE heap' = heap /\ sv' = sv /\ unsaid' = unsaid
  <2>1. Current' = Current
    BY <1>1, <1>2 DEF Current
  <2> QED
    BY <1>1, <1>2, <2>1, QuietHanded
<1>3. CASE EndSession(c) /\ unsaid' = unsaid
  BY <1>1, <1>3, EndSessionHanded
<1>4. CASE Dies(c)
  BY <1>4, DiesHanded
<1> QED
  BY <1>2, <1>3, <1>4 DEF HandleFiles, history

LEMMA HandleRequestHanded ==
  ASSUME Clean, HandedInv, NEW c \in Conns, HandleRequest(c), ~disputed'
  PROVE  HandedInv'
<1> USE Cleanly
<1> DEFINE r == Head(toSrv[c])
<1>1. /\ sv[c].pc = "idle" /\ toSrv[c] # << >>
      /\ inSet' = inSet /\ monitor' = monitor /\ outbox' = outbox /\ crashes' = crashes
  BY DEF HandleRequest, bounds
<1>2. sv[c].user # 0 /\ ~InMonitor(sv[c]) /\ sv[c].op = "none" /\ r \in Requests
  BY <1>1, HeadTailProperties DEF ThreadOK, InMonitor, ThreadControl
<1>3. CASE EndSession(c) /\ unsaid' = unsaid
  BY <1>1, <1>2, <1>3, EndSessionHanded
<1>4. CASE Dies(c)
  BY <1>1, <1>4, DiesHanded
<1>5. CASE Unauthorized(c)
  BY <1>3, <1>5 DEF Unauthorized
<1>6. CASE LoginRequest(c, TRUE)
  BY <1>1, <1>2, <1>6, LoginRequestHanded
<1>7. CASE r.cmd = "CH-PASS" /\ NewPassword(c, r)
  BY <1>1, <1>2, <1>7, NewPasswordHanded
<1>8. CASE r.cmd = "CD" /\ HandleCd(c, r)
  BY <1>1, <1>8, HandleCdHanded
<1>9. CASE HandleFiles(c)
  BY <1>1, <1>9, HandleFilesHanded
<1> QED
  BY <1>3, <1>4, <1>5, <1>6, <1>7, <1>8, <1>9
     DEF HandleRequest, ChangePassword, NullToken, history

LEMMA ResetHanded ==
  ASSUME Clean, HandedInv, NEW c \in Conns, Reset(c)
  PROVE  HandedInv'
<1>1. /\ sv[c].user # 0 /\ sv[c].op = "none" /\ ~InMonitor(sv[c]) /\ unsaid' = unsaid
      /\ crashes' = crashes
  BY Cleanly DEF Reset, ThreadOK, ThreadControl, InMonitor, history, bounds
<1> QED
  BY <1>1, EndSessionHanded DEF Reset

LEMMA ConnectHanded ==
  ASSUME Clean, HandedInv, NEW c \in Conns, Connect(c)
  PROVE  HandedInv'
<1> USE Cleanly
<1> DEFINE th == [NoThread EXCEPT !.pc = "first"]
<1>1. /\ sv[c].pc \in {"off", "dead"} /\ sv' = [sv EXCEPT ![c] = th] /\ heap' = heap
      /\ inSet' = inSet /\ monitor' = monitor
      /\ outbox' = outbox /\ unsaid' = unsaid /\ crashes' = crashes
  BY DEF Connect, ServerVars, history
<1>2. th.op = "none" /\ sv[c].op = "none"
  BY <1>1 DEF NoThread, ThreadControl
<1> HIDE DEF th
<1>3. Current' = Current
  BY <1>1, SameCurrent DEF InMonitor
<1> QED
  BY <1>1, <1>2, <1>3, QuietHanded

LEMMA SameHanded ==
  ASSUME HandedInv, sv' = sv, heap' = heap, inSet' = inSet, monitor' = monitor,
         outbox' = outbox, unsaid' = unsaid, crashes' = crashes, disputed' = disputed
  PROVE  HandedInv'
<1>1. Current' = Current
  BY DEF Current
<1> QED
  BY <1>1 DEF HandedInv, HandedOK, Said

LEMMA InitHanded == Init => HandedInv
<1> SUFFICES ASSUME Init PROVE HandedInv
  OBVIOUS
<1>1. \A c \in Conns : sv[c].op = "none"
  BY DEF Init, NoThread
<1>2. Current = 1 /\ outbox = << >>
  BY DEF Init, Current, NoThread
<1>3. heap[1].pass = FirstPassword /\ heap[1].dir = FirstDir
  BY DEF Init, Object
<1> QED
  BY <1>1, <1>2, <1>3 DEF HandedInv, HandedOK, Said, LastIs, New

LEMMA NextHanded ==
  TypeInv /\ OneInv /\ DiskInv /\ HandedInv /\ [Next]_vars => HandedInv'
<1> SUFFICES ASSUME TypeInv, OneInv, DiskInv, HandedInv, [Next]_vars, ~disputed'
             PROVE  HandedInv'
  BY DEF HandedInv
<1>1. Clean
  BY StaysDisputed DEF Clean
<1>2. ASSUME NEW c \in Conns, Client(c) PROVE HandedInv'
  <2>1. CASE Connect(c)
    BY <1>1, <2>1, ConnectHanded
  <2>2. CASE UNCHANGED <<ServerVars, sv>>
    BY <2>2, SameHanded DEF ServerVars, history
  <2> QED
    BY <1>2, <2>1, <2>2 DEF Client, SendLogin, LoginReply, SendCommand, CommandReply, Leave
<1>3. ASSUME NEW c \in Conns, Server(c) PROVE HandedInv'
  BY <1>1, <1>3, LoginHanded, ClaimHanded, RemoveOldHanded, AddNewHanded, WriteRecordHanded,
     LoginDoneHanded, PasswordDoneHanded, DirectoryDoneHanded, SaveDirectoryHanded,
     HandleRequestHanded, ResetHanded DEF Server
<1>4. CASE Crash
  BY <1>4, SessionBoundAssumption DEF Crash, HandedInv, TypeInv, TypeOK, SessionBoundAssumption
<1>5. CASE UNCHANGED vars
  BY <1>5, SameHanded DEF vars
<1> QED
  BY <1>2, <1>3, <1>4, <1>5 DEF Next

LEMMA HandedSettled == TypeInv /\ HandedInv => HandedOver
<1> SUFFICES ASSUME TypeInv, HandedInv, Settled, ~disputed, ~unsaid, crashes = 0
             PROVE  /\ heap[inSet].dir = LastOf("SCD", FirstDir)
                    /\ \/ heap[inSet].pass = FirstPassword
                       \/ [cmd |-> "CH-PASS", val |-> heap[inSet].pass] \in Range(outbox)
  BY DEF HandedOver
<1>1. \A c \in Conns : sv[c].op # "CD" /\ ~Renewed(sv[c])
  <2> SUFFICES ASSUME NEW c \in Conns PROVE sv[c].op # "CD" /\ ~Renewed(sv[c])
    OBVIOUS
  <2>1. ThreadControl(sv[c]) /\ sv[c] \in Threads(0 .. Len(heap))
    BY Typing DEF ThreadOK
  <2> QED
    BY <2>1 DEF Settled, Changers, Renewed, ThreadControl, Threads
<1>2. Current = inSet
  BY DEF Current, Settled, Changers, TypeInv, TypeOK
<1>3. HandedOK
  BY DEF HandedInv
<1>4. heap[inSet].dir = LastOf("SCD", FirstDir)
  BY <1>1, <1>2, <1>3, LastOfIs DEF HandedOK, TypeInv, TypeOK
<1> QED
  BY <1>1, <1>2, <1>3, <1>4 DEF HandedOK, Said

\* While the server has not restarted and outside the handlers, the account's
\* directory is the last one handed over for replication and its password was
\* handed over (CommandHandler.java:186), unless two logins overlapped, a
\* refused request made a session go on without its token, or the reply to a
\* change of password failed.
THEOREM RecordHandedOver == Spec => []HandedOver
<1>1. Init => TypeInv /\ HeldInv /\ OneInv /\ DiskInv /\ HandedInv
  BY InitTypeInv, InitHeld, InitOne, InitDisk, InitHanded
<1>2. TypeInv /\ HeldInv /\ OneInv /\ DiskInv /\ HandedInv /\ [Next]_vars
        => TypeInv' /\ HeldInv' /\ OneInv' /\ DiskInv' /\ HandedInv'
  BY NextTypeInv, NextHeld, NextOne, NextDisk, NextHanded
<1>3. TypeInv /\ HandedInv => HandedOver
  BY HandedSettled
<1> QED
  BY <1>1, <1>2, <1>3, PTL DEF Spec
=============================================================================
