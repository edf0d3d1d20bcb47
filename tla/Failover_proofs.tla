-------------------------- MODULE Failover_proofs --------------------------
(***************************************************************************)
(* Proofs about Failover, for every timeout, number of failures, buffer,   *)
(* number of crashes and of lost heartbeats, and every pair of programs:   *)
(* type correctness, and a bound on the time a secondary whose peer is     *)
(* gone takes to take over.                                                *)
(***************************************************************************)
EXTENDS Failover, FiniteSetTheorems, SequenceTheorems, TLAPS

ThreadState ==
  [pc : {"off", "send", "want", "recv", "sleep"},
   left : 0 .. SOCKET_TIMEOUT + HEARTBEAT_SLEEP,
   fails : 0 .. ALLOWED_HEARTBEAT_FAILURES - 1]

\* Which threads of a host may run, and who holds its socket, in each mode.
Controlled(h) ==
  /\ mode[h] = "off" => thread[h] = AllStopped /\ inbox[h] = << >>
  /\ mode[h] = "probing" =>
       /\ Program[h] = "PrimaryServer"
       /\ thread[h]["main"].pc = "recv"
       /\ \A t \in Heartbeats : thread[h][t].pc = "off"
  /\ mode[h] \in {"secondary", "primary"} => thread[h]["main"].pc = "off"
  /\ mode[h] = "secondary" =>
       /\ thread[h]["ph"].pc = "off"
       /\ Program[h] = "SecondaryServer" => thread[h]["sh0"].pc = "off"
  /\ \A t \in Threads :
       /\ thread[h][t].pc = "recv" =>
            lock[h] = t /\ thread[h][t].left <= SOCKET_TIMEOUT
       /\ lock[h] = t => thread[h][t].pc = "recv"
       /\ thread[h][t].pc = "sleep" => thread[h][t].left <= HEARTBEAT_SLEEP
  /\ Len(inbox[h]) <= BufferSize
  /\ alone[h] # 0 => mode[h] = "secondary" /\ mode[Other(h)] = "off"

\* The silence a heartbeat thread still tolerates after f failures, and where
\* it stands.
Budget(f) == (ALLOWED_HEARTBEAT_FAILURES - f) * SOCKET_TIMEOUT

Silence(th) ==
  IF th.pc = "off" THEN 0
  ELSE IF th.pc = "recv" THEN th.left + Budget(th.fails + 1)
  ELSE Budget(th.fails)

Asleep(th) == IF th.pc = "sleep" THEN th.left ELSE 0

\* The ticks a secondary with threads ths and socket q can still wait: a
\* datagram that is left costs a sleep and starts every count of failures
\* again; with an empty socket each thread has the silence it has left.
Patience(h, ths, q) ==
  Asleep(ths["sh1"]) +
    (IF q = << >> THEN Silence(ths["sh0"]) + Silence(ths["sh1"])
     ELSE Receivers(h) * PatienceTicks + Len(q) * HEARTBEAT_SLEEP)

Limit(h) == Receivers(h) * PatienceTicks + (BufferSize + 1) * HEARTBEAT_SLEEP

InTime(h) ==
  mode[h] = "secondary" /\ mode[Other(h)] = "off" =>
    alone[h] + Patience(h, thread[h], inbox[h]) <= Limit(h)

Inv == TypeOK /\ \A h \in Hosts : Controlled(h) /\ InTime(h)

-----------------------------------------------------------------------------
(* The other host. *)

LEMMA TheOther ==
  ASSUME NEW h \in Hosts
  PROVE  /\ Other(h) \in Hosts /\ Other(h) # h
         /\ \A k \in Hosts : k # h => k = Other(h) /\ Other(k) = h
<1>1. IsFiniteSet(Hosts \ {h}) /\ Cardinality(Hosts \ {h}) = 1
  BY FS_RemoveElement, HostsAssumption
<1>2. PICK o : Hosts \ {h} = {o}
  BY <1>1, FS_Singleton
<1>3. Other(h) \in Hosts /\ Other(h) # h
  BY <1>2 DEF Other
<1>4. ASSUME NEW k \in Hosts, k # h
      PROVE  k = Other(h) /\ Other(k) = h
  <2>1. k = o /\ Other(h) = o
    BY <1>2, <1>3, <1>4
  <2>2. Other(k) \in Hosts /\ Other(k) # k
    BY <1>4 DEF Other
  <2> QED
    BY <1>2, <2>1, <2>2
<1> QED
  BY <1>3, <1>4

-----------------------------------------------------------------------------
(* Arithmetic of the silence a thread tolerates. *)

LEMMA BudgetFacts ==
  /\ PatienceTicks \in Nat
  /\ Budget(ALLOWED_HEARTBEAT_FAILURES) = 0
  /\ \A f \in 0 .. ALLOWED_HEARTBEAT_FAILURES :
       Budget(f) \in Nat /\ Budget(f) <= PatienceTicks
  /\ \A f \in 0 .. ALLOWED_HEARTBEAT_FAILURES - 1 :
       Budget(f) = SOCKET_TIMEOUT + Budget(f + 1)
<1>1. \A m, n \in Nat : m * n \in Nat
  OBVIOUS
<1>2. ASSUME NEW f \in 0 .. ALLOWED_HEARTBEAT_FAILURES
      PROVE  Budget(f) \in Nat /\ Budget(f) <= PatienceTicks
  <2> DEFINE d == ALLOWED_HEARTBEAT_FAILURES - f
  <2>1. d \in Nat /\ ALLOWED_HEARTBEAT_FAILURES = d + f /\ f \in Nat
    BY TimesAssumption
  <2>2. d * SOCKET_TIMEOUT \in Nat /\ f * SOCKET_TIMEOUT \in Nat
    BY <1>1, <2>1, TimesAssumption
  <2>3. (d + f) * SOCKET_TIMEOUT = d * SOCKET_TIMEOUT + f * SOCKET_TIMEOUT
    BY <2>1, TimesAssumption
  <2> QED
    BY <2>1, <2>2, <2>3 DEF Budget, PatienceTicks
<1>3. ASSUME NEW f \in 0 .. ALLOWED_HEARTBEAT_FAILURES - 1
      PROVE  Budget(f) = SOCKET_TIMEOUT + Budget(f + 1)
  BY TimesAssumption DEF Budget
<1>4. Budget(ALLOWED_HEARTBEAT_FAILURES) = 0
  BY TimesAssumption DEF Budget
<1>5. PatienceTicks \in Nat
  BY <1>1, TimesAssumption DEF PatienceTicks
<1> QED
  BY <1>2, <1>3, <1>4, <1>5

LEMMA ReceiversFacts ==
  ASSUME NEW h \in Hosts
  PROVE  /\ Program[h] = "PrimaryServer" =>
              Receivers(h) * PatienceTicks = PatienceTicks + PatienceTicks
         /\ Program[h] = "SecondaryServer" =>
              Receivers(h) * PatienceTicks = PatienceTicks
         /\ Receivers(h) * PatienceTicks \in Nat
         /\ PatienceTicks <= Receivers(h) * PatienceTicks
<1>1. Program[h] \in {"PrimaryServer", "SecondaryServer"}
  BY ProgramAssumption
<1>2. PatienceTicks \in Nat
  BY BudgetFacts
<1> QED
  BY <1>1, <1>2 DEF Receivers

LEMMA DatagramFacts ==
  /\ \A n \in Nat : n * HEARTBEAT_SLEEP \in Nat
  /\ \A n \in Nat : (n + 1) * HEARTBEAT_SLEEP = n * HEARTBEAT_SLEEP + HEARTBEAT_SLEEP
  /\ \A n \in Nat : n <= BufferSize =>
       n * HEARTBEAT_SLEEP <= BufferSize * HEARTBEAT_SLEEP
<1>1. \A m, n \in Nat : m * n \in Nat
  OBVIOUS
<1>2. ASSUME NEW n \in Nat, n <= BufferSize
      PROVE  n * HEARTBEAT_SLEEP <= BufferSize * HEARTBEAT_SLEEP
  <2> DEFINE d == BufferSize - n
  <2>1. d \in Nat /\ BufferSize = d + n
    BY <1>2, HeartbeatBoundAssumption
  <2>2. d * HEARTBEAT_SLEEP \in Nat /\ n * HEARTBEAT_SLEEP \in Nat
    BY <1>1, <2>1, TimesAssumption
  <2>3. (d + n) * HEARTBEAT_SLEEP = d * HEARTBEAT_SLEEP + n * HEARTBEAT_SLEEP
    BY <2>1, TimesAssumption
  <2> QED
    BY <2>1, <2>2, <2>3
<1>3. \A n \in Nat : n * HEARTBEAT_SLEEP \in Nat
  BY <1>1, TimesAssumption
<1>4. \A n \in Nat :
        (n + 1) * HEARTBEAT_SLEEP = n * HEARTBEAT_SLEEP + HEARTBEAT_SLEEP
  BY TimesAssumption
<1> QED
  BY <1>2, <1>3, <1>4

LEMMA LimitType ==
  ASSUME NEW h \in Hosts
  PROVE  Limit(h) \in Nat
<1>1. Receivers(h) * PatienceTicks \in Nat
  BY ReceiversFacts
<1>2. BufferSize + 1 \in Nat
  BY HeartbeatBoundAssumption
<1>3. (BufferSize + 1) * HEARTBEAT_SLEEP \in Nat
  BY <1>2, DatagramFacts
<1> QED
  BY <1>1, <1>3 DEF Limit

\* A thread's silence is at most the whole of it.
LEMMA SilenceBound ==
  ASSUME NEW th \in ThreadState,
         th.pc = "recv" => th.left <= SOCKET_TIMEOUT
  PROVE  Silence(th) \in Nat /\ Silence(th) <= PatienceTicks
<1>1. /\ th.fails \in 0 .. ALLOWED_HEARTBEAT_FAILURES - 1
      /\ th.left \in Nat
  BY TimesAssumption DEF ThreadState
<1>2. /\ th.fails \in 0 .. ALLOWED_HEARTBEAT_FAILURES
      /\ th.fails + 1 \in 0 .. ALLOWED_HEARTBEAT_FAILURES
  BY <1>1, TimesAssumption
<1>3. /\ Budget(th.fails) \in Nat /\ Budget(th.fails) <= PatienceTicks
      /\ Budget(th.fails + 1) \in Nat
      /\ Budget(th.fails) = SOCKET_TIMEOUT + Budget(th.fails + 1)
      /\ PatienceTicks \in Nat
  BY <1>1, <1>2, BudgetFacts
<1> QED
  BY <1>1, <1>3, TimesAssumption DEF Silence

\* Nor is that of a secondary's threads together more than they have.
LEMMA SilencesBound ==
  ASSUME NEW h \in Hosts, NEW ths \in [Threads -> ThreadState],
         \A t \in Threads :
           ths[t].pc = "recv" => ths[t].left <= SOCKET_TIMEOUT,
         Program[h] = "SecondaryServer" => ths["sh0"].pc = "off"
  PROVE  /\ Silence(ths["sh0"]) \in Nat /\ Silence(ths["sh1"]) \in Nat
         /\ Silence(ths["sh0"]) + Silence(ths["sh1"])
              <= Receivers(h) * PatienceTicks
<1> DEFINE R == Receivers(h) * PatienceTicks
           s0 == Silence(ths["sh0"])
           s1 == Silence(ths["sh1"])
<1>1. /\ "sh0" \in Threads /\ "sh1" \in Threads
      /\ ths["sh0"] \in ThreadState /\ ths["sh1"] \in ThreadState
  BY DEF Threads
<1>2. /\ s0 \in Nat /\ s0 <= PatienceTicks
      /\ s1 \in Nat /\ s1 <= PatienceTicks
  BY <1>1, SilenceBound
<1>3. CASE Program[h] = "PrimaryServer"
  BY <1>2, <1>3, ReceiversFacts, BudgetFacts
<1>4. CASE Program[h] = "SecondaryServer"
  <2>1. s0 = 0
    BY <1>4 DEF Silence
  <2> QED
    BY <1>2, <1>4, <2>1, ReceiversFacts, BudgetFacts
<1> QED
  BY <1>3, <1>4, ProgramAssumption

\* A secondary never has more ticks to wait than the limit.
LEMMA PatienceBound ==
  ASSUME NEW h \in Hosts, NEW ths \in [Threads -> ThreadState],
         NEW q \in Seq({PRIMARY, SECONDARY}), Len(q) <= BufferSize,
         \A t \in Threads :
           /\ ths[t].pc = "recv" => ths[t].left <= SOCKET_TIMEOUT
           /\ ths[t].pc = "sleep" => ths[t].left <= HEARTBEAT_SLEEP,
         Program[h] = "SecondaryServer" => ths["sh0"].pc = "off"
  PROVE  Patience(h, ths, q) \in Nat /\ Patience(h, ths, q) <= Limit(h)
<1> DEFINE R == Receivers(h) * PatienceTicks
           D == Len(q) * HEARTBEAT_SLEEP
           a == Asleep(ths["sh1"])
           s0 == Silence(ths["sh0"])
           s1 == Silence(ths["sh1"])
<1>1. ths["sh0"] \in ThreadState /\ ths["sh1"] \in ThreadState
  BY DEF Threads
<1>2. a \in Nat /\ a <= HEARTBEAT_SLEEP
  BY <1>1, TimesAssumption DEF Asleep, ThreadState, Threads
<1>3. s0 \in Nat /\ s1 \in Nat /\ s0 + s1 <= R
  BY SilencesBound
<1>4. R \in Nat
  BY ReceiversFacts
<1>5. D \in Nat /\ D <= BufferSize * HEARTBEAT_SLEEP
  BY DatagramFacts, LenProperties
<1>6. /\ (BufferSize + 1) * HEARTBEAT_SLEEP
           = BufferSize * HEARTBEAT_SLEEP + HEARTBEAT_SLEEP
      /\ BufferSize * HEARTBEAT_SLEEP \in Nat
  BY DatagramFacts, HeartbeatBoundAssumption
<1>7. Patience(h, ths, q) = a + (IF q = << >> THEN s0 + s1 ELSE R + D)
  BY DEF Patience
<1>8. Limit(h) = R + (BufferSize * HEARTBEAT_SLEEP + HEARTBEAT_SLEEP)
  BY <1>6 DEF Limit
<1> HIDE DEF R, D, a, s0, s1
<1> QED
  BY <1>2, <1>3, <1>4, <1>5, <1>6, <1>7, <1>8, TimesAssumption

-----------------------------------------------------------------------------
(* A step of a host, seen from either host. *)

LEMMA TypeUnfolds ==
  /\ TypeOK => /\ thread \in [Hosts -> [Threads -> ThreadState]]
               /\ inbox \in [Hosts -> Seq({PRIMARY, SECONDARY})]
               /\ alone \in [Hosts -> Nat]
  /\ TypeOK' => /\ thread' \in [Hosts -> [Threads -> ThreadState]]
                /\ inbox' \in [Hosts -> Seq({PRIMARY, SECONDARY})]
                /\ alone' \in [Hosts -> Nat]
<1>1. 0 .. Horizon \subseteq Nat
  BY HeartbeatBoundAssumption
<1> QED
  BY <1>1 DEF TypeOK, ThreadState

\* A host that is not counting, or starts to, is in time.
LEMMA NotYetAlone ==
  ASSUME TypeOK', NEW h \in Hosts, Controlled(h)', alone'[h] = 0
  PROVE  InTime(h)'
<1> SUFFICES ASSUME mode'[h] = "secondary"
             PROVE  alone'[h] + Patience(h, thread'[h], inbox'[h]) <= Limit(h)
  BY DEF InTime, Limit, Receivers, PatienceTicks
<1>1. /\ thread'[h] \in [Threads -> ThreadState]
      /\ inbox'[h] \in Seq({PRIMARY, SECONDARY})
  BY TypeUnfolds
<1>2. /\ Len(inbox'[h]) <= BufferSize
      /\ \A t \in Threads :
           /\ thread'[h][t].pc = "recv" => thread'[h][t].left <= SOCKET_TIMEOUT
           /\ thread'[h][t].pc = "sleep" => thread'[h][t].left <= HEARTBEAT_SLEEP
      /\ Program[h] = "SecondaryServer" => thread'[h]["sh0"].pc = "off"
  BY DEF Controlled
<1>3. /\ Patience(h, thread'[h], inbox'[h]) \in Nat
      /\ Patience(h, thread'[h], inbox'[h]) <= Limit(h)
  BY <1>1, <1>2, PatienceBound
<1> QED
  BY <1>3, LimitType

\* What a step of the other host does to host k: at most a datagram arrives, or
\* its count of lonely ticks is reset.
SameHost(k) ==
  /\ mode'[k] = mode[k] /\ thread'[k] = thread[k] /\ lock'[k] = lock[k]
  /\ \/ inbox'[k] = inbox[k]
     \/ /\ mode[k] # "off" /\ mode'[Other(k)] # "off"
        /\ Len(inbox'[k]) <= BufferSize
  /\ \/ alone'[k] = 0
     \/ alone'[k] = alone[k] /\ mode'[Other(k)] = mode[Other(k)]

LEMMA Bystander ==
  ASSUME Inv, TypeOK', NEW k \in Hosts, SameHost(k)
  PROVE  Controlled(k)' /\ InTime(k)'
<1>1. Controlled(k) /\ InTime(k)
  BY DEF Inv
<1>2. Controlled(k)'
  BY <1>1 DEF Controlled, SameHost, Other
<1>3. CASE alone'[k] = 0
  BY <1>2, <1>3, NotYetAlone
<1>4. CASE alone'[k] # 0
  <2>1. alone'[k] = alone[k] /\ mode'[Other(k)] = mode[Other(k)]
    BY <1>4 DEF SameHost
  <2>2. mode[Other(k)] = "off" /\ mode[k] = "secondary"
    BY <1>1, <1>4, <2>1 DEF Controlled
  <2>3. inbox'[k] = inbox[k] /\ thread'[k] = thread[k]
    BY <2>1, <2>2 DEF SameHost
  <2>4. alone[k] + Patience(k, thread[k], inbox[k]) <= Limit(k)
    BY <1>1, <2>2 DEF InTime
  <2>5. alone'[k] + Patience(k, thread'[k], inbox'[k]) <= Limit(k)
    BY <2>1, <2>3, <2>4
  <2>6. InTime(k)'
    BY <2>5 DEF InTime, Limit, Receivers, PatienceTicks
  <2> QED
    BY <1>2, <2>6
<1> QED
  BY <1>3, <1>4

LEMMA ThreadSet ==
  ASSUME NEW ths \in [Hosts -> [Threads -> ThreadState]],
         NEW h \in Hosts, NEW t \in Threads, NEW r \in ThreadState,
         NEW new, new = [ths EXCEPT ![h][t] = r]
  PROVE  /\ new \in [Hosts -> [Threads -> ThreadState]]
         /\ new[h] = [ths[h] EXCEPT ![t] = r]
         /\ \A k \in Hosts : k # h => new[k] = ths[k]
BY Zenon

LEMMA HostStep ==
  ASSUME Inv, TypeOK', NEW h \in Hosts, Controlled(h)', InTime(h)',
         SameHost(Other(h))
  PROVE  Inv'
<1>1. ASSUME NEW k \in Hosts
      PROVE  Controlled(k)' /\ InTime(k)'
  <2>1. CASE k = h
    BY <2>1
  <2>2. CASE k # h
    BY <2>2, TheOther, Bystander
  <2> QED
    BY <2>1, <2>2
<1> QED
  BY <1>1 DEF Inv

\* What a turn of heartbeat thread t of host h leaves behind: the thread is in
\* state r, the lock is its exactly if it receives, and no other thread of
\* either host has moved.
Turn(h, t, r) ==
  /\ r \in ThreadState
  /\ thread[h][t].pc # "off"
  /\ thread' = [thread EXCEPT ![h][t] = r]
  /\ UNCHANGED <<mode, crashes, serving, alone>>
  /\ losses' \in 0 .. MaxLosses
  /\ lock' \in [Hosts -> Threads \cup {"none"}]
  /\ \A k \in Hosts : k # h => lock'[k] = lock[k]
  /\ r.pc = "recv" <=> lock'[h] = t
  /\ \A u \in Threads : u # t => (lock'[h] = u <=> lock[h] = u)
  /\ r.pc = "recv" => r.left <= SOCKET_TIMEOUT
  /\ r.pc = "sleep" => r.left <= HEARTBEAT_SLEEP
  /\ inbox' \in [Hosts -> Seq({PRIMARY, SECONDARY})]
  /\ Len(inbox'[h]) <= BufferSize
  /\ \A k \in Hosts :
       k # h => \/ inbox'[k] = inbox[k]
                \/ mode[k] # "off" /\ Len(inbox'[k]) <= BufferSize

\* A turn keeps the invariant if it leaves its host no more ticks to wait.
LEMMA TurnStep ==
  ASSUME Inv, NEW h \in Hosts, NEW t \in Heartbeats, NEW r, Turn(h, t, r),
         mode[h] = "secondary" /\ t # "ph" =>
           Patience(h, [thread[h] EXCEPT ![t] = r], inbox'[h])
             <= Patience(h, thread[h], inbox[h])
  PROVE  Inv'
<1>1. Controlled(h) /\ InTime(h) /\ TypeOK /\ t \in Threads /\ t # "main"
  BY DEF Inv, Heartbeats
<1>2. /\ thread \in [Hosts -> [Threads -> ThreadState]]
      /\ inbox \in [Hosts -> Seq({PRIMARY, SECONDARY})]
      /\ alone \in [Hosts -> Nat]
  BY <1>1, TypeUnfolds
<1>3. /\ thread' \in [Hosts -> [Threads -> ThreadState]]
      /\ thread'[h] = [thread[h] EXCEPT ![t] = r]
      /\ \A k \in Hosts : k # h => thread'[k] = thread[k]
  <2>1. r \in ThreadState /\ thread' = [thread EXCEPT ![h][t] = r]
    BY DEF Turn
  <2> QED
    BY <1>1, <1>2, <2>1, ThreadSet
<1>4. TypeOK'
  BY <1>1, <1>3 DEF TypeOK, Turn, ThreadState
<1>5. /\ thread'[h][t] = r
      /\ \A u \in Threads : u # t => thread'[h][u] = thread[h][u]
  BY <1>1, <1>2, <1>3
<1>6. mode[h] \in {"secondary", "primary"}
  <2>1. thread[h][t].pc # "off"
    BY DEF Turn
  <2>2. mode[h] # "off"
    BY <1>1, <2>1 DEF Controlled, AllStopped, Stopped
  <2>3. mode[h] # "probing"
    BY <1>1, <2>1 DEF Controlled
  <2> QED
    BY <1>1, <2>2, <2>3 DEF TypeOK
<1>7. Controlled(h)'
  <2>1. /\ mode' = mode /\ alone' = alone /\ Len(inbox'[h]) <= BufferSize
        /\ thread[h][t].pc # "off"
        /\ r.pc = "recv" => r.left <= SOCKET_TIMEOUT
        /\ r.pc = "sleep" => r.left <= HEARTBEAT_SLEEP
        /\ r.pc = "recv" => lock'[h] = t
        /\ lock'[h] = t => r.pc = "recv"
        /\ \A u \in Threads : u # t => (lock'[h] = u => lock[h] = u)
        /\ \A u \in Threads : u # t => (lock[h] = u => lock'[h] = u)
    BY DEF Turn
  <2>2. /\ mode[h] = "secondary" =>
             /\ thread[h]["ph"].pc = "off"
             /\ Program[h] = "SecondaryServer" => thread[h]["sh0"].pc = "off"
        /\ thread[h]["main"].pc = "off"
        /\ alone[h] # 0 => mode[h] = "secondary" /\ mode[Other(h)] = "off"
    BY <1>1, <1>6 DEF Controlled
  <2>3. ASSUME NEW u \in Threads
        PROVE  /\ thread'[h][u].pc = "recv" =>
                    lock'[h] = u /\ thread'[h][u].left <= SOCKET_TIMEOUT
               /\ lock'[h] = u => thread'[h][u].pc = "recv"
               /\ thread'[h][u].pc = "sleep" =>
                    thread'[h][u].left <= HEARTBEAT_SLEEP
    <3>1. CASE u = t
      BY <1>5, <2>1, <3>1
    <3>2. CASE u # t
      <4>1. /\ thread[h][u].pc = "recv" =>
                 lock[h] = u /\ thread[h][u].left <= SOCKET_TIMEOUT
            /\ lock[h] = u => thread[h][u].pc = "recv"
            /\ thread[h][u].pc = "sleep" =>
                 thread[h][u].left <= HEARTBEAT_SLEEP
        BY <1>1 DEF Controlled
      <4> QED
        BY <1>5, <2>1, <3>2, <4>1
    <3> QED
      BY <3>1, <3>2
  <2>4. thread'[h]["main"].pc = "off"
    BY <1>1, <1>5, <2>2 DEF Threads
  <2>5. mode[h] = "secondary" =>
          /\ thread'[h]["ph"].pc = "off"
          /\ Program[h] = "SecondaryServer" => thread'[h]["sh0"].pc = "off"
    <3>1. mode[h] = "secondary" =>
            t # "ph" /\ (Program[h] = "SecondaryServer" => t # "sh0")
      BY <2>1, <2>2
    <3> QED
      BY <1>5, <2>2, <3>1 DEF Threads
  <2> QED
    BY <1>6, <2>1, <2>2, <2>3, <2>4, <2>5 DEF Controlled, Other
<1>8. InTime(h)'
  <2> SUFFICES ASSUME mode[h] = "secondary", mode[Other(h)] = "off"
               PROVE  alone[h] + Patience(h, thread'[h], inbox'[h]) <= Limit(h)
    BY DEF Turn, InTime, Limit, Receivers, PatienceTicks
  <2>1. t # "ph"
    BY <1>1 DEF Turn, Controlled
  <2>2. Patience(h, thread'[h], inbox'[h]) <= Patience(h, thread[h], inbox[h])
    BY <1>3, <2>1
  <2>3. alone[h] + Patience(h, thread[h], inbox[h]) <= Limit(h)
    BY <1>1 DEF InTime
  <2>4. Patience(h, thread[h], inbox[h]) \in Nat
    BY <1>1, <1>2, PatienceBound DEF Controlled
  <2>5. Patience(h, thread'[h], inbox'[h]) \in Nat
    <3>1. /\ Len(inbox'[h]) <= BufferSize
          /\ \A u \in Threads :
               /\ thread'[h][u].pc = "recv" =>
                    thread'[h][u].left <= SOCKET_TIMEOUT
               /\ thread'[h][u].pc = "sleep" =>
                    thread'[h][u].left <= HEARTBEAT_SLEEP
          /\ Program[h] = "SecondaryServer" => thread'[h]["sh0"].pc = "off"
      BY <1>7 DEF Controlled, Turn
    <3>2. /\ thread'[h] \in [Threads -> ThreadState]
          /\ inbox'[h] \in Seq({PRIMARY, SECONDARY})
      BY <1>4, TypeUnfolds
    <3> QED
      BY <3>1, <3>2, PatienceBound
  <2>6. Limit(h) \in Nat /\ alone[h] \in Nat
    BY <1>2, LimitType
  <2> QED
    BY <2>2, <2>3, <2>4, <2>5, <2>6
<1>9. SameHost(Other(h))
  BY <1>3, <1>6, TheOther DEF SameHost, Turn
<1> QED
  BY <1>4, <1>7, <1>8, <1>9, HostStep

-----------------------------------------------------------------------------
(* The turns of a heartbeat thread. *)

\* A turn that leaves the socket alone, and its thread no more silence to
\* tolerate nor sleep to finish, leaves its host no more ticks to wait.
LEMMA PatienceOfTurn ==
  ASSUME NEW h \in Hosts, NEW ths \in [Threads -> ThreadState],
         NEW t \in {"sh0", "sh1"}, NEW r \in ThreadState, NEW q,
         q # << >> => Receivers(h) * PatienceTicks + Len(q) * HEARTBEAT_SLEEP \in Nat,
         \A u \in {"sh0", "sh1"} : Silence(ths[u]) \in Nat,
         Silence(r) \in Nat, Silence(r) <= Silence(ths[t]),
         Asleep(r) <= Asleep(ths[t])
  PROVE  Patience(h, [ths EXCEPT ![t] = r], q) <= Patience(h, ths, q)
<1> DEFINE new == [ths EXCEPT ![t] = r]
           w == Receivers(h) * PatienceTicks + Len(q) * HEARTBEAT_SLEEP
<1>1. /\ new[t] = r
      /\ \A u \in {"sh0", "sh1"} : u # t => new[u] = ths[u]
  BY DEF Threads
<1>2. /\ Asleep(ths["sh1"]) \in Nat /\ Asleep(ths[t]) \in Nat
      /\ Asleep(r) \in Nat
  <2>1. ths["sh1"] \in ThreadState /\ ths[t] \in ThreadState
    BY DEF Threads
  <2> QED
    BY <2>1, TimesAssumption DEF Asleep, ThreadState
<1>3. /\ Asleep(new["sh1"]) \in Nat
      /\ Asleep(new["sh1"]) <= Asleep(ths["sh1"])
  BY <1>1, <1>2
<1>4. /\ Silence(new["sh0"]) \in Nat /\ Silence(new["sh1"]) \in Nat
      /\ Silence(new["sh0"]) <= Silence(ths["sh0"])
      /\ Silence(new["sh1"]) <= Silence(ths["sh1"])
  BY <1>1
<1>5. /\ Patience(h, new, q) =
           Asleep(new["sh1"]) +
             (IF q = << >> THEN Silence(new["sh0"]) + Silence(new["sh1"]) ELSE w)
      /\ Patience(h, ths, q) =
           Asleep(ths["sh1"]) +
             (IF q = << >> THEN Silence(ths["sh0"]) + Silence(ths["sh1"]) ELSE w)
  BY DEF Patience
<1>6. q # << >> => w \in Nat
  OBVIOUS
<1>7. Silence(ths["sh0"]) \in Nat /\ Silence(ths["sh1"]) \in Nat
  OBVIOUS
<1> HIDE DEF new, w
<1>8. q = << >> => Patience(h, new, q) <= Patience(h, ths, q)
  BY <1>2, <1>3, <1>4, <1>5, <1>7
<1>9. q # << >> => Patience(h, new, q) <= Patience(h, ths, q)
  BY <1>2, <1>3, <1>5, <1>6
<1> QED
  BY <1>8, <1>9 DEF new

\* The same, from the invariant.
LEMMA QuietTurn ==
  ASSUME Inv, NEW h \in Hosts, NEW t \in Heartbeats, t # "ph",
         NEW r \in ThreadState,
         r.pc = "recv" => r.left <= SOCKET_TIMEOUT,
         Silence(r) <= Silence(thread[h][t]),
         Asleep(r) <= Asleep(thread[h][t])
  PROVE  Patience(h, [thread[h] EXCEPT ![t] = r], inbox[h])
           <= Patience(h, thread[h], inbox[h])
<1>1. /\ thread[h] \in [Threads -> ThreadState]
      /\ inbox[h] \in Seq({PRIMARY, SECONDARY})
  BY TypeUnfolds DEF Inv
<1>2. \A u \in Threads :
        thread[h][u].pc = "recv" => thread[h][u].left <= SOCKET_TIMEOUT
  BY DEF Inv, Controlled
<1>3. t \in {"sh0", "sh1"}
  BY DEF Heartbeats, Threads
<1>4. \A u \in {"sh0", "sh1"} : Silence(thread[h][u]) \in Nat
  <2>1. \A u \in {"sh0", "sh1"} : u \in Threads /\ thread[h][u] \in ThreadState
    BY <1>1 DEF Threads
  <2> QED
    BY <1>2, <2>1, SilenceBound
<1>5. Silence(r) \in Nat
  BY SilenceBound
<1>6. Receivers(h) * PatienceTicks + Len(inbox[h]) * HEARTBEAT_SLEEP \in Nat
  <2>1. Receivers(h) * PatienceTicks \in Nat
    BY ReceiversFacts
  <2>2. Len(inbox[h]) \in Nat
    BY <1>1, LenProperties
  <2>3. Len(inbox[h]) * HEARTBEAT_SLEEP \in Nat
    BY <2>2, DatagramFacts
  <2> QED
    BY <2>1, <2>3
<1> QED
  BY <1>1, <1>3, <1>4, <1>5, <1>6, PatienceOfTurn

LEMMA BeatStep ==
  ASSUME Inv, NEW h \in Hosts, NEW t \in Heartbeats, Beat(h, t)
  PROVE  Inv'
<1> DEFINE r == [thread[h][t] EXCEPT !.pc = "want"]
<1>1. /\ TypeOK /\ Controlled(h) /\ t \in Threads
      /\ thread \in [Hosts -> [Threads -> ThreadState]]
      /\ inbox \in [Hosts -> Seq({PRIMARY, SECONDARY})]
  BY TypeUnfolds DEF Inv, Heartbeats
<1>2. /\ r \in ThreadState /\ r.pc = "want" /\ r.fails = thread[h][t].fails
      /\ thread[h][t].pc = "send"
      /\ thread' = [thread EXCEPT ![h][t] = r]
  <2>1. thread[h][t] \in ThreadState
    BY <1>1
  <2>2. r \in ThreadState /\ r.pc = "want" /\ r.fails = thread[h][t].fails
    BY <2>1 DEF ThreadState
  <2>3. thread[h][t].pc = "send"
    BY DEF Beat
  <2>4. thread' = [thread EXCEPT ![h][t] = r]
    BY <1>1 DEF Beat
  <2> QED
    BY <2>2, <2>3, <2>4
<1>3. lock[h] # t
  BY <1>1, <1>2 DEF Controlled
<1>4. /\ inbox' \in [Hosts -> Seq({PRIMARY, SECONDARY})]
      /\ \A k \in Hosts : k # Other(h) => inbox'[k] = inbox[k]
      /\ \/ inbox'[Other(h)] = inbox[Other(h)]
         \/ /\ mode[Other(h)] # "off"
            /\ Len(inbox'[Other(h)]) <= BufferSize
  <2>1. CASE inbox' = inbox
    BY <1>1, <2>1
  <2>2. CASE inbox' # inbox
    <3> DEFINE o == Other(h)
               m == Announces(t)
    <3>1. /\ mode[o] # "off" /\ Len(inbox[o]) < BufferSize
          /\ inbox' = [inbox EXCEPT ![o] = Append(inbox[o], m)]
      BY <2>2 DEF Beat, Arrives
    <3>2. o \in Hosts /\ m \in {PRIMARY, SECONDARY}
      BY TheOther DEF Announces
    <3>3. /\ Append(inbox[o], m) \in Seq({PRIMARY, SECONDARY})
          /\ Len(Append(inbox[o], m)) = Len(inbox[o]) + 1
          /\ Len(inbox[o]) \in Nat
      BY <1>1, <3>2, AppendProperties, LenProperties
    <3>4. Len(inbox[o]) + 1 <= BufferSize
      BY <3>1, <3>3, HeartbeatBoundAssumption
    <3> QED
      BY <1>1, <3>1, <3>2, <3>3, <3>4
  <2> QED
    BY <2>1, <2>2
<1>5. inbox'[h] = inbox[h] /\ Len(inbox[h]) <= BufferSize
  BY <1>1, <1>4, TheOther DEF Controlled
<1>6. \A k \in Hosts : k # h => k = Other(h)
  BY TheOther
<1>7. UNCHANGED <<mode, lock, crashes, serving, alone>>
  BY DEF Beat
<1>8. losses' \in 0 .. MaxLosses
  BY <1>1, HeartbeatBoundAssumption DEF Beat, TypeOK
<1>9. lock \in [Hosts -> Threads \cup {"none"}]
  BY <1>1 DEF TypeOK
<1>10. Turn(h, t, r)
  <2> HIDE DEF r
  <2> QED
    BY <1>2, <1>3, <1>4, <1>5, <1>6, <1>7, <1>8, <1>9 DEF Turn
<1>11. t # "ph" => Patience(h, [thread[h] EXCEPT ![t] = r], inbox'[h])
                     <= Patience(h, thread[h], inbox[h])
  <2>1. Asleep(r) = 0 /\ Asleep(thread[h][t]) = 0
    BY <1>2 DEF Asleep
  <2>2. Silence(r) = Silence(thread[h][t])
    BY <1>2 DEF Silence
  <2>3. Silence(r) \in Nat
    BY <1>2, SilenceBound
  <2> HIDE DEF r
  <2> QED
    BY <1>2, <1>5, <2>1, <2>2, <2>3, QuietTurn
<1> HIDE DEF r
<1> QED
  BY <1>10, <1>11, TurnStep

LEMMA AcquireStep ==
  ASSUME Inv, NEW h \in Hosts, NEW t \in Heartbeats, Acquire(h, t)
  PROVE  Inv'
<1> DEFINE r == [thread[h][t] EXCEPT !.pc = "recv", !.left = SOCKET_TIMEOUT]
<1>1. /\ TypeOK /\ Controlled(h) /\ t \in Threads
      /\ thread \in [Hosts -> [Threads -> ThreadState]]
      /\ lock \in [Hosts -> Threads \cup {"none"}]
      /\ inbox \in [Hosts -> Seq({PRIMARY, SECONDARY})]
  BY TypeUnfolds DEF Inv, Heartbeats, TypeOK
<1>2. /\ r.pc = "recv" /\ r.left = SOCKET_TIMEOUT
      /\ r.fails = thread[h][t].fails
      /\ thread[h][t].pc = "want" /\ lock[h] = "none"
      /\ lock' = [lock EXCEPT ![h] = t]
  BY <1>1 DEF Acquire, ThreadState
<1>3. r \in ThreadState
  <2>1. SOCKET_TIMEOUT \in 0 .. SOCKET_TIMEOUT + HEARTBEAT_SLEEP
    BY TimesAssumption
  <2>2. thread[h][t] \in ThreadState
    BY <1>1
  <2> QED
    BY <2>1, <2>2 DEF ThreadState
<1>4. thread' = [thread EXCEPT ![h][t] = r]
  BY <1>1 DEF Acquire, ThreadState
<1>5. /\ lock' \in [Hosts -> Threads \cup {"none"}] /\ lock'[h] = t
      /\ \A k \in Hosts : k # h => lock'[k] = lock[k]
  BY <1>1, <1>2
<1>6. \A u \in Threads : u # t => (lock'[h] = u <=> lock[h] = u)
  BY <1>2, <1>5 DEF Threads
<1>7. UNCHANGED <<mode, inbox, crashes, losses, serving, alone>>
  BY DEF Acquire
<1>8. losses \in 0 .. MaxLosses /\ Len(inbox[h]) <= BufferSize
  BY <1>1 DEF TypeOK, Controlled
<1>9. Turn(h, t, r)
  <2>1. r.left <= SOCKET_TIMEOUT
    BY <1>2, TimesAssumption
  <2> HIDE DEF r
  <2> QED
    BY <1>1, <1>2, <1>3, <1>4, <1>5, <1>6, <1>7, <1>8, <2>1 DEF Turn
<1>10. t # "ph" => Patience(h, [thread[h] EXCEPT ![t] = r], inbox'[h])
                     <= Patience(h, thread[h], inbox[h])
  <2>1. Asleep(r) = 0 /\ Asleep(thread[h][t]) = 0
    BY <1>2 DEF Asleep
  <2>2. r.left <= SOCKET_TIMEOUT
    BY <1>2, TimesAssumption
  <2>3. r.fails \in 0 .. ALLOWED_HEARTBEAT_FAILURES - 1
    BY <1>3 DEF ThreadState
  <2>4. Budget(r.fails) = SOCKET_TIMEOUT + Budget(r.fails + 1)
    BY <2>3, BudgetFacts
  <2>5. Silence(r) = Silence(thread[h][t])
    BY <1>2, <2>4 DEF Silence
  <2>6. Silence(r) \in Nat
    BY <1>3, <2>2, SilenceBound
  <2> HIDE DEF r
  <2> QED
    BY <1>3, <1>7, <2>1, <2>2, <2>5, <2>6, QuietTurn
<1> HIDE DEF r
<1> QED
  BY <1>9, <1>10, TurnStep

LEMMA WakeStep ==
  ASSUME Inv, NEW h \in Hosts, NEW t \in Heartbeats, Wake(h, t)
  PROVE  Inv'
<1> DEFINE r == [thread[h][t] EXCEPT !.pc = "send"]
<1>1. /\ TypeOK /\ Controlled(h) /\ t \in Threads
      /\ thread \in [Hosts -> [Threads -> ThreadState]]
      /\ lock \in [Hosts -> Threads \cup {"none"}]
      /\ inbox \in [Hosts -> Seq({PRIMARY, SECONDARY})]
  BY TypeUnfolds DEF Inv, Heartbeats, TypeOK
<1>2. /\ r \in ThreadState /\ r.pc = "send" /\ r.fails = thread[h][t].fails
      /\ thread[h][t].pc = "sleep" /\ thread[h][t].left = 0
      /\ thread' = [thread EXCEPT ![h][t] = r]
  <2>1. thread[h][t] \in ThreadState
    BY <1>1
  <2>2. r \in ThreadState /\ r.pc = "send" /\ r.fails = thread[h][t].fails
    BY <2>1 DEF ThreadState
  <2>3. thread[h][t].pc = "sleep" /\ thread[h][t].left = 0
    BY DEF Wake
  <2>4. thread' = [thread EXCEPT ![h][t] = r]
    BY <1>1 DEF Wake
  <2> QED
    BY <2>2, <2>3, <2>4
<1>3. lock[h] # t
  BY <1>1, <1>2 DEF Controlled
<1>4. UNCHANGED <<mode, lock, inbox, crashes, losses, serving, alone>>
  BY DEF Wake
<1>5. losses \in 0 .. MaxLosses /\ Len(inbox[h]) <= BufferSize
  BY <1>1 DEF TypeOK, Controlled
<1>6. Turn(h, t, r)
  <2> HIDE DEF r
  <2> QED
    BY <1>1, <1>2, <1>3, <1>4, <1>5 DEF Turn
<1>7. t # "ph" => Patience(h, [thread[h] EXCEPT ![t] = r], inbox'[h])
                    <= Patience(h, thread[h], inbox[h])
  <2>1. Asleep(r) = 0 /\ Asleep(thread[h][t]) = 0
    BY <1>2 DEF Asleep
  <2>2. Silence(r) = Silence(thread[h][t])
    BY <1>2 DEF Silence
  <2>3. Silence(r) \in Nat
    BY <1>2, SilenceBound
  <2> HIDE DEF r
  <2> QED
    BY <1>2, <1>4, <2>1, <2>2, <2>3, QuietTurn
<1> HIDE DEF r
<1> QED
  BY <1>6, <1>7, TurnStep

\* A timeout costs a failure, and the receive that ends had no ticks left.
LEMMA TimeoutStep ==
  ASSUME Inv, NEW h \in Hosts, NEW t \in Heartbeats, Timeout(h, t)
  PROVE  Inv'
<1> DEFINE f == IF t = "ph" THEN 0 ELSE thread[h][t].fails + 1
           r == IF GivesUp(t, f) THEN Stopped
                ELSE [pc |-> "send", left |-> 0, fails |-> f]
<1>1. /\ TypeOK /\ Controlled(h) /\ t \in Threads
      /\ thread \in [Hosts -> [Threads -> ThreadState]]
      /\ lock \in [Hosts -> Threads \cup {"none"}]
      /\ inbox \in [Hosts -> Seq({PRIMARY, SECONDARY})]
  BY TypeUnfolds DEF Inv, Heartbeats, TypeOK
<1>2. /\ thread[h][t].pc = "recv" /\ thread[h][t].left = 0
      /\ thread' = [thread EXCEPT ![h][t] = r]
      /\ lock' = [lock EXCEPT ![h] = "none"]
      /\ UNCHANGED <<mode, inbox, crashes, losses, serving, alone>>
  BY DEF Timeout
<1>3. thread[h][t].fails \in 0 .. ALLOWED_HEARTBEAT_FAILURES - 1
  BY <1>1 DEF ThreadState
<1>4. ~GivesUp(t, f) => f \in 0 .. ALLOWED_HEARTBEAT_FAILURES - 1
  BY <1>3, TimesAssumption DEF GivesUp
<1>5. r \in ThreadState /\ r.pc \in {"off", "send"}
  <2>1. 0 \in 0 .. SOCKET_TIMEOUT + HEARTBEAT_SLEEP
        /\ 0 \in 0 .. ALLOWED_HEARTBEAT_FAILURES - 1
    BY TimesAssumption
  <2> HIDE DEF f
  <2> QED
    BY <1>4, <2>1 DEF ThreadState, Stopped
<1>6. lock[h] = t
  BY <1>1, <1>2 DEF Controlled
<1>7. /\ lock' \in [Hosts -> Threads \cup {"none"}] /\ lock'[h] = "none"
      /\ \A k \in Hosts : k # h => lock'[k] = lock[k]
  BY <1>1, <1>2
<1>8. lock'[h] # t /\ \A u \in Threads : u # t => lock'[h] # u /\ lock[h] # u
  BY <1>1, <1>6, <1>7 DEF Threads
<1>9. losses \in 0 .. MaxLosses /\ Len(inbox[h]) <= BufferSize
  BY <1>1 DEF TypeOK, Controlled
<1>10. Turn(h, t, r)
  <2> HIDE DEF r
  <2> QED
    BY <1>1, <1>2, <1>5, <1>7, <1>8, <1>9 DEF Turn
<1>11. t # "ph" => Patience(h, [thread[h] EXCEPT ![t] = r], inbox'[h])
                     <= Patience(h, thread[h], inbox[h])
  <2> SUFFICES ASSUME t # "ph"
               PROVE  Patience(h, [thread[h] EXCEPT ![t] = r], inbox'[h])
                        <= Patience(h, thread[h], inbox[h])
    OBVIOUS
  <2>1. Asleep(r) = 0 /\ Asleep(thread[h][t]) = 0
    BY <1>2, <1>5 DEF Asleep
  <2>2. thread[h][t].fails + 1 \in 0 .. ALLOWED_HEARTBEAT_FAILURES
    BY <1>3, TimesAssumption
  <2>3. Budget(thread[h][t].fails + 1) \in Nat
    BY <2>2, BudgetFacts
  <2>4. Silence(thread[h][t]) = Budget(thread[h][t].fails + 1)
    BY <1>2, <2>3 DEF Silence
  <2>5. Silence(r) = 0 \/ Silence(r) = Budget(thread[h][t].fails + 1)
    BY DEF Silence, Stopped
  <2>6. Silence(r) <= Silence(thread[h][t])
    BY <2>3, <2>4, <2>5
  <2> HIDE DEF r, f
  <2> QED
    BY <1>2, <1>5, <2>1, <2>6, QuietTurn
<1> HIDE DEF r, f
<1> QED
  BY <1>10, <1>11, TurnStep

\* A datagram that is received costs a sleep, and the socket has one less.
LEMMA ReceiveStep ==
  ASSUME Inv, NEW h \in Hosts, NEW t \in Heartbeats, Receive(h, t)
  PROVE  Inv'
<1> DEFINE r == [pc |-> "sleep", left |-> HEARTBEAT_SLEEP, fails |-> 0]
           q == inbox[h]
           ths == [thread[h] EXCEPT ![t] = r]
<1>1. /\ TypeOK /\ Controlled(h) /\ t \in Threads
      /\ thread \in [Hosts -> [Threads -> ThreadState]]
      /\ lock \in [Hosts -> Threads \cup {"none"}]
      /\ inbox \in [Hosts -> Seq({PRIMARY, SECONDARY})]
  BY TypeUnfolds DEF Inv, Heartbeats, TypeOK
<1>2. /\ thread[h][t].pc = "recv" /\ q # << >>
      /\ thread' = [thread EXCEPT ![h][t] = r]
      /\ inbox' = [inbox EXCEPT ![h] = Tail(q)]
      /\ lock' = [lock EXCEPT ![h] = "none"]
      /\ UNCHANGED <<mode, crashes, losses, serving, alone>>
  BY DEF Receive, StepsDown, SignOfLife
<1>3. /\ r \in ThreadState /\ r.left <= HEARTBEAT_SLEEP
      /\ r.left \in Nat
  BY TimesAssumption DEF ThreadState
<1>4. lock[h] = t
  BY <1>1, <1>2 DEF Controlled
<1>5. /\ lock' \in [Hosts -> Threads \cup {"none"}] /\ lock'[h] = "none"
      /\ \A k \in Hosts : k # h => lock'[k] = lock[k]
  BY <1>1, <1>2
<1>6. lock'[h] # t /\ \A u \in Threads : u # t => lock'[h] # u /\ lock[h] # u
  BY <1>1, <1>4, <1>5 DEF Threads
<1>7. losses \in 0 .. MaxLosses /\ Len(q) <= BufferSize
  BY <1>1 DEF TypeOK, Controlled
<1>8. /\ Tail(q) \in Seq({PRIMARY, SECONDARY})
      /\ Len(q) \in Nat /\ Len(Tail(q)) \in Nat /\ Len(q) = Len(Tail(q)) + 1
  <2>1. q \in Seq({PRIMARY, SECONDARY})
    BY <1>1
  <2> HIDE DEF q
  <2> QED
    BY <1>2, <2>1, HeadTailProperties, LenProperties
<1>9. /\ inbox' \in [Hosts -> Seq({PRIMARY, SECONDARY})]
      /\ inbox'[h] = Tail(q)
      /\ \A k \in Hosts : k # h => inbox'[k] = inbox[k]
  BY <1>1, <1>2, <1>8
<1>10. Len(Tail(q)) <= BufferSize
  BY <1>7, <1>8, HeartbeatBoundAssumption
<1>11. Turn(h, t, r)
  <2>1. r.pc = "sleep"
    OBVIOUS
  <2> HIDE DEF r, q
  <2> QED
    BY <1>1, <1>2, <1>3, <1>5, <1>6, <1>7, <1>9, <1>10, <2>1 DEF Turn
<1>12. mode[h] = "secondary" =>
         Patience(h, ths, Tail(q)) <= Patience(h, thread[h], q)
  <2> SUFFICES ASSUME mode[h] = "secondary"
               PROVE  Patience(h, ths, Tail(q)) <= Patience(h, thread[h], q)
    OBVIOUS
  <2> DEFINE R == Receivers(h) * PatienceTicks
             D == Len(Tail(q)) * HEARTBEAT_SLEEP
             a == Asleep(thread[h]["sh1"])
             b == Asleep(ths["sh1"])
             s0 == Silence(ths["sh0"])
             s1 == Silence(ths["sh1"])
  <2>1. /\ ths \in [Threads -> ThreadState] /\ ths[t] = r
        /\ \A u \in Threads : u # t => ths[u] = thread[h][u]
    <3> HIDE DEF r
    <3> QED
      BY <1>1, <1>3
  <2>2. \A u \in Threads : ths[u].pc = "recv" => ths[u].left <= SOCKET_TIMEOUT
    BY <1>1, <2>1 DEF Controlled
  <2>3. /\ a \in Nat /\ b \in Nat
        /\ b <= a + HEARTBEAT_SLEEP
    <3>1. thread[h]["sh1"] \in ThreadState
      BY <1>1 DEF Threads
    <3>2. a \in Nat
      BY <3>1, TimesAssumption DEF Asleep, ThreadState
    <3>3. CASE t = "sh1"
      <4>1. b = HEARTBEAT_SLEEP
        BY <2>1, <3>3 DEF Asleep
      <4> QED
        BY <3>2, <4>1, TimesAssumption
    <3>4. CASE t # "sh1"
      <4>1. b = a
        BY <2>1, <3>4 DEF Threads
      <4> QED
        BY <3>2, <4>1, TimesAssumption
    <3> QED
      BY <3>3, <3>4
  <2>4. R \in Nat /\ D \in Nat
    BY <1>8, ReceiversFacts, DatagramFacts
  <2>5. Len(q) * HEARTBEAT_SLEEP = D + HEARTBEAT_SLEEP
    BY <1>8, DatagramFacts
  <2>6. s0 \in Nat /\ s1 \in Nat /\ s0 + s1 <= R
    <3>1. Program[h] = "SecondaryServer" => ths["sh0"].pc = "off"
      BY <1>1, <1>2, <2>1 DEF Controlled, Threads
    <3> HIDE DEF ths
    <3> QED
      BY <2>1, <2>2, <3>1, SilencesBound
  <2>7. Patience(h, thread[h], q) = a + (R + (D + HEARTBEAT_SLEEP))
    BY <1>2, <2>5 DEF Patience
  <2>8. Patience(h, ths, Tail(q)) =
          b + (IF Tail(q) = << >> THEN s0 + s1 ELSE R + D)
    BY DEF Patience
  <2> HIDE DEF ths, R, D, a, b, s0, s1, q
  <2>9. (IF Tail(q) = << >> THEN s0 + s1 ELSE R + D) <= R + D
    BY <2>4, <2>6
  <2>10. (IF Tail(q) = << >> THEN s0 + s1 ELSE R + D) \in Nat
    BY <2>4, <2>6
  <2> QED
    BY <2>3, <2>4, <2>7, <2>8, <2>9, <2>10, TimesAssumption
<1> HIDE DEF r
<1> QED
  BY <1>9, <1>11, <1>12, TurnStep

-----------------------------------------------------------------------------
(* The main threads, crashes and starts. *)

LEMMA Stopping ==
  /\ Stopped \in ThreadState /\ Started \in ThreadState
  /\ AllStopped \in [Threads -> ThreadState]
  /\ \A t \in Threads : AllStopped[t] = Stopped
  /\ Stopped.pc = "off" /\ Started.pc = "send"
<1>1. 0 \in 0 .. SOCKET_TIMEOUT + HEARTBEAT_SLEEP
      /\ 0 \in 0 .. ALLOWED_HEARTBEAT_FAILURES - 1
  BY TimesAssumption
<1>2. Stopped \in ThreadState /\ Started \in ThreadState
  BY <1>1 DEF Stopped, Started, ThreadState
<1> QED
  BY <1>2 DEF AllStopped, Stopped, Started

\* What a main thread's step, a start or a crash leaves behind: host h has the
\* threads ths and counts no lonely ticks, and of the other host at most the
\* count of them has changed.
MainTurn(h, ths) ==
  /\ ths \in [Threads -> ThreadState]
  /\ thread' = [thread EXCEPT ![h] = ths]
  /\ mode' \in [Hosts -> {"off", "probing", "secondary", "primary"}]
  /\ lock' \in [Hosts -> Threads \cup {"none"}]
  /\ inbox' \in [Hosts -> Seq({PRIMARY, SECONDARY})]
  /\ crashes' \in 0 .. MaxCrashes /\ losses' = losses
  /\ serving' \in [Hosts -> 0 .. Horizon]
  /\ alone' \in [Hosts -> 0 .. Horizon]
  /\ \A k \in Hosts :
       k # h => /\ mode'[k] = mode[k] /\ lock'[k] = lock[k]
                /\ inbox'[k] = inbox[k] /\ alone'[k] = 0
  /\ alone'[h] = 0

LEMMA MainStep ==
  ASSUME Inv, NEW h \in Hosts, NEW ths, MainTurn(h, ths), Controlled(h)'
  PROVE  Inv'
<1>1. TypeOK /\ thread \in [Hosts -> [Threads -> ThreadState]]
  BY TypeUnfolds DEF Inv
<1>2. /\ thread' \in [Hosts -> [Threads -> ThreadState]]
      /\ \A k \in Hosts : k # h => thread'[k] = thread[k]
  BY <1>1 DEF MainTurn
<1>3. TypeOK'
  BY <1>1, <1>2 DEF TypeOK, ThreadState, MainTurn
<1>4. InTime(h)'
  BY <1>3, NotYetAlone DEF MainTurn
<1>5. SameHost(Other(h))
  BY <1>2, TheOther DEF SameHost, MainTurn
<1> QED
  BY <1>3, <1>4, <1>5, HostStep

\* What every one of them starts from.
LEMMA Unfold ==
  ASSUME Inv, NEW h \in Hosts
  PROVE  /\ Controlled(h)
         /\ mode \in [Hosts -> {"off", "probing", "secondary", "primary"}]
         /\ thread \in [Hosts -> [Threads -> ThreadState]]
         /\ thread[h] \in [Threads -> ThreadState]
         /\ lock \in [Hosts -> Threads \cup {"none"}]
         /\ inbox \in [Hosts -> Seq({PRIMARY, SECONDARY})]
         /\ inbox[h] \in Seq({PRIMARY, SECONDARY}) /\ Len(inbox[h]) \in Nat
         /\ crashes \in 0 .. MaxCrashes
         /\ serving \in [Hosts -> 0 .. Horizon]
         /\ alone \in [Hosts -> 0 .. Horizon]
         /\ 0 \in 0 .. Horizon
         /\ mode[h] # "secondary" => alone[h] = 0
<1>1. TypeOK /\ Controlled(h)
  BY DEF Inv
<1>2. inbox[h] \in Seq({PRIMARY, SECONDARY})
  BY <1>1 DEF TypeOK
<1>3. Len(inbox[h]) \in Nat
  BY <1>2, LenProperties
<1>4. mode[h] # "secondary" => alone[h] = 0
  BY <1>1 DEF Controlled
<1>5. 0 \in 0 .. Horizon
  BY HeartbeatBoundAssumption
<1> QED
  BY <1>1, <1>2, <1>3, <1>4, <1>5 DEF TypeOK, ThreadState

LEMMA StartPrimaryServerStep ==
  ASSUME Inv, NEW h \in Hosts, StartPrimaryServer(h)
  PROVE  Inv'
<1> DEFINE r == [pc |-> "recv", left |-> SOCKET_TIMEOUT, fails |-> 0]
           ths == [AllStopped EXCEPT !["main"] = r]
<1>1. /\ thread[h] = AllStopped /\ inbox[h] = << >> /\ alone[h] = 0
  BY Unfold DEF StartPrimaryServer, Controlled
<1>2. r \in ThreadState /\ r.left <= SOCKET_TIMEOUT
  BY TimesAssumption DEF ThreadState
<1>3. /\ ths \in [Threads -> ThreadState] /\ ths["main"] = r
      /\ \A t \in Heartbeats : ths[t].pc = "off"
      /\ \A t \in Threads : t # "main" => ths[t].pc = "off"
  <2> HIDE DEF r
  <2> QED
    BY <1>2, Stopping DEF Threads, Heartbeats
<1>4. thread' = [thread EXCEPT ![h] = ths]
  BY <1>1, Unfold DEF StartPrimaryServer
<1>5. thread'[h] = ths
  BY <1>4, Unfold
<1>6. /\ mode' = [mode EXCEPT ![h] = "probing"]
      /\ lock' = [lock EXCEPT ![h] = "main"]
      /\ alone' = [alone EXCEPT ![Other(h)] = 0]
      /\ UNCHANGED <<inbox, crashes, losses, serving>>
      /\ Program[h] = "PrimaryServer"
  BY DEF StartPrimaryServer
<1>7. /\ mode' \in [Hosts -> {"off", "probing", "secondary", "primary"}]
      /\ mode'[h] = "probing" /\ lock'[h] = "main" /\ alone'[h] = 0
      /\ lock' \in [Hosts -> Threads \cup {"none"}]
      /\ alone' \in [Hosts -> 0 .. Horizon]
      /\ \A k \in Hosts :
           k # h => mode'[k] = mode[k] /\ lock'[k] = lock[k] /\ alone'[k] = 0
  BY <1>1, <1>6, TheOther, Unfold DEF Threads
<1>8. Len(inbox'[h]) <= BufferSize
  BY <1>6, Unfold DEF Controlled
<1>9. Controlled(h)'
  <2>1. r.pc = "recv"
    OBVIOUS
  <2> HIDE DEF ths, r
  <2> QED
    BY <1>2, <1>3, <1>5, <1>6, <1>7, <1>8, <2>1 DEF Controlled
<1> HIDE DEF ths
<1>10. MainTurn(h, ths)
  BY <1>3, <1>4, <1>6, <1>7, Unfold DEF MainTurn
<1> QED
  BY <1>9, <1>10, MainStep

LEMMA StartSecondaryServerStep ==
  ASSUME Inv, NEW h \in Hosts, StartSecondaryServer(h)
  PROVE  Inv'
<1> DEFINE ths == [AllStopped EXCEPT !["sh1"] = Started]
<1>1. thread[h] = AllStopped /\ inbox[h] = << >> /\ alone[h] = 0
  BY Unfold DEF StartSecondaryServer, Controlled
<1>2. /\ ths \in [Threads -> ThreadState] /\ ths["sh1"].pc = "send"
      /\ \A t \in Threads : t # "sh1" => ths[t].pc = "off"
  BY Stopping DEF Threads
<1>3. thread' = [thread EXCEPT ![h] = ths]
  BY <1>1, Unfold DEF StartSecondaryServer
<1>4. thread'[h] = ths
  BY <1>3, Unfold
<1>5. /\ mode' = [mode EXCEPT ![h] = "secondary"]
      /\ alone' = [alone EXCEPT ![Other(h)] = 0]
      /\ UNCHANGED <<lock, inbox, crashes, losses, serving>>
  BY DEF StartSecondaryServer
<1>6. /\ mode' \in [Hosts -> {"off", "probing", "secondary", "primary"}]
      /\ mode'[h] = "secondary" /\ alone'[h] = 0
      /\ alone' \in [Hosts -> 0 .. Horizon]
      /\ \A k \in Hosts : k # h => mode'[k] = mode[k] /\ alone'[k] = 0
  BY <1>1, <1>5, TheOther, Unfold
<1>7. Len(inbox'[h]) <= BufferSize
  BY <1>5, Unfold DEF Controlled
<1>8. \A t \in Threads : lock[h] # t
  BY <1>1, Unfold, Stopping DEF Controlled
<1>9. Controlled(h)'
  <2>1. /\ \A t \in Threads : ths[t].pc \notin {"recv", "sleep"}
        /\ ths["main"].pc = "off" /\ ths["ph"].pc = "off"
        /\ ths["sh0"].pc = "off"
    BY <1>2 DEF Threads
  <2> HIDE DEF ths
  <2> QED
    BY <1>4, <1>5, <1>6, <1>7, <1>8, <2>1 DEF Controlled
<1> HIDE DEF ths
<1>10. MainTurn(h, ths)
  BY <1>2, <1>3, <1>5, <1>6, Unfold DEF MainTurn
<1> QED
  BY <1>9, <1>10, MainStep

\* A probe ends in a primary, or in a secondary with two heartbeat threads.
LEMMA ProbeEnds ==
  ASSUME Inv, NEW h \in Hosts, mode[h] = "probing",
         \/ BecomeSecondary(h) /\ UNCHANGED serving
         \/ BecomePrimary(h),
         lock' = [lock EXCEPT ![h] = "none"],
         inbox' \in [Hosts -> Seq({PRIMARY, SECONDARY})],
         \A k \in Hosts : k # h => inbox'[k] = inbox[k],
         Len(inbox'[h]) <= BufferSize,
         UNCHANGED <<crashes, losses, alone>>
  PROVE  Inv'
<1>1. /\ \A t \in Heartbeats : thread[h][t].pc = "off"
      /\ Program[h] = "PrimaryServer" /\ alone[h] = 0
  BY Unfold DEF Controlled
<1>2. /\ lock' \in [Hosts -> Threads \cup {"none"}]
      /\ \A t \in Threads : lock'[h] # t
      /\ \A k \in Hosts : k # h => lock'[k] = lock[k]
  BY Unfold DEF Threads
<1>3. CASE BecomeSecondary(h) /\ UNCHANGED serving
  <2> DEFINE new == [AllStopped EXCEPT !["sh0"] = Started, !["sh1"] = Started]
  <2>1. /\ new \in [Threads -> ThreadState]
        /\ new["sh0"].pc = "send" /\ new["sh1"].pc = "send"
        /\ new["main"].pc = "off" /\ new["ph"].pc = "off"
    BY Stopping DEF Threads
  <2>2. \A t \in Threads : new[t].pc \notin {"recv", "sleep"}
    BY <2>1 DEF Threads
  <2>3. /\ thread' = [thread EXCEPT ![h] = new]
        /\ mode' = [mode EXCEPT ![h] = "secondary"]
    BY <1>3 DEF BecomeSecondary
  <2>4. /\ mode' \in [Hosts -> {"off", "probing", "secondary", "primary"}]
        /\ mode'[h] = "secondary"
        /\ \A k \in Hosts : k # h => mode'[k] = mode[k]
    BY <2>3, Unfold
  <2>5. thread'[h] = new
    BY <2>3, Unfold
  <2> HIDE DEF new
  <2>6. Controlled(h)'
    BY <1>1, <1>2, <2>1, <2>2, <2>4, <2>5 DEF Controlled
  <2>7. \A k \in Hosts : k # h => alone'[k] = 0
    BY <1>1, TheOther DEF Inv, Controlled
  <2>8. alone'[h] = 0
    BY <1>1
  <2>9. /\ serving' \in [Hosts -> 0 .. Horizon]
        /\ alone' \in [Hosts -> 0 .. Horizon]
        /\ crashes' \in 0 .. MaxCrashes /\ losses' = losses
    BY <1>3, Unfold
  <2>10. MainTurn(h, new)
    BY <1>2, <2>1, <2>3, <2>4, <2>7, <2>8, <2>9 DEF MainTurn
  <2> QED
    BY <2>6, <2>10, MainStep
<1>4. CASE BecomePrimary(h)
  <2> DEFINE new == [thread[h] EXCEPT !["main"] = Stopped, !["ph"] = Started]
  <2>1. /\ new \in [Threads -> ThreadState]
        /\ new["main"].pc = "off" /\ new["ph"].pc = "send"
        /\ new["sh0"].pc = "off" /\ new["sh1"].pc = "off"
    BY <1>1, Unfold, Stopping DEF Threads, Heartbeats
  <2>2. \A t \in Threads : new[t].pc \notin {"recv", "sleep"}
    BY <2>1 DEF Threads
  <2>3. /\ thread' = [thread EXCEPT ![h] = new]
        /\ mode' = [mode EXCEPT ![h] = "primary"]
        /\ serving' = [serving EXCEPT ![h] = 0]
    BY <1>4, Unfold DEF BecomePrimary
  <2>4. /\ mode' \in [Hosts -> {"off", "probing", "secondary", "primary"}]
        /\ mode'[h] = "primary"
        /\ \A k \in Hosts : k # h => mode'[k] = mode[k]
        /\ serving' \in [Hosts -> 0 .. Horizon]
    BY <2>3, Unfold
  <2>5. thread'[h] = new
    BY <2>3, Unfold
  <2> HIDE DEF new
  <2>6. Controlled(h)'
    BY <1>1, <1>2, <2>1, <2>2, <2>4, <2>5 DEF Controlled
  <2>7. \A k \in Hosts : k # h => alone'[k] = 0
    BY <1>1, TheOther DEF Inv, Controlled
  <2>8. alone'[h] = 0
    BY <1>1
  <2>9. /\ alone' \in [Hosts -> 0 .. Horizon]
        /\ crashes' \in 0 .. MaxCrashes /\ losses' = losses
    BY Unfold
  <2>10. MainTurn(h, new)
    BY <1>2, <2>1, <2>3, <2>4, <2>7, <2>8, <2>9 DEF MainTurn
  <2> QED
    BY <2>6, <2>10, MainStep
<1> QED
  BY <1>3, <1>4

LEMMA ProbeReceiveStep ==
  ASSUME Inv, NEW h \in Hosts, ProbeReceive(h)
  PROVE  Inv'
<1>1. inbox[h] # << >> /\ inbox' = [inbox EXCEPT ![h] = Tail(inbox[h])]
  BY DEF ProbeReceive
<1>2. /\ Tail(inbox[h]) \in Seq({PRIMARY, SECONDARY})
      /\ Len(Tail(inbox[h])) = Len(inbox[h]) - 1
  BY <1>1, Unfold, HeadTailProperties
<1>3. Len(inbox[h]) <= BufferSize /\ Len(inbox[h]) \in Nat
  BY Unfold DEF Controlled
<1>4. /\ inbox' \in [Hosts -> Seq({PRIMARY, SECONDARY})]
      /\ inbox'[h] = Tail(inbox[h])
      /\ \A k \in Hosts : k # h => inbox'[k] = inbox[k]
  BY <1>1, <1>2, Unfold
<1>5. Len(Tail(inbox[h])) <= BufferSize
  BY <1>2, <1>3, HeartbeatBoundAssumption
<1> QED
  BY <1>4, <1>5, ProbeEnds DEF ProbeReceive

LEMMA ProbeTimeoutStep ==
  ASSUME Inv, NEW h \in Hosts, ProbeTimeout(h)
  PROVE  Inv'
<1>1. Len(inbox[h]) <= BufferSize
  BY Unfold DEF Controlled
<1> QED
  BY <1>1, Unfold, ProbeEnds DEF ProbeTimeout

\* sh0 may still be beating, and hold the socket, when the host takes over.
LEMMA TakeOverStep ==
  ASSUME Inv, NEW h \in Hosts, TakeOver(h)
  PROVE  Inv'
<1> DEFINE new == [thread[h] EXCEPT !["main"] = Stopped, !["ph"] = Started]
<1>1. /\ mode[h] = "secondary"
      /\ thread[h]["main"].pc = "off" /\ thread[h]["ph"].pc = "off"
      /\ Len(inbox[h]) <= BufferSize
      /\ \A t \in Threads :
           /\ thread[h][t].pc = "recv" =>
                lock[h] = t /\ thread[h][t].left <= SOCKET_TIMEOUT
           /\ lock[h] = t => thread[h][t].pc = "recv"
           /\ thread[h][t].pc = "sleep" => thread[h][t].left <= HEARTBEAT_SLEEP
  BY Unfold DEF TakeOver, Controlled
<1>2. /\ new \in [Threads -> ThreadState]
      /\ new["main"].pc = "off" /\ new["ph"].pc = "send"
      /\ \A t \in Threads : t \notin {"main", "ph"} => new[t] = thread[h][t]
  BY Unfold, Stopping DEF Threads
<1>3. /\ thread' = [thread EXCEPT ![h] = new]
      /\ mode' = [mode EXCEPT ![h] = "primary"]
      /\ serving' = [serving EXCEPT ![h] = 0]
      /\ alone' = [alone EXCEPT ![h] = 0]
      /\ UNCHANGED <<lock, inbox, crashes, losses>>
  BY Unfold DEF TakeOver, BecomePrimary
<1>4. /\ mode' \in [Hosts -> {"off", "probing", "secondary", "primary"}]
      /\ mode'[h] = "primary"
      /\ \A k \in Hosts : k # h => mode'[k] = mode[k]
      /\ serving' \in [Hosts -> 0 .. Horizon]
      /\ alone' \in [Hosts -> 0 .. Horizon]
      /\ alone'[h] = 0
      /\ thread'[h] = new
  BY <1>2, <1>3, Unfold
<1>5. \A k \in Hosts : k # h => alone'[k] = 0
  BY <1>1, <1>3, TheOther DEF Inv, Controlled
<1> HIDE DEF new
<1>6. \A t \in Threads :
        /\ new[t].pc = "recv" => lock[h] = t /\ new[t].left <= SOCKET_TIMEOUT
        /\ lock[h] = t => new[t].pc = "recv"
        /\ new[t].pc = "sleep" => new[t].left <= HEARTBEAT_SLEEP
  <2> SUFFICES ASSUME NEW t \in Threads
               PROVE  /\ new[t].pc = "recv" =>
                           lock[h] = t /\ new[t].left <= SOCKET_TIMEOUT
                      /\ lock[h] = t => new[t].pc = "recv"
                      /\ new[t].pc = "sleep" => new[t].left <= HEARTBEAT_SLEEP
    OBVIOUS
  <2>1. CASE t \in {"main", "ph"}
    BY <1>1, <1>2, <2>1
  <2>2. CASE t \notin {"main", "ph"}
    BY <1>1, <1>2, <2>2
  <2> QED
    BY <2>1, <2>2
<1>7. Controlled(h)'
  BY <1>1, <1>2, <1>3, <1>4, <1>6 DEF Controlled
<1>8. MainTurn(h, new)
  BY <1>2, <1>3, <1>4, <1>5, Unfold DEF MainTurn
<1> QED
  BY <1>7, <1>8, MainStep

LEMMA CrashStep ==
  ASSUME Inv, NEW h \in Hosts, Crash(h)
  PROVE  Inv'
<1>1. /\ thread' = [thread EXCEPT ![h] = AllStopped]
      /\ mode' = [mode EXCEPT ![h] = "off"]
      /\ lock' = [lock EXCEPT ![h] = "none"]
      /\ inbox' = [inbox EXCEPT ![h] = << >>]
      /\ alone' = [alone EXCEPT ![h] = 0]
      /\ serving' = [serving EXCEPT ![h] = 0]
      /\ losses' = losses
      /\ mode[h] # "off"
  BY DEF Crash
<1>2. crashes' \in 0 .. MaxCrashes
  BY Unfold, HeartbeatBoundAssumption DEF Crash
<1>3. << >> \in Seq({PRIMARY, SECONDARY}) /\ Len(<< >>) = 0
  BY EmptySeq
<1>4. /\ mode' \in [Hosts -> {"off", "probing", "secondary", "primary"}]
      /\ lock' \in [Hosts -> Threads \cup {"none"}]
      /\ inbox' \in [Hosts -> Seq({PRIMARY, SECONDARY})]
      /\ serving' \in [Hosts -> 0 .. Horizon]
      /\ alone' \in [Hosts -> 0 .. Horizon]
      /\ mode'[h] = "off" /\ lock'[h] = "none" /\ inbox'[h] = << >>
      /\ alone'[h] = 0 /\ thread'[h] = AllStopped
      /\ \A k \in Hosts : k # h => /\ mode'[k] = mode[k] /\ lock'[k] = lock[k]
                                   /\ inbox'[k] = inbox[k]
                                   /\ alone'[k] = alone[k]
  BY <1>1, <1>3, Unfold
<1>5. \A k \in Hosts : k # h => alone'[k] = 0
  BY <1>1, <1>4, TheOther DEF Inv, Controlled
<1>6. Controlled(h)'
  <2>1. \A t \in Threads : lock'[h] # t
    BY <1>4 DEF Threads
  <2>2. Len(inbox'[h]) <= BufferSize
    BY <1>3, <1>4, HeartbeatBoundAssumption
  <2> QED
    BY <1>4, <2>1, <2>2, Stopping DEF Controlled
<1>7. MainTurn(h, AllStopped)
  BY <1>1, <1>2, <1>4, <1>5, Stopping DEF MainTurn
<1> QED
  BY <1>6, <1>7, MainStep

-----------------------------------------------------------------------------
(* Time. *)

\* A thread that waits for a tick and gets one.
Ticked(th) == [th EXCEPT !.left = IF @ > 0 THEN @ - 1 ELSE 0]

LEMMA TickOfThread ==
  ASSUME NEW th \in ThreadState
  PROVE  /\ Ticked(th) \in ThreadState
         /\ Ticked(th).pc = th.pc /\ Ticked(th).fails = th.fails
         /\ Ticked(th).left <= th.left
         /\ th.left > 0 => Ticked(th).left = th.left - 1
         /\ Asleep(Ticked(th)) \in Nat /\ Asleep(Ticked(th)) <= Asleep(th)
         /\ Asleep(th) \in Nat
<1>1. th.left \in 0 .. SOCKET_TIMEOUT + HEARTBEAT_SLEEP
  BY DEF ThreadState
<1>2. (IF th.left > 0 THEN th.left - 1 ELSE 0)
        \in 0 .. SOCKET_TIMEOUT + HEARTBEAT_SLEEP
  BY <1>1, TimesAssumption
<1>3. /\ Ticked(th) \in ThreadState
      /\ Ticked(th).pc = th.pc /\ Ticked(th).fails = th.fails
      /\ Ticked(th).left = (IF th.left > 0 THEN th.left - 1 ELSE 0)
  BY <1>2 DEF Ticked, ThreadState
<1>4. th.left \in Nat
  BY <1>1, TimesAssumption
<1> QED
  BY <1>3, <1>4 DEF Asleep

LEMMA TickOfSilence ==
  ASSUME NEW th \in ThreadState,
         th.pc = "recv" => th.left <= SOCKET_TIMEOUT
  PROVE  /\ Silence(Ticked(th)) \in Nat
         /\ Silence(Ticked(th)) <= Silence(th)
         /\ th.pc = "recv" /\ th.left > 0 =>
              Silence(Ticked(th)) + 1 <= Silence(th)
         /\ Silence(th) \in Nat
<1>1. th.left \in Nat /\ Ticked(th).left \in Nat
  BY TickOfThread, TimesAssumption DEF ThreadState
<1>2. /\ Ticked(th) \in ThreadState
      /\ Ticked(th).pc = th.pc /\ Ticked(th).fails = th.fails
      /\ Ticked(th).left <= th.left
      /\ th.left > 0 => Ticked(th).left = th.left - 1
  BY TickOfThread
<1>3. Silence(th) \in Nat
  BY SilenceBound
<1>4. CASE th.pc = "recv"
  <2>1. th.fails + 1 \in 0 .. ALLOWED_HEARTBEAT_FAILURES
    BY TimesAssumption DEF ThreadState
  <2>2. Budget(th.fails + 1) \in Nat
    BY <2>1, BudgetFacts
  <2>3. /\ Silence(th) = th.left + Budget(th.fails + 1)
        /\ Silence(Ticked(th)) = Ticked(th).left + Budget(th.fails + 1)
    BY <1>2, <1>4 DEF Silence
  <2> QED
    BY <1>1, <1>2, <1>3, <2>2, <2>3
<1>5. CASE th.pc # "recv"
  <2>1. Silence(Ticked(th)) = Silence(th)
    BY <1>2, <1>5 DEF Silence
  <2> QED
    BY <1>3, <1>5, <2>1
<1> QED
  BY <1>4, <1>5

\* A tick finds a secondary whose sh1 sleeps, or receives, or waits for sh0 to
\* finish receiving: it has one tick less to wait.
LEMMA TickOfPatience ==
  ASSUME Inv, NEW h \in Hosts, mode[h] = "secondary", Quiescent,
         NEW ths \in [Threads -> ThreadState],
         \A t \in Threads : ths[t] = Ticked(thread[h][t])
  PROVE  Patience(h, ths, inbox[h]) + 1 <= Patience(h, thread[h], inbox[h])
<1> DEFINE q == inbox[h]
           a == Asleep(thread[h]["sh1"])
           b == Asleep(ths["sh1"])
           s0 == Silence(thread[h]["sh0"])
           s1 == Silence(thread[h]["sh1"])
           t0 == Silence(ths["sh0"])
           t1 == Silence(ths["sh1"])
           w == Receivers(h) * PatienceTicks + Len(q) * HEARTBEAT_SLEEP
<1>1. /\ \A t \in Threads : thread[h][t] \in ThreadState
      /\ "sh0" \in Threads /\ "sh1" \in Threads
      /\ Controlled(h)
  BY Unfold DEF Threads
<1>2. /\ \A t \in Threads :
           /\ thread[h][t].pc = "recv" => thread[h][t].left <= SOCKET_TIMEOUT
           /\ lock[h] = t => thread[h][t].pc = "recv"
      /\ thread[h]["main"].pc = "off" /\ thread[h]["ph"].pc = "off"
      /\ lock[h] \in Threads \cup {"none"}
  BY <1>1, Unfold DEF Controlled
<1>3. /\ a \in Nat /\ b \in Nat /\ b <= a
  BY <1>1, TickOfThread
<1>4. /\ s0 \in Nat /\ s1 \in Nat /\ t0 \in Nat /\ t1 \in Nat
      /\ t0 <= s0 /\ t1 <= s1
  BY <1>1, <1>2, TickOfSilence
<1>5. w \in Nat
  <2>1. Receivers(h) * PatienceTicks \in Nat
    BY ReceiversFacts
  <2>2. Len(q) * HEARTBEAT_SLEEP \in Nat
    BY Unfold, DatagramFacts
  <2> QED
    BY <2>1, <2>2
<1>6. /\ Waits(h, "sh0") /\ Waits(h, "sh1")
      /\ thread[h]["sh1"].pc # "off"
  BY <1>1 DEF Quiescent
<1>7. /\ Patience(h, thread[h], q) =
           a + (IF q = << >> THEN s0 + s1 ELSE w)
      /\ Patience(h, ths, q) = b + (IF q = << >> THEN t0 + t1 ELSE w)
  BY DEF Patience
<1>8. \/ /\ thread[h]["sh1"].pc = "sleep" /\ thread[h]["sh1"].left > 0
      \/ /\ thread[h]["sh1"].pc = "recv" /\ thread[h]["sh1"].left > 0
         /\ q = << >>
      \/ thread[h]["sh1"].pc = "want" /\ lock[h] # "none"
  BY <1>6 DEF Waits
<1>9. CASE thread[h]["sh1"].pc = "sleep" /\ thread[h]["sh1"].left > 0
  <2>1. b + 1 <= a
    <3>1. /\ thread[h]["sh1"].left \in Nat
          /\ ths["sh1"].left = thread[h]["sh1"].left - 1
          /\ ths["sh1"].pc = "sleep"
      BY <1>1, <1>9, TickOfThread, TimesAssumption DEF ThreadState
    <3> QED
      BY <1>9, <3>1 DEF Asleep
  <2> HIDE DEF a, b, s0, s1, t0, t1, w, q
  <2>2. q = << >> => Patience(h, ths, q) + 1 <= Patience(h, thread[h], q)
    BY <1>3, <1>4, <1>7, <2>1
  <2>3. q # << >> => Patience(h, ths, q) + 1 <= Patience(h, thread[h], q)
    BY <1>3, <1>5, <1>7, <2>1
  <2> QED
    BY <2>2, <2>3 DEF q
<1>10. CASE /\ thread[h]["sh1"].pc = "recv" /\ thread[h]["sh1"].left > 0
            /\ q = << >>
  <2>1. t1 + 1 <= s1
    BY <1>1, <1>2, <1>10, TickOfSilence
  <2>2. q = << >>
    BY <1>10
  <2> HIDE DEF a, b, s0, s1, t0, t1, w, q
  <2>3. Patience(h, ths, q) + 1 <= Patience(h, thread[h], q)
    BY <1>3, <1>4, <1>7, <2>1, <2>2
  <2> QED
    BY <2>3 DEF q
<1>11. CASE thread[h]["sh1"].pc = "want" /\ lock[h] # "none"
  <2>1. lock[h] = "sh0"
    BY <1>2, <1>11 DEF Threads
  <2>2. /\ thread[h]["sh0"].pc = "recv" /\ thread[h]["sh0"].left > 0
        /\ q = << >>
    BY <1>1, <1>2, <1>6, <2>1 DEF Waits
  <2>3. t0 + 1 <= s0
    BY <1>1, <1>2, <2>2, TickOfSilence
  <2> HIDE DEF a, b, s0, s1, t0, t1, w, q
  <2>4. Patience(h, ths, q) + 1 <= Patience(h, thread[h], q)
    BY <1>3, <1>4, <1>7, <2>2, <2>3
  <2> QED
    BY <2>4 DEF q
<1> QED
  BY <1>8, <1>9, <1>10, <1>11

LEMMA TickStep ==
  ASSUME Inv, Tick
  PROVE  Inv'
<1>1. /\ TypeOK /\ \A h \in Hosts : Controlled(h) /\ InTime(h)
      /\ thread \in [Hosts -> [Threads -> ThreadState]]
      /\ alone \in [Hosts -> 0 .. Horizon]
  BY TypeUnfolds DEF Inv, TypeOK
<1>2. /\ Quiescent
      /\ thread' = [h \in Hosts |-> [t \in Threads |-> Ticked(thread[h][t])]]
      /\ UNCHANGED <<mode, lock, inbox, crashes, losses>>
  BY DEF Tick, Ticked
<1>3. /\ thread' \in [Hosts -> [Threads -> ThreadState]]
      /\ \A h \in Hosts, t \in Threads :
           thread'[h][t] = Ticked(thread[h][t])
  BY <1>1, <1>2, TickOfThread
<1>4. \A n \in 0 .. Horizon :
        Later(n) \in 0 .. Horizon /\ Later(n) <= n + 1
  BY HeartbeatBoundAssumption DEF Later
<1>5. 0 \in 0 .. Horizon
  BY HeartbeatBoundAssumption
<1>6. /\ serving' \in [Hosts -> 0 .. Horizon]
      /\ alone' \in [Hosts -> 0 .. Horizon]
  BY <1>1, <1>4, <1>5 DEF Tick, TypeOK
<1>7. TypeOK'
  BY <1>1, <1>2, <1>3, <1>6 DEF TypeOK, ThreadState
<1>8. ASSUME NEW h \in Hosts
      PROVE  alone'[h] = IF mode[h] = "secondary" /\ mode[Other(h)] = "off"
                         THEN Later(alone[h]) ELSE 0
  BY DEF Tick
<1>9. ASSUME NEW h \in Hosts
      PROVE  Controlled(h)'
  <2>1. \A t \in Threads :
          /\ thread[h][t] \in ThreadState
          /\ thread'[h][t].pc = thread[h][t].pc
          /\ thread'[h][t].left <= thread[h][t].left
          /\ thread[h][t].left \in Int /\ thread'[h][t].left \in Int
    <3> SUFFICES ASSUME NEW t \in Threads
                 PROVE  /\ thread[h][t] \in ThreadState
                        /\ thread'[h][t].pc = thread[h][t].pc
                        /\ thread'[h][t].left <= thread[h][t].left
                        /\ thread[h][t].left \in Int
                        /\ thread'[h][t].left \in Int
      OBVIOUS
    <3>1. thread[h][t] \in ThreadState
      BY <1>1
    <3>2. /\ thread'[h][t].pc = thread[h][t].pc
          /\ thread'[h][t].left <= thread[h][t].left
          /\ thread'[h][t] \in ThreadState
      BY <1>3, <3>1, TickOfThread
    <3> QED
      BY <3>1, <3>2, TimesAssumption DEF ThreadState
  <2>2. ASSUME NEW t \in Threads
        PROVE  /\ thread'[h][t].pc = "recv" =>
                    lock'[h] = t /\ thread'[h][t].left <= SOCKET_TIMEOUT
               /\ lock'[h] = t => thread'[h][t].pc = "recv"
               /\ thread'[h][t].pc = "sleep" =>
                    thread'[h][t].left <= HEARTBEAT_SLEEP
    <3>1. /\ thread[h][t].pc = "recv" =>
               lock[h] = t /\ thread[h][t].left <= SOCKET_TIMEOUT
          /\ lock[h] = t => thread[h][t].pc = "recv"
          /\ thread[h][t].pc = "sleep" =>
               thread[h][t].left <= HEARTBEAT_SLEEP
      BY <1>1 DEF Controlled
    <3>2. /\ thread'[h][t].pc = thread[h][t].pc
          /\ thread'[h][t].left <= thread[h][t].left
          /\ thread[h][t].left \in Int /\ thread'[h][t].left \in Int
      BY <2>1
    <3>3. lock'[h] = lock[h]
      BY <1>2
    <3> QED
      BY <3>1, <3>2, <3>3, TimesAssumption
  <2>3. mode[h] = "off" => thread'[h] = AllStopped
    <3> SUFFICES ASSUME mode[h] = "off"
                 PROVE  thread'[h] = AllStopped
      OBVIOUS
    <3>1. thread[h] = AllStopped
      BY <1>1 DEF Controlled
    <3>2. Ticked(Stopped) = Stopped
      BY DEF Ticked, Stopped
    <3> QED
      BY <1>2, <3>1, <3>2 DEF AllStopped
  <2>4. alone'[h] # 0 => mode[h] = "secondary" /\ mode[Other(h)] = "off"
    BY <1>8
  <2>5. /\ mode[h] = "off" => inbox[h] = << >>
        /\ mode[h] = "probing" =>
             /\ Program[h] = "PrimaryServer"
             /\ thread[h]["main"].pc = "recv"
             /\ \A t \in Heartbeats : thread[h][t].pc = "off"
        /\ mode[h] \in {"secondary", "primary"} =>
             thread[h]["main"].pc = "off"
        /\ mode[h] = "secondary" =>
             /\ thread[h]["ph"].pc = "off"
             /\ Program[h] = "SecondaryServer" => thread[h]["sh0"].pc = "off"
        /\ Len(inbox[h]) <= BufferSize
    BY <1>1 DEF Controlled
  <2>6. \A t \in Threads : thread'[h][t].pc = thread[h][t].pc
    BY <2>1
  <2>7. /\ "main" \in Threads /\ "ph" \in Threads /\ "sh0" \in Threads
        /\ Heartbeats \subseteq Threads
    BY DEF Threads, Heartbeats
  <2> QED
    BY <1>2, <2>2, <2>3, <2>4, <2>5, <2>6, <2>7 DEF Controlled, Other
<1>10. ASSUME NEW h \in Hosts
       PROVE  InTime(h)'
  <2> SUFFICES ASSUME mode[h] = "secondary", mode[Other(h)] = "off"
               PROVE  alone'[h] + Patience(h, thread'[h], inbox[h]) <= Limit(h)
    BY <1>2 DEF InTime, Limit, Receivers, PatienceTicks
  <2>1. alone[h] + Patience(h, thread[h], inbox[h]) <= Limit(h)
    BY <1>1 DEF InTime
  <2>2. /\ alone'[h] <= alone[h] + 1
        /\ alone[h] \in Int /\ alone'[h] \in Int
    BY <1>1, <1>4, <1>6, <1>8
  <2>3. Patience(h, thread'[h], inbox[h]) + 1
          <= Patience(h, thread[h], inbox[h])
    BY <1>2, <1>3, TickOfPatience
  <2>4. Patience(h, thread[h], inbox[h]) \in Nat
    BY <1>1, Unfold, PatienceBound DEF Controlled
  <2>5. Patience(h, thread'[h], inbox[h]) \in Nat
    <3>1. /\ Len(inbox'[h]) <= BufferSize
          /\ \A t \in Threads :
               /\ thread'[h][t].pc = "recv" =>
                    thread'[h][t].left <= SOCKET_TIMEOUT
               /\ thread'[h][t].pc = "sleep" =>
                    thread'[h][t].left <= HEARTBEAT_SLEEP
          /\ mode'[h] = "secondary" =>
               (Program[h] = "SecondaryServer" => thread'[h]["sh0"].pc = "off")
      BY <1>9 DEF Controlled
    <3>2. thread'[h] \in [Threads -> ThreadState]
      BY <1>3
    <3> QED
      BY <1>2, <3>1, <3>2, Unfold, PatienceBound
  <2>6. Limit(h) \in Nat
    BY LimitType
  <2> QED
    BY <2>1, <2>2, <2>3, <2>4, <2>5, <2>6
<1> QED
  BY <1>7, <1>9, <1>10 DEF Inv

-----------------------------------------------------------------------------
LEMMA InitInv ==
  ASSUME Init
  PROVE  Inv
<1>1. << >> \in Seq({PRIMARY, SECONDARY}) /\ Len(<< >>) = 0
  BY EmptySeq
<1>2. /\ thread \in [Hosts -> [Threads -> ThreadState]]
      /\ inbox \in [Hosts -> Seq({PRIMARY, SECONDARY})]
      /\ 0 \in 0 .. Horizon /\ 0 \in 0 .. MaxCrashes /\ 0 \in 0 .. MaxLosses
  BY <1>1, Stopping, HeartbeatBoundAssumption DEF Init
<1>3. TypeOK
  BY <1>2 DEF Init, TypeOK, ThreadState
<1>4. ASSUME NEW h \in Hosts
      PROVE  Controlled(h) /\ InTime(h)
  <2>1. /\ mode[h] = "off" /\ thread[h] = AllStopped /\ inbox[h] = << >>
        /\ lock[h] = "none" /\ alone[h] = 0
    BY DEF Init
  <2>2. \A t \in Threads : lock[h] # t /\ thread[h][t].pc = "off"
    BY <2>1, Stopping DEF Threads
  <2>3. Len(inbox[h]) <= BufferSize
    BY <1>1, <2>1, HeartbeatBoundAssumption
  <2> QED
    BY <2>1, <2>2, <2>3 DEF Controlled, InTime
<1> QED
  BY <1>3, <1>4 DEF Inv

LEMMA NextInv ==
  ASSUME Inv, [Next]_vars
  PROVE  Inv'
<1>1. ASSUME NEW h \in Hosts, Step(h)
      PROVE  Inv'
  <2>1. CASE ProbeReceive(h)
    BY <2>1, ProbeReceiveStep
  <2>2. CASE ProbeTimeout(h)
    BY <2>2, ProbeTimeoutStep
  <2>3. CASE TakeOver(h)
    BY <2>3, TakeOverStep
  <2>4. ASSUME NEW t \in Heartbeats, Beat(h, t)
        PROVE  Inv'
    BY <2>4, BeatStep
  <2>5. ASSUME NEW t \in Heartbeats, Acquire(h, t)
        PROVE  Inv'
    BY <2>5, AcquireStep
  <2>6. ASSUME NEW t \in Heartbeats, Receive(h, t)
        PROVE  Inv'
    BY <2>6, ReceiveStep
  <2>7. ASSUME NEW t \in Heartbeats, Timeout(h, t)
        PROVE  Inv'
    BY <2>7, TimeoutStep
  <2>8. ASSUME NEW t \in Heartbeats, Wake(h, t)
        PROVE  Inv'
    BY <2>8, WakeStep
  <2> QED
    BY <1>1, <2>1, <2>2, <2>3, <2>4, <2>5, <2>6, <2>7, <2>8 DEF Step
<1>2. ASSUME NEW h \in Hosts, StartPrimaryServer(h)
      PROVE  Inv'
  BY <1>2, StartPrimaryServerStep
<1>3. ASSUME NEW h \in Hosts, StartSecondaryServer(h)
      PROVE  Inv'
  BY <1>3, StartSecondaryServerStep
<1>4. ASSUME NEW h \in Hosts, Crash(h)
      PROVE  Inv'
  BY <1>4, CrashStep
<1>5. CASE Tick
  BY <1>5, TickStep
<1>6. CASE UNCHANGED vars
  <2>1. ASSUME NEW h \in Hosts
        PROVE  Controlled(h)' /\ InTime(h)'
    <3>1. Controlled(h) /\ InTime(h)
      BY DEF Inv
    <3>2. Controlled(h)'
      BY <1>6, <3>1 DEF vars, Controlled, Other
    <3>3. InTime(h)'
      BY <1>6, <3>1 DEF vars, InTime, Other, Patience, Limit, Receivers,
                        PatienceTicks, Silence, Asleep, Budget
    <3> QED
      BY <3>2, <3>3
  <2>2. TypeOK'
    BY <1>6 DEF vars, TypeOK, Inv
  <2> QED
    BY <2>1, <2>2 DEF Inv
<1> QED
  BY <1>1, <1>2, <1>3, <1>4, <1>5, <1>6 DEF Next

LEMMA InvImpliesTakeoverInTime ==
  ASSUME Inv
  PROVE  TakeoverInTime
<1> SUFFICES ASSUME NEW h \in Hosts
             PROVE  alone[h] <= Limit(h)
  BY DEF TakeoverInTime, Limit
<1>1. /\ Controlled(h) /\ InTime(h) /\ alone[h] \in Nat /\ Limit(h) \in Nat
  BY TypeUnfolds, LimitType DEF Inv
<1>2. CASE alone[h] = 0
  BY <1>1, <1>2
<1>3. CASE alone[h] # 0
  <2>1. mode[h] = "secondary" /\ mode[Other(h)] = "off"
    BY <1>1, <1>3 DEF Controlled
  <2>2. alone[h] + Patience(h, thread[h], inbox[h]) <= Limit(h)
    BY <1>1, <2>1 DEF InTime
  <2>3. Patience(h, thread[h], inbox[h]) \in Nat
    BY <2>1, Unfold, PatienceBound DEF Controlled
  <2> QED
    BY <1>1, <2>2, <2>3
<1> QED
  BY <1>2, <1>3

\* The threads of both hosts, their counts and their socket's lock stay of
\* their types, whatever crashes, is lost and is restarted
\* (Heartbeat.java:29-69, PrimaryServer.java:42-88, SecondaryServer.java:31).
THEOREM FailoverType == Spec => []TypeOK
<1>1. Init => Inv
  BY InitInv
<1>2. Inv /\ [Next]_vars => Inv'
  BY NextInv
<1>3. Inv => TypeOK
  BY DEF Inv
<1> QED
  BY <1>1, <1>2, <1>3, PTL DEF Spec

\* For every timeout, sleep, number of failures and socket buffer, a secondary
\* whose peer is gone takes over within the time TakeoverInTime names
\* (Heartbeat.java:29-69, PrimaryServer.java:52 and 84).
THEOREM TakesOverInTime == Spec => []TakeoverInTime
<1>1. Init => Inv
  BY InitInv
<1>2. Inv /\ [Next]_vars => Inv'
  BY NextInv
<1>3. Inv => TakeoverInTime
  BY InvImpliesTakeoverInTime
<1> QED
  BY <1>1, <1>2, <1>3, PTL DEF Spec
=============================================================================
