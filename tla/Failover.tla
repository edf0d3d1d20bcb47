------------------------------ MODULE Failover ------------------------------
(***************************************************************************)
(* The two servers' heartbeats and who serves: com.Server.heartbeats, and  *)
(* the main threads of com.Server.PrimaryServer and SecondaryServer.       *)
(*                                                                         *)
(* Time passes in ticks, and only when no thread has a step to take: steps *)
(* are short next to the half second a heartbeat sleeps.  Steps due in the *)
(* same tick come in every order.                                          *)
(***************************************************************************)
EXTENDS Integers, Sequences, FiniteSets

CONSTANTS
  Hosts,                      \* the two machines
  Program,                    \* the main class each of them runs
  SOCKET_TIMEOUT,             \* ticks a receive waits
  HEARTBEAT_SLEEP,            \* ticks between a reply and the next heartbeat
  ALLOWED_HEARTBEAT_FAILURES, \* timeouts in a row before a secondary gives up
  BufferSize,                 \* datagrams a socket buffer holds
  MaxCrashes, MaxLosses,      \* bounds: crashes, heartbeats the network loses
  Horizon                     \* bound: ticks counted by the history variables

ASSUME HostsAssumption == IsFiniteSet(Hosts) /\ Cardinality(Hosts) = 2
ASSUME ProgramAssumption ==
  Program \in [Hosts -> {"PrimaryServer", "SecondaryServer"}]
ASSUME TimesAssumption ==
  /\ SOCKET_TIMEOUT \in Nat \ {0} /\ HEARTBEAT_SLEEP \in Nat \ {0}
  /\ ALLOWED_HEARTBEAT_FAILURES \in Nat \ {0}
ASSUME HeartbeatBoundAssumption ==
  /\ BufferSize \in Nat \ {0} /\ MaxCrashes \in Nat /\ MaxLosses \in Nat
  /\ Horizon \in Nat

(* main probes at start; sh0 is the SecondaryHeartbeat PrimaryServer starts *)
(* at line 52 and forgets, sh1 the one either program joins, ph the         *)
(* PrimaryHeartbeat.                                                        *)
Threads == {"main", "sh0", "sh1", "ph"}
Heartbeats == Threads \ {"main"}

VARIABLES
  mode,    \* of a host: off, probing, secondary or primary
  thread,  \* of a host and thread: pc, ticks left to wait, timeouts in a row
  lock,    \* the thread inside receive() of the host's socket, or "none"
  inbox,   \* datagrams in the host's heartbeat socket
  crashes, losses,
  serving, \* history: ticks a host has been primary, its peer up or not
  alone    \* history: ticks a host has been secondary to a peer that is off

vars == <<mode, thread, lock, inbox, crashes, losses, serving, alone>>

PRIMARY == "I AM PRIMARY"
SECONDARY == "I AM SECONDARY"

Other(h) == CHOOSE o \in Hosts : o # h

Stopped == [pc |-> "off", left |-> 0, fails |-> 0]
Started == [pc |-> "send", left |-> 0, fails |-> 0]
AllStopped == [t \in Threads |-> Stopped]

Init ==
  /\ mode = [h \in Hosts |-> "off"]
  /\ thread = [h \in Hosts |-> AllStopped]
  /\ lock = [h \in Hosts |-> "none"]
  /\ inbox = [h \in Hosts |-> << >>]
  /\ crashes = 0 /\ losses = 0
  /\ serving = [h \in Hosts |-> 0]
  /\ alone = [h \in Hosts |-> 0]

-----------------------------------------------------------------------------
(* The main threads. *)

\* PrimaryServer listens before it decides; SecondaryServer is a secondary.
StartPrimaryServer(h) ==
  /\ mode[h] = "off" /\ Program[h] = "PrimaryServer"
  /\ mode' = [mode EXCEPT ![h] = "probing"]
  /\ thread' = [thread EXCEPT ![h]["main"] =
                  [pc |-> "recv", left |-> SOCKET_TIMEOUT, fails |-> 0]]
  /\ lock' = [lock EXCEPT ![h] = "main"]
  /\ alone' = [alone EXCEPT ![Other(h)] = 0]
  /\ UNCHANGED <<inbox, crashes, losses, serving>>

StartSecondaryServer(h) ==
  /\ mode[h] = "off" /\ Program[h] = "SecondaryServer"
  /\ mode' = [mode EXCEPT ![h] = "secondary"]
  /\ thread' = [thread EXCEPT ![h]["sh1"] = Started]
  /\ alone' = [alone EXCEPT ![Other(h)] = 0]
  /\ UNCHANGED <<lock, inbox, crashes, losses, serving>>

\* The probe's verdict: a primary's heartbeat demotes, and starts the
\* heartbeat twice; anything else, and silence, leaves the host primary.
BecomeSecondary(h) ==
  /\ mode' = [mode EXCEPT ![h] = "secondary"]
  /\ thread' = [thread EXCEPT ![h] =
       [AllStopped EXCEPT !["sh0"] = Started, !["sh1"] = Started]]

BecomePrimary(h) ==
  /\ mode' = [mode EXCEPT ![h] = "primary"]
  /\ thread' = [thread EXCEPT ![h]["main"] = Stopped, ![h]["ph"] = Started]
  /\ serving' = [serving EXCEPT ![h] = 0]

ProbeReceive(h) ==
  /\ mode[h] = "probing"
  /\ inbox[h] # << >>
  /\ inbox' = [inbox EXCEPT ![h] = Tail(@)]
  /\ \/ Head(inbox[h]) = PRIMARY /\ BecomeSecondary(h) /\ UNCHANGED serving
     \/ Head(inbox[h]) # PRIMARY /\ BecomePrimary(h)
  /\ lock' = [lock EXCEPT ![h] = "none"]
  /\ UNCHANGED <<crashes, losses, alone>>

\* Mutant: the probe's while (true) goes on after a timeout.
ProbeAgain(h) ==
  /\ mode[h] = "probing"
  /\ inbox[h] = << >> /\ thread[h]["main"].left = 0
  /\ thread' = [thread EXCEPT ![h]["main"].left = SOCKET_TIMEOUT]
  /\ UNCHANGED <<mode, lock, inbox, crashes, losses, serving, alone>>

ProbeTimeout(h) ==
  /\ mode[h] = "probing"
  /\ inbox[h] = << >> /\ thread[h]["main"].left = 0
  /\ BecomePrimary(h)
  /\ lock' = [lock EXCEPT ![h] = "none"]
  /\ UNCHANGED <<inbox, crashes, losses, alone>>

\* sh1 has returned and the main thread that joined it takes over.
TakeOver(h) ==
  /\ mode[h] = "secondary" /\ thread[h]["sh1"].pc = "off"
  /\ BecomePrimary(h)
  /\ alone' = [alone EXCEPT ![h] = 0]
  /\ UNCHANGED <<lock, inbox, crashes, losses>>

-----------------------------------------------------------------------------
(* The loop of a heartbeat thread: send, receive under the socket's lock,  *)
(* and sleep, or count a timeout.                                          *)

Announces(t) == IF t = "ph" THEN PRIMARY ELSE SECONDARY

\* What a datagram does to the receiver's socket.
Arrives(h, m) ==
  IF mode[h] # "off" /\ Len(inbox[h]) < BufferSize
  THEN [inbox EXCEPT ![h] = Append(@, m)] ELSE inbox

Beat(h, t) ==
  /\ thread[h][t].pc = "send"
  /\ thread' = [thread EXCEPT ![h][t].pc = "want"]
  /\ \/ inbox' = Arrives(Other(h), Announces(t)) /\ UNCHANGED losses
     \/ losses < MaxLosses /\ losses' = losses + 1 /\ UNCHANGED inbox
  /\ UNCHANGED <<mode, lock, crashes, serving, alone>>

Acquire(h, t) ==
  /\ thread[h][t].pc = "want" /\ lock[h] = "none"
  /\ lock' = [lock EXCEPT ![h] = t]
  /\ thread' = [thread EXCEPT ![h][t].pc = "recv",
                              ![h][t].left = SOCKET_TIMEOUT]
  /\ UNCHANGED <<mode, inbox, crashes, losses, serving, alone>>

\* Heartbeat.java:89 compares a 1000-byte buffer, padding and all, with
\* "I AM PRIMARY": no datagram makes a PrimaryHeartbeat return.
StepsDown(t, m) == FALSE

\* Mutant: a failed heartbeat is not forgiven by the next good one.
NeverForgiven(m) == FALSE

\* Every datagram is a sign of life, whatever it says: the check of its text
\* is commented out (Heartbeat.java:47-51).
SignOfLife(m) == TRUE

Receive(h, t) ==
  /\ thread[h][t].pc = "recv"
  /\ inbox[h] # << >>
  /\ LET m == Head(inbox[h]) IN
       thread' = [thread EXCEPT ![h][t] =
         [pc |-> IF StepsDown(t, m) THEN "off" ELSE "sleep",
          left |-> HEARTBEAT_SLEEP,
          fails |-> IF SignOfLife(m) THEN 0 ELSE @.fails]]
  /\ inbox' = [inbox EXCEPT ![h] = Tail(@)]
  /\ lock' = [lock EXCEPT ![h] = "none"]
  /\ UNCHANGED <<mode, crashes, losses, serving, alone>>

\* Mutant: the loop tests <= where the code tests <.
GivesUpLate(t, fails) == t # "ph" /\ fails > ALLOWED_HEARTBEAT_FAILURES

\* A PrimaryHeartbeat counts failures too, but no count makes it return.
GivesUp(t, fails) == t # "ph" /\ fails = ALLOWED_HEARTBEAT_FAILURES

Timeout(h, t) ==
  /\ thread[h][t].pc = "recv"
  /\ inbox[h] = << >> /\ thread[h][t].left = 0
  /\ LET fails == IF t = "ph" THEN 0 ELSE thread[h][t].fails + 1 IN
       thread' = [thread EXCEPT ![h][t] =
         IF GivesUp(t, fails) THEN Stopped
         ELSE [pc |-> "send", left |-> 0, fails |-> fails]]
  /\ lock' = [lock EXCEPT ![h] = "none"]
  /\ UNCHANGED <<mode, inbox, crashes, losses, serving, alone>>

Wake(h, t) ==
  /\ thread[h][t].pc = "sleep" /\ thread[h][t].left = 0
  /\ thread' = [thread EXCEPT ![h][t].pc = "send"]
  /\ UNCHANGED <<mode, lock, inbox, crashes, losses, serving, alone>>

-----------------------------------------------------------------------------
Crash(h) ==
  /\ mode[h] # "off" /\ crashes < MaxCrashes
  /\ crashes' = crashes + 1
  /\ mode' = [mode EXCEPT ![h] = "off"]
  /\ thread' = [thread EXCEPT ![h] = AllStopped]
  /\ lock' = [lock EXCEPT ![h] = "none"]
  /\ inbox' = [inbox EXCEPT ![h] = << >>]
  /\ alone' = [alone EXCEPT ![h] = 0]
  /\ serving' = [serving EXCEPT ![h] = 0]
  /\ UNCHANGED losses

\* No thread can move before time passes.
Waits(h, t) ==
  LET th == thread[h][t] IN
    \/ th.pc = "off"
    \/ th.pc = "want" /\ lock[h] # "none"
    \/ th.pc = "recv" /\ inbox[h] = << >> /\ th.left > 0
    \/ th.pc = "sleep" /\ th.left > 0

Quiescent ==
  \A h \in Hosts : /\ \A t \in Threads : Waits(h, t)
                   /\ mode[h] = "secondary" => thread[h]["sh1"].pc # "off"

Later(n) == IF n < Horizon THEN n + 1 ELSE n

Tick ==
  /\ \E h \in Hosts : mode[h] # "off"
  /\ Quiescent
  /\ thread' = [h \in Hosts |-> [t \in Threads |->
       [thread[h][t] EXCEPT !.left = IF @ > 0 THEN @ - 1 ELSE 0]]]
  /\ serving' = [h \in Hosts |->
       IF mode[h] = "primary" THEN Later(serving[h]) ELSE 0]
  /\ alone' = [h \in Hosts |->
       IF mode[h] = "secondary" /\ mode[Other(h)] = "off"
       THEN Later(alone[h]) ELSE 0]
  /\ UNCHANGED <<mode, lock, inbox, crashes, losses>>

Step(h) ==
  \/ ProbeReceive(h) \/ ProbeTimeout(h) \/ TakeOver(h)
  \/ \E t \in Heartbeats : \/ Beat(h, t) \/ Acquire(h, t) \/ Receive(h, t)
                           \/ Timeout(h, t) \/ Wake(h, t)

Next ==
  \/ \E h \in Hosts : \/ StartPrimaryServer(h) \/ StartSecondaryServer(h)
                      \/ Step(h) \/ Crash(h)
  \/ Tick

\* Threads run and time passes; hosts are started, or crash, or neither.
Spec == Init /\ [][Next]_vars /\ WF_vars(Tick)
             /\ \A h \in Hosts : WF_vars(Step(h))

-----------------------------------------------------------------------------
TypeOK ==
  /\ mode \in [Hosts -> {"off", "probing", "secondary", "primary"}]
  /\ thread \in [Hosts -> [Threads ->
       [pc : {"off", "send", "want", "recv", "sleep"},
        left : 0 .. SOCKET_TIMEOUT + HEARTBEAT_SLEEP,
        fails : 0 .. ALLOWED_HEARTBEAT_FAILURES - 1]]]
  /\ lock \in [Hosts -> Threads \cup {"none"}]
  /\ inbox \in [Hosts -> Seq({PRIMARY, SECONDARY})]
  /\ crashes \in 0 .. MaxCrashes /\ losses \in 0 .. MaxLosses
  /\ serving \in [Hosts -> 0 .. Horizon]
  /\ alone \in [Hosts -> 0 .. Horizon]

\* Ticks of silence a heartbeat thread takes to give up.
PatienceTicks == ALLOWED_HEARTBEAT_FAILURES * SOCKET_TIMEOUT

\* A demoted PrimaryServer has two heartbeat threads, and a receive of one
\* keeps the other out: the one that matters can lose every other second.
Receivers(h) == IF Program[h] = "PrimaryServer" THEN 2 ELSE 1

\* A secondary whose peer is gone has taken over after the silence its threads
\* tolerate, plus the sleep it is in and one for each datagram that was still
\* in its socket (Heartbeat.java:29-69, PrimaryServer.java:52 and 84).
TakeoverInTime ==
  \A h \in Hosts :
    alone[h] <= Receivers(h) * PatienceTicks + (BufferSize + 1) * HEARTBEAT_SLEEP

\* A secondary does not take over from a primary that has been up as long as
\* the secondary's patience, although the network loses MaxLosses heartbeats,
\* fewer than ALLOWED_HEARTBEAT_FAILURES, and the two beat at different rates
\* (Heartbeat.java:33: failures in a row; SecondaryServer.java:57-58 "if PRIMARY
\* does not respond 5 times to heartbeat, become primary").
Settled(h) == /\ mode[h] = "primary"
              /\ serving[h] >= Receivers(Other(h)) * PatienceTicks

NoFalseTakeover ==
  [][\A h \in Hosts : TakeOver(h) => ~Settled(Other(h))]_vars

\* A host left alone serves in the end: its probe ends, and a demoted host's
\* heartbeats give up, whichever of them holds the socket (PrimaryServer.java
\* 42-72 and 88, SecondaryServer.java:31).
LoneHostServes ==
  \A h \in Hosts :
    mode[h] # "off" /\ mode[Other(h)] = "off"
      ~> mode[h] \in {"off", "primary"} \/ mode[Other(h)] # "off"

\* heartbeat.puml:37-41 "detects primary activity, adopts secondary posture":
\* two primaries that hear each other do not both stay primary.
SplitBrainHeals ==
  (\A h \in Hosts : mode[h] = "primary") ~>
    (\E h \in Hosts : mode[h] # "primary")

\* SecondaryServer.java:57-58 "if PRIMARY does not respond 5 times to
\* heartbeat, become primary": two hosts that stay up do not stay without one.
SomebodyServes ==
  (\A h \in Hosts : mode[h] # "off") ~>
    (\E h \in Hosts : mode[h] \in {"off", "primary"})
=============================================================================
