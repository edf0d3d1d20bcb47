-------------------- MODULE CommandReplication_proofs -----------------------
(***************************************************************************)
(* Proofs about CommandReplication, for any fields, pools and bounds.      *)
(***************************************************************************)
EXTENDS CommandReplication, FiniteSetTheorems, SequenceTheorems, TLAPS

\* What a handler holds depends on where it is, and a command is handled once:
\* it is under way, or at a handler, never both.
ControlOK ==
  \A k \in 1 .. MaxCommands :
    /\ ~At(k, {"idle"}) => k <= started /\ k \notin net
    /\ At(k, {"found", "set", "removed", "added"}) => handler[k].obj # 0
    /\ At(k, {"set", "removed", "added"}) => handler[k].in # 0

TypeInv == TypeOK /\ ControlOK

\* Past setServerDir or setPasswordHash, with success.
HasSet(k) == At(k, {"set", "removed", "added", "applied"})

\* A handler outside a takeover works on one Auth and its object: the first
\* before the new one is loaded, the second once it is the server's.
OneAuth ==
  /\ auth = IF takeover = "primary" THEN 2 ELSE 1
  /\ takeover = "secondary" => ~raced /\ heap[2] = [f \in Fields |-> 0]
  /\ ~raced =>
       /\ inSet[1] \in {0, 1} /\ inSet[2] \in {0, 2}
       /\ \A k \in AtWork :
            /\ takeover # "loading"
            /\ handler[k].obj = auth
            /\ At(k, {"set", "removed", "added"}) => handler[k].in = auth
            /\ At(k, {"removed", "added"}) => handler[k].aid \in {0, auth}

\* The record shows a change that was applied before k was handed over.
Shows(record, k) == Source(record[commands[k]]) \in before[k]

\* Once a command has set its value, no change applied before it shows in a
\* record that is or will be served, or in the file once the command is applied.
NoneUndone ==
  /\ \A k \in 1 .. MaxCommands : \A j \in before[k] : At(j, {"applied"})
  /\ ~raced =>
       \A k \in 1 .. MaxCommands : HasSet(k) =>
         /\ takeover # "primary" => ~Shows(heap[1], k)
         /\ takeover # "secondary" => ~Shows(heap[2], k)
         /\ (At(k, {"applied"}) /\ Readable(file)) => ~Shows(file, k)

IInv == TypeInv /\ OneAuth /\ NoneUndone

-----------------------------------------------------------------------------
(* Types. *)

Busy == {"found", "set", "removed", "added"}

LEMMA Counts ==
  ASSUME TypeOK
  PROVE  /\ Len(commands) \in Nat /\ started \in Nat /\ started <= Len(commands)
         /\ MaxCommands \in Nat /\ Len(commands) <= MaxCommands
         /\ \A k \in 1 .. started : k \in 1 .. MaxCommands /\ commands[k] \in Fields
<1>1. Len(commands) \in Nat
  BY LenProperties DEF TypeOK
<1>2. started \in Nat /\ started <= Len(commands) /\ MaxCommands \in Nat
      /\ Len(commands) <= MaxCommands
  BY <1>1, ReplicationAssumption DEF TypeOK
<1>3. ASSUME NEW k \in 1 .. started
      PROVE  k \in 1 .. MaxCommands /\ commands[k] \in Fields
  BY <1>1, <1>2, ElementOfSeq DEF TypeOK
<1> QED
  BY <1>1, <1>2, <1>3

\* What arrives of a value is known for its command's.
LEMMA Arrives ==
  ASSUME NEW k \in 1 .. MaxCommands
  PROVE  Arriving(k) \in (-MaxCommands) .. MaxCommands /\ Source(Arriving(k)) = k
  BY ReplicationAssumption DEF Arriving, Source

LEMMA InitType == Init => TypeInv
<1> SUFFICES ASSUME Init PROVE TypeInv
  OBVIOUS
<1>1. Len(commands) = 0 /\ commands \in Seq(Fields)
  BY EmptySeq DEF Init
<1>2. Idle \in Handlings
  BY DEF Idle, Handlings, Places
<1>3. [f \in Fields |-> 0] \in Record /\ MaxCommands \in Nat
  BY ReplicationAssumption DEF Record
<1>4. file \in Record /\ heap \in [Auths -> Record] /\ inSet \in [Auths -> 0 .. 2]
  BY <1>3 DEF Init, Auths
<1>5. handler \in [1 .. MaxCommands -> Handlings]
      /\ before \in [1 .. MaxCommands -> SUBSET (1 .. MaxCommands)]
  BY <1>2 DEF Init
<1>6. Len(commands) <= MaxCommands /\ started \in 0 .. Len(commands)
  BY <1>1, <1>3 DEF Init
<1>8. TypeOK
  BY <1>1, <1>4, <1>5, <1>6 DEF Init, TypeOK, Auths
<1>7. ControlOK
  BY DEF Init, ControlOK, At, Idle
<1> QED
  BY <1>7, <1>8 DEF TypeInv

\* A handler's step that leaves it as h leaves the other commands alone.
LEMMA HandlerStep ==
  ASSUME TypeInv, NEW k \in 1 .. MaxCommands, NEW h \in Handlings, Step(k, h),
         \/ net' = net \ {k} /\ k \in net
         \/ net' = net /\ ~At(k, {"idle"}),
         h.pc \in Busy => h.obj # 0,
         h.pc \in Busy \ {"found"} => h.in # 0
  PROVE  /\ handler' \in [1 .. MaxCommands -> Handlings]
         /\ handler'[k] = h
         /\ \A j \in 1 .. MaxCommands \ {k} : handler'[j] = handler[j]
         /\ k \in 1 .. started
         /\ net' \subseteq 1 .. started
         /\ ControlOK'
<1>1. k \in 1 .. started /\ net' \subseteq 1 .. started /\ k \notin net'
  <2>1. net \subseteq 1 .. started /\ started \in Nat
    BY Counts DEF TypeInv, TypeOK
  <2>2. ~At(k, {"idle"}) => k <= started /\ k \notin net
    BY DEF TypeInv, ControlOK
  <2>3. k \in 1 .. started
    BY <2>1, <2>2
  <2>4. net' = net \/ net' = net \ {k}
    OBVIOUS
  <2>5. k \notin net'
    BY <2>2
  <2> QED
    BY <2>1, <2>3, <2>4, <2>5
<1>2. /\ handler' \in [1 .. MaxCommands -> Handlings] /\ handler'[k] = h
      /\ \A j \in 1 .. MaxCommands \ {k} : handler'[j] = handler[j]
  BY DEF TypeInv, TypeOK, Step
<1>3. ControlOK'
  <2> SUFFICES ASSUME NEW j \in 1 .. MaxCommands
               PROVE  /\ ~At(j, {"idle"})' => j <= started' /\ j \notin net'
                      /\ At(j, {"found", "set", "removed", "added"})' =>
                           handler'[j].obj # 0
                      /\ At(j, {"set", "removed", "added"})' => handler'[j].in # 0
    BY DEF ControlOK
  <2>1. CASE j = k
    BY <2>1, <1>1, <1>2, Counts DEF At, Busy, Step, primary, TypeInv
  <2>2. CASE j # k
    BY <2>2, <1>2 DEF TypeInv, ControlOK, At, Step, primary
  <2> QED
    BY <2>1, <2>2
<1> QED
  BY <1>1, <1>2, <1>3

LEMMA HandOverType ==
  ASSUME TypeInv, NEW f \in Fields, HandOver(f)
  PROVE  TypeInv'
<1>1. commands' \in Seq(Fields) /\ Len(commands') = Len(commands) + 1
  BY AppendProperties DEF HandOver, TypeInv, TypeOK
<1>2. /\ Len(commands') <= MaxCommands /\ started' \in 0 .. Len(commands')
      /\ before' \in [1 .. MaxCommands -> SUBSET (1 .. MaxCommands)]
  BY <1>1, Counts DEF HandOver, TypeInv, TypeOK, Issued
<1>3. TypeOK'
  BY <1>1, <1>2 DEF HandOver, TypeInv, TypeOK, Record, Auths, network, accounts, role
<1>4. ControlOK'
  BY DEF HandOver, TypeInv, ControlOK, At, network
<1> QED
  BY <1>3, <1>4 DEF TypeInv

LEMMA SendCommandType ==
  ASSUME TypeInv, SendCommand
  PROVE  TypeInv'
<1>1. started' \in 0 .. Len(commands) /\ 1 .. started \subseteq 1 .. started'
      /\ started + 1 \in 1 .. started'
  BY Counts DEF SendCommand, TypeInv, TypeOK
<1>2. TypeOK'
  BY <1>1 DEF SendCommand, TypeInv, TypeOK, Record, Auths, accounts, role
<1>3. ControlOK'
  BY <1>1, Counts DEF SendCommand, TypeInv, ControlOK, At, TypeOK
<1> QED
  BY <1>2, <1>3 DEF TypeInv

LEMMA NetworkType ==
  ASSUME TypeInv, NEW k \in 1 .. MaxCommands, TakeReply(k) \/ Lose(k)
  PROVE  TypeInv'
<1>1. TypeOK'
  BY DEF TakeReply, Lose, TypeInv, TypeOK, Record, Auths, primary, accounts, role
<1>2. ControlOK'
  BY DEF TakeReply, Lose, TypeInv, ControlOK, At, primary
<1> QED
  BY <1>1, <1>2 DEF TypeInv

LEMMA ReceiveType ==
  ASSUME TypeInv, NEW k \in 1 .. MaxCommands, Receive(k)
  PROVE  TypeInv'
<1> DEFINE h == [handler[k] EXCEPT !.pc = "run"]
<1>1. h \in Handlings /\ h.pc = "run"
  BY DEF TypeInv, TypeOK, Handlings, Places
<1>2. handler' \in [1 .. MaxCommands -> Handlings] /\ net' \subseteq 1 .. started
      /\ ControlOK'
  BY <1>1, HandlerStep DEF Receive, Busy
<1>3. TypeOK'
  BY <1>2 DEF Receive, Step, TypeInv, TypeOK, Record, Auths, primary, accounts, role
<1> QED
  BY <1>2, <1>3 DEF TypeInv

\* What a handler that misses its user leaves.
LEMMA MissType ==
  ASSUME TypeInv, NEW k \in 1 .. MaxCommands, Miss(k) \/ Refuse(k), ~At(k, {"idle"})
  PROVE  TypeInv'
<1>1. ASSUME NEW place \in {"dead", "refused"},
             Step(k, [handler[k] EXCEPT !.pc = place])
      PROVE  /\ handler' \in [1 .. MaxCommands -> Handlings]
             /\ k \in 1 .. started /\ ControlOK'
  <2> DEFINE h == [handler[k] EXCEPT !.pc = place]
  <2>1. h \in Handlings /\ h.pc = place
    BY DEF TypeInv, TypeOK, Handlings, Places
  <2> HIDE DEF h
  <2>2. Step(k, h) /\ net' = net
    BY <1>1 DEF h, Miss, Refuse, network
  <2> QED
    BY <2>1, <2>2, HandlerStep DEF Busy
<1>2. handler' \in [1 .. MaxCommands -> Handlings] /\ k \in 1 .. started /\ ControlOK'
  BY <1>1 DEF Miss, Refuse
<1>3. TypeOK'
  BY <1>2 DEF Miss, Refuse, Step, TypeInv, TypeOK, Record, Auths, network, primary, accounts, role
<1> QED
  BY <1>2, <1>3 DEF TypeInv

LEMMA FindUserType ==
  ASSUME TypeInv, NEW k \in 1 .. MaxCommands, FindUser(k)
  PROVE  TypeInv'
<1>1. CASE Miss(k) \/ Refuse(k)
  BY <1>1, MissType DEF FindUser, At
<1>2. CASE ~Miss(k) /\ ~Refuse(k)
  <2> DEFINE h == [handler[k] EXCEPT !.pc = "found", !.obj = inSet[auth]]
  <2>1. inSet[auth] \in 1 .. 2
    BY <1>2 DEF FindUser, TypeInv, TypeOK
  <2>6. handler[k] \in Handlings /\ "found" \in Places
    BY DEF TypeInv, TypeOK, Places
  <2>2. h \in Handlings /\ h.pc = "found" /\ h.obj # 0
    <3>1. inSet[auth] \in 0 .. 2 /\ inSet[auth] # 0
      BY <2>1
    <3>2. h \in Handlings
      BY <2>6, <3>1 DEF Handlings
    <3>3. h.pc = "found"
      BY <2>6 DEF Handlings
    <3>4. h.obj # 0
      BY <2>6, <3>1 DEF Handlings
    <3> QED
      BY <3>2, <3>3, <3>4
  <2> HIDE DEF h
  <2>3. Step(k, h) /\ net' = net /\ ~At(k, {"idle"})
    BY <1>2 DEF h, FindUser, network, At
  <2>4. handler' \in [1 .. MaxCommands -> Handlings] /\ ControlOK'
    BY <2>2, <2>3, HandlerStep DEF Busy
  <2>5. TypeOK'
    BY <1>2, <2>4 DEF FindUser, Step, TypeInv, TypeOK, Record, Auths, network, primary,
       accounts, role
  <2> QED
    BY <2>4, <2>5 DEF TypeInv
<1> QED
  BY <1>1, <1>2

LEMMA SetFieldType ==
  ASSUME TypeInv, NEW k \in 1 .. MaxCommands, SetField(k)
  PROVE  TypeInv'
<1> DEFINE h == [handler[k] EXCEPT !.pc = "set", !.in = auth]
<1>1. auth \in 1 .. 2 /\ handler[k].obj \in Auths
  BY DEF SetField, TypeInv, TypeOK, ControlOK, At, Handlings, Auths
<1>7. handler[k] \in Handlings /\ "set" \in Places
  BY DEF TypeInv, TypeOK, Places
<1>2. h \in Handlings /\ h.pc = "set" /\ h.obj # 0 /\ h.in # 0
  <2>1. auth \in 0 .. 2 /\ auth # 0 /\ handler[k].obj # 0
    BY <1>1 DEF Auths
  <2>2. h \in Handlings
    BY <1>7, <2>1 DEF Handlings
  <2>3. h.pc = "set"
    BY <1>7 DEF Handlings
  <2>4. h.obj # 0
    BY <1>7, <2>1 DEF Handlings
  <2>5. h.in # 0
    BY <1>7, <2>1 DEF Handlings
  <2> QED
    BY <2>2, <2>3, <2>4, <2>5
<1> HIDE DEF h
<1>3. Step(k, h) /\ net' = net /\ ~At(k, {"idle"})
  BY DEF h, SetField, network, At
<1>4. handler' \in [1 .. MaxCommands -> Handlings] /\ ControlOK' /\ k \in 1 .. started
  BY <1>2, <1>3, HandlerStep DEF Busy
<1>5. heap' \in [Auths -> Record]
  <2> DEFINE v == Arriving(k)
  <2>1. heap' = [heap EXCEPT ![handler[k].obj][commands[k]] = v]
    BY DEF SetField
  <2>2. commands[k] \in Fields /\ v \in (-MaxCommands) .. MaxCommands
    BY <1>4, Counts, Arrives DEF TypeInv
  <2>3. [heap[handler[k].obj] EXCEPT ![commands[k]] = v] \in Record
    BY <1>1, <2>2 DEF TypeInv, TypeOK, Record
  <2> HIDE DEF v
  <2> QED
    BY <1>1, <2>1, <2>3 DEF TypeInv, TypeOK
<1>6. TypeOK'
  BY <1>4, <1>5 DEF SetField, Step, TypeInv, TypeOK, network, primary, role
<1> QED
  BY <1>4, <1>6 DEF TypeInv

LEMMA RemoveOldType ==
  ASSUME TypeInv, NEW k \in 1 .. MaxCommands, RemoveOld(k)
  PROVE  TypeInv'
<1>1. CASE Miss(k)
  BY <1>1, MissType DEF RemoveOld, At
<1>2. CASE ~Miss(k)
  <2> DEFINE a == handler[k].in
  <2> DEFINE h == [handler[k] EXCEPT !.pc = "removed", !.aid = inSet[a]]
  <2>1. a \in Auths /\ inSet[a] \in 0 .. 2 /\ handler[k].obj # 0
    BY DEF RemoveOld, TypeInv, TypeOK, ControlOK, At, Handlings, Auths
  <2>8. handler[k] \in Handlings /\ "removed" \in Places
    BY DEF TypeInv, TypeOK, Places
  <2>2. h \in Handlings /\ h.pc = "removed" /\ h.obj # 0 /\ h.in # 0
    <3>1. inSet[a] \in 0 .. 2 /\ handler[k].obj # 0 /\ handler[k].in # 0
      BY <2>1 DEF Auths
    <3>2. h \in Handlings
      BY <2>8, <3>1 DEF Handlings
    <3>3. h.pc = "removed"
      BY <2>8 DEF Handlings
    <3>4. h.obj # 0 /\ h.in # 0
      BY <2>8, <3>1 DEF Handlings
    <3> QED
      BY <3>2, <3>3, <3>4
  <2>3. inSet' = [inSet EXCEPT ![a] = 0]
    BY <1>2 DEF RemoveOld
  <2>4. Step(k, h) /\ net' = net /\ ~At(k, {"idle"})
    BY <1>2 DEF RemoveOld, network, At
  <2> HIDE DEF h, a
  <2>5. handler' \in [1 .. MaxCommands -> Handlings] /\ ControlOK'
    BY <2>2, <2>4, HandlerStep DEF Busy
  <2>6. inSet' \in [Auths -> 0 .. 2]
    BY <2>1, <2>3 DEF TypeInv, TypeOK
  <2>7. TypeOK'
    BY <1>2, <2>5, <2>6 DEF RemoveOld, Step, TypeInv, TypeOK, Record, Auths, network,
       primary, accounts, role
  <2> QED
    BY <2>5, <2>7 DEF TypeInv
<1> QED
  BY <1>1, <1>2

LEMMA AddNewType ==
  ASSUME TypeInv, NEW k \in 1 .. MaxCommands, AddNew(k)
  PROVE  TypeInv'
<1> DEFINE h == [handler[k] EXCEPT !.pc = "added"]
<1>1. handler[k].in \in Auths /\ handler[k].obj \in 0 .. 2
  BY DEF AddNew, TypeInv, TypeOK, ControlOK, At, Handlings, Auths
<1>2. h \in Handlings /\ h.pc = "added" /\ h.obj # 0 /\ h.in # 0
  BY DEF AddNew, At, TypeInv, TypeOK, ControlOK, Handlings, Places
<1> HIDE DEF h
<1>3. Step(k, h) /\ net' = net /\ ~At(k, {"idle"})
  BY DEF h, AddNew, network, At
<1>4. handler' \in [1 .. MaxCommands -> Handlings] /\ ControlOK'
  BY <1>2, <1>3, HandlerStep DEF Busy
<1>5. inSet' \in [Auths -> 0 .. 2]
  BY <1>1 DEF AddNew, TypeInv, TypeOK
<1>6. TypeOK'
  BY <1>4, <1>5 DEF AddNew, Step, TypeInv, TypeOK, network, primary, role
<1> QED
  BY <1>4, <1>6 DEF TypeInv

LEMMA WriteRecordType ==
  ASSUME TypeInv, NEW k \in 1 .. MaxCommands, WriteRecord(k)
  PROVE  TypeInv'
<1> DEFINE h == [handler[k] EXCEPT !.pc = "applied"]
<1>1. handler[k].aid \in 0 .. 2
  BY DEF TypeInv, TypeOK, Handlings
<1>2. h \in Handlings /\ h.pc = "applied"
  BY DEF TypeInv, TypeOK, Handlings, Places
<1> HIDE DEF h
<1>3. Step(k, h) /\ net' = net /\ ~At(k, {"idle"})
  BY DEF h, WriteRecord, At
<1>4. handler' \in [1 .. MaxCommands -> Handlings] /\ ControlOK' /\ k \in 1 .. started
  BY <1>2, <1>3, HandlerStep DEF Busy
<1>5. file' \in Record \cup {Torn, Other}
  BY <1>1 DEF WriteRecord, TypeInv, TypeOK, Auths
<1>6. TypeOK'
  BY <1>4, <1>5 DEF WriteRecord, Step, TypeInv, TypeOK, primary, role
<1> QED
  BY <1>4, <1>6 DEF TypeInv

LEMMA TakeoverType ==
  ASSUME TypeInv, LoadUsers \/ BecomePrimary
  PROVE  TypeInv'
<1>1. heap' \in [Auths -> Record] /\ inSet' \in [Auths -> 0 .. 2]
  BY DEF LoadUsers, BecomePrimary, TypeInv, TypeOK, Readable, accounts
<1>2. TypeOK'
  BY <1>1 DEF LoadUsers, BecomePrimary, TypeInv, TypeOK, network, primary, accounts, Auths
<1>3. ControlOK'
  BY DEF LoadUsers, BecomePrimary, TypeInv, ControlOK, At, network, primary
<1> QED
  BY <1>2, <1>3 DEF TypeInv

LEMMA NextType == TypeInv /\ [Next]_vars => TypeInv'
<1> SUFFICES ASSUME TypeInv, [Next]_vars PROVE TypeInv'
  OBVIOUS
<1>1. CASE UNCHANGED vars
  BY <1>1 DEF vars, TypeInv, TypeOK, ControlOK, At, primary, network, accounts, role
<1>2. CASE \E f \in Fields : HandOver(f)
  BY <1>2, HandOverType
<1>3. CASE SendCommand
  BY <1>3, SendCommandType
<1>4. CASE LoadUsers \/ BecomePrimary
  BY <1>4, TakeoverType
<1>5. ASSUME NEW k \in 1 .. MaxCommands,
             TakeReply(k) \/ Lose(k) \/ Receive(k) \/ Handle(k)
      PROVE  TypeInv'
  BY <1>5, NetworkType, ReceiveType, FindUserType, SetFieldType, RemoveOldType,
     AddNewType, WriteRecordType DEF Handle
<1> QED
  BY <1>1, <1>2, <1>3, <1>4, <1>5 DEF Next

\* Every variable keeps its type whatever the sizes of the pools: the object a
\* handler writes through and the Auth whose monitor it is in exist.
THEOREM CommandsTypeCorrect == Spec => []TypeOK
<1>1. TypeInv => TypeOK
  BY DEF TypeInv
<1> QED
  BY <1>1, InitType, NextType, PTL DEF Spec

-----------------------------------------------------------------------------
(* Only what was handed over. *)

LEMMA GivenStep ==
  ASSUME TypeInv, OnlyHandedOver, [Next]_vars
  PROVE  OnlyHandedOver'
<1> DEFINE Given(f) == {0} \cup {k \in 1 .. started : commands[k] = f}
<1> DEFINE FromPrimary(r) == \A f \in Fields : Source(r[f]) \in Given(f)
<1>1. /\ \A a \in Auths : FromPrimary(heap[a])
      /\ Readable(file) => FromPrimary(file)
  BY DEF OnlyHandedOver
<1>2. \A f \in Fields : Given(f) \subseteq Given(f)'
  <2>1. 1 .. started \subseteq 1 .. started' /\ started \in Nat /\ started' \in Nat
    <3>1. started' = started \/ started' = started + 1
      BY DEF Next, vars, primary, HandOver, SendCommand, TakeReply, Lose, Receive, Handle,
         FindUser, SetField, RemoveOld, AddNew, WriteRecord, Miss, Refuse, Step, LoadUsers,
         BecomePrimary
    <3>2. started \in Nat
      BY Counts DEF TypeInv
    <3> QED
      BY <3>1, <3>2
  <2>2. \A k \in 1 .. started : commands'[k] = commands[k]
    <3>1. CASE \E f \in Fields : HandOver(f)
      BY <3>1, Counts, AppendProperties DEF HandOver, TypeInv, TypeOK
    <3>2. CASE ~\E f \in Fields : HandOver(f)
      BY <3>2 DEF Next, vars, primary, SendCommand, TakeReply, Lose, Receive, Handle,
         FindUser, SetField, RemoveOld, AddNew, WriteRecord, Miss, Refuse, Step, LoadUsers,
         BecomePrimary
    <3> QED
      BY <3>1, <3>2
  <2> QED
    BY <2>1, <2>2
<1>3. CASE UNCHANGED <<heap, file>>
  BY <1>1, <1>2, <1>3 DEF OnlyHandedOver, Readable
<1>4. ASSUME NEW k \in 1 .. MaxCommands, SetField(k) PROVE OnlyHandedOver'
  <2>1. k \in 1 .. started /\ handler[k].obj \in Auths /\ commands[k] \in Fields
    <3>1. k \in 1 .. started
      BY <1>4, Counts DEF SetField, TypeInv, ControlOK, At
    <3> QED
      BY <1>4, <3>1, Counts DEF SetField, TypeInv, TypeOK, ControlOK, At, Handlings, Auths
  <2>2. file' = file /\ commands' = commands /\ started' = started
    BY <1>4 DEF SetField, Step, primary
  <2>3. k \in Given(commands[k])
    BY <2>1
  <2>4. \A a \in Auths : FromPrimary(heap'[a])
    <3> DEFINE v == Arriving(k)
    <3>1. heap' = [heap EXCEPT ![handler[k].obj] = [@ EXCEPT ![commands[k]] = v]]
      BY <1>4 DEF SetField
    <3>2. heap[handler[k].obj] \in [Fields -> (-MaxCommands) .. MaxCommands]
          /\ heap \in [Auths -> Record]
      BY <2>1 DEF TypeInv, TypeOK, Record
    <3>3. heap'[handler[k].obj] = [heap[handler[k].obj] EXCEPT ![commands[k]] = v]
          /\ \A a \in Auths : a # handler[k].obj => heap'[a] = heap[a]
      BY <2>1, <3>1, <3>2
    <3>4. Source(v) = k
      BY <2>1, Arrives
    <3> HIDE DEF v
    <3>5. FromPrimary(heap'[handler[k].obj])
      BY <1>1, <2>1, <2>3, <3>2, <3>3, <3>4
    <3> QED
      BY <1>1, <3>3, <3>5
  <2> QED
    BY <1>1, <2>2, <2>4 DEF OnlyHandedOver, Readable
<1>5. ASSUME NEW k \in 1 .. MaxCommands, AddNew(k) \/ WriteRecord(k) PROVE OnlyHandedOver'
  <2>1. heap' = heap /\ commands' = commands /\ started' = started
    BY <1>5 DEF AddNew, WriteRecord, Step, primary
  <2>2. handler[k].aid \in 0 .. 2
    BY DEF TypeInv, TypeOK, Handlings
  <2>3. Readable(file') => FromPrimary(file')
    BY <1>1, <1>5, <2>2 DEF AddNew, WriteRecord, Readable, Auths
  <2> QED
    BY <1>1, <2>1, <2>3 DEF OnlyHandedOver
<1>6. ASSUME LoadUsers PROVE OnlyHandedOver'
  <2>1. file' = file /\ commands' = commands /\ started' = started
    BY <1>6 DEF LoadUsers, primary
  <2>2. \A a \in Auths : FromPrimary(heap'[a])
    BY <1>1, <1>6 DEF LoadUsers, TypeInv, TypeOK, Auths
  <2> QED
    BY <1>1, <2>1, <2>2 DEF OnlyHandedOver, Readable
<1>7. \/ UNCHANGED <<heap, file>>
      \/ LoadUsers
      \/ \E k \in 1 .. MaxCommands : SetField(k) \/ AddNew(k) \/ WriteRecord(k)
  BY DEF Next, vars, accounts, primary, HandOver, SendCommand, TakeReply, Lose, Receive,
     Handle, FindUser, RemoveOld, Miss, Refuse, BecomePrimary
<1> QED
  BY <1>3, <1>4, <1>5, <1>6, <1>7

\* Whatever is lost, cut, overtaken or taken over, the secondary's record and
\* file hold in each field its first value, or what arrived of one that a
\* session of the primary gave to that field.
THEOREM OnlyHandedOverAlways == Spec => []OnlyHandedOver
<1>1. Init => OnlyHandedOver
  BY DEF Init, OnlyHandedOver, Auths, Source
<1>2. TypeInv /\ OnlyHandedOver /\ [Next]_vars => (TypeInv /\ OnlyHandedOver)'
  BY NextType, GivenStep
<1> QED
  BY <1>1, <1>2, InitType, PTL DEF Spec

-----------------------------------------------------------------------------
(* No change undone. *)

\* Only a handler's own steps move it: what a step of k's shows of the others.
LEMMA OthersStay ==
  ASSUME TypeInv, NEW k \in 1 .. MaxCommands, NEW h, Step(k, h)
  PROVE  /\ handler'[k] = h
         /\ \A j \in 1 .. MaxCommands \ {k} : handler'[j] = handler[j]
         /\ commands' = commands /\ before' = before
         /\ auth' = auth /\ takeover' = takeover
  BY DEF TypeInv, TypeOK, Step, primary, role

\* A step that moves no handler and leaves the accounts and the role alone.
LEMMA QuietStep ==
  ASSUME IInv, UNCHANGED <<handler, commands, before, accounts, role, raced>>
  PROVE  OneAuth' /\ NoneUndone'
<1>1. OneAuth'
  BY DEF IInv, OneAuth, AtWork, At, accounts, role
<1>2. NoneUndone'
  BY DEF IInv, NoneUndone, HasSet, At, Shows, Readable, accounts, role
<1> QED
  BY <1>1, <1>2

LEMMA HandOverKeeps ==
  ASSUME IInv, NEW f \in Fields, HandOver(f)
  PROVE  OneAuth' /\ NoneUndone'
<1>1. OneAuth'
  BY DEF IInv, OneAuth, AtWork, At, accounts, role, HandOver
<1>2. ASSUME NEW k \in 1 .. MaxCommands, HasSet(k)
      PROVE  k \in 1 .. Len(commands) /\ commands'[k] = commands[k] /\ before'[k] = before[k]
  <2>1. k \in 1 .. Len(commands)
    BY <1>2, Counts DEF HasSet, At, IInv, TypeInv, ControlOK
  <2> QED
    BY <2>1, Counts, AppendProperties DEF HandOver, IInv, TypeInv, TypeOK
<1>3. ASSUME NEW k \in 1 .. MaxCommands, NEW j \in before'[k] PROVE At(j, {"applied"})'
  BY <1>3 DEF HandOver, IInv, TypeInv, TypeOK, NoneUndone, At
<1>4. NoneUndone'
  BY <1>2, <1>3 DEF IInv, NoneUndone, HasSet, At, Shows, Readable, accounts, role, HandOver
<1> QED
  BY <1>1, <1>4

\* A handler that has not set its value yet, and does not by this step.
LEMMA EarlyStep ==
  ASSUME IInv, NEW k \in 1 .. MaxCommands, NEW h, Step(k, h), UNCHANGED accounts,
         ~At(k, {"applied"}), h.pc \notin {"set", "removed", "added", "applied"},
         raced => raced'
  PROVE  NoneUndone'
<1>1. ASSUME NEW j \in 1 .. MaxCommands
      PROVE  /\ At(j, {"applied"}) => At(j, {"applied"})'
             /\ HasSet(j)' => HasSet(j) /\ (At(j, {"applied"})' => At(j, {"applied"}))
  BY OthersStay DEF At, HasSet, IInv
<1>2. \A i \in 1 .. MaxCommands : before[i] \subseteq 1 .. MaxCommands
  BY DEF IInv, TypeInv, TypeOK
<1> QED
  BY <1>1, <1>2, OthersStay DEF IInv, NoneUndone, Shows, Readable, accounts

LEMMA ReceiveKeeps ==
  ASSUME IInv, NEW k \in 1 .. MaxCommands, Receive(k)
  PROVE  OneAuth' /\ NoneUndone'
<1> DEFINE h == [handler[k] EXCEPT !.pc = "run"]
<1>1. Step(k, h) /\ h.pc = "run" /\ UNCHANGED <<accounts, raced>>
  BY DEF Receive, IInv, TypeInv, TypeOK, Handlings
<1>2. ~At(k, {"applied"})
  BY DEF Receive, IInv, TypeInv, ControlOK, At
<1> HIDE DEF h
<1>3. NoneUndone'
  BY <1>1, <1>2, EarlyStep
<1>4. OneAuth'
  BY <1>1, OthersStay DEF IInv, OneAuth, AtWork, At, accounts
<1> QED
  BY <1>3, <1>4

LEMMA MissKeeps ==
  ASSUME IInv, NEW k \in 1 .. MaxCommands, Miss(k) \/ Refuse(k), At(k, {"run", "set"})
  PROVE  OneAuth' /\ NoneUndone'
<1> SUFFICES ASSUME NEW place \in {"dead", "refused"},
                    Step(k, [handler[k] EXCEPT !.pc = place])
             PROVE  OneAuth' /\ NoneUndone'
  BY DEF Miss, Refuse
<1> DEFINE h == [handler[k] EXCEPT !.pc = place]
<1>1. Step(k, h) /\ h.pc = place /\ UNCHANGED <<accounts, raced>>
  BY DEF Miss, Refuse, IInv, TypeInv, TypeOK, Handlings
<1> HIDE DEF h
<1>2. NoneUndone'
  BY <1>1, EarlyStep DEF At
<1>3. OneAuth'
  BY <1>1, OthersStay DEF IInv, OneAuth, AtWork, At, accounts
<1> QED
  BY <1>2, <1>3

LEMMA FindUserKeeps ==
  ASSUME IInv, NEW k \in 1 .. MaxCommands, FindUser(k)
  PROVE  OneAuth' /\ NoneUndone'
<1>1. CASE Miss(k) \/ Refuse(k)
  BY <1>1, MissKeeps DEF FindUser, At
<1>2. CASE ~Miss(k) /\ ~Refuse(k)
  <2> DEFINE h == [handler[k] EXCEPT !.pc = "found", !.obj = inSet[auth]]
  <2>1. Step(k, h) /\ UNCHANGED accounts /\ inSet[auth] # 0
        /\ raced' = (raced \/ takeover = "loading")
    BY <1>2 DEF FindUser
  <2>2. h.pc = "found" /\ h.obj = inSet[auth]
    BY DEF IInv, TypeInv, TypeOK, Handlings
  <2> HIDE DEF h
  <2>3. NoneUndone'
    BY <2>1, <2>2, EarlyStep DEF FindUser, At
  <2>4. ~raced => inSet[auth] \in {0, auth}
    BY DEF IInv, OneAuth
  <2>5. OneAuth'
    <3>1. ASSUME NEW j \in AtWork', ~raced'
          PROVE  /\ takeover # "loading"
                 /\ handler'[j].obj = auth
                 /\ At(j, {"set", "removed", "added"})' => handler'[j].in = auth
                 /\ At(j, {"removed", "added"})' => handler'[j].aid \in {0, auth}
      <4>1. CASE j = k
        BY <2>1, <2>2, <2>4, <3>1, <4>1, OthersStay DEF IInv, At
      <4>2. CASE j # k
        <5>1. handler'[j] = handler[j] /\ auth' = auth /\ takeover' = takeover
          BY <2>1, <3>1, <4>2, OthersStay DEF IInv, AtWork
        <5>2. j \in AtWork /\ ~raced
          BY <2>1, <3>1, <5>1 DEF AtWork, At
        <5> QED
          BY <5>1, <5>2 DEF IInv, OneAuth, At
      <4> QED
        BY <4>1, <4>2
    <3>2. (takeover = "secondary" => ~raced') /\ (~raced' => ~raced)
      BY <2>1 DEF IInv, OneAuth
    <3>3. auth' = auth /\ takeover' = takeover /\ heap' = heap /\ inSet' = inSet
      BY <2>1, OthersStay DEF accounts, IInv
    <3> QED
      BY <3>1, <3>2, <3>3 DEF IInv, OneAuth
  <2> QED
    BY <2>3, <2>5
<1> QED
  BY <1>1, <1>2

\* A command that is not applied is no change that another one must hide.
LEMMA NotBefore ==
  ASSUME NoneUndone, NEW k \in 1 .. MaxCommands, ~At(k, {"applied"}),
         NEW j \in 1 .. MaxCommands
  PROVE  k \notin before[j]
  BY DEF NoneUndone

LEMMA SetFieldKeeps ==
  ASSUME IInv, NEW k \in 1 .. MaxCommands, SetField(k)
  PROVE  OneAuth' /\ NoneUndone'
<1> DEFINE h == [handler[k] EXCEPT !.pc = "set", !.in = auth]
<1> DEFINE o == handler[k].obj
<1>1. Step(k, h) /\ UNCHANGED <<inSet, file, raced>> /\ At(k, {"found"})
  BY DEF SetField
<1>2. h.pc = "set" /\ h.obj = o /\ h.in = auth
  BY DEF IInv, TypeInv, TypeOK, Handlings
<1>3. k \in AtWork /\ o \in Auths /\ commands[k] \in Fields
  <2>1. k \in 1 .. started
    BY <1>1, Counts DEF IInv, TypeInv, ControlOK, At
  <2> QED
    BY <1>1, <2>1, Counts DEF AtWork, IInv, TypeInv, TypeOK, ControlOK, At, Handlings, Auths
<1> DEFINE v == Arriving(k)
<1>4. heap' = [heap EXCEPT ![o] = [heap[o] EXCEPT ![commands[k]] = v]]
  BY <1>3 DEF SetField, IInv, TypeInv, TypeOK
<1>10. Source(v) = k
  BY Arrives
<1> HIDE DEF v
<1>5. \A a \in Auths : \A f \in Fields :
        heap'[a][f] = IF a = o /\ f = commands[k] THEN v ELSE heap[a][f]
  BY <1>3, <1>4 DEF IInv, TypeInv, TypeOK, Record
<1> HIDE DEF h
<1>6. OneAuth'
  <2>1. takeover = "secondary" => o = 1
    BY <1>3 DEF IInv, OneAuth
  <2>2. takeover = "secondary" => heap'[2] = heap[2]
    BY <1>3, <1>4, <2>1 DEF IInv, TypeInv, TypeOK, Auths
  <2>3. ASSUME NEW j \in AtWork', ~raced
        PROVE  /\ takeover # "loading"
               /\ handler'[j].obj = auth
               /\ At(j, {"set", "removed", "added"})' => handler'[j].in = auth
               /\ At(j, {"removed", "added"})' => handler'[j].aid \in {0, auth}
    <3>1. CASE j = k
      BY <1>1, <1>2, <1>3, <2>3, <3>1, OthersStay DEF IInv, OneAuth, At
    <3>2. CASE j # k
      BY <1>1, <2>3, <3>2, OthersStay DEF IInv, OneAuth, AtWork, At
    <3> QED
      BY <3>1, <3>2
  <2> QED
    BY <1>1, <2>2, <2>3, OthersStay DEF IInv, OneAuth
<1>7. ASSUME NEW j \in 1 .. MaxCommands PROVE k \notin before[j]
  BY <1>1, NotBefore DEF IInv, At
<1>8. ASSUME NEW j \in 1 .. MaxCommands, HasSet(j)', ~raced
      PROVE  /\ takeover # "primary" => ~Shows(heap'[1], j)
             /\ takeover # "secondary" => ~Shows(heap'[2], j)
  <2>1. j \in 1 .. started /\ commands[j] \in Fields
    <3>1. j \in 1 .. started
      BY <1>1, <1>8, <1>3, Counts, OthersStay DEF IInv, TypeInv, ControlOK, At, HasSet
    <3> QED
      BY <3>1, Counts DEF IInv, TypeInv
  <2>2. CASE j = k
    <3>1. takeover # "loading" /\ o = auth
      BY <1>3, <1>8 DEF IInv, OneAuth
    <3>2. heap'[o][commands[k]] = v
      BY <1>3, <1>5
    <3>3. ~Shows(heap'[o], k)
      BY <3>2, <1>7, <1>10 DEF Shows
    <3>4. (takeover # "primary" => o = 1) /\ (takeover # "secondary" => o = 2)
      BY <3>1 DEF IInv, OneAuth, TypeInv, TypeOK
    <3> QED
      BY <2>2, <3>3, <3>4
  <2>3. CASE j # k
    <3>1. HasSet(j)
      BY <1>1, <1>8, <2>3, OthersStay DEF HasSet, At, IInv
    <3>2. \A a \in Auths : heap'[a][commands[j]] \in {v, heap[a][commands[j]]}
      BY <1>5, <2>1
    <3> QED
      BY <1>7, <1>8, <1>10, <3>1, <3>2 DEF IInv, NoneUndone, Shows, Auths
  <2> QED
    BY <2>2, <2>3
<1>9. NoneUndone'
  <2>1. \A j \in 1 .. MaxCommands :
          /\ At(j, {"applied"})' <=> At(j, {"applied"})
          /\ At(j, {"applied"}) => HasSet(j)
    BY <1>1, <1>2, OthersStay DEF At, IInv, HasSet
  <2>2. \A i \in 1 .. MaxCommands : before[i] \subseteq 1 .. MaxCommands
    BY DEF IInv, TypeInv, TypeOK
  <2> QED
    BY <1>1, <1>8, <2>1, <2>2, OthersStay DEF IInv, NoneUndone, Shows, Readable
<1> QED
  BY <1>6, <1>9

\* A step inside changeUsers, before its end, that leaves the objects alone.
LEMMA MonitorStep ==
  ASSUME IInv, NEW k \in 1 .. MaxCommands, NEW h, Step(k, h), raced' = raced,
         heap' = heap, file' = file \/ ~Readable(file'),
         At(k, {"set", "removed"}), h.pc \in {"removed", "added"},
         h.obj = handler[k].obj, h.in = handler[k].in,
         (inSet'[1] \in {0, 1} /\ inSet'[2] \in {0, 2}) \/ raced,
         h.aid \in {0, auth} \/ raced
  PROVE  OneAuth' /\ NoneUndone'
<1>1. OneAuth'
  <2>1. ASSUME NEW j \in AtWork', ~raced'
        PROVE  /\ takeover # "loading"
               /\ handler'[j].obj = auth
               /\ At(j, {"set", "removed", "added"})' => handler'[j].in = auth
               /\ At(j, {"removed", "added"})' => handler'[j].aid \in {0, auth}
    <3>1. CASE j = k
      BY <2>1, <3>1, OthersStay DEF IInv, OneAuth, AtWork, At
    <3>2. CASE j # k
      BY <2>1, <3>2, OthersStay DEF IInv, OneAuth, AtWork, At
    <3> QED
      BY <3>1, <3>2
  <2> QED
    BY <2>1, OthersStay DEF IInv, OneAuth
<1>2. NoneUndone'
  <2>1. \A j \in 1 .. MaxCommands :
          /\ At(j, {"applied"})' <=> At(j, {"applied"})
          /\ HasSet(j)' <=> HasSet(j)
    BY OthersStay DEF At, IInv, HasSet
  <2>2. \A i \in 1 .. MaxCommands : before[i] \subseteq 1 .. MaxCommands
    BY DEF IInv, TypeInv, TypeOK
  <2> QED
    BY <2>1, <2>2, OthersStay DEF IInv, NoneUndone, Shows, Readable
<1> QED
  BY <1>1, <1>2

LEMMA RemoveOldKeeps ==
  ASSUME IInv, NEW k \in 1 .. MaxCommands, RemoveOld(k)
  PROVE  OneAuth' /\ NoneUndone'
<1>1. CASE Miss(k)
  BY <1>1, MissKeeps DEF RemoveOld, At
<1>2. CASE ~Miss(k)
  <2> DEFINE a == handler[k].in
  <2> DEFINE h == [handler[k] EXCEPT !.pc = "removed", !.aid = inSet[a]]
  <2>1. Step(k, h) /\ inSet' = [inSet EXCEPT ![a] = 0]
        /\ UNCHANGED <<heap, file, raced>> /\ At(k, {"set"})
    BY <1>2 DEF RemoveOld
  <2>2. h.pc = "removed" /\ h.obj = handler[k].obj /\ h.in = a /\ h.aid = inSet[a]
    BY DEF IInv, TypeInv, TypeOK, Handlings
  <2>3. ~raced => a = auth /\ inSet[a] \in {0, auth}
    BY <2>1 DEF IInv, OneAuth, AtWork, At
  <2>4. inSet'[1] \in {0, inSet[1]} /\ inSet'[2] \in {0, inSet[2]}
    BY <2>1 DEF IInv, TypeInv, TypeOK, Auths
  <2>5. (inSet'[1] \in {0, 1} /\ inSet'[2] \in {0, 2}) \/ raced
    BY <2>4 DEF IInv, OneAuth
  <2>6. h.aid \in {0, auth} \/ raced
    BY <2>2, <2>3
  <2> HIDE DEF h, a
  <2>7. At(k, {"set", "removed"})
    BY <2>1 DEF At
  <2> QED
    BY <2>1, <2>2, <2>5, <2>6, <2>7, MonitorStep DEF a
<1> QED
  BY <1>1, <1>2

LEMMA AddNewKeeps ==
  ASSUME IInv, NEW k \in 1 .. MaxCommands, AddNew(k)
  PROVE  OneAuth' /\ NoneUndone'
<1> DEFINE h == [handler[k] EXCEPT !.pc = "added"]
<1>1. Step(k, h) /\ heap' = heap /\ raced' = raced /\ ~Readable(file')
      /\ At(k, {"set", "removed"}) /\ At(k, {"removed"})
  BY DEF AddNew, Readable, At
<1>2. h.pc = "added" /\ h.obj = handler[k].obj /\ h.in = handler[k].in
      /\ h.aid = handler[k].aid
  BY DEF IInv, TypeInv, TypeOK, Handlings
<1>3. ~raced => handler[k].obj = auth /\ handler[k].in = auth
                /\ handler[k].aid \in {0, auth}
  BY <1>1 DEF IInv, OneAuth, AtWork, At
<1>4. (inSet'[1] \in {0, 1} /\ inSet'[2] \in {0, 2}) \/ raced
  BY <1>3 DEF AddNew, IInv, OneAuth, TypeInv, TypeOK, Auths
<1> HIDE DEF h
<1> QED
  BY <1>1, <1>2, <1>3, <1>4, MonitorStep

LEMMA WriteRecordKeeps ==
  ASSUME IInv, NEW k \in 1 .. MaxCommands, WriteRecord(k)
  PROVE  OneAuth' /\ NoneUndone'
<1> DEFINE h == [handler[k] EXCEPT !.pc = "applied"]
<1> DEFINE aid == handler[k].aid
<1>1. Step(k, h) /\ UNCHANGED <<heap, inSet, raced>> /\ At(k, {"added"})
      /\ file' = IF aid = 0 THEN Other ELSE heap[aid]
  BY DEF WriteRecord
<1>2. h.pc = "applied"
  BY DEF IInv, TypeInv, TypeOK, Handlings
<1> HIDE DEF h
<1>3. OneAuth'
  <2>1. ASSUME NEW j \in AtWork' PROVE j \in AtWork /\ handler'[j] = handler[j]
    BY <1>1, <1>2, <2>1, OthersStay DEF IInv, AtWork, At
  <2> QED
    BY <1>1, <2>1, OthersStay DEF IInv, OneAuth, At
<1>4. ASSUME NEW j \in 1 .. MaxCommands, HasSet(j)', ~raced
      PROVE  HasSet(j) /\ (Readable(file') => ~Shows(file', j))
  <2>1. HasSet(j)
    BY <1>1, <1>4, OthersStay DEF IInv, HasSet, At
  <2>2. aid \in {0, auth} /\ takeover # "loading"
    BY <1>1, <1>4 DEF IInv, OneAuth, AtWork, At
  <2>3. Readable(file') => file' = heap[auth]
    BY <1>1, <2>2 DEF Readable
  <2>4. ~Shows(heap[auth], j)
    BY <1>4, <2>1, <2>2 DEF IInv, OneAuth, NoneUndone, TypeInv, TypeOK
  <2> QED
    BY <2>1, <2>3, <2>4
<1>5. NoneUndone'
  <2>1. \A j \in 1 .. MaxCommands : At(j, {"applied"}) => At(j, {"applied"})'
    BY <1>1, <1>2, OthersStay DEF IInv, At
  <2>2. \A i \in 1 .. MaxCommands : before[i] \subseteq 1 .. MaxCommands
    BY DEF IInv, TypeInv, TypeOK
  <2> QED
    BY <1>1, <1>4, <2>1, <2>2, OthersStay DEF IInv, NoneUndone, Shows
<1> QED
  BY <1>3, <1>5

LEMMA LoadUsersKeeps ==
  ASSUME IInv, LoadUsers
  PROVE  OneAuth' /\ NoneUndone'
<1>1. UNCHANGED <<handler, commands, before, file, auth>>
      /\ takeover = "secondary" /\ takeover' = "loading" /\ ~raced
  BY DEF LoadUsers, primary, IInv, OneAuth
<1>2. ~raced' => AtWork = {}
  BY DEF LoadUsers
<1>3. /\ heap'[1] = heap[1]
      /\ heap'[2] = IF Readable(file) THEN file ELSE [f \in Fields |-> 0]
      /\ inSet'[1] = inSet[1] /\ inSet'[2] \in {0, 2}
  BY <1>1 DEF LoadUsers, IInv, OneAuth, TypeInv, TypeOK, Auths
<1>4. OneAuth'
  BY <1>1, <1>2, <1>3 DEF IInv, OneAuth, AtWork, At
<1>5. ASSUME NEW k \in 1 .. MaxCommands, HasSet(k), ~raced'
      PROVE  At(k, {"applied"}) /\ ~Shows(heap'[2], k)
  <2>1. At(k, {"applied"})
    BY <1>2, <1>5 DEF HasSet, At, AtWork
  <2>2. CASE Readable(file)
    BY <1>1, <1>3, <1>5, <2>1, <2>2 DEF IInv, NoneUndone, Shows
  <2>3. CASE ~Readable(file)
    <3>1. commands[k] \in Fields
      BY <2>1, Counts DEF IInv, TypeInv, ControlOK, At
    <3>2. 0 \notin before[k]
      BY DEF IInv, TypeInv, TypeOK
    <3> QED
      BY <1>3, <2>1, <2>3, <3>1, <3>2 DEF Shows, Source
  <2> QED
    BY <2>2, <2>3
<1>6. NoneUndone'
  BY <1>1, <1>3, <1>5 DEF IInv, NoneUndone, HasSet, At, Shows, Readable
<1> QED
  BY <1>4, <1>6

LEMMA BecomePrimaryKeeps ==
  ASSUME IInv, BecomePrimary
  PROVE  OneAuth' /\ NoneUndone'
<1>1. UNCHANGED <<handler, commands, before, accounts, raced>>
      /\ takeover = "loading" /\ takeover' = "primary" /\ auth' = 2
  BY DEF BecomePrimary, primary
<1>2. OneAuth'
  BY <1>1 DEF IInv, OneAuth, AtWork, At, accounts
<1>3. NoneUndone'
  BY <1>1 DEF IInv, NoneUndone, HasSet, At, Shows, Readable, accounts
<1> QED
  BY <1>2, <1>3

LEMMA InitIInv == Init => IInv
<1> SUFFICES ASSUME Init PROVE IInv
  OBVIOUS
<1>1. OneAuth
  BY DEF Init, OneAuth, AtWork, At, Idle, Auths
<1>2. NoneUndone
  BY DEF Init, NoneUndone, HasSet, At, Idle
<1> QED
  BY <1>1, <1>2, InitType DEF IInv

LEMMA NextIInv == IInv /\ [Next]_vars => IInv'
<1> SUFFICES ASSUME IInv, [Next]_vars PROVE OneAuth' /\ NoneUndone'
  BY NextType DEF IInv
<1>1. CASE UNCHANGED vars
  BY <1>1, QuietStep DEF vars, primary
<1>2. CASE SendCommand
  BY <1>2, QuietStep DEF SendCommand
<1>3. ASSUME NEW k \in 1 .. MaxCommands, TakeReply(k) \/ Lose(k)
      PROVE  OneAuth' /\ NoneUndone'
  BY <1>3, QuietStep DEF TakeReply, Lose, primary
<1>4. ASSUME NEW k \in 1 .. MaxCommands, Receive(k) \/ Handle(k)
      PROVE  OneAuth' /\ NoneUndone'
  BY <1>4, ReceiveKeeps, FindUserKeeps, SetFieldKeeps, RemoveOldKeeps, AddNewKeeps,
     WriteRecordKeeps DEF Handle
<1> QED
  BY <1>1, <1>2, <1>3, <1>4, HandOverKeeps, LoadUsersKeeps, BecomePrimaryKeeps DEF Next

\* Commands are reordered only with those they overlap: unless the takeover
\* met a handler at work, a change applied before a later one was handed over
\* is not seen again once the later one is applied.
THEOREM NoChangeUndoneAlways == Spec => []NoChangeUndone
<1>1. IInv => NoChangeUndone
  <2> SUFFICES ASSUME IInv, ~raced, NEW k \in Issued, At(k, {"applied"})
               PROVE  /\ inSet[auth] # 0 => Source(Served[commands[k]]) \notin before[k]
                      /\ Readable(file) => Source(file[commands[k]]) \notin before[k]
    BY DEF NoChangeUndone
  <2>1. k \in 1 .. MaxCommands /\ HasSet(k)
    BY Counts DEF IInv, TypeInv, Issued, HasSet, At
  <2>2. inSet[auth] # 0 => inSet[auth] = auth
    BY DEF IInv, OneAuth
  <2>3. ~Shows(heap[auth], k)
    BY <2>1 DEF IInv, OneAuth, NoneUndone, TypeInv, TypeOK
  <2> QED
    BY <2>1, <2>2, <2>3 DEF IInv, NoneUndone, Shows, Served
<1> QED
  BY <1>1, InitIInv, NextIInv, PTL DEF Spec

-----------------------------------------------------------------------------
(* The secondary's file and its record agree whenever no handler is at work. *)

Inside(k) == At(k, {"removed", "added"})
Dirty(k) == At(k, {"set", "removed", "added"})

\* One handler at a time is inside changeUsers; only a removal it is about to
\* make good leaves the set without the account; when no value that was set is
\* still to be written, the file holds the record, and a takeover loads it.
FileOK ==
  ~raced =>
    /\ inSet[auth] = 0 => \E k \in 1 .. MaxCommands : At(k, {"removed"})
    /\ \A j, k \in 1 .. MaxCommands : Inside(j) /\ Inside(k) => j = k
    /\ \A k \in 1 .. MaxCommands : Inside(k) => handler[k].aid # 0
    /\ (\A k \in 1 .. MaxCommands : ~Dirty(k)) => file = heap[auth]
    /\ takeover = "loading" => file = heap[2] /\ inSet[2] = 2

LEMMA InitFile == Init => FileOK
  BY DEF Init, FileOK, Inside, Dirty, At, Idle, Auths

\* A step that moves no handler and leaves the accounts and the role alone.
LEMMA QuietFile ==
  ASSUME FileOK, UNCHANGED <<handler, accounts, role, raced>>
  PROVE  FileOK'
  BY DEF FileOK, Inside, Dirty, At, accounts, role

\* A step of a handler that neither has set its value nor does so now.
LEMMA CleanStep ==
  ASSUME IInv, FileOK, NEW k \in 1 .. MaxCommands, NEW h, Step(k, h),
         UNCHANGED accounts, raced => raced', ~Dirty(k),
         h.pc \notin {"set", "removed", "added"}
  PROVE  FileOK'
<1>1. /\ \A j \in 1 .. MaxCommands : j # k => handler'[j] = handler[j]
      /\ handler'[k] = h /\ auth' = auth /\ takeover' = takeover
  BY OthersStay DEF IInv
<1>2. \A j \in 1 .. MaxCommands :
        /\ Inside(j)' <=> Inside(j)
        /\ Dirty(j)' <=> Dirty(j)
        /\ At(j, {"removed"})' <=> At(j, {"removed"})
        /\ Inside(j) => handler'[j] = handler[j]
  BY <1>1 DEF Inside, Dirty, At
<1>3. UNCHANGED <<heap, inSet, file>>
  BY DEF accounts
<1> QED
  BY <1>1, <1>2, <1>3 DEF FileOK

LEMMA ReceiveFile ==
  ASSUME IInv, FileOK, NEW k \in 1 .. MaxCommands, Receive(k)
  PROVE  FileOK'
<1> DEFINE h == [handler[k] EXCEPT !.pc = "run"]
<1>1. Step(k, h) /\ h.pc = "run" /\ UNCHANGED <<accounts, raced>>
  BY DEF Receive, IInv, TypeInv, TypeOK, Handlings
<1>2. ~Dirty(k)
  BY DEF Receive, IInv, TypeInv, ControlOK, Dirty, At
<1> HIDE DEF h
<1> QED
  BY <1>1, <1>2, CleanStep

\* A handler that meets no account, before it is inside changeUsers.
LEMMA MissFile ==
  ASSUME IInv, FileOK, NEW k \in 1 .. MaxCommands, Miss(k) \/ Refuse(k), ~Dirty(k)
  PROVE  FileOK'
<1>1. ASSUME NEW place \in {"dead", "refused"},
             Step(k, [handler[k] EXCEPT !.pc = place])
      PROVE  FileOK'
  <2> DEFINE h == [handler[k] EXCEPT !.pc = place]
  <2>1. Step(k, h) /\ h.pc = place /\ UNCHANGED <<accounts, raced>>
    BY <1>1 DEF Miss, Refuse, IInv, TypeInv, TypeOK, Handlings
  <2> HIDE DEF h
  <2> QED
    BY <2>1, CleanStep
<1> QED
  BY <1>1 DEF Miss, Refuse

LEMMA FindUserFile ==
  ASSUME IInv, FileOK, NEW k \in 1 .. MaxCommands, FindUser(k)
  PROVE  FileOK'
<1>1. ~Dirty(k)
  BY DEF FindUser, Dirty, At
<1>2. CASE Miss(k) \/ Refuse(k)
  BY <1>1, <1>2, MissFile
<1>3. CASE ~Miss(k) /\ ~Refuse(k)
  <2> DEFINE h == [handler[k] EXCEPT !.pc = "found", !.obj = inSet[auth]]
  <2>1. Step(k, h) /\ UNCHANGED accounts /\ (raced => raced')
    BY <1>3 DEF FindUser
  <2>2. h.pc = "found"
    BY DEF IInv, TypeInv, TypeOK, Handlings
  <2> HIDE DEF h
  <2> QED
    BY <1>1, <2>1, <2>2, CleanStep
<1> QED
  BY <1>2, <1>3

\* What a handler that has found its user works on, outside a takeover.
LEMMA WorksOnOne ==
  ASSUME IInv, ~raced, NEW k \in AtWork
  PROVE  /\ handler[k].obj = auth /\ takeover # "loading" /\ auth \in Auths
         /\ Dirty(k) => handler[k].in = auth
         /\ Inside(k) => handler[k].aid \in {0, auth}
  BY DEF IInv, OneAuth, Dirty, Inside, Auths

LEMMA SetFieldFile ==
  ASSUME IInv, FileOK, NEW k \in 1 .. MaxCommands, SetField(k)
  PROVE  FileOK'
<1> DEFINE h == [handler[k] EXCEPT !.pc = "set", !.in = auth]
<1>1. Step(k, h) /\ UNCHANGED <<inSet, raced>> /\ At(k, {"found"})
  BY DEF SetField
<1>2. h.pc = "set"
  BY DEF IInv, TypeInv, TypeOK, Handlings
<1> HIDE DEF h
<1>3. /\ \A j \in 1 .. MaxCommands : j # k => handler'[j] = handler[j]
      /\ handler'[k] = h /\ auth' = auth /\ takeover' = takeover
  BY <1>1, OthersStay DEF IInv
<1>4. /\ \A j \in 1 .. MaxCommands :
           /\ Inside(j)' <=> Inside(j)
           /\ At(j, {"removed"})' <=> At(j, {"removed"})
           /\ Inside(j) => handler'[j] = handler[j]
      /\ Dirty(k)'
  BY <1>1, <1>2, <1>3 DEF Inside, Dirty, At
<1>5. ~raced => takeover # "loading"
  BY <1>1, WorksOnOne DEF AtWork, At
<1> QED
  BY <1>1, <1>3, <1>4, <1>5 DEF FileOK

LEMMA RemoveOldFile ==
  ASSUME IInv, FileOK, NEW k \in 1 .. MaxCommands, RemoveOld(k)
  PROVE  FileOK'
<1> SUFFICES ASSUME ~raced'
             PROVE  FileOK'
  BY DEF FileOK
<1> DEFINE a == handler[k].in
<1>1. ~raced /\ At(k, {"set"}) /\ InMonitor(a) = {}
  BY DEF RemoveOld, Miss, Refuse
<1>2. a = auth /\ takeover # "loading" /\ auth \in Auths
  BY <1>1, WorksOnOne DEF AtWork, Dirty, At
<1>3. \A j \in 1 .. MaxCommands : ~Inside(j)
  <2> SUFFICES ASSUME NEW j \in 1 .. MaxCommands, Inside(j)
               PROVE  FALSE
    OBVIOUS
  <2>1. handler[j].in = auth
    BY <1>1, WorksOnOne DEF AtWork, Inside, Dirty, At
  <2> QED
    BY <1>1, <1>2, <2>1 DEF InMonitor, Inside
<1>4. inSet[auth] # 0
  BY <1>1, <1>3 DEF FileOK, Inside, At
<1> DEFINE h == [handler[k] EXCEPT !.pc = "removed", !.aid = inSet[a]]
<1>5. Step(k, h)
  BY <1>2, <1>4 DEF RemoveOld
<1>6. h.pc = "removed" /\ h.aid # 0
  BY <1>2, <1>4 DEF IInv, TypeInv, TypeOK, Handlings
<1> HIDE DEF h, a
<1>7. /\ \A j \in 1 .. MaxCommands : j # k => handler'[j] = handler[j]
      /\ handler'[k] = h /\ takeover' = takeover
  BY <1>5, OthersStay DEF IInv
<1>8. /\ \A j \in 1 .. MaxCommands : Inside(j)' => j = k
      /\ At(k, {"removed"})' /\ Dirty(k)'
  BY <1>3, <1>6, <1>7 DEF Inside, Dirty, At
<1> QED
  BY <1>2, <1>6, <1>7, <1>8 DEF FileOK

LEMMA AddNewFile ==
  ASSUME IInv, FileOK, NEW k \in 1 .. MaxCommands, AddNew(k)
  PROVE  FileOK'
<1> SUFFICES ASSUME ~raced'
             PROVE  FileOK'
  BY DEF FileOK
<1> DEFINE h == [handler[k] EXCEPT !.pc = "added"]
<1>1. Step(k, h) /\ ~raced /\ At(k, {"removed"})
  BY DEF AddNew
<1>2. h.pc = "added" /\ h.aid = handler[k].aid
  BY DEF IInv, TypeInv, TypeOK, Handlings
<1> HIDE DEF h
<1>3. /\ handler[k].obj = auth /\ handler[k].in = auth /\ takeover # "loading"
      /\ auth \in Auths
  BY <1>1, WorksOnOne DEF AtWork, Dirty, At
<1>4. Inside(k) /\ handler[k].aid # 0
  BY <1>1 DEF FileOK, Inside, At
<1>5. inSet'[auth] # 0
  BY <1>3, <1>4 DEF AddNew, IInv, TypeInv, TypeOK, Auths
<1>6. /\ \A j \in 1 .. MaxCommands : j # k => handler'[j] = handler[j]
      /\ handler'[k] = h /\ takeover' = takeover /\ auth' = auth
  BY <1>1, OthersStay DEF IInv
<1>7. /\ \A j \in 1 .. MaxCommands : (Inside(j)' <=> Inside(j)) /\ handler'[j].aid = handler[j].aid
      /\ Dirty(k)'
  BY <1>1, <1>2, <1>6 DEF Inside, Dirty, At
<1> QED
  BY <1>1, <1>3, <1>5, <1>6, <1>7 DEF FileOK

LEMMA WriteRecordFile ==
  ASSUME IInv, FileOK, NEW k \in 1 .. MaxCommands, WriteRecord(k)
  PROVE  FileOK'
<1> SUFFICES ASSUME ~raced'
             PROVE  FileOK'
  BY DEF FileOK
<1> DEFINE h == [handler[k] EXCEPT !.pc = "applied"]
<1>1. Step(k, h) /\ ~raced /\ At(k, {"added"}) /\ UNCHANGED <<heap, inSet>>
  BY DEF WriteRecord
<1>2. h.pc = "applied"
  BY DEF IInv, TypeInv, TypeOK, Handlings
<1> HIDE DEF h
<1>3. Inside(k) /\ handler[k].aid # 0
  BY <1>1 DEF FileOK, Inside, At
<1>4. handler[k].aid = auth /\ takeover # "loading"
  BY <1>1, <1>3, WorksOnOne DEF AtWork, At
<1>5. file' = heap'[auth]
  BY <1>1, <1>3, <1>4 DEF WriteRecord
<1>6. \A j \in 1 .. MaxCommands : ~At(j, {"removed"})
  <2> SUFFICES ASSUME NEW j \in 1 .. MaxCommands, At(j, {"removed"})
               PROVE  FALSE
    OBVIOUS
  <2>1. j = k
    BY <1>1, <1>3 DEF FileOK, Inside, At
  <2> QED
    BY <1>1, <2>1 DEF At
<1>7. inSet'[auth] # 0
  BY <1>1, <1>6 DEF FileOK
<1>8. /\ \A j \in 1 .. MaxCommands : j # k => handler'[j] = handler[j]
      /\ handler'[k] = h /\ takeover' = takeover /\ auth' = auth
  BY <1>1, OthersStay DEF IInv
<1>9. \A j \in 1 .. MaxCommands : ~Inside(j)'
  BY <1>1, <1>2, <1>3, <1>8 DEF FileOK, Inside, At
<1> QED
  BY <1>4, <1>5, <1>7, <1>8, <1>9 DEF FileOK

\* A takeover that meets no handler at work loads the record.
LEMMA LoadUsersFile ==
  ASSUME IInv, FileOK, LoadUsers
  PROVE  FileOK'
<1> SUFFICES ASSUME ~raced'
             PROVE  FileOK'
  BY DEF FileOK
<1>1. ~raced /\ AtWork = {} /\ UNCHANGED <<handler, file, auth>> /\ auth = 1
      /\ takeover = "secondary" /\ takeover' = "loading"
  BY DEF LoadUsers, IInv, OneAuth
<1>2. \A k \in 1 .. MaxCommands : ~Dirty(k) /\ ~Inside(k)
  BY <1>1 DEF AtWork, Dirty, Inside, At
<1>3. file = heap[1]
  BY <1>1, <1>2 DEF FileOK
<1>4. heap[1] \in [Fields -> (-MaxCommands) .. MaxCommands]
  BY DEF IInv, TypeInv, TypeOK, Auths, Record
<1>5. [Fields -> (-MaxCommands) .. MaxCommands] \subseteq [Fields -> Int]
  OBVIOUS
<1>6. Readable(file)
  BY <1>3, <1>4, <1>5, ReplicationAssumption DEF Readable
<1>7. heap' = [heap EXCEPT ![2] = file] /\ inSet' = [inSet EXCEPT ![2] = 2]
  BY <1>6 DEF LoadUsers
<1>8. heap'[1] = heap[1] /\ heap'[2] = file /\ inSet'[1] = inSet[1] /\ inSet'[2] = 2
  BY <1>7 DEF IInv, TypeInv, TypeOK, Auths
<1>9. inSet[1] # 0
  BY <1>1, <1>2 DEF FileOK, Inside, At
<1>10. \A k \in 1 .. MaxCommands : ~Dirty(k)' /\ ~Inside(k)'
  BY <1>1, <1>2 DEF Dirty, Inside, At
<1> QED
  BY <1>1, <1>3, <1>8, <1>9, <1>10 DEF FileOK

LEMMA BecomePrimaryFile ==
  ASSUME IInv, FileOK, BecomePrimary
  PROVE  FileOK'
<1> SUFFICES ASSUME ~raced'
             PROVE  FileOK'
  BY DEF FileOK
<1>1. ~raced /\ UNCHANGED <<handler, heap, inSet, file>> /\ takeover = "loading"
      /\ takeover' = "primary" /\ auth' = 2
  BY DEF BecomePrimary, accounts
<1>2. \A k \in 1 .. MaxCommands : ~Dirty(k) /\ ~Inside(k)
  BY <1>1, WorksOnOne DEF AtWork, Dirty, Inside, At
<1>3. \A k \in 1 .. MaxCommands : ~Dirty(k)' /\ ~Inside(k)'
  BY <1>1, <1>2 DEF Dirty, Inside, At
<1> QED
  BY <1>1, <1>3 DEF FileOK

LEMMA NextFile == IInv /\ FileOK /\ [Next]_vars => FileOK'
<1> SUFFICES ASSUME IInv, FileOK, [Next]_vars PROVE FileOK'
  OBVIOUS
<1>1. CASE UNCHANGED vars
  BY <1>1, QuietFile DEF vars
<1>2. CASE SendCommand
  BY <1>2, QuietFile DEF SendCommand
<1>3. ASSUME NEW f \in Fields, HandOver(f) PROVE FileOK'
  BY <1>3, QuietFile DEF HandOver
<1>4. ASSUME NEW k \in 1 .. MaxCommands, TakeReply(k) \/ Lose(k) PROVE FileOK'
  BY <1>4, QuietFile DEF TakeReply, Lose
<1>5. ASSUME NEW k \in 1 .. MaxCommands, Receive(k) \/ Handle(k) PROVE FileOK'
  BY <1>5, ReceiveFile, FindUserFile, SetFieldFile, RemoveOldFile, AddNewFile,
     WriteRecordFile DEF Handle
<1> QED
  BY <1>1, <1>2, <1>3, <1>4, <1>5, LoadUsersFile, BecomePrimaryFile DEF Next

\* When no handler is at work the account is in the set and its file holds the
\* record that is served, through any number of handlers that wrote over each
\* other and a takeover that met none of them (UDPCommandHandler 46-67, Auth
\* 65-88, Server 78).
THEOREM FileFollowsRecordAlways == Spec => []FileFollowsRecord
<1>1. IInv /\ FileOK => FileFollowsRecord
  <2> SUFFICES ASSUME IInv, FileOK, ~raced, AtWork = {}
               PROVE  inSet[auth] # 0 /\ file = Served
    BY DEF FileFollowsRecord
  <2>1. \A k \in 1 .. MaxCommands : ~Dirty(k) /\ ~At(k, {"removed"})
    BY DEF AtWork, Dirty, At
  <2>2. inSet[auth] # 0 /\ file = heap[auth]
    BY <2>1 DEF FileOK
  <2>3. inSet[auth] = auth
    BY <2>2 DEF IInv, OneAuth
  <2> QED
    BY <2>2, <2>3 DEF Served
<1> QED
  BY <1>1, InitIInv, NextIInv, InitFile, NextFile, PTL DEF Spec
=============================================================================
