------------------------ MODULE ClientFailover_proofs ------------------------
(***************************************************************************)
(* Proofs about ClientFailover, for any names, directories, queue, number  *)
(* of commands and number of faults.                                       *)
(***************************************************************************)
EXTENDS ClientFailover, FiniteSetTheorems, SequenceTheorems, TLAPS

Typed == 1 .. Len(typed)
Request == [k : Typed, to : Dirs]
Answer == [k : Typed, code : {"ok", "bad", "unauthorized", "error"}]

Types ==
  /\ status \in [Servers -> {"primary", "secondary", "down"}]
  /\ dirOf \in [Servers -> Existing] /\ scd \in [Servers -> Seq(Existing)]
  /\ held \subseteq Servers /\ faults \in 0 .. MaxFaults
  /\ pc \in {"start", "login", "ready", "wait", "switch", "exited"}
  /\ draining \in BOOLEAN /\ cmd \in 0 .. Len(typed) /\ target \in Dirs
  /\ typed \in Seq(Kinds) /\ Len(typed) <= MaxTyped /\ Len(queue) <= QueueSize
  /\ conn \in {0} \cup Servers /\ broken \in BOOLEAN /\ revoked \in BOOLEAN
  /\ toPrimary \in BOOLEAN /\ clientDir \in Dirs
  /\ ended \subseteq Ids /\ ran \in [Ids -> [Servers -> Nat]]
  /\ from \in [Ids -> Dirs] /\ landed \subseteq Ids \X Dirs
  /\ upset \subseteq {"missed", "behind", "pushed", "shifted", "misled", "reentered", "resent"}

\* Only commands that were typed are queued, sent, answered or in transfer.
KnownOK ==
  /\ queue \in Seq(Typed) /\ transfers \subseteq Typed
  /\ requests \in Seq(Request) /\ late \in [Servers -> Seq(Request)]
  /\ replies \in Seq(Answer)

\* The client is at work on a command, and connected, where its code has one.
PlaceOK ==
  /\ pc = "wait" => cmd # 0
  /\ pc \in {"login", "ready", "wait"} => conn # 0
  /\ pc \in {"start", "login", "ready"} => cmd = 0
  /\ pc = "start" => conn = 0 /\ typed = << >>
  /\ pc = "switch" => IF cmd = 0 THEN typed = << >> ELSE conn # 0 /\ ~draining

TypeInv == Types /\ KnownOK /\ PlaceOK

-----------------------------------------------------------------------------
(* Constants and sequences. *)

LEMMA AddOne ==
  ASSUME NEW S, IsFiniteSet(S), NEW x
  PROVE  /\ IsFiniteSet(S \cup {x}) /\ Cardinality(S) \in Nat
         /\ Cardinality(S \cup {x}) \in Nat /\ Cardinality(S \cup {x}) <= Cardinality(S) + 1
<1>1. Cardinality(S) \in Nat
  BY FS_CardinalityType
<1>2. CASE x \in S
  <2>1. S \cup {x} = S
    BY <1>2
  <2>2. IsFiniteSet(S \cup {x}) /\ Cardinality(S \cup {x}) = Cardinality(S)
    BY <2>1, Zenon
  <2> QED
    BY <1>1, <2>2
<1>3. CASE x \notin S
  BY <1>1, <1>3, FS_AddElement
<1> QED
  BY <1>2, <1>3

LEMMA AtMostThree ==
  ASSUME NEW a, NEW b, NEW c
  PROVE  Cardinality({a, b, c}) \in Nat /\ Cardinality({a, b, c}) <= 3
<1>1. IsFiniteSet({a}) /\ Cardinality({a}) = 1
  BY FS_Singleton
<1>2. /\ IsFiniteSet({a} \cup {b})
      /\ Cardinality({a} \cup {b}) \in Nat
      /\ Cardinality({a} \cup {b}) <= Cardinality({a}) + 1
  BY <1>1, AddOne, Zenon
<1>3. {a, b, c} = ({a} \cup {b}) \cup {c}
  OBVIOUS
<1>4. /\ Cardinality(({a} \cup {b}) \cup {c}) \in Nat
      /\ Cardinality(({a} \cup {b}) \cup {c}) <= Cardinality({a} \cup {b}) + 1
  BY <1>2, AddOne, Zenon
<1> DEFINE m == Cardinality({a} \cup {b})
           n == Cardinality(({a} \cup {b}) \cup {c})
<1>5. m \in Nat /\ m <= 1 + 1 /\ n \in Nat /\ n <= m + 1
  BY <1>1, <1>2, <1>4, Zenon
<1>6. n \in Nat /\ n <= 3
  <2> HIDE DEF m, n
  <2> QED
    BY <1>5
<1> QED
  BY <1>3, <1>6, Zenon

\* server-ls and upload are no changes of directory.
LEMMA OthersAreNoMoves == Upload \notin Moves /\ Ls \notin Moves
<1>1. ASSUME NEW a, NEW b, NEW c, {Parent, Ls, Upload, ServerInfo} = {a, b, c}
      PROVE  FALSE
  <2>1. Cardinality({a, b, c}) = 4
    BY <1>1, ClientAssumption, Zenon
  <2>2. Cardinality({a, b, c}) \in Nat /\ Cardinality({a, b, c}) <= 3
    BY AtMostThree, Zenon
  <2>3. 4 <= 3
    BY <2>1, <2>2, Zenon
  <2> QED
    BY <2>3
<1>2. Parent # Upload
  <2>1. Parent = Upload => {Parent, Ls, Upload, ServerInfo} = {Parent, Ls, ServerInfo}
    OBVIOUS
  <2> QED
    BY <1>1, <2>1, Zenon
<1>3. Parent # Ls
  <2>1. Parent = Ls => {Parent, Ls, Upload, ServerInfo} = {Parent, Upload, ServerInfo}
    OBVIOUS
  <2> QED
    BY <1>1, <2>1, Zenon
<1> QED
  BY <1>2, <1>3, ClientAssumption DEF Moves

LEMMA Constants ==
  /\ Existing \subseteq Dirs /\ << >> \in Existing /\ << >> \in Dirs
  /\ Moves \subseteq Kinds /\ Ls \in Kinds /\ Upload \in Kinds /\ ServerInfo \in Kinds
  /\ QueueSize \in Nat /\ MaxTyped \in Nat /\ MaxFaults \in Nat
  /\ \A s \in Servers : Other(s) \in Servers /\ Other(s) # s /\ Other(Other(s)) = s /\ s # 0
  BY ClientAssumption DEF Dirs, Moves, Kinds, Servers, Other

\* Where a change of directory leads is a sequence of names.
LEMMA MoveType ==
  ASSUME NEW d \in Dirs, NEW name \in Moves, ~(name = Parent /\ d = << >>)
  PROVE  Move(d, name) \in Dirs
<1>1. Len(d) \in Nat /\ \A i \in 1 .. Len(d) : d[i] \in Names
  BY LenProperties, ElementOfSeq DEF Dirs
<1>2. SubSeq(d, 1, Len(d) - 1) \in Seq(Names)
  BY <1>1, SubSeqProperties
<1>3. name # Parent => Append(d, name) \in Seq(Names)
  BY AppendProperties DEF Dirs, Moves
<1> QED
  BY <1>2, <1>3 DEF Move, Dirs

LEMMA TypedProperties ==
  ASSUME typed \in Seq(Kinds), Len(typed) <= MaxTyped
  PROVE  /\ Len(typed) \in Nat /\ Typed \subseteq Ids /\ 0 \notin Typed
         /\ \A k \in Typed : typed[k] \in Kinds
         /\ 0 .. Len(typed) = Typed \cup {0}
  BY LenProperties, ElementOfSeq, Constants DEF Typed, Ids

\* A command that is typed takes the next place.
LEMMA TypeOne ==
  ASSUME typed \in Seq(Kinds), Len(typed) <= MaxTyped, NEW kind \in Kinds,
         typed' = Append(typed, kind), Len(typed) + 1 \in Ids
  PROVE  /\ typed' \in Seq(Kinds) /\ Len(typed') = Len(typed) + 1 /\ Len(typed') <= MaxTyped
         /\ Typed' = Typed \cup {Len(typed) + 1} /\ Len(typed) + 1 \notin Typed
         /\ typed'[Len(typed) + 1] = kind
         /\ \A k \in Typed : typed'[k] = typed[k]
         /\ Request \subseteq Request' /\ Answer \subseteq Answer'
<1>1. /\ Len(typed) \in Nat /\ typed' \in Seq(Kinds) /\ Len(typed') = Len(typed) + 1
      /\ typed'[Len(typed) + 1] = kind
      /\ \A k \in 1 .. Len(typed) : typed'[k] = typed[k]
  BY AppendProperties, LenProperties
<1>2. Typed' = Typed \cup {Len(typed) + 1} /\ Len(typed) + 1 \notin Typed
  BY <1>1 DEF Typed
<1>3. Request \subseteq Request' /\ Answer \subseteq Answer'
  BY <1>2 DEF Request, Answer, Dirs
<1> QED
  BY <1>1, <1>2, <1>3, Constants DEF Ids, Typed

\* A request or a reply that is taken from a sequence, or put at its end.
LEMMA TakeOne ==
  ASSUME NEW S, NEW q \in Seq(S), q # << >>
  PROVE  Head(q) \in S /\ Tail(q) \in Seq(S)
  BY HeadTailProperties

LEMMA DropOne ==
  ASSUME NEW S, NEW q \in Seq(S), NEW i \in 1 .. Len(q)
  PROVE  SubSeq(q, 1, i - 1) \o SubSeq(q, i + 1, Len(q)) \in Seq(S) /\ q[i] \in S
<1>1. Len(q) \in Nat /\ \A j \in 1 .. Len(q) : q[j] \in S
  BY LenProperties, ElementOfSeq
<1>2. SubSeq(q, 1, i - 1) \in Seq(S) /\ SubSeq(q, i + 1, Len(q)) \in Seq(S)
  BY <1>1, SubSeqProperties
<1> QED
  BY <1>1, <1>2, ConcatProperties

-----------------------------------------------------------------------------
(* Types. *)

LEMMA TypeInvInit == Init => TypeInv
<1> SUFFICES ASSUME Init PROVE TypeInv
  OBVIOUS
<1>1. /\ \A S : << >> \in Seq(S) /\ Len(<< >>) = 0
  BY EmptySeq
<1>2. Types
  <2>1. /\ << >> \in Seq(Existing) /\ << >> \in Seq(Kinds)
        /\ << >> \in Dirs /\ << >> \in Existing
    BY <1>1, Constants
  <2>2. /\ status \in [Servers -> {"primary", "secondary", "down"}]
        /\ dirOf \in [Servers -> Existing] /\ scd \in [Servers -> Seq(Existing)]
        /\ from \in [Ids -> Dirs]
        /\ ran \in [Ids -> [Servers -> Nat]]
    BY <2>1 DEF Init
  <2>3. faults \in 0 .. MaxFaults /\ cmd \in 0 .. Len(typed) /\ Len(typed) <= MaxTyped
        /\ Len(queue) <= QueueSize
    BY <1>1, Constants DEF Init
  <2> QED
    BY <2>1, <2>2, <2>3 DEF Init, Types
<1>3. KnownOK
  BY <1>1 DEF Init, KnownOK
<1>4. PlaceOK
  BY DEF Init, PlaceOK
<1> QED
  BY <1>2, <1>3, <1>4 DEF TypeInv

\* What is known of what commands are made of.
LEMMA Facts ==
  ASSUME TypeInv
  PROVE  /\ Len(typed) \in Nat /\ Typed \subseteq Ids /\ 0 \notin Typed
         /\ \A k \in Typed : typed[k] \in Kinds
         /\ cmd \in Typed \cup {0} /\ Typed \subseteq Nat
         /\ conn # 0 => conn \in Servers
         /\ Request = [k : Typed, to : Dirs]
  BY TypedProperties DEF TypeInv, Types, Typed, Ids, Request

LEMMA PerformType ==
  ASSUME TypeInv, NEW s \in Servers, NEW r \in Request, Perform(s, r)
  PROVE  /\ dirOf' \in [Servers -> Existing] /\ scd' \in [Servers -> Seq(Existing)]
         /\ ran' \in [Ids -> [Servers -> Nat]]
<1>1. /\ dirOf \in [Servers -> Existing] /\ scd \in [Servers -> Seq(Existing)]
      /\ ran \in [Ids -> [Servers -> Nat]] /\ r.k \in Ids /\ Other(s) \in Servers
  BY Facts, Constants DEF TypeInv, Types, Request
<1>2. dirOf' \in [Servers -> Existing]
  BY <1>1 DEF Perform
<1>3. r.to \in Existing => Append(scd[Other(s)], r.to) \in Seq(Existing)
  BY <1>1, AppendProperties
<1>4. scd' \in [Servers -> Seq(Existing)]
  BY <1>1, <1>3 DEF Perform
<1>5. ran' \in [Ids -> [Servers -> Nat]]
  BY <1>1 DEF Perform
<1> QED
  BY <1>2, <1>4, <1>5

LEMMA ConnectType ==
  ASSUME TypeInv, NEW s \in Servers, ConnectTo(s)
  PROVE  /\ late' \in [Servers -> Seq(Request)] /\ held' \subseteq Servers
         /\ conn' = s /\ pc' = "login" /\ broken' = FALSE /\ revoked' = FALSE
         /\ requests' = << >> /\ replies' = << >>
         /\ UNCHANGED <<status, dirOf, scd, faults, queue, target, clientDir, transfers, ran,
                        landed>>
<1>1. late \in [Servers -> Seq(Request)] /\ requests \in Seq(Request)
  BY DEF TypeInv, KnownOK
<1>2. conn # 0 => conn \in Servers /\ late[conn] \o requests \in Seq(Request)
  BY <1>1, Facts, ConcatProperties
<1>3. late' \in [Servers -> Seq(Request)]
  BY <1>1, <1>2 DEF ConnectTo
<1>4. held' \subseteq Servers
  BY <1>2 DEF ConnectTo, TypeInv, Types
<1> QED
  BY <1>3, <1>4 DEF ConnectTo

LEMMA SendType ==
  ASSUME TypeInv, NEW k \in Ids, NEW kind \in Kinds, Send(k, kind), NEW S, k \in S,
         Typed \subseteq S
  PROVE  \/ /\ pc' = "wait" /\ cmd' = k /\ target' \in Dirs /\ ended' = ended
            /\ requests' \in Seq([k : S, to : Dirs])
         \/ ended' = ended \cup {k} /\ UNCHANGED <<pc, cmd, target, requests>>
<1> DEFINE to == IF kind \in Moves THEN Move(clientDir, kind) ELSE << >>
<1>1. /\ clientDir \in Dirs /\ requests \in Seq(Request)
  BY DEF TypeInv, Types, KnownOK
<1>2. Request \subseteq [k : S, to : Dirs]
  BY DEF Request
<1>3. requests \in Seq([k : S, to : Dirs])
  BY <1>1, <1>2, SeqMonotonic
<1>4. ~(kind = Parent /\ clientDir = << >>) => to \in Dirs
  BY <1>1, MoveType, Constants
<1>5. ~(kind = Parent /\ clientDir = << >>) =>
        Append(requests, [k |-> k, to |-> to]) \in Seq([k : S, to : Dirs])
  BY <1>3, <1>4, AppendProperties
<1> HIDE DEF to
<1>6. CASE ~(kind = Parent /\ clientDir = << >>)
  <2>1. /\ pc' = "wait" /\ cmd' = k /\ target' = to /\ ended' = ended
        /\ requests' = IF broken THEN requests ELSE Append(requests, [k |-> k, to |-> to])
    BY <1>6 DEF Send, to
  <2> QED
    BY <1>3, <1>4, <1>5, <1>6, <2>1
<1>7. CASE kind = Parent /\ clientDir = << >>
  BY <1>7 DEF Send
<1> QED
  BY <1>6, <1>7

LEMMA TypeInvMeans == TypeInv => TypeOK
<1> SUFFICES ASSUME TypeInv PROVE TypeOK
  OBVIOUS
<1>1. /\ queue \in Seq(Typed) /\ transfers \subseteq Typed
      /\ requests \in Seq(Request) /\ late \in [Servers -> Seq(Request)]
      /\ replies \in Seq(Answer) /\ Typed \subseteq Ids
  BY Facts DEF TypeInv, KnownOK
<1>2. /\ Request \subseteq Requests
      /\ Answer \subseteq [k : Ids, code : {"ok", "bad", "unauthorized", "error"}]
  BY <1>1 DEF Request, Requests, Answer
<1>3. /\ queue \in Seq(Ids) /\ requests \in Seq(Requests)
      /\ replies \in Seq([k : Ids, code : {"ok", "bad", "unauthorized", "error"}])
  BY <1>1, <1>2, SeqMonotonic
<1>4. \A s \in Servers : late[s] \in Seq(Requests)
  BY <1>1, <1>2, SeqMonotonic
<1>5. late \in [Servers -> Seq(Requests)]
  BY <1>1, <1>4
<1> QED
  BY <1>1, <1>3, <1>5 DEF TypeInv, Types, TypeOK

LEMMA TypeInvNext == TypeInv /\ [Next]_vars => TypeInv'
<1> SUFFICES ASSUME TypeInv, [Next]_vars PROVE TypeInv'
  OBVIOUS
<1> USE DEF servers, control, link
<1>1. Types /\ KnownOK /\ PlaceOK
  BY DEF TypeInv
<1>0. /\ Len(typed) \in Nat /\ Typed \subseteq Ids /\ 0 \notin Typed
      /\ \A k \in Typed : typed[k] \in Kinds
      /\ cmd \in Typed \cup {0}
      /\ conn # 0 => conn \in Servers
  BY Facts
<1>a. /\ \A S : << >> \in Seq(S) /\ Len(<< >>) = 0
      /\ << >> \in Seq(Typed) /\ << >> \in Seq(Request) /\ << >> \in Seq(Answer)
      /\ << >> \in Dirs
  BY EmptySeq, Constants
<1>2. ASSUME NEW s \in Servers, ServerRuns(s)
      PROVE  TypeInv'
  <2> DEFINE r == Head(requests)
  <2>1. r \in Request /\ Tail(requests) \in Seq(Request)
    BY <1>1, <1>2, TakeOne DEF ServerRuns, KnownOK
  <2>2. /\ requests' = Tail(requests)
        /\ UNCHANGED <<status, late, held, faults, control, typed, queue, conn, broken,
                       revoked, toPrimary, clientDir, transfers, ended, from, landed, upset>>
        /\ \/ Perform(s, r)
           \/ UNCHANGED <<dirOf, scd, ran>>
        /\ \E code \in {"ok", "bad", "unauthorized", "error"} :
             replies' = Append(replies, [k |-> r.k, code |-> code])
    BY <1>2 DEF ServerRuns, Reply, Answers
  <2> HIDE DEF r
  <2>3. /\ dirOf' \in [Servers -> Existing] /\ scd' \in [Servers -> Seq(Existing)]
        /\ ran' \in [Ids -> [Servers -> Nat]]
    BY <1>1, <2>1, <2>2, PerformType DEF Types
  <2>4. replies' \in Seq(Answer)
    <3>1. \A code \in {"ok", "bad", "unauthorized", "error"} : [k |-> r.k, code |-> code] \in Answer
      BY <2>1 DEF Answer, Request
    <3> QED
      BY <1>1, <2>2, <3>1, AppendProperties DEF KnownOK
  <2>5. Request' = Request /\ Answer' = Answer /\ Typed' = Typed
    BY <2>2 DEF Request, Answer, Typed
  <2> QED
    BY <1>1, <2>1, <2>2, <2>3, <2>4, <2>5 DEF TypeInv, Types, KnownOK, PlaceOK
<1>3. ASSUME NEW s \in Servers, ServerRunsLate(s)
      PROVE  TypeInv'
  <2> DEFINE r == Head(late[s])
  <2>1. r \in Request /\ Tail(late[s]) \in Seq(Request)
    BY <1>1, <1>3, TakeOne DEF ServerRunsLate, KnownOK
  <2>2. /\ Perform(s, r) /\ late' = [late EXCEPT ![s] = Tail(@)]
        /\ upset' \subseteq upset \cup {"pushed"}
        /\ UNCHANGED <<status, held, faults, control, typed, queue, link, toPrimary,
                       clientDir, transfers, ended, from, landed>>
    BY <1>3 DEF ServerRunsLate
  <2> HIDE DEF r
  <2>3. /\ dirOf' \in [Servers -> Existing] /\ scd' \in [Servers -> Seq(Existing)]
        /\ ran' \in [Ids -> [Servers -> Nat]]
    BY <2>1, <2>2, PerformType
  <2>4. late' \in [Servers -> Seq(Request)]
    BY <1>1, <2>1, <2>2 DEF KnownOK
  <2>5. Request' = Request /\ Answer' = Answer /\ Typed' = Typed
    BY <2>2 DEF Request, Answer, Typed
  <2> QED
    BY <1>1, <2>2, <2>3, <2>4, <2>5 DEF TypeInv, Types, KnownOK, PlaceOK
<1>4. ASSUME NEW s \in Servers, ServerNotices(s)
      PROVE  TypeInv'
  BY <1>1, <1>4 DEF ServerNotices, TypeInv, Types, KnownOK, PlaceOK, Request, Answer, Typed
<1>5. ASSUME NEW s \in Servers, NEW i \in 1 .. Len(scd[s]), Arrive(s, i)
      PROVE  TypeInv'
  <2>1. /\ scd[s][i] \in Existing
        /\ SubSeq(scd[s], 1, i - 1) \o SubSeq(scd[s], i + 1, Len(scd[s])) \in Seq(Existing)
    BY <1>1, DropOne DEF Types
  <2>2. scd' \in [Servers -> Seq(Existing)] /\ dirOf' \in [Servers -> Existing]
    BY <1>1, <1>5, <2>1 DEF Arrive, Types
  <2>3. upset' \subseteq upset \cup {"missed", "pushed"}
    BY <1>5 DEF Arrive
  <2>4. UNCHANGED <<status, late, held, faults, control, typed, queue, link, toPrimary,
                    clientDir, transfers, ended, ran, from, landed>>
    BY <1>5 DEF Arrive
  <2>5. Request' = Request /\ Answer' = Answer /\ Typed' = Typed
    BY <2>4 DEF Request, Answer, Typed
  <2> QED
    BY <1>1, <2>2, <2>3, <2>4, <2>5 DEF TypeInv, Types, KnownOK, PlaceOK, link, control
<1>6. ASSUME NEW s \in Servers, Crash(s)
      PROVE  TypeInv'
  <2>1. late' \in [Servers -> Seq(Request)] /\ requests' \in Seq(Request)
    BY <1>1, <1>6, <1>a DEF Crash, KnownOK
  <2>2. faults' \in 0 .. MaxFaults /\ broken' \in BOOLEAN
    BY <1>1, <1>6, Constants DEF Crash, Types
  <2> QED
    BY <1>1, <1>6, <2>1, <2>2
       DEF Crash, TypeInv, Types, KnownOK, PlaceOK, Request, Answer, Typed
<1>7. ASSUME NEW s \in Servers, Promote(s) \/ TakeOver(s)
      PROVE  TypeInv'
  <2>1. faults' \in 0 .. MaxFaults
    BY <1>1, <1>7, Constants DEF Promote, TakeOver, Types
  <2>2. status' \in [Servers -> {"primary", "secondary", "down"}]
    BY <1>1, <1>7 DEF Promote, TakeOver, Becomes, Types
  <2>3. UNCHANGED <<dirOf, scd, late, held, control, typed, queue, link, toPrimary,
                    clientDir, transfers, ended, ran, from, landed, upset>>
    BY <1>7 DEF Promote, TakeOver, Becomes
  <2> QED
    BY <1>1, <2>1, <2>2, <2>3 DEF TypeInv, Types, KnownOK, PlaceOK, Request, Answer, Typed
<1>8. CASE Revoke
  BY <1>1, <1>8 DEF Revoke, TypeInv, Types, KnownOK, PlaceOK, Request, Answer, Typed
<1>9. ASSUME NEW place \in {"switch", "exited"}, Goto(place),
             place = "switch" => cmd = 0 /\ typed = << >>
      PROVE  TypeInv'
  BY <1>1, <1>9 DEF Goto, TypeInv, Types, KnownOK, PlaceOK, Request, Answer, Typed
<1>10. ASSUME NEW s \in Servers, ConnectTo(s), cmd' = 0,
              UNCHANGED <<typed, from>>, ended' = ended, draining' \in BOOLEAN,
              toPrimary' \in BOOLEAN, upset' \subseteq upset
       PROVE  TypeInv'
  <2>1. Request' = Request /\ Answer' = Answer /\ Typed' = Typed
    BY <1>10 DEF Request, Answer, Typed
  <2>2. /\ late' \in [Servers -> Seq(Request)] /\ held' \subseteq Servers
        /\ conn' = s /\ pc' = "login" /\ broken' = FALSE /\ revoked' = FALSE
        /\ requests' = << >> /\ replies' = << >>
        /\ UNCHANGED <<status, dirOf, scd, faults, queue, target, clientDir, transfers, ran,
                       landed>>
    BY <1>10, ConnectType
  <2>3. PlaceOK'
    BY <1>10, <2>2, Constants DEF PlaceOK
  <2>4. KnownOK'
    BY <1>1, <1>a, <2>1, <2>2 DEF KnownOK
  <2>5. cmd' \in 0 .. Len(typed')
    BY <1>0, <1>10
  <2>6. Types'
    BY <1>1, <1>10, <2>2, <2>5 DEF Types
  <2> QED
    BY <2>3, <2>4, <2>6 DEF TypeInv
<1>11. CASE Start
  <2>1. CASE Goto("switch")
    BY <1>1, <1>9, <1>11, <2>1 DEF Start, PlaceOK
  <2>2. CASE ConnectTo(1) /\ UNCHANGED <<draining, cmd, toPrimary, typed, ended, from, upset>>
    BY <1>1, <1>10, <1>11, <2>2 DEF Start, PlaceOK, Types, Servers
  <2> QED
    BY <1>11, <2>1, <2>2 DEF Start
<1>12. CASE SwitchServer
  <2>1. CASE Goto("exited")
    BY <1>9, <2>1
  <2>2. ASSUME NEW s \in Servers, ConnectTo(s), draining' = TRUE, cmd' = 0,
               upset' = upset \ {"shifted"}, Toggle, UNCHANGED <<typed, ended, from>>
        PROVE  TypeInv'
    <3>1. toPrimary' \in BOOLEAN
      BY <2>2 DEF Toggle
    <3> QED
      BY <1>10, <2>2, <3>1
  <2> QED
    BY <1>12, <2>1, <2>2 DEF SwitchServer, Servers
<1>13. CASE Login
  <2>1. upset' \subseteq upset \cup {"behind"} /\ conn \in Servers
    BY <1>0, <1>1, <1>13 DEF Login, PlaceOK
  <2>2. clientDir' \in Dirs
    BY <1>1, <1>13, <2>1, Constants DEF Login, Types
  <2> QED
    BY <1>1, <1>13, <2>1, <2>2
       DEF Login, TypeInv, Types, KnownOK, PlaceOK, Request, Answer, Typed
<1>14. CASE LoginFails
  BY <1>1, <1>9, <1>14 DEF LoginFails, PlaceOK
<1>15. ASSUME NEW kind \in Kinds, Type(kind)
       PROVE  TypeInv'
  <2> DEFINE k == Len(typed) + 1
  <2>1. /\ pc = "ready" /\ k \in Ids /\ typed' = Append(typed, kind)
        /\ from' = [from EXCEPT ![k] = clientDir] /\ Send(k, kind)
        /\ UNCHANGED <<servers, draining, queue, conn, broken, revoked, replies, toPrimary,
                       clientDir, transfers, ran, landed, upset>>
    BY <1>15 DEF Type
  <2>2. /\ typed' \in Seq(Kinds) /\ Len(typed') = Len(typed) + 1 /\ Len(typed') <= MaxTyped
        /\ Typed' = Typed \cup {k} /\ Request \subseteq Request' /\ Answer \subseteq Answer'
    BY <1>1, <2>1, TypeOne DEF Types
  <2> HIDE DEF k
  <2>a. k \in Ids /\ Send(k, kind) /\ k \in Typed' /\ Typed \subseteq Typed'
    BY <2>1, <2>2
  <2> DEFINE S == Typed'
  <2>b. k \in S /\ Typed \subseteq S
    BY <2>a
  <2> HIDE DEF S
  <2>c. \/ /\ pc' = "wait" /\ cmd' = k /\ target' \in Dirs /\ ended' = ended
           /\ requests' \in Seq([k : S, to : Dirs])
        \/ ended' = ended \cup {k} /\ UNCHANGED <<pc, cmd, target, requests>>
    BY <2>a, <2>b, SendType
  <2>3. \/ /\ pc' = "wait" /\ cmd' = k /\ target' \in Dirs /\ ended' = ended
           /\ requests' \in Seq([k : Typed', to : Dirs])
        \/ ended' = ended \cup {k} /\ UNCHANGED <<pc, cmd, target, requests>>
    BY <2>c DEF S
  <2>4. /\ queue' \in Seq(Typed') /\ replies' \in Seq(Answer') /\ requests \in Seq(Request')
        /\ \A s \in Servers : late[s] \in Seq(Request')
    BY <1>1, <2>1, <2>2, SeqMonotonic DEF KnownOK
  <2>5. late' \in [Servers -> Seq(Request')]
    BY <1>1, <2>1, <2>4 DEF KnownOK
  <2>6. requests' \in Seq(Request')
    BY <2>3, <2>4 DEF Request, Dirs
  <2>7. cmd' \in 0 .. Len(typed') /\ from' \in [Ids -> Dirs] /\ ended' \subseteq Ids
    BY <1>0, <1>1, <2>1, <2>2, <2>3 DEF Types, Typed, k
  <2>8. k # 0
    BY <1>0 DEF k
  <2>9. PlaceOK'
    BY <1>1, <2>1, <2>3, <2>8 DEF PlaceOK
  <2>10. KnownOK'
    BY <1>1, <2>1, <2>2, <2>4, <2>5, <2>6 DEF KnownOK
  <2>11. Types'
    BY <1>1, <2>1, <2>2, <2>3, <2>7 DEF Types
  <2> QED
    BY <2>9, <2>10, <2>11 DEF TypeInv
<1>16. CASE ChangeServerInfo
  <2> DEFINE k == Len(typed) + 1
  <2>1. CASE Goto("exited")
    BY <1>9, <2>1
  <2>2. ASSUME NEW s \in Servers, ConnectTo(s), typed' = Append(typed, ServerInfo), k \in Ids,
               ended' = ended \cup {k}, upset' = (upset \ {"shifted"}) \cup {"reentered"},
               UNCHANGED <<draining, cmd, toPrimary, from>>, cmd = 0
        PROVE  TypeInv'
    <3>1. /\ typed' \in Seq(Kinds) /\ Len(typed') = Len(typed) + 1 /\ Len(typed') <= MaxTyped
          /\ Typed' = Typed \cup {k} /\ Request \subseteq Request' /\ Answer \subseteq Answer'
      BY <1>1, <2>2, TypeOne, Constants DEF Types
    <3>2. /\ late' \in [Servers -> Seq(Request)] /\ held' \subseteq Servers
          /\ conn' = s /\ pc' = "login" /\ broken' = FALSE /\ revoked' = FALSE
          /\ requests' = << >> /\ replies' = << >>
          /\ UNCHANGED <<status, dirOf, scd, faults, queue, target, clientDir, transfers, ran,
                         landed>>
      BY <2>2, ConnectType
    <3> HIDE DEF k
    <3>3. /\ queue' \in Seq(Typed')
          /\ \A t \in Servers : late'[t] \in Seq(Request')
      BY <1>1, <3>1, <3>2, SeqMonotonic DEF KnownOK
    <3>4. late' \in [Servers -> Seq(Request')]
      BY <3>2, <3>3
    <3>5. KnownOK'
      BY <1>1, <1>a, <3>1, <3>2, <3>3, <3>4 DEF KnownOK
    <3>6. PlaceOK'
      BY <2>2, <3>2, Constants DEF PlaceOK
    <3>a. ended' \subseteq Ids
      BY <1>1, <2>2 DEF Types
    <3>b. cmd' \in 0 .. Len(typed') /\ from' \in [Ids -> Dirs]
      BY <1>0, <1>1, <2>2, <3>1 DEF Types
    <3>c. upset' \subseteq {"missed", "behind", "pushed", "shifted", "misled", "reentered",
                           "resent"}
      BY <1>1, <2>2 DEF Types
    <3>7. Types'
      BY <1>1, <2>2, <3>1, <3>2, <3>a, <3>b, <3>c DEF Types
    <3> QED
      BY <3>5, <3>6, <3>7 DEF TypeInv
  <2> QED
    BY <1>1, <1>16, <2>1, <2>2 DEF ChangeServerInfo, Servers, PlaceOK
<1>17. CASE ExitCommand
  BY <1>9, <1>17 DEF ExitCommand
<1>18. CASE Repeat
  <2> DEFINE k == Head(queue)
  <2>1. /\ pc = "ready"
        /\ UNCHANGED <<servers, typed, conn, broken, revoked, replies, toPrimary, clientDir,
                       transfers, ran, from, landed, upset>>
    BY <1>18 DEF Repeat
  <2>2. Request' = Request /\ Answer' = Answer /\ Typed' = Typed
    BY <2>1 DEF Request, Answer, Typed
  <2>3. CASE draining' = FALSE /\ UNCHANGED <<queue, pc, cmd, target, requests, ended>>
    BY <1>1, <2>1, <2>2, <2>3 DEF TypeInv, Types, KnownOK, PlaceOK
  <2>4. CASE queue # << >> /\ queue' = Tail(queue) /\ Send(k, typed[k]) /\ draining' = draining
    <3>1. k \in Typed /\ queue' \in Seq(Typed) /\ Len(queue') = Len(queue) - 1
          /\ Len(queue) \in Nat
      BY <1>1, <2>4, HeadTailProperties, LenProperties DEF KnownOK
    <3> HIDE DEF k
    <3>2. k \in Ids /\ typed[k] \in Kinds /\ k # 0
      BY <1>0, <3>1
    <3>3. \/ /\ pc' = "wait" /\ cmd' = k /\ target' \in Dirs /\ ended' = ended
             /\ requests' \in Seq([k : Typed, to : Dirs])
          \/ ended' = ended \cup {k} /\ UNCHANGED <<pc, cmd, target, requests>>
      BY <2>4, <3>1, <3>2, SendType
    <3>4. requests' \in Seq(Request)
      BY <1>1, <3>3 DEF KnownOK, Request
    <3>5. cmd' \in 0 .. Len(typed')
      BY <1>0, <1>1, <2>1, <3>1, <3>3 DEF Types, Typed
    <3>6. PlaceOK'
      BY <1>1, <2>1, <3>2, <3>3 DEF PlaceOK
    <3>7. KnownOK'
      BY <1>1, <2>1, <2>2, <3>1, <3>4 DEF KnownOK
    <3>8. Types'
      BY <1>1, <2>1, <2>4, <3>1, <3>2, <3>3, <3>5, Constants DEF Types
    <3> QED
      BY <3>6, <3>7, <3>8 DEF TypeInv
  <2> QED
    BY <1>18, <2>3, <2>4 DEF Repeat
<1>19. CASE TakeReply
  <2>1. /\ cmd \in Typed /\ conn # 0 /\ typed' = typed
        /\ UNCHANGED <<servers, draining, target, typed, queue, conn, broken, revoked, toPrimary,
                       ran, from>>
        /\ upset' \in {upset, upset \cup {"resent"}}
        /\ replies' = Tail(replies)
    BY <1>0, <1>1, <1>19 DEF TakeReply, PlaceOK
  <2>2. replies' \in Seq(Answer)
    BY <1>1, <1>19, <2>1, TakeOne DEF TakeReply, KnownOK
  <2>3. [k |-> cmd, to |-> target] \in Request
    BY <1>1, <2>1 DEF Types, Request
  <2>4. Append(requests, [k |-> cmd, to |-> target]) \in Seq(Request)
    BY <1>1, <2>3, AppendProperties DEF KnownOK
  <2>5. /\ requests' \in Seq(Request) /\ transfers' \subseteq Typed
        /\ \/ pc' = "wait" /\ cmd' = cmd /\ ended' = ended
           \/ pc' = "ready" /\ cmd' = 0 /\ ended' = ended \cup {cmd}
        /\ clientDir' \in {clientDir, target} /\ landed' \subseteq landed \cup {<<cmd, target>>}
    BY <1>1, <1>19, <2>1, <2>4 DEF TakeReply, End, KnownOK
  <2>6. Request' = Request /\ Answer' = Answer /\ Typed' = Typed
    BY <2>1 DEF Request, Answer, Typed
  <2>a. cmd' \in 0 .. Len(typed')
    BY <1>0, <1>1, <2>1, <2>5 DEF Types
  <2>b. <<cmd, target>> \in Ids \X Dirs
    BY <1>0, <1>1, <2>1 DEF Types
  <2>7. cmd' \in 0 .. Len(typed') /\ landed' \subseteq Ids \X Dirs /\ ended' \subseteq Ids
    BY <1>0, <1>1, <2>1, <2>5, <2>a, <2>b DEF Types
  <2> QED
    BY <1>0, <1>1, <2>1, <2>2, <2>5, <2>6, <2>7 DEF TypeInv, Types, KnownOK, PlaceOK
<1>20. CASE CommandFails
  <2>1. /\ cmd \in Typed /\ conn # 0 /\ replies' = << >>
        /\ UNCHANGED <<servers, draining, target, typed, conn, broken, revoked, requests,
                       toPrimary, clientDir, transfers, ran, from, landed>>
    BY <1>0, <1>1, <1>20 DEF CommandFails, Failed, PlaceOK
  <2>2. /\ Append(queue, cmd) \in Seq(Typed) /\ Len(Append(queue, cmd)) = Len(queue) + 1
        /\ Len(queue) \in Nat
    BY <1>1, <2>1, AppendProperties, LenProperties DEF KnownOK
  <2>3. /\ \/ pc' = "exited" /\ cmd' = cmd
           \/ pc' = "switch" /\ cmd' = cmd /\ ~draining
           \/ pc' = "ready" /\ cmd' = 0
        /\ ended' \subseteq ended \cup {cmd} /\ upset' \subseteq upset \cup {"shifted", "misled"}
        /\ queue' = queue \/ (queue' = Append(queue, cmd) /\ Len(queue) < QueueSize)
    BY <1>20 DEF CommandFails, End, QueueOrExit
  <2>4. Request' = Request /\ Answer' = Answer /\ Typed' = Typed
    BY <2>1 DEF Request, Answer, Typed
  <2>a. queue' \in Seq(Typed)
    BY <1>1, <2>2, <2>3 DEF KnownOK
  <2>b. Len(queue') <= QueueSize
    <3>1. CASE queue' = queue
      BY <1>1, <3>1 DEF Types
    <3>2. CASE queue' = Append(queue, cmd) /\ Len(queue) < QueueSize
      BY <2>2, <3>2, Constants
    <3> QED
      BY <2>3, <3>1, <3>2
  <2>c. cmd' \in 0 .. Len(typed')
    BY <1>0, <1>1, <2>1, <2>3 DEF Types
  <2>5. /\ queue' \in Seq(Typed) /\ Len(queue') <= QueueSize /\ cmd' \in 0 .. Len(typed')
        /\ ended' \subseteq Ids
    BY <1>0, <1>1, <2>1, <2>3, <2>a, <2>b, <2>c DEF Types
  <2>6. PlaceOK'
    BY <1>0, <1>1, <2>1, <2>3 DEF PlaceOK
  <2>7. KnownOK'
    BY <1>1, <1>a, <2>1, <2>4, <2>5 DEF KnownOK
  <2>8. Types'
    BY <1>1, <2>1, <2>3, <2>5 DEF Types
  <2> QED
    BY <2>6, <2>7, <2>8 DEF TypeInv
<1>21. ASSUME NEW k \in Ids, TransferEnds(k)
       PROVE  TypeInv'
  <2>1. k \in Typed
    BY <1>1, <1>21 DEF TransferEnds, KnownOK
  <2>2. /\ Append(queue, k) \in Seq(Typed) /\ Len(Append(queue, k)) = Len(queue) + 1
        /\ Len(queue) \in Nat
    BY <1>1, <2>1, AppendProperties, LenProperties DEF KnownOK
  <2>3. queue' = queue \/ (queue' = Append(queue, k) /\ Len(queue) < QueueSize)
    BY <1>21 DEF TransferEnds
  <2>a. queue' \in Seq(Typed)
    BY <1>1, <2>2, <2>3 DEF KnownOK
  <2>4. queue' \in Seq(Typed) /\ Len(queue') <= QueueSize
    <3>1. CASE queue' = queue
      BY <1>1, <2>a, <3>1 DEF Types
    <3>2. CASE queue' = Append(queue, k) /\ Len(queue) < QueueSize
      BY <2>2, <2>a, <3>2, Constants
    <3> QED
      BY <2>3, <3>1, <3>2
  <2> QED
    BY <1>1, <1>21, <2>4
       DEF TransferEnds, TypeInv, Types, KnownOK, PlaceOK, Request, Answer, Typed
<1>22. CASE UNCHANGED vars
  BY <1>1, <1>22 DEF vars, TypeInv, Types, KnownOK, PlaceOK, Request, Answer, Typed
<1> QED
  BY <1>2, <1>3, <1>4, <1>5, <1>6, <1>7, <1>8, <1>11, <1>12, <1>13, <1>14, <1>15, <1>16, <1>17,
     <1>18, <1>19, <1>20, <1>21, <1>22 DEF Next, Client, User, Server

\* The types are right, and the queue of commands keeps its limit (Client 125).
THEOREM ClientTypeCorrect == Spec => []TypeOK
<1>1. Spec => []TypeInv
  BY TypeInvInit, TypeInvNext, PTL DEF Spec
<1> QED
  BY <1>1, TypeInvMeans, PTL

-----------------------------------------------------------------------------
(* Commands in a queue, and in a sequence of requests. *)

Has(q, k) == \E i \in 1 .. Len(q) : q[i] = k
In(q, k) == \E i \in 1 .. Len(q) : q[i].k = k
OnceAt(q, k) == \A i, j \in 1 .. Len(q) : q[i].k = k /\ q[j].k = k => i = j

LEMMA HasAppend ==
  ASSUME NEW S, NEW q \in Seq(S), NEW e \in S, NEW k
  PROVE  Has(Append(q, e), k) <=> Has(q, k) \/ e = k
  BY AppendProperties, LenProperties DEF Has

LEMMA HasTail ==
  ASSUME NEW S, NEW q \in Seq(S), q # << >>, NEW k
  PROVE  Has(q, k) <=> Has(Tail(q), k) \/ Head(q) = k
<1>1. /\ Len(q) \in Nat \ {0} /\ Len(Tail(q)) = Len(q) - 1 /\ Head(q) = q[1]
      /\ \A i \in 1 .. Len(Tail(q)) : Tail(q)[i] = q[i + 1]
  BY HeadTailProperties, LenProperties, EmptySeq
<1>2. ASSUME NEW i \in 1 .. Len(q), q[i] = k PROVE Has(Tail(q), k) \/ Head(q) = k
  <2>1. CASE i = 1
    BY <1>1, <1>2, <2>1
  <2>2. CASE i # 1
    <3>1. i - 1 \in 1 .. Len(Tail(q)) /\ Tail(q)[i - 1] = k
      BY <1>1, <1>2, <2>2
    <3> QED
      BY <3>1 DEF Has
  <2> QED
    BY <2>1, <2>2
<1>3. ASSUME NEW i \in 1 .. Len(Tail(q)), Tail(q)[i] = k PROVE Has(q, k)
  <2>1. i + 1 \in 1 .. Len(q) /\ q[i + 1] = k
    BY <1>1, <1>3
  <2> QED
    BY <2>1 DEF Has
<1>4. Head(q) = k => Has(q, k)
  BY <1>1 DEF Has
<1> QED
  BY <1>2, <1>3, <1>4 DEF Has

LEMMA InEmpty == \A k : ~In(<< >>, k) /\ OnceAt(<< >>, k) /\ ~Has(<< >>, k)
  BY EmptySeq DEF In, OnceAt, Has

LEMMA InAppend ==
  ASSUME NEW S, NEW q \in Seq(S), NEW e \in S, NEW k
  PROVE  /\ In(Append(q, e), k) <=> In(q, k) \/ e.k = k
         /\ OnceAt(Append(q, e), k) <=> OnceAt(q, k) /\ ~(e.k = k /\ In(q, k))
<1>1. /\ Len(q) \in Nat /\ Len(Append(q, e)) = Len(q) + 1 /\ Append(q, e)[Len(q) + 1] = e
      /\ \A i \in 1 .. Len(q) : Append(q, e)[i] = q[i]
  BY AppendProperties, LenProperties
<1> DEFINE p == Append(q, e)
<1>2. /\ Len(q) \in Nat /\ Len(p) = Len(q) + 1 /\ p[Len(q) + 1] = e
      /\ \A i \in 1 .. Len(q) : p[i] = q[i]
  BY <1>1
<1> HIDE DEF p
<1>3. In(p, k) <=> In(q, k) \/ e.k = k
  BY <1>2 DEF In
<1>4. OnceAt(p, k) => OnceAt(q, k) /\ ~(e.k = k /\ In(q, k))
  BY <1>2 DEF OnceAt, In
<1>5. OnceAt(q, k) /\ ~(e.k = k /\ In(q, k)) => OnceAt(p, k)
  BY <1>2 DEF OnceAt, In
<1> QED
  BY <1>3, <1>4, <1>5 DEF p

LEMMA InTail ==
  ASSUME NEW S, NEW q \in Seq(S), q # << >>, NEW k
  PROVE  /\ In(q, k) <=> In(Tail(q), k) \/ Head(q).k = k
         /\ OnceAt(q, k) => OnceAt(Tail(q), k) /\ ~(Head(q).k = k /\ In(Tail(q), k))
<1> DEFINE p == Tail(q)
           e == Head(q)
<1>1. /\ Len(q) \in Nat \ {0} /\ Len(p) = Len(q) - 1 /\ e = q[1]
      /\ \A i \in 1 .. Len(p) : p[i] = q[i + 1]
  BY HeadTailProperties, LenProperties, EmptySeq
<1> HIDE DEF p, e
<1>2. \A i \in 1 .. Len(p) : i + 1 \in 1 .. Len(q) /\ q[i + 1] = p[i]
  BY <1>1
<1>3. \A i \in 1 .. Len(q) : i # 1 => i - 1 \in 1 .. Len(p) /\ p[i - 1] = q[i]
  BY <1>1
<1>4. 1 \in 1 .. Len(q)
  BY <1>1
<1>5. In(q, k) => In(p, k) \/ e.k = k
  BY <1>1, <1>3 DEF In
<1>6. In(p, k) => In(q, k)
  BY <1>2 DEF In
<1>7. e.k = k => In(q, k)
  BY <1>1, <1>4 DEF In
<1>8. OnceAt(q, k) => OnceAt(p, k)
  <2> SUFFICES ASSUME OnceAt(q, k), NEW i \in 1 .. Len(p), NEW j \in 1 .. Len(p),
                      p[i].k = k, p[j].k = k
               PROVE  i = j
    BY DEF OnceAt
  <2>1. i + 1 = j + 1
    BY <1>2 DEF OnceAt
  <2> QED
    BY <2>1
<1>9. OnceAt(q, k) => ~(e.k = k /\ In(p, k))
  <2> SUFFICES ASSUME OnceAt(q, k), e.k = k, NEW i \in 1 .. Len(p), p[i].k = k
               PROVE  FALSE
    BY DEF In
  <2>1. i + 1 = 1
    BY <1>1, <1>2, <1>4 DEF OnceAt
  <2> QED
    BY <2>1
<1> QED
  BY <1>5, <1>6, <1>7, <1>8, <1>9 DEF p, e

LEMMA InConcat ==
  ASSUME NEW S, NEW p \in Seq(S), NEW q \in Seq(S), NEW k
  PROVE  /\ In(p \o q, k) <=> In(p, k) \/ In(q, k)
         /\ OnceAt(p, k) /\ OnceAt(q, k) /\ ~(In(p, k) /\ In(q, k)) => OnceAt(p \o q, k)
<1> DEFINE r == p \o q
<1>1. /\ Len(p) \in Nat /\ Len(q) \in Nat /\ Len(r) = Len(p) + Len(q)
      /\ \A i \in 1 .. Len(r) : r[i] = IF i <= Len(p) THEN p[i] ELSE q[i - Len(p)]
  BY ConcatProperties, LenProperties
<1> HIDE DEF r
<1>2. \A i \in 1 .. Len(p) : i \in 1 .. Len(r) /\ r[i] = p[i]
  BY <1>1
<1>3. \A i \in 1 .. Len(q) : i + Len(p) \in 1 .. Len(r) /\ r[i + Len(p)] = q[i]
  BY <1>1
<1>4. \A i \in 1 .. Len(r) : \/ i \in 1 .. Len(p) /\ r[i] = p[i]
                             \/ i - Len(p) \in 1 .. Len(q) /\ r[i] = q[i - Len(p)]
  BY <1>1
<1>5. In(r, k) <=> In(p, k) \/ In(q, k)
  BY <1>2, <1>3, <1>4 DEF In
<1>6. ASSUME OnceAt(p, k), OnceAt(q, k), ~(In(p, k) /\ In(q, k)),
             NEW i \in 1 .. Len(r), NEW j \in 1 .. Len(r), r[i].k = k, r[j].k = k
      PROVE  i = j
  <2>1. CASE i \in 1 .. Len(p) /\ r[i] = p[i] /\ j \in 1 .. Len(p) /\ r[j] = p[j]
    BY <1>6, <2>1 DEF OnceAt
  <2>2. CASE i - Len(p) \in 1 .. Len(q) /\ r[i] = q[i - Len(p)]
             /\ j - Len(p) \in 1 .. Len(q) /\ r[j] = q[j - Len(p)]
    <3>1. i - Len(p) = j - Len(p)
      BY <1>6, <2>2 DEF OnceAt
    <3> QED
      BY <1>1, <3>1
  <2>3. CASE i \in 1 .. Len(p) /\ r[i] = p[i]
             /\ j - Len(p) \in 1 .. Len(q) /\ r[j] = q[j - Len(p)]
    BY <1>6, <2>3 DEF In
  <2>4. CASE i - Len(p) \in 1 .. Len(q) /\ r[i] = q[i - Len(p)]
             /\ j \in 1 .. Len(p) /\ r[j] = p[j]
    BY <1>6, <2>4 DEF In
  <2> QED
    BY <1>4, <2>1, <2>2, <2>3, <2>4
<1> QED
  BY <1>5, <1>6 DEF r, OnceAt

\* Only commands that were typed are in a sequence of requests.
LEMMA InTyped ==
  ASSUME NEW q \in Seq(Request), NEW k, In(q, k)
  PROVE  k \in Typed
<1>1. PICK i \in 1 .. Len(q) : q[i].k = k
  BY DEF In
<1>2. q[i] \in Request
  BY ElementOfSeq
<1> QED
  BY <1>1, <1>2 DEF Request

LEMMA HasTyped ==
  ASSUME NEW q \in Seq(Typed), NEW k, Has(q, k)
  PROVE  k \in Typed
  BY ElementOfSeq DEF Has

-----------------------------------------------------------------------------
(* No command is forgotten. *)

\* A command that has not come to an end is queued before the client switches.
Kept ==
  pc # "exited" =>
    \A k \in Typed : k \in ended \/ Has(queue, k) \/ (k = cmd /\ pc # "switch")

LEMMA KeptNext == TypeInv /\ Kept /\ [Next]_vars => Kept'
<1> SUFFICES ASSUME TypeInv, Kept, [Next]_vars, pc' # "exited" PROVE Kept'
  BY DEF Kept
<1> USE DEF servers, control, link
<1>1. /\ Len(typed) \in Nat /\ Typed \subseteq Ids /\ 0 \notin Typed
      /\ \A k \in Typed : typed[k] \in Kinds
      /\ typed \in Seq(Kinds) /\ Len(typed) <= MaxTyped
      /\ queue \in Seq(Typed) /\ transfers \subseteq Typed
  BY Facts DEF TypeInv, Types, KnownOK
<1>2. PlaceOK
  BY DEF TypeInv
<1>3. ASSUME UNCHANGED <<typed, cmd, pc, queue, ended>>
      PROVE  Kept'
  BY <1>3 DEF Kept, Typed
<1>4. ASSUME NEW s \in Servers, ServerRuns(s) \/ ServerRunsLate(s) \/ ServerNotices(s)
                                \/ Crash(s) \/ Promote(s) \/ TakeOver(s)
      PROVE  Kept'
  BY <1>3, <1>4
     DEF ServerRuns, ServerRunsLate, ServerNotices, Crash, Promote, TakeOver, Becomes
<1>5. ASSUME NEW s \in Servers, NEW i \in 1 .. Len(scd[s]), Arrive(s, i)
      PROVE  Kept'
  BY <1>3, <1>5 DEF Arrive
<1>6. CASE Revoke
  BY <1>3, <1>6 DEF Revoke
<1>7. ASSUME pc # "switch", pc # "exited", cmd = 0, UNCHANGED <<typed, cmd, queue, ended>>
      PROVE  Kept'
  BY <1>1, <1>7 DEF Kept, Typed
<1>8. CASE Start
  BY <1>2, <1>7, <1>8 DEF Start, Goto, ConnectTo, PlaceOK
<1>9. CASE SwitchServer
  <2>1. pc = "switch" /\ cmd' = 0 /\ UNCHANGED <<typed, ended, queue>>
    BY <1>9 DEF SwitchServer, Goto, ConnectTo
  <2> QED
    BY <1>1, <2>1 DEF Kept, Typed
<1>10. CASE Login
  BY <1>2, <1>7, <1>10 DEF Login, PlaceOK
<1>11. CASE LoginFails
  BY <1>2, <1>7, <1>11 DEF LoginFails, Goto, PlaceOK
<1>12. ASSUME NEW kind \in Kinds, Type(kind)
       PROVE  Kept'
  <2>1. /\ pc = "ready" /\ typed' = Append(typed, kind) /\ Len(typed) + 1 \in Ids
        /\ queue' = queue /\ cmd = 0
        /\ \/ pc' = "wait" /\ cmd' = Len(typed) + 1 /\ ended' = ended
           \/ pc' = pc /\ ended' = ended \cup {Len(typed) + 1} /\ cmd' = cmd
    BY <1>2, <1>12 DEF Type, Send, PlaceOK
  <2>2. Typed' = Typed \cup {Len(typed) + 1}
    BY <1>1, <2>1, TypeOne
  <2> QED
    BY <1>1, <2>1, <2>2 DEF Kept
<1>13. CASE ChangeServerInfo
  <2>1. /\ pc = "ready" /\ typed' = Append(typed, ServerInfo) /\ Len(typed) + 1 \in Ids
        /\ queue' = queue /\ cmd' = 0 /\ cmd = 0 /\ pc' = "login"
        /\ ended' = ended \cup {Len(typed) + 1}
    BY <1>2, <1>13 DEF ChangeServerInfo, Goto, ConnectTo, PlaceOK
  <2>2. Typed' = Typed \cup {Len(typed) + 1}
    BY <1>1, <2>1, TypeOne, Constants
  <2> QED
    BY <1>1, <2>1, <2>2 DEF Kept
<1>14. CASE Repeat
  <2>1. pc = "ready" /\ cmd = 0 /\ typed' = typed
    BY <1>2, <1>14 DEF Repeat, PlaceOK
  <2>2. CASE UNCHANGED <<queue, pc, cmd, ended>>
    BY <1>3, <2>1, <2>2
  <2>3. CASE /\ queue # << >> /\ queue' = Tail(queue)
             /\ \/ pc' = "wait" /\ cmd' = Head(queue) /\ ended' = ended
                \/ pc' = pc /\ ended' = ended \cup {Head(queue)} /\ cmd' = cmd
    <3>1. \A k : Has(queue, k) <=> Has(Tail(queue), k) \/ Head(queue) = k
      BY <1>1, <2>3, HasTail
    <3> QED
      BY <1>1, <2>1, <2>3, <3>1 DEF Kept, Typed
  <2> QED
    BY <1>14, <2>2, <2>3 DEF Repeat, Send
<1>15. CASE TakeReply
  <2>1. /\ pc = "wait" /\ UNCHANGED <<typed, queue>>
        /\ \/ UNCHANGED <<pc, cmd, ended>>
           \/ pc' = "ready" /\ cmd' = 0 /\ ended' = ended \cup {cmd}
    BY <1>15 DEF TakeReply, End
  <2> QED
    BY <1>1, <2>1 DEF Kept, Typed
<1>16. CASE CommandFails
  <2>1. cmd \in Typed /\ pc = "wait" /\ typed' = typed
    BY <1>2, <1>16, Facts DEF CommandFails, Failed, PlaceOK
  <2>2. CASE pc' = "ready" /\ cmd' = 0 /\ ended' = ended \cup {cmd} /\ queue' = queue
    BY <1>1, <2>1, <2>2 DEF Kept, Typed
  <2>3. CASE pc' = "switch" /\ queue' = Append(queue, cmd) /\ UNCHANGED <<cmd, ended>>
    <3>1. \A k : Has(queue', k) <=> Has(queue, k) \/ cmd = k
      BY <1>1, <2>1, <2>3, HasAppend
    <3> QED
      BY <2>1, <2>3, <3>1 DEF Kept, Typed
  <2> QED
    BY <1>16, <2>2, <2>3 DEF CommandFails, QueueOrExit, End
<1>17. ASSUME NEW k \in Ids, TransferEnds(k)
       PROVE  Kept'
  <2>1. /\ k \in Typed /\ UNCHANGED <<pc, cmd, typed, ended>>
        /\ queue' \in {queue, Append(queue, k)}
    BY <1>1, <1>17 DEF TransferEnds
  <2>2. \A j : Has(Append(queue, k), j) <=> Has(queue, j) \/ k = j
    BY <1>1, <2>1, HasAppend
  <2> QED
    BY <2>1, <2>2 DEF Kept, Typed
<1>18. CASE UNCHANGED vars
  BY <1>3, <1>18 DEF vars
<1> QED
  BY <1>4, <1>5, <1>6, <1>8, <1>9, <1>10, <1>11, <1>12, <1>13, <1>14, <1>15, <1>16, <1>17,
     <1>18, <1>2 DEF Next, Client, User, Server, ExitCommand, Goto

\* As long as the client runs, a command that was typed has ended, is at work or
\* is queued to be repeated (Client 124-126, 63-67; CommandHandler 396-438).
THEOREM NothingIsForgotten == Spec => []NothingForgotten
<1>1. Init => Kept
  <2>1. Init => Typed = {}
    BY EmptySeq DEF Init, Typed
  <2> QED
    BY <2>1 DEF Kept
<1>2. Kept => NothingForgotten
  BY DEF Kept, NothingForgotten, Has, Waiting, Typed
<1> QED
  BY <1>1, <1>2, KeptNext, TypeInvInit, TypeInvNext, PTL DEF Spec

-----------------------------------------------------------------------------
(* No server runs a command twice. *)

\* What a server runs at most once; the uploads queue themselves again.
Commands == {k \in Typed : typed[k] # Upload}

Lone(q, C) == \A i, j \in 1 .. Len(q) : q[i] \in C /\ q[j] \in C => i = j

LEMMA LoneAppend ==
  ASSUME NEW S, NEW q \in Seq(S), NEW e \in S, NEW C, Lone(q, C),
         e \in C => \A k \in C : ~Has(q, k)
  PROVE  Lone(Append(q, e), C)
<1> DEFINE p == Append(q, e)
<1>1. /\ Len(q) \in Nat /\ Len(p) = Len(q) + 1 /\ p[Len(q) + 1] = e
      /\ \A i \in 1 .. Len(q) : p[i] = q[i]
  BY AppendProperties, LenProperties
<1> HIDE DEF p
<1>2. Lone(p, C)
  BY <1>1 DEF Lone, Has
<1> QED
  BY <1>2 DEF p

LEMMA LoneTail ==
  ASSUME NEW S, NEW q \in Seq(S), q # << >>, NEW C, Lone(q, C)
  PROVE  Lone(Tail(q), C) /\ (Head(q) \in C => \A k \in C : ~Has(Tail(q), k))
<1> DEFINE p == Tail(q)
           e == Head(q)
<1>1. /\ Len(q) \in Nat \ {0} /\ Len(p) = Len(q) - 1 /\ e = q[1]
      /\ \A i \in 1 .. Len(p) : p[i] = q[i + 1]
  BY HeadTailProperties, LenProperties, EmptySeq
<1> HIDE DEF p, e
<1>2. \A i \in 1 .. Len(p) : i + 1 \in 1 .. Len(q) /\ q[i + 1] = p[i]
  BY <1>1
<1>3. Lone(p, C)
  <2> SUFFICES ASSUME NEW i \in 1 .. Len(p), NEW j \in 1 .. Len(p), p[i] \in C, p[j] \in C
               PROVE  i = j
    BY DEF Lone
  <2>1. i + 1 = j + 1
    BY <1>2 DEF Lone
  <2> QED
    BY <2>1
<1>4. ASSUME e \in C, NEW k \in C, NEW i \in 1 .. Len(p), p[i] = k PROVE FALSE
  <2>1. i + 1 = 1
    BY <1>1, <1>2, <1>4 DEF Lone
  <2> QED
    BY <2>1
<1> QED
  BY <1>3, <1>4 DEF p, e, Has

LEMMA LoneTyped ==
  ASSUME NEW q \in Seq(Typed), NEW C, NEW D, Lone(q, C), D \cap Typed \subseteq C
  PROVE  Lone(q, D)
  BY ElementOfSeq DEF Lone

\* Server s has run command k, or will run it if nothing stops it; what comes in
\* after the token was revoked is refused.
Sent(k, s) ==
  \/ ran[k][s] > 0 \/ In(late[s], k)
  \/ conn = s /\ ~revoked /\ In(requests, k)

\* It has run k, or will run it, but once.
OneRun(k, s) ==
  /\ ran[k][s] <= 1 /\ OnceAt(late[s], k)
  /\ In(late[s], k) => ran[k][s] = 0
  /\ conn = s /\ ~revoked =>
       OnceAt(requests, k) /\ (In(requests, k) => ran[k][s] = 0 /\ ~In(late[s], k))

\* A refusal shows that the token is lost, an error comes from server-ls; only
\* what was typed is run.
Refused ==
  /\ \A i \in 1 .. Len(replies) :
       /\ replies[i].code = "unauthorized" => revoked
       /\ replies[i].code = "error" => typed[replies[i].k] = Ls
  /\ \A k \in Ids \ Commands, s \in Servers : ran[k][s] = 0
  /\ transfers \cap Commands = {}

Flag == IF conn = 0 THEN toPrimary ELSE toPrimary <=> conn = 1

\* A command waits in the queue only to be sent to the server that has not had
\* it: the other one before the switch, this one after it.
Waits(k) ==
  /\ pc \in {"switch", "exited"} \/ draining
  /\ pc = "switch" => k = cmd /\ ~Sent(k, Other(conn))
  /\ pc \in {"login", "ready", "wait"} => ~Sent(k, conn)
  /\ pc = "wait" => cmd \notin Commands

Single ==
  /\ Flag
  /\ \A k \in Commands, s \in Servers : OneRun(k, s)
  /\ Lone(queue, Commands)
  /\ pc = "wait" /\ ~draining /\ cmd \in Commands => ~Sent(cmd, Other(conn))
  /\ \A k \in Commands : Has(queue, k) => Waits(k)

OnceInv == Refused /\ (upset \cap {"reentered", "resent"} = {} => Single)

\* What a server runs is counted once.
LEMMA PerformRan ==
  ASSUME TypeInv, NEW s \in Servers, NEW r \in Request, Perform(s, r)
  PROVE  /\ r.k \in Typed
         /\ \A k \in Typed, t \in Servers :
              ran'[k][t] = IF k = r.k /\ t = s /\ k \in Commands THEN ran[k][t] + 1 ELSE ran[k][t]
         /\ \A k \in Ids \ Commands, t \in Servers : ran'[k][t] = ran[k][t]
<1>1. ran \in [Ids -> [Servers -> Nat]] /\ r.k \in Typed /\ Typed \subseteq Ids
  <2>1. r.k \in Typed /\ Typed \subseteq Ids
    BY Facts DEF Request
  <2> QED
    BY <2>1 DEF TypeInv, Types
<1>2. ran' = IF typed[r.k] = Upload THEN ran ELSE [ran EXCEPT ![r.k][s] = @ + 1]
  BY DEF Perform
<1> QED
  BY <1>1, <1>2 DEF Commands

\* A server takes a request from the connection: nothing more is sent to it.
LEMMA RunsOnce ==
  ASSUME TypeInv, NEW s \in Servers, ServerRuns(s), NEW k \in Commands, NEW t \in Servers,
         OneRun(k, t)
  PROVE  OneRun(k, t)' /\ (Sent(k, t)' => Sent(k, t))
<1> DEFINE r == Head(requests)
<1>1. /\ conn = s /\ requests # << >> /\ requests' = Tail(requests)
      /\ UNCHANGED <<late, conn, revoked>>
      /\ \/ revoked /\ ran' = ran
         \/ ~revoked /\ Perform(s, r)
  BY DEF ServerRuns
<1>2. requests \in Seq(Request) /\ r \in Request
  BY <1>1, TakeOne DEF TypeInv, KnownOK
<1>3. /\ In(requests, k) <=> In(requests', k) \/ r.k = k
      /\ OnceAt(requests, k) => OnceAt(requests', k) /\ ~(r.k = k /\ In(requests', k))
  BY <1>1, <1>2, InTail
<1> HIDE DEF r
<1>4. CASE revoked /\ ran' = ran
  BY <1>1, <1>4 DEF OneRun, Sent
<1>5. CASE ~revoked /\ Perform(s, r)
  <2>1. ran'[k][t] = IF k = r.k /\ t = s THEN ran[k][t] + 1 ELSE ran[k][t]
    BY <1>2, <1>5, PerformRan DEF Commands
  <2>2. CASE k = r.k /\ t = s
    BY <1>1, <1>3, <1>5, <2>1, <2>2 DEF OneRun, Sent
  <2>3. CASE ~(k = r.k /\ t = s)
    BY <1>1, <1>3, <1>5, <2>1, <2>3 DEF OneRun, Sent
  <2> QED
    BY <2>2, <2>3
<1> QED
  BY <1>1, <1>4, <1>5

\* So it is when it takes one from a connection that was closed.
LEMMA RunsLateOnce ==
  ASSUME TypeInv, NEW s \in Servers, ServerRunsLate(s), NEW k \in Commands, NEW t \in Servers,
         OneRun(k, t)
  PROVE  OneRun(k, t)' /\ (Sent(k, t)' => Sent(k, t))
<1> DEFINE r == Head(late[s])
<1>1. /\ late[s] # << >> /\ late' = [late EXCEPT ![s] = Tail(@)] /\ Perform(s, r)
      /\ UNCHANGED <<requests, conn, revoked>>
  BY DEF ServerRunsLate, link
<1>2. late \in [Servers -> Seq(Request)] /\ r \in Request
  BY <1>1, TakeOne DEF TypeInv, KnownOK
<1>3. /\ In(late[s], k) <=> In(Tail(late[s]), k) \/ r.k = k
      /\ OnceAt(late[s], k) => OnceAt(Tail(late[s]), k) /\ ~(r.k = k /\ In(Tail(late[s]), k))
  BY <1>1, <1>2, InTail
<1>4. late'[t] = IF t = s THEN Tail(late[s]) ELSE late[t]
  BY <1>1, <1>2
<1> HIDE DEF r
<1>5. ran'[k][t] = IF k = r.k /\ t = s THEN ran[k][t] + 1 ELSE ran[k][t]
  BY <1>1, <1>2, PerformRan DEF Commands
<1>6. ran[k][t] \in Nat
  <2>1. k \in Ids
    BY Facts DEF Commands
  <2> QED
    BY <2>1 DEF TypeInv, Types
<1>7. CASE t = s /\ k = r.k
  BY <1>1, <1>3, <1>4, <1>5, <1>6, <1>7 DEF OneRun, Sent
<1>8. CASE t = s /\ k # r.k
  BY <1>1, <1>3, <1>4, <1>5, <1>8 DEF OneRun, Sent
<1>9. CASE t # s
  BY <1>1, <1>4, <1>5, <1>9 DEF OneRun, Sent
<1> QED
  BY <1>7, <1>8, <1>9

\* Requests that are left on a connection stay with their server, and what is
\* sent next goes to the other one.
LEMMA ConnectOnce ==
  ASSUME TypeInv, NEW s \in Servers, ConnectTo(s), s # conn, NEW k \in Commands,
         NEW t \in Servers, OneRun(k, t)
  PROVE  OneRun(k, t)' /\ (Sent(k, t)' => Sent(k, t))
<1>1. late \in [Servers -> Seq(Request)] /\ requests \in Seq(Request)
  BY DEF TypeInv, KnownOK
<1>2. /\ ran' = ran /\ conn' = s /\ requests' = << >>
      /\ late' = IF conn # 0 /\ ~broken /\ ~revoked
                 THEN [late EXCEPT ![conn] = @ \o requests] ELSE late
  BY DEF ConnectTo
<1>3. /\ In(late[t] \o requests, k) <=> In(late[t], k) \/ In(requests, k)
      /\ OnceAt(late[t], k) /\ OnceAt(requests, k) /\ ~(In(late[t], k) /\ In(requests, k))
           => OnceAt(late[t] \o requests, k)
  BY <1>1, InConcat
<1>4. ~In(requests', k) /\ OnceAt(requests', k)
  BY <1>2, InEmpty
<1>5. CASE t = conn /\ ~broken /\ ~revoked
  <2>1. late'[t] = late[t] \o requests
    BY <1>1, <1>2, <1>5, Constants
  <2> QED
    BY <1>2, <1>3, <1>4, <1>5, <2>1 DEF OneRun, Sent
<1>6. CASE ~(t = conn /\ ~broken /\ ~revoked)
  <2>1. late'[t] = late[t]
    BY <1>1, <1>2, <1>6
  <2> QED
    BY <1>2, <1>4, <2>1 DEF OneRun, Sent
<1> QED
  BY <1>5, <1>6

\* A command goes to a server that has not had it.
LEMMA SendOnce ==
  ASSUME TypeInv, NEW j \in Ids, NEW d, NEW k \in Ids, NEW t \in Servers,
         j \in Commands' => ~Sent(j, conn),
         requests' \in {requests, Append(requests, [k |-> j, to |-> d])},
         UNCHANGED <<ran, late, conn, revoked>>,
         OneRun(k, t)
  PROVE  /\ k \in Commands' => OneRun(k, t)'
         /\ Sent(k, t)' => Sent(k, t) \/ (k = j /\ t = conn)
<1> DEFINE e == [k |-> j, to |-> d]
<1>1. requests \in Seq(Request \cup {e}) /\ e \in Request \cup {e} /\ e.k = j
  <2>1. requests \in Seq(Request) /\ Request \subseteq Request \cup {e}
    BY DEF TypeInv, KnownOK
  <2> QED
    BY <2>1, SeqMonotonic
<1> HIDE DEF e
<1>2. /\ In(Append(requests, e), k) <=> In(requests, k) \/ j = k
      /\ OnceAt(Append(requests, e), k) <=> OnceAt(requests, k) /\ ~(j = k /\ In(requests, k))
  BY <1>1, InAppend
<1>3. requests' = requests \/ requests' = Append(requests, e)
  BY DEF e
<1>4. ran[k][t] \in Nat
  BY DEF TypeInv, Types
<1>5. CASE requests' = requests
  BY <1>5 DEF OneRun, Sent
<1>6. CASE requests' = Append(requests, e)
  <2>1. Sent(k, t)' => Sent(k, t) \/ (k = j /\ t = conn)
    BY <1>2, <1>6 DEF Sent
  <2>2. CASE k = j
    BY <1>2, <1>4, <1>6, <2>1, <2>2 DEF OneRun, Sent
  <2>3. CASE k # j
    BY <1>2, <1>6, <2>1, <2>3 DEF OneRun
  <2> QED
    BY <2>1, <2>2, <2>3
<1> QED
  BY <1>3, <1>5, <1>6

\* A step that sends nothing and leaves the client where it is.
LEMMA QuietOnce ==
  ASSUME TypeInv, Single, UNCHANGED <<typed, draining, cmd, queue, conn, toPrimary>>,
         pc' = pc \/ (pc = "login" /\ pc' = "ready"),
         \A k \in Commands, s \in Servers : OneRun(k, s)' /\ (Sent(k, s)' => Sent(k, s))
  PROVE  Single'
<1>1. Commands' = Commands /\ Flag' = Flag
  BY DEF Commands, Typed, Flag
<1>2. PlaceOK /\ (conn # 0 => conn \in Servers)
  BY Facts DEF TypeInv
<1>3. pc = "wait" /\ ~draining /\ cmd \in Commands => ~Sent(cmd, Other(conn))'
  BY <1>2, Constants DEF Single, PlaceOK
<1>4. ASSUME NEW k \in Commands, Has(queue, k) PROVE Waits(k)'
  <2>1. Waits(k) /\ \A s \in Servers : Sent(k, s)' => Sent(k, s)
    BY <1>4 DEF Single
  <2>2. CASE pc = "switch"
    <3>1. cmd # 0 /\ conn \in Servers
      BY <1>2, <1>4, <2>1, <2>2, Facts DEF PlaceOK, Waits, Commands
    <3> QED
      BY <2>1, <2>2, <3>1, Constants DEF Waits
  <2>3. CASE pc # "switch"
    BY <1>1, <1>2, <2>1, <2>3 DEF Waits, PlaceOK
  <2> QED
    BY <2>2, <2>3
<1> QED
  BY <1>1, <1>3, <1>4 DEF Single

LEMMA RefusedNext == TypeInv /\ Refused /\ [Next]_vars => Refused'
<1> SUFFICES ASSUME TypeInv, Refused, [Next]_vars PROVE Refused'
  OBVIOUS
<1> USE DEF servers, control, link
<1>1. /\ Len(typed) \in Nat /\ Typed \subseteq Ids /\ Commands \subseteq Typed
      /\ typed \in Seq(Kinds) /\ Len(typed) <= MaxTyped
      /\ transfers \subseteq Typed /\ requests \in Seq(Request)
      /\ late \in [Servers -> Seq(Request)] /\ replies \in Seq(Answer)
  BY Facts DEF TypeInv, Types, KnownOK, Commands
<1>2. ASSUME UNCHANGED <<typed, ran, transfers>>,
             replies' = << >> \/ (replies' = replies /\ (revoked => revoked'))
      PROVE  Refused'
  BY <1>2, EmptySeq DEF Refused, Commands, Typed
<1>3. ASSUME NEW s \in Servers, ServerRuns(s)
      PROVE  Refused'
  <2> DEFINE r == Head(requests)
  <2>1. /\ r \in Request /\ typed' = typed /\ transfers' = transfers /\ revoked' = revoked
        /\ \/ ran' = ran /\ revoked
           \/ Perform(s, r)
    BY <1>1, <1>3, TakeOne DEF ServerRuns
  <2>2. \E code \in {"ok", "bad", "unauthorized", "error"} :
          /\ replies' = Append(replies, [k |-> r.k, code |-> code])
          /\ code = "unauthorized" => revoked
          /\ code = "error" => typed[r.k] = Ls
    BY <1>3 DEF ServerRuns, Reply, Answers
  <2> HIDE DEF r
  <2>3. Commands' = Commands
    BY <2>1 DEF Commands, Typed
  <2>4. \A k \in Ids \ Commands, t \in Servers : ran'[k][t] = ran[k][t]
    BY <2>1, PerformRan
  <2>5. \A i \in 1 .. Len(replies') :
          /\ replies'[i].code = "unauthorized" => revoked
          /\ replies'[i].code = "error" => typed[replies'[i].k] = Ls
    <3>1. PICK code \in {"ok", "bad", "unauthorized", "error"} :
            /\ replies' = Append(replies, [k |-> r.k, code |-> code])
            /\ code = "unauthorized" => revoked
            /\ code = "error" => typed[r.k] = Ls
      BY <2>2
    <3> DEFINE a == [k |-> r.k, code |-> code]
    <3>2. a \in Answer /\ a.code = code /\ a.k = r.k
      BY <2>1 DEF Answer, Request
    <3> HIDE DEF a
    <3>3. /\ Len(replies) \in Nat /\ Len(replies') = Len(replies) + 1
          /\ replies'[Len(replies) + 1] = a
          /\ \A i \in 1 .. Len(replies) : replies'[i] = replies[i]
      BY <1>1, <3>1, <3>2, AppendProperties, LenProperties DEF a
    <3> QED
      BY <3>1, <3>2, <3>3 DEF Refused
  <2> QED
    BY <2>1, <2>3, <2>4, <2>5 DEF Refused
<1>4. ASSUME NEW s \in Servers, ServerRunsLate(s)
      PROVE  Refused'
  <2>1. /\ Head(late[s]) \in Request /\ Perform(s, Head(late[s]))
        /\ UNCHANGED <<typed, transfers, replies, revoked>>
    BY <1>1, <1>4, TakeOne DEF ServerRunsLate
  <2>2. \A k \in Ids \ Commands, t \in Servers : ran'[k][t] = ran[k][t]
    BY <2>1, PerformRan
  <2> QED
    BY <2>1, <2>2 DEF Refused, Commands, Typed
<1>5. ASSUME NEW s \in Servers, ServerNotices(s) \/ Crash(s) \/ Promote(s) \/ TakeOver(s)
      PROVE  Refused'
  BY <1>2, <1>5 DEF ServerNotices, Crash, Promote, TakeOver, Becomes
<1>6. ASSUME NEW s \in Servers, NEW i \in 1 .. Len(scd[s]), Arrive(s, i)
      PROVE  Refused'
  BY <1>2, <1>6 DEF Arrive
<1>7. CASE Revoke \/ Start \/ SwitchServer \/ Login \/ LoginFails \/ ExitCommand \/ Repeat
           \/ CommandFails
  BY <1>2, <1>7 DEF Revoke, Start, SwitchServer, Login, LoginFails, ExitCommand, Goto, ConnectTo,
                    Repeat, CommandFails
<1>8. ASSUME NEW kind \in Kinds, typed' = Append(typed, kind), Len(typed) + 1 \in Ids,
             UNCHANGED <<ran, transfers>>,
             replies' = << >> \/ (replies' = replies /\ revoked' = revoked)
      PROVE  Refused'
  <2>1. Typed' = Typed \cup {Len(typed) + 1} /\ \A k \in Typed : typed'[k] = typed[k]
    BY <1>1, <1>8, TypeOne
  <2>2. Commands \subseteq Commands' /\ Commands' \cap Typed \subseteq Commands
    BY <2>1 DEF Commands
  <2>a. \A i \in 1 .. Len(replies) : replies[i] \in Answer
    BY <1>1, ElementOfSeq
  <2>3. \A i \in 1 .. Len(replies) : replies[i].k \in Typed
    BY <2>a DEF Answer
  <2>4. \A i \in 1 .. Len(replies') :
          /\ replies'[i].code = "unauthorized" => revoked'
          /\ replies'[i].code = "error" => typed'[replies'[i].k] = Ls
    <3>1. CASE replies' = << >>
      BY <3>1, EmptySeq
    <3>2. CASE replies' = replies /\ revoked' = revoked
      <4>1. ASSUME NEW i \in 1 .. Len(replies)
            PROVE  /\ replies[i].code = "unauthorized" => revoked
                   /\ replies[i].code = "error" => typed'[replies[i].k] = Ls
        <5>1. typed'[replies[i].k] = typed[replies[i].k]
          BY <2>1, <2>3
        <5> QED
          BY <5>1 DEF Refused
      <4> QED
        BY <3>2, <4>1
    <3> QED
      BY <1>8, <3>1, <3>2
  <2>5. \A k \in Ids \ Commands', s \in Servers : ran'[k][s] = 0
    BY <1>8, <2>2 DEF Refused
  <2>6. transfers' \cap Commands' = {}
    BY <1>1, <1>8, <2>2 DEF Refused
  <2> QED
    BY <2>4, <2>5, <2>6 DEF Refused
<1>9. ASSUME NEW kind \in Kinds, Type(kind)
      PROVE  Refused'
  BY <1>8, <1>9 DEF Type
<1>10. CASE ChangeServerInfo
  BY <1>2, <1>8, <1>10, Constants DEF ChangeServerInfo, Goto, ConnectTo
<1>11. CASE TakeReply
  <2>1. /\ replies # << >> /\ replies' = Tail(replies)
        /\ UNCHANGED <<typed, ran, revoked>>
        /\ transfers' = transfers \/ (transfers' = transfers \cup {cmd} /\ typed[cmd] = Upload)
    BY <1>11 DEF TakeReply
  <2>2. /\ Len(replies) \in Nat /\ Len(replies') = Len(replies) - 1
        /\ \A i \in 1 .. Len(replies') : replies'[i] = replies[i + 1]
    BY <1>1, <2>1, HeadTailProperties, LenProperties
  <2>3. \A i \in 1 .. Len(replies') : i + 1 \in 1 .. Len(replies)
    BY <2>2
  <2>4. \A i \in 1 .. Len(replies') :
          /\ replies'[i].code = "unauthorized" => revoked'
          /\ replies'[i].code = "error" => typed'[replies'[i].k] = Ls
    BY <2>1, <2>2, <2>3 DEF Refused
  <2> QED
    BY <2>1, <2>4 DEF Refused, Commands, Typed
<1>12. ASSUME NEW k \in Ids, TransferEnds(k)
       PROVE  Refused'
  BY <1>12 DEF TransferEnds, Refused, Commands, Typed
<1>13. CASE UNCHANGED vars
  BY <1>2, <1>13 DEF vars
<1> QED
  BY <1>3, <1>4, <1>5, <1>6, <1>7, <1>9, <1>10, <1>11, <1>12, <1>13
     DEF Next, Client, User, Server

LEMMA SingleNext ==
  TypeInv /\ Refused /\ Single /\ [Next]_vars /\ upset' \cap {"reentered", "resent"} = {}
    => Single'
<1> SUFFICES ASSUME TypeInv, Refused, Single, [Next]_vars,
                    "reentered" \notin upset', "resent" \notin upset'
             PROVE  Single'
  OBVIOUS
<1> USE DEF servers, control, link
<1>1. /\ Len(typed) \in Nat /\ Typed \subseteq Ids /\ 0 \notin Typed /\ Commands \subseteq Typed
      /\ typed \in Seq(Kinds) /\ Len(typed) <= MaxTyped
      /\ cmd \in Typed \cup {0} /\ (conn # 0 => conn \in Servers)
      /\ queue \in Seq(Typed) /\ requests \in Seq(Request)
      /\ late \in [Servers -> Seq(Request)]
  BY Facts DEF TypeInv, Types, KnownOK, Commands
<1>2. PlaceOK
  BY DEF TypeInv
<1>3. \A k \in Commands, s \in Servers : OneRun(k, s)
  BY DEF Single
<1>4. ASSUME UNCHANGED <<typed, draining, cmd, queue, conn, toPrimary, ran, late, requests>>,
             revoked => revoked', pc' = pc \/ (pc = "login" /\ pc' = "ready")
      PROVE  Single'
  <2>1. \A k \in Commands, s \in Servers : OneRun(k, s)' /\ (Sent(k, s)' => Sent(k, s))
    BY <1>3, <1>4 DEF OneRun, Sent
  <2> QED
    BY <1>4, <2>1, QuietOnce
<1>5. ASSUME typed = << >>, typed' = typed, queue' = queue, Flag'
      PROVE  Single'
  <2>1. Commands' = {}
    BY <1>5, EmptySeq DEF Commands, Typed
  <2>2. Lone(queue', Commands')
    BY <2>1 DEF Lone
  <2> QED
    BY <1>5, <2>1, <2>2 DEF Single
<1>6. ASSUME NEW s \in Servers, ServerRuns(s)
      PROVE  Single'
  BY <1>3, <1>6, RunsOnce, QuietOnce DEF ServerRuns
<1>7. ASSUME NEW s \in Servers, ServerRunsLate(s)
      PROVE  Single'
  BY <1>3, <1>7, RunsLateOnce, QuietOnce DEF ServerRunsLate
<1>8. ASSUME NEW s \in Servers, ServerNotices(s) \/ Promote(s) \/ TakeOver(s)
      PROVE  Single'
  BY <1>4, <1>8 DEF ServerNotices, Promote, TakeOver, Becomes
<1>9. ASSUME NEW s \in Servers, Crash(s)
      PROVE  Single'
  <2>1. /\ \A t \in Servers : late'[t] = late[t] \/ late'[t] = << >>
        /\ requests' = requests \/ requests' = << >>
        /\ UNCHANGED <<ran, conn, revoked>>
    BY <1>1, <1>9 DEF Crash
  <2>2. \A k \in Commands, t \in Servers : OneRun(k, t)' /\ (Sent(k, t)' => Sent(k, t))
    BY <1>3, <2>1, InEmpty DEF OneRun, Sent
  <2> QED
    BY <1>9, <2>2, QuietOnce DEF Crash
<1>10. ASSUME NEW s \in Servers, NEW i \in 1 .. Len(scd[s]), Arrive(s, i)
       PROVE  Single'
  BY <1>4, <1>10 DEF Arrive
<1>11. CASE Revoke \/ Login
  BY <1>4, <1>11 DEF Revoke, Login
<1>12. ASSUME Goto("exited")
       PROVE  Single'
  <2>1. UNCHANGED <<typed, draining, cmd, queue, conn, toPrimary, ran, late, requests, revoked>>
        /\ pc' = "exited"
    BY <1>12 DEF Goto
  <2>2. \A k \in Commands, t \in Servers : OneRun(k, t)'
    BY <1>3, <2>1 DEF OneRun
  <2>3. Commands' = Commands /\ Flag' = Flag
    BY <2>1 DEF Commands, Typed, Flag
  <2>4. \A k \in Commands : Waits(k)'
    BY <2>1 DEF Waits
  <2> QED
    BY <2>1, <2>2, <2>3, <2>4 DEF Single
<1>13. CASE Start
  <2>1. typed = << >> /\ conn = 0 /\ typed' = typed /\ queue' = queue /\ Flag
    BY <1>2, <1>13 DEF Start, PlaceOK, Goto, ConnectTo, Single
  <2>2. Flag'
    <3>1. toPrimary /\ toPrimary' = toPrimary /\ conn' \in {0, 1}
      BY <1>13, <2>1 DEF Start, Flag, Goto, ConnectTo
    <3> QED
      BY <3>1, Zenon DEF Flag
  <2> QED
    BY <1>5, <2>1, <2>2
<1>14. CASE SwitchServer
  <2>1. ASSUME NEW s \in Servers, s = (IF toPrimary THEN 2 ELSE 1), pc = "switch",
               ConnectTo(s), draining' = TRUE, cmd' = 0, Toggle, UNCHANGED typed
        PROVE  Single'
    <3>1. Flag /\ toPrimary \in BOOLEAN /\ conn \in {0} \cup Servers
      BY DEF Single, TypeInv, Types
    <3>2. conn' = s /\ pc' = "login" /\ queue' = queue /\ toPrimary' = ~toPrimary
      BY <2>1 DEF ConnectTo, Toggle
    <3>3. s # conn /\ s # 0 /\ (conn # 0 => s = Other(conn))
      BY <2>1, <3>1 DEF Flag, Servers, Other
    <3>4. Flag'
      <4>1. CASE toPrimary
        <5>1. conn' = 2 /\ ~toPrimary'
          BY <2>1, <3>2, <4>1
        <5> QED
          BY <5>1 DEF Flag
      <4>2. CASE ~toPrimary
        <5>1. conn' = 1 /\ toPrimary'
          BY <2>1, <3>2, <4>2
        <5> QED
          BY <5>1 DEF Flag
      <4> QED
        BY <4>1, <4>2
    <3>5. CASE typed = << >>
      BY <1>5, <2>1, <3>2, <3>4, <3>5
    <3>6. CASE typed # << >>
      <4>1. conn # 0
        BY <1>2, <2>1, <3>6 DEF PlaceOK
      <4>2. \A k \in Commands, t \in Servers : OneRun(k, t)' /\ (Sent(k, t)' => Sent(k, t))
        BY <1>3, <2>1, <3>3, ConnectOnce
      <4>3. Commands' = Commands
        BY <2>1 DEF Commands, Typed
      <4>4. ASSUME NEW k \in Commands, Has(queue, k) PROVE Waits(k)'
        <5>1. ~Sent(k, s)
          BY <2>1, <3>3, <4>1, <4>4 DEF Single, Waits
        <5> QED
          BY <2>1, <3>2, <4>2, <5>1 DEF Waits
      <4> QED
        BY <3>2, <3>4, <4>2, <4>3, <4>4 DEF Single
    <3> QED
      BY <3>5, <3>6
  <2> QED
    BY <1>12, <1>14, <2>1 DEF SwitchServer, Servers
<1>15. CASE LoginFails
  <2>1. CASE typed = << >> /\ Goto("switch")
    BY <1>5, <2>1 DEF Goto, Single, Flag
  <2> QED
    BY <1>12, <1>15, <2>1 DEF LoginFails
<1>16. ASSUME NEW kind \in Kinds, Type(kind)
       PROVE  Single'
  <2> DEFINE j == Len(typed) + 1
  <2>1. /\ pc = "ready" /\ ~draining /\ j \in Ids /\ typed' = Append(typed, kind)
        /\ UNCHANGED <<ran, late, conn, revoked, queue, draining, toPrimary>>
        /\ cmd = 0 /\ conn # 0
    BY <1>2, <1>16 DEF Type, PlaceOK
  <2>2. /\ Typed' = Typed \cup {j} /\ j \notin Typed
        /\ \A k \in Typed : typed'[k] = typed[k]
    BY <1>1, <2>1, TypeOne
  <2>3. \/ pc' = "wait" /\ cmd' = j /\ \E d : requests' \in {requests, Append(requests, [k |-> j, to |-> d])}
        \/ UNCHANGED <<pc, cmd, requests>>
    BY <1>16, <2>1 DEF Type, Send
  <2> HIDE DEF j
  <2>4. Commands \subseteq Commands' /\ Commands' \subseteq Commands \cup {j}
    BY <2>2 DEF Commands
  <2>5. \A t \in Servers : ran[j][t] = 0 /\ ~In(late[t], j) /\ ~In(requests, j)
    <3>1. j \notin Commands
      BY <1>1, <2>2
    <3> QED
      BY <1>1, <2>1, <2>2, <3>1, InTyped DEF Refused
  <2>6. \A t \in Servers : ~Sent(j, t) /\ OneRun(j, t)
    BY <2>5 DEF Sent, OneRun, OnceAt, In
  <2>7. \A k \in Commands' : k \in Ids /\ \A t \in Servers : OneRun(k, t)
    BY <1>1, <1>3, <2>1, <2>4, <2>6
  <2>8. \A k \in Commands', t \in Servers :
          OneRun(k, t)' /\ (Sent(k, t)' => Sent(k, t) \/ (k = j /\ t = conn))
    <3>1. PICK d : requests' \in {requests, Append(requests, [k |-> j, to |-> d])}
      BY <2>3
    <3>2. conn \in Servers
      BY <1>1, <2>1
    <3> QED
      BY <2>1, <2>6, <2>7, <3>1, <3>2, SendOnce
  <2>9. Lone(queue, Commands')
    <3>1. Commands' \cap Typed \subseteq Commands
      BY <2>2, <2>4
    <3> QED
      BY <1>1, <3>1, LoneTyped DEF Single
  <2>10. \A k \in Commands' : ~Has(queue, k)
    BY <1>1, <2>1, <2>2, <2>4, HasTyped DEF Single, Waits
  <2>11. pc' = "wait" /\ cmd' \in Commands' => ~Sent(cmd, Other(conn))'
    <3>1. ASSUME NEW k \in Commands', k = j, NEW t \in Servers, t # conn PROVE ~Sent(k, t)'
      BY <2>6, <2>8, <3>1
    <3>2. Other(conn) \in Servers /\ Other(conn) # conn
      BY <1>1, <2>1, Constants
    <3> QED
      BY <2>1, <2>3, <3>1, <3>2 DEF Sent
  <2>12. Flag'
    BY <2>1 DEF Single, Flag
  <2> QED
    BY <2>1, <2>8, <2>9, <2>10, <2>11, <2>12 DEF Single
<1>17. CASE ChangeServerInfo
  BY <1>12, <1>17 DEF ChangeServerInfo
<1>18. CASE Repeat
  <2> DEFINE j == Head(queue)
  <2>1. /\ pc = "ready" /\ draining /\ cmd = 0 /\ conn # 0 /\ conn \in Servers
        /\ UNCHANGED <<typed, ran, late, conn, revoked, toPrimary>>
    BY <1>1, <1>2, <1>18 DEF Repeat, PlaceOK
  <2>2. Commands' = Commands /\ Flag'
    BY <2>1 DEF Commands, Typed, Single, Flag
  <2>3. CASE queue = << >> /\ UNCHANGED <<queue, pc, cmd, requests>>
    <3>1. \A k \in Commands, t \in Servers : OneRun(k, t)'
      BY <1>3, <2>1, <2>3 DEF OneRun
    <3> QED
      BY <2>1, <2>2, <2>3, <3>1, InEmpty DEF Single
  <2>4. CASE queue # << >> /\ queue' = Tail(queue) /\ draining' = draining /\ Send(j, typed[j])
    <3>1. \/ pc' = "wait" /\ cmd' = j
             /\ \E d : requests' \in {requests, Append(requests, [k |-> j, to |-> d])}
          \/ UNCHANGED <<pc, cmd, requests>>
      BY <2>4 DEF Send
    <3>2. j \in Typed
      BY <1>1, <2>4, TakeOne
    <3>3. /\ \A k : Has(queue, k) <=> Has(queue', k) \/ j = k
          /\ Lone(queue', Commands)
          /\ j \in Commands => \A k \in Commands : ~Has(queue', k)
      BY <1>1, <2>4, HasTail, LoneTail DEF Single
    <3> HIDE DEF j
    <3>4. j \in Commands => ~Sent(j, conn)
      BY <2>1, <3>3 DEF Single, Waits
    <3>5. \A k \in Commands, t \in Servers :
            OneRun(k, t)' /\ (Sent(k, t)' => Sent(k, t) \/ (k = j /\ t = conn))
      <4>1. PICK d : requests' \in {requests, Append(requests, [k |-> j, to |-> d])}
        BY <3>1
      <4>2. j \in Ids /\ (j \in Commands' => ~Sent(j, conn))
        BY <1>1, <2>2, <3>2, <3>4
      <4> QED
        BY <1>1, <1>3, <2>1, <2>2, <4>1, <4>2, SendOnce
    <3>6. ASSUME NEW k \in Commands, Has(queue', k) PROVE Waits(k)'
      <4>1. k # j /\ j \notin Commands /\ ~Sent(k, conn)
        BY <2>1, <3>3, <3>6 DEF Single, Waits
      <4>2. ~Sent(k, conn)'
        BY <2>1, <3>5, <4>1
      <4> QED
        BY <1>1, <2>1, <2>2, <2>4, <3>1, <4>1, <4>2 DEF Waits
    <3> QED
      BY <2>1, <2>2, <2>4, <3>3, <3>5, <3>6 DEF Single
  <2> QED
    BY <1>18, <2>3, <2>4 DEF Repeat
<1>19. CASE TakeReply
  <2>1. /\ pc = "wait" /\ replies # << >> /\ conn \in Servers
        /\ UNCHANGED <<typed, ran, late, conn, revoked, toPrimary, draining, queue>>
        /\ \/ pc' = pc /\ cmd' = cmd /\ Head(replies).code \in {"unauthorized", "error"}
           \/ pc' = "ready" /\ cmd' = 0 /\ requests' = requests
    BY <1>1, <1>2, <1>19 DEF TakeReply, End, PlaceOK
  <2>6. Head(replies).code = "error" => requests' = requests
    BY <1>19, <2>1 DEF TakeReply
  <2>2. Head(replies).code = "unauthorized" => revoked
    <3>1. replies \in Seq(Answer)
      BY DEF TypeInv, KnownOK
    <3>2. Head(replies) = replies[1] /\ 1 \in 1 .. Len(replies)
      BY <2>1, <3>1, HeadTailProperties, EmptySeq, LenProperties
    <3> QED
      BY <3>2 DEF Refused
  <2>3. \A k \in Commands, t \in Servers : OneRun(k, t)' /\ (Sent(k, t)' => Sent(k, t))
    BY <1>3, <2>1, <2>2, <2>6 DEF OneRun, Sent
  <2>4. CASE pc' = pc /\ cmd' = cmd
    BY <2>1, <2>3, <2>4, QuietOnce
  <2>5. CASE pc' = "ready" /\ cmd' = 0
    <3>1. Commands' = Commands /\ Flag'
      BY <2>1 DEF Commands, Typed, Single, Flag
    <3>2. ASSUME NEW k \in Commands, Has(queue, k) PROVE Waits(k)'
      <4>1. draining /\ ~Sent(k, conn)
        BY <2>1, <3>2 DEF Single, Waits
      <4> QED
        BY <2>1, <2>3, <2>5, <4>1 DEF Waits
    <3> QED
      BY <2>1, <2>3, <2>5, <3>1, <3>2 DEF Single
  <2> QED
    BY <2>1, <2>4, <2>5
<1>20. CASE CommandFails
  <2>1. /\ pc = "wait" /\ conn \in Servers /\ cmd \in Typed
        /\ UNCHANGED <<typed, ran, late, conn, revoked, requests, toPrimary, draining>>
    BY <1>1, <1>2, <1>20 DEF CommandFails, Failed, PlaceOK
  <2>2. \A k, t : OneRun(k, t)' = OneRun(k, t) /\ Sent(k, t)' = Sent(k, t)
    BY <2>1 DEF OneRun, Sent
  <2>3. Commands' = Commands /\ Flag'
    BY <2>1 DEF Commands, Typed, Single, Flag
  <2>4. \A k \in Commands : Has(queue, k) => draining /\ ~Sent(k, conn)
    BY <2>1 DEF Single, Waits
  <2>5. CASE pc' = "ready" /\ cmd' = 0 /\ queue' = queue
    BY <1>3, <2>1, <2>2, <2>3, <2>4, <2>5 DEF Single, Waits
  <2>6. CASE pc' = "exited" /\ queue' = queue
    BY <1>3, <2>1, <2>2, <2>3, <2>4, <2>6 DEF Single, Waits
  <2>7. CASE pc' = "switch" /\ ~draining /\ queue' = Append(queue, cmd) /\ cmd' = cmd
    <3>1. \A k \in Commands : ~Has(queue, k)
      BY <2>4, <2>7
    <3>2. \A k : Has(queue', k) <=> Has(queue, k) \/ cmd = k
      BY <1>1, <2>1, <2>7, HasAppend
    <3>3. Lone(queue', Commands)
      <4>1. Lone(queue, Commands) /\ (cmd \in Commands => \A k \in Commands : ~Has(queue, k))
        BY <3>1 DEF Single
      <4> QED
        BY <1>1, <2>1, <2>7, <4>1, LoneAppend
    <3>4. cmd \in Commands => ~Sent(cmd, Other(conn))'
      BY <2>1, <2>2, <2>7 DEF Single, Sent
    <3>5. \A k \in Commands : Has(queue', k) => Waits(k)'
      BY <2>1, <2>7, <3>1, <3>2, <3>4 DEF Waits
    <3> QED
      BY <1>3, <2>2, <2>3, <2>7, <3>3, <3>5 DEF Single
  <2> QED
    BY <1>20, <2>1, <2>5, <2>6, <2>7 DEF CommandFails, End, QueueOrExit
<1>21. ASSUME NEW k \in Ids, TransferEnds(k)
       PROVE  Single'
  <2>1. /\ k \in transfers /\ queue' \in {queue, Append(queue, k)}
        /\ UNCHANGED <<pc, cmd, typed, ran, late, conn, revoked, requests, toPrimary, draining>>
    BY <1>21 DEF TransferEnds
  <2>2. k \in Typed /\ k \notin Commands
    BY <2>1 DEF Refused, TypeInv, KnownOK
  <2>3. /\ \A j : Has(Append(queue, k), j) <=> Has(queue, j) \/ k = j
        /\ Lone(Append(queue, k), Commands)
    BY <1>1, <2>2, HasAppend, LoneAppend DEF Single
  <2>4. \A j, t : OneRun(j, t)' = OneRun(j, t) /\ Sent(j, t)' = Sent(j, t)
    BY <2>1 DEF OneRun, Sent
  <2>5. /\ Commands' = Commands /\ Flag' /\ Lone(queue', Commands)
        /\ \A j \in Commands : Has(queue', j) => Has(queue, j)
    BY <2>1, <2>2, <2>3 DEF Commands, Typed, Single, Flag
  <2>6. \A j \in Commands : Waits(j)' = Waits(j)
    BY <2>1, <2>4, <2>5 DEF Waits
  <2>7. pc = "wait" /\ ~draining /\ cmd \in Commands => ~Sent(cmd, Other(conn))'
    BY <2>1 DEF Single, Sent
  <2> QED
    BY <1>3, <2>1, <2>4, <2>5, <2>6, <2>7 DEF Single
<1>22. CASE UNCHANGED vars
  BY <1>4, <1>22 DEF vars
<1> QED
  BY <1>6, <1>7, <1>8, <1>9, <1>10, <1>11, <1>12, <1>13, <1>14, <1>15, <1>16, <1>17,
     <1>18, <1>19, <1>20, <1>21, <1>22 DEF Next, Client, User, Server, ExitCommand

LEMMA OnceInvNext == TypeInv /\ OnceInv /\ [Next]_vars => OnceInv'
<1> SUFFICES ASSUME TypeInv, OnceInv, [Next]_vars PROVE OnceInv'
  OBVIOUS
<1>1. \A h \in {"reentered", "resent"} : h \in upset => h \in upset'
  BY DEF Next, Client, User, Server, ServerRuns, ServerRunsLate, ServerNotices, Crash, Promote,
         TakeOver, Becomes, Arrive, Revoke, Start, SwitchServer, Goto, ConnectTo, Login,
         LoginFails, Type, ChangeServerInfo, ExitCommand, Repeat, TakeReply, CommandFails,
         TransferEnds, vars
<1> QED
  BY <1>1, RefusedNext, SingleNext DEF OnceInv

LEMMA OnceInvInit == Init => OnceInv
<1> SUFFICES ASSUME Init PROVE OnceInv
  OBVIOUS
<1>1. Commands = {} /\ replies = << >> /\ transfers = {} /\ queue = << >> /\ conn = 0
      /\ toPrimary /\ \A k \in Ids, s \in Servers : ran[k][s] = 0
  BY EmptySeq DEF Init, Commands, Typed
<1> QED
  BY <1>1, EmptySeq DEF OnceInv, Refused, Single, Flag, Lone

\* No server runs a command twice: what is repeated goes to the server that has
\* not had it, unless the servers were entered again (Client 40-61), or a
\* server-cd was sent again for another command's error (CommandHandler 215-227).
THEOREM RunOncePerServer == Spec => []OncePerServer
<1>1. TypeInv /\ OnceInv => OncePerServer
  <2> SUFFICES ASSUME TypeInv, OnceInv, upset \cap {"reentered", "resent"} = {},
                      NEW k \in 1 .. Len(typed), NEW s \in Servers
               PROVE  ran[k][s] <= 1
    BY DEF OncePerServer
  <2>1. k \in Typed /\ k \in Ids
    BY Facts DEF Typed
  <2>2. CASE k \in Commands
    BY <2>2 DEF OnceInv, Single, OneRun
  <2>3. CASE k \notin Commands
    BY <2>1, <2>3 DEF OnceInv, Refused
  <2> QED
    BY <2>2, <2>3
<1> QED
  BY <1>1, OnceInvInit, OnceInvNext, TypeInvInit, TypeInvNext, PTL DEF Spec

-----------------------------------------------------------------------------
(* The prompt shows the directory of the user. *)

LEMMA OneElement ==
  ASSUME NEW x
  PROVE  /\ Append(<< >>, x) = <<x>> /\ Head(<<x>>) = x /\ Tail(<<x>>) = << >>
         /\ <<x>> # << >>
  OBVIOUS

\* A connection that holds leads to a server that serves; one that broke takes
\* nothing any more.
LinkOK ==
  /\ broken => requests = << >>
  /\ conn # 0 /\ ~broken => status[conn] = "primary"

\* Unless an upload gave up waiting, there is at most one request or reply under
\* way, and it is the command's at work.
PipeOK == "shifted" \notin upset =>
  /\ pc \in {"start", "login", "ready"} => requests = << >> /\ replies = << >>
  /\ pc \in {"wait", "switch"} =>
       \/ requests = << >> /\ replies = << >>
       \/ requests = <<[k |-> cmd, to |-> target]>> /\ replies = << >>
       \/ requests = << >> /\ \E c : replies = <<[k |-> cmd, code |-> c]>>

\* No change of directory is on its way to the server the client uses, unless the
\* login found one.
Heard == upset \cap {"behind", "pushed"} = {} /\ pc \in {"ready", "wait"} => scd[conn] = << >>

\* The server is where the prompt says, or already where the command at work leads.
Arrived == replies # << >> /\ typed[cmd] \in Moves /\ Head(replies).code = "ok"
DirOK ==
  upset \cap {"shifted", "pushed"} = {} /\ (~broken \/ "behind" \notin upset) =>
    /\ pc = "ready" => clientDir = dirOf[conn]
    /\ pc = "wait" =>
         /\ dirOf[conn] = IF Arrived THEN target ELSE clientDir
         /\ typed[cmd] \in Moves => target = Move(clientDir, typed[cmd])

DirInv == LinkOK /\ PipeOK /\ Heard /\ DirOK

LEMMA LinkNext == TypeInv /\ LinkOK /\ [Next]_vars => LinkOK'
<1> SUFFICES ASSUME TypeInv, LinkOK, [Next]_vars PROVE LinkOK'
  OBVIOUS
<1> USE DEF servers, control, link
<1>1. status \in [Servers -> {"primary", "secondary", "down"}] /\ (conn # 0 => conn \in Servers)
  BY Facts DEF TypeInv, Types
<1>2. ASSUME UNCHANGED <<conn, broken, status>>, broken => requests' = requests
      PROVE  LinkOK'
  BY <1>2 DEF LinkOK
<1>3. ASSUME NEW s \in Servers, ConnectTo(s), status[s] = "primary"
      PROVE  LinkOK'
  BY <1>3 DEF LinkOK, ConnectTo
<1>4. ASSUME NEW s \in Servers, ServerRuns(s) \/ ServerRunsLate(s) \/ ServerNotices(s)
      PROVE  LinkOK'
  BY <1>2, <1>4 DEF ServerRuns, ServerRunsLate, ServerNotices
<1>5. ASSUME NEW s \in Servers, Crash(s)
      PROVE  LinkOK'
  BY <1>1, <1>5 DEF Crash, LinkOK
<1>6. ASSUME NEW s \in Servers, Promote(s) \/ TakeOver(s)
      PROVE  LinkOK'
  BY <1>1, <1>6 DEF Promote, TakeOver, Becomes, LinkOK
<1>7. ASSUME NEW s \in Servers, NEW i \in 1 .. Len(scd[s]), Arrive(s, i)
      PROVE  LinkOK'
  BY <1>2, <1>7 DEF Arrive
<1>8. CASE Start \/ SwitchServer \/ ChangeServerInfo
  BY <1>2, <1>3, <1>8 DEF Start, SwitchServer, ChangeServerInfo, Goto, Servers
<1>9. CASE Revoke \/ Login \/ LoginFails \/ ExitCommand \/ CommandFails
  BY <1>2, <1>9 DEF Revoke, Login, LoginFails, ExitCommand, CommandFails, Goto
<1>10. CASE Repeat \/ TakeReply
  BY <1>2, <1>10 DEF Repeat, TakeReply, Send
<1>11. ASSUME NEW kind \in Kinds, Type(kind)
       PROVE  LinkOK'
  BY <1>2, <1>11 DEF Type, Send
<1>12. ASSUME NEW k \in Ids, TransferEnds(k)
       PROVE  LinkOK'
  BY <1>2, <1>12 DEF TransferEnds
<1>13. CASE UNCHANGED vars
  BY <1>2, <1>13 DEF vars
<1> QED
  BY <1>4, <1>5, <1>6, <1>7, <1>8, <1>9, <1>10, <1>11, <1>12, <1>13
     DEF Next, Client, User, Server

LEMMA PipeNext == TypeInv /\ LinkOK /\ PipeOK /\ [Next]_vars => PipeOK'
<1> SUFFICES ASSUME TypeInv, LinkOK, PipeOK, [Next]_vars, "shifted" \notin upset' PROVE PipeOK'
  BY DEF PipeOK
<1> USE DEF servers, control, link
<1>1. PlaceOK
  BY DEF TypeInv
<1>2. ASSUME UNCHANGED <<requests, replies, cmd, target>>, upset \subseteq upset',
             pc' = pc \/ pc' = "exited" \/ (pc \in {"start", "login", "ready"}
                                           /\ pc' \in {"start", "login", "ready", "wait", "switch"})
      PROVE  PipeOK'
  BY <1>2 DEF PipeOK
<1>3. ASSUME NEW s \in Servers, ConnectTo(s)
      PROVE  PipeOK'
  BY <1>3 DEF PipeOK, ConnectTo
<1>4. ASSUME NEW s \in Servers, ServerRuns(s)
      PROVE  PipeOK'
  <2> DEFINE r == Head(requests)
  <2>1. /\ requests # << >> /\ requests' = Tail(requests)
        /\ UNCHANGED <<pc, cmd, target, upset>>
        /\ \E code : replies' = Append(replies, [k |-> r.k, code |-> code])
    BY <1>4 DEF ServerRuns, Reply
  <2>2. PICK code : replies' = Append(replies, [k |-> r.k, code |-> code])
    BY <2>1
  <2>3. CASE pc \in {"wait", "switch"}
    <3>1. requests = <<[k |-> cmd, to |-> target]>> /\ replies = << >>
      BY <2>1, <2>3 DEF PipeOK
    <3>2. r.k = cmd /\ requests' = << >> /\ replies' = <<[k |-> r.k, code |-> code]>>
      BY <2>1, <2>2, <3>1, OneElement
    <3> QED
      BY <2>1, <2>3, <3>2 DEF PipeOK
  <2>4. CASE pc \notin {"wait", "switch"}
    BY <2>1, <2>4 DEF PipeOK
  <2> QED
    BY <2>3, <2>4
<1>5. ASSUME NEW s \in Servers, ServerRunsLate(s) \/ ServerNotices(s) \/ Promote(s) \/ TakeOver(s)
      PROVE  PipeOK'
  BY <1>2, <1>5 DEF ServerRunsLate, ServerNotices, Promote, TakeOver, Becomes
<1>6. ASSUME NEW s \in Servers, Crash(s)
      PROVE  PipeOK'
  <2>1. requests' \in {requests, << >>} /\ UNCHANGED <<replies, pc, cmd, target, upset>>
    BY <1>6 DEF Crash
  <2> QED
    BY <2>1 DEF PipeOK
<1>7. ASSUME NEW s \in Servers, NEW i \in 1 .. Len(scd[s]), Arrive(s, i)
      PROVE  PipeOK'
  BY <1>2, <1>7 DEF Arrive
<1>8. CASE Start \/ SwitchServer \/ ChangeServerInfo
  BY <1>2, <1>3, <1>8 DEF Start, SwitchServer, ChangeServerInfo, Goto, Servers
<1>9. CASE Revoke \/ Login \/ LoginFails \/ ExitCommand
  BY <1>2, <1>9 DEF Revoke, Login, LoginFails, ExitCommand, Goto
<1>10. ASSUME NEW j, NEW kind, Send(j, kind), pc = "ready", replies' = replies, upset' = upset
       PROVE  PipeOK'
  <2>1. requests = << >> /\ replies = << >>
    BY <1>10 DEF PipeOK
  <2>2. CASE UNCHANGED <<pc, requests>>
    BY <1>10, <2>1, <2>2 DEF PipeOK
  <2>3. CASE pc' = "wait" /\ \/ requests' = requests
                             \/ requests' = Append(requests, [k |-> cmd', to |-> target'])
    BY <1>10, <2>1, <2>3, OneElement DEF PipeOK
  <2> QED
    BY <1>10, <2>2, <2>3 DEF Send
<1>11. ASSUME NEW kind \in Kinds, Type(kind)
       PROVE  PipeOK'
  BY <1>10, <1>11 DEF Type
<1>12. CASE Repeat
  BY <1>2, <1>10, <1>12 DEF Repeat
<1>13. CASE TakeReply
  <2>1. /\ pc = "wait" /\ replies # << >> /\ replies' = Tail(replies)
        /\ target' = target /\ upset \subseteq upset'
        /\ \/ /\ UNCHANGED <<pc, cmd>>
              /\ requests' \in {requests, Append(requests, [k |-> cmd, to |-> target])}
           \/ pc' = "ready" /\ requests' = requests
    BY <1>13 DEF TakeReply, End
  <2>2. requests = << >> /\ \E c : replies = <<[k |-> cmd, code |-> c]>>
    BY <2>1 DEF PipeOK
  <2>3. replies' = << >> /\ requests' \in {<< >>, <<[k |-> cmd, to |-> target]>>}
    BY <2>1, <2>2, OneElement
  <2> QED
    BY <2>1, <2>2, <2>3 DEF PipeOK
<1>14. CASE CommandFails
  <2>1. /\ pc = "wait" /\ replies' = << >> /\ UNCHANGED <<target, requests>>
        /\ \/ pc' = "ready" /\ broken /\ upset' = upset
           \/ pc' \in {"exited", "switch"} /\ UNCHANGED <<cmd, upset>>
    BY <1>14 DEF CommandFails, Failed, End, QueueOrExit
  <2>2. CASE pc' = "ready" /\ broken /\ upset' = upset
    BY <2>1, <2>2 DEF PipeOK, LinkOK
  <2>3. CASE pc' \in {"exited", "switch"} /\ UNCHANGED <<cmd, upset>>
    BY <2>1, <2>3 DEF PipeOK
  <2> QED
    BY <2>1, <2>2, <2>3
<1>15. ASSUME NEW k \in Ids, TransferEnds(k)
       PROVE  PipeOK'
  BY <1>2, <1>15 DEF TransferEnds
<1>16. CASE UNCHANGED vars
  BY <1>2, <1>16 DEF vars
<1> QED
  BY <1>4, <1>5, <1>6, <1>7, <1>8, <1>9, <1>11, <1>12, <1>13, <1>14, <1>15, <1>16
     DEF Next, Client, User, Server

LEMMA HeardNext == TypeInv /\ Heard /\ [Next]_vars => Heard'
<1> SUFFICES ASSUME TypeInv, Heard, [Next]_vars, upset' \cap {"behind", "pushed"} = {},
                    pc' \in {"ready", "wait"}
             PROVE  Heard'
  BY DEF Heard
<1> USE DEF servers, control, link
<1>1. /\ PlaceOK /\ scd \in [Servers -> Seq(Existing)] /\ (conn # 0 => conn \in Servers)
      /\ requests \in Seq(Request) /\ late \in [Servers -> Seq(Request)]
  BY Facts DEF TypeInv, Types, KnownOK
<1>2. ASSUME pc \in {"ready", "wait"}, conn' = conn, scd'[conn] = scd[conn], upset \subseteq upset'
      PROVE  Heard'
  BY <1>2 DEF Heard
<1>3. ASSUME NEW s \in Servers, ServerRuns(s)
      PROVE  Heard'
  <2>1. conn = s /\ UNCHANGED <<pc, conn, upset>>
        /\ (scd' = scd \/ Perform(s, Head(requests)))
    BY <1>3 DEF ServerRuns
  <2>2. scd'[conn] = scd[conn]
    BY <1>1, <2>1, Constants DEF Perform
  <2> QED
    BY <1>2, <2>1, <2>2
<1>4. ASSUME NEW s \in Servers, ServerRunsLate(s)
      PROVE  Heard'
  <2>1. /\ scd' = scd /\ UNCHANGED <<pc, conn>> /\ upset \subseteq upset'
    BY <1>4 DEF ServerRunsLate, Perform
  <2> QED
    BY <1>2, <2>1
<1>5. ASSUME NEW s \in Servers, ServerNotices(s) \/ Crash(s) \/ Promote(s) \/ TakeOver(s)
      PROVE  Heard'
  BY <1>2, <1>5 DEF ServerNotices, Crash, Promote, TakeOver, Becomes
<1>6. ASSUME NEW s \in Servers, NEW i \in 1 .. Len(scd[s]), Arrive(s, i)
      PROVE  Heard'
  <2>1. UNCHANGED <<pc, conn>> /\ upset \subseteq upset' /\ conn \in Servers
    BY <1>1, <1>6 DEF Arrive, PlaceOK
  <2>2. scd[conn] = << >>
    BY <2>1 DEF Heard
  <2>3. s # conn
    BY <2>2, EmptySeq
  <2>4. scd'[conn] = scd[conn]
    BY <1>1, <1>6, <2>1, <2>3 DEF Arrive
  <2> QED
    BY <1>2, <2>1, <2>4
<1>7. CASE Start \/ SwitchServer \/ ChangeServerInfo \/ LoginFails \/ ExitCommand
  BY <1>2, <1>7 DEF Start, SwitchServer, ChangeServerInfo, LoginFails, ExitCommand, Goto, ConnectTo
<1>8. CASE Login
  BY <1>8 DEF Login, Behind, Heard
<1>9. CASE Revoke \/ Repeat \/ TakeReply \/ CommandFails
  <2>1. CASE Revoke
    BY <1>2, <2>1 DEF Revoke
  <2>2. CASE Repeat
    BY <1>2, <2>2 DEF Repeat
  <2>3. CASE TakeReply
    BY <1>2, <2>3 DEF TakeReply
  <2>4. CASE CommandFails
    <3>1. pc = "wait" /\ conn' = conn /\ scd' = scd /\ upset \subseteq upset'
      BY <2>4 DEF CommandFails, Failed
    <3> QED
      BY <1>2, <3>1
  <2> QED
    BY <1>9, <2>1, <2>2, <2>3, <2>4
<1>10. ASSUME NEW kind \in Kinds, Type(kind)
       PROVE  Heard'
  BY <1>2, <1>10 DEF Type
<1>11. ASSUME NEW k \in Ids, TransferEnds(k)
       PROVE  Heard'
  BY <1>2, <1>11 DEF TransferEnds
<1>12. CASE UNCHANGED vars
  BY <1>2, <1>12 DEF vars
<1> QED
  BY <1>3, <1>4, <1>5, <1>6, <1>7, <1>8, <1>9, <1>10, <1>11, <1>12
     DEF Next, Client, User, Server

LEMMA DirNext == TypeInv /\ DirInv /\ [Next]_vars => DirOK'
<1> SUFFICES ASSUME TypeInv, DirInv, [Next]_vars, upset' \cap {"shifted", "pushed"} = {},
                    ~broken' \/ "behind" \notin upset', pc' \in {"ready", "wait"}
             PROVE  DirOK'
  BY DEF DirOK
<1> USE DEF servers, control, link
<1>1. /\ PlaceOK /\ dirOf \in [Servers -> Existing] /\ (conn # 0 => conn \in Servers)
      /\ typed \in Seq(Kinds) /\ Len(typed) <= MaxTyped /\ Len(typed) \in Nat
      /\ (cmd # 0 => cmd \in Typed)
      /\ late \in [Servers -> Seq(Request)]
  BY Facts DEF TypeInv, Types, KnownOK
<1>2. LinkOK /\ PipeOK /\ Heard /\ DirOK
  BY DEF DirInv
<1>3. ASSUME pc \in {"ready", "wait"}, upset \cap {"shifted", "pushed"} = {},
             ~broken \/ "behind" \notin upset
      PROVE  /\ conn \in Servers
             /\ pc = "ready" => clientDir = dirOf[conn] /\ replies = << >> /\ requests = << >>
             /\ pc = "wait" =>
                  /\ cmd \in Typed
                  /\ dirOf[conn] = IF Arrived THEN target ELSE clientDir
                  /\ typed[cmd] \in Moves => target = Move(clientDir, typed[cmd])
                  /\ \/ requests = << >> /\ replies = << >>
                     \/ requests = <<[k |-> cmd, to |-> target]>> /\ replies = << >>
                     \/ requests = << >> /\ \E c : replies = <<[k |-> cmd, code |-> c]>>
  BY <1>1, <1>2, <1>3 DEF DirOK, PipeOK, PlaceOK
<1>4. ASSUME UNCHANGED <<pc, clientDir, conn, replies, typed, cmd, target>>,
             dirOf'[conn] = dirOf[conn], upset \subseteq upset', broken => broken'
      PROVE  DirOK'
  BY <1>2, <1>4 DEF DirOK, Arrived
<1>5. ASSUME NEW s \in Servers, ServerRuns(s)
      PROVE  DirOK'
  <2> DEFINE r == Head(requests)
  <2>1. /\ conn = s /\ ~broken /\ requests # << >> /\ requests' = Tail(requests)
        /\ UNCHANGED <<pc, clientDir, conn, typed, cmd, target, upset, broken>>
    BY <1>5 DEF ServerRuns
  <2>2. /\ pc = "wait" /\ cmd \in Typed /\ conn \in Servers
        /\ requests = <<[k |-> cmd, to |-> target]>> /\ replies = << >>
        /\ dirOf[conn] = clientDir /\ (typed[cmd] \in Moves => target = Move(clientDir, typed[cmd]))
    BY <1>3, <2>1 DEF Arrived
  <2>3. r.k = cmd /\ r.to = target
    BY <2>2, OneElement
  <2>4. CASE revoked /\ Reply(r, "unauthorized") /\ UNCHANGED dirOf
    <3>1. replies' = <<[k |-> cmd, code |-> "unauthorized"]>>
      BY <2>2, <2>3, <2>4, OneElement DEF Reply
    <3>2. Head(replies').code # "ok"
      BY <3>1, OneElement
    <3> QED
      BY <2>1, <2>2, <2>4, <3>2 DEF DirOK, Arrived
  <2>5. ASSUME Perform(s, r), NEW code \in Answers(r), Reply(r, code)
        PROVE  DirOK'
    <3>1. replies' # << >> /\ Head(replies').code = code
      BY <2>2, <2>3, <2>5, OneElement DEF Reply
    <3>2. dirOf'[conn] = IF typed[cmd] \in Moves /\ target \in Existing
                         THEN target ELSE clientDir
      BY <1>1, <2>1, <2>2, <2>3, <2>5 DEF Perform
    <3>3. typed[cmd] \in Moves => (code = "ok" <=> target \in Existing)
      BY <2>3, <2>5 DEF Answers
    <3>4. dirOf'[conn] = IF Arrived' THEN target ELSE clientDir
      BY <2>1, <3>1, <3>2, <3>3 DEF Arrived
    <3> QED
      BY <2>1, <2>2, <3>4 DEF DirOK
  <2> QED
    BY <1>5, <2>4, <2>5 DEF ServerRuns
<1>6. ASSUME NEW s \in Servers, ServerRunsLate(s)
      PROVE  DirOK'
  <2>1. dirOf' = dirOf
    BY <1>6 DEF ServerRunsLate, Perform
  <2> QED
    BY <1>4, <1>6, <2>1 DEF ServerRunsLate
<1>7. ASSUME NEW s \in Servers, ServerNotices(s) \/ Crash(s) \/ Promote(s) \/ TakeOver(s)
      PROVE  DirOK'
  <2>1. UNCHANGED <<pc, clientDir, conn, replies, typed, cmd, target, dirOf, upset>>
        /\ (broken => broken')
    <3>1. CASE Crash(s)
      <4>1. broken' = (broken \/ conn = s)
        BY <3>1 DEF Crash
      <4>2. UNCHANGED <<pc, clientDir, conn, replies, typed, cmd, target, dirOf, upset>>
        BY <3>1 DEF Crash
      <4> QED
        BY <4>1, <4>2, Zenon
    <3>2. CASE ServerNotices(s) \/ Promote(s) \/ TakeOver(s)
      BY <3>2 DEF ServerNotices, Promote, TakeOver, Becomes
    <3> QED
      BY <1>7, <3>1, <3>2
  <2> QED
    BY <1>4, <2>1
<1>8. ASSUME NEW s \in Servers, NEW i \in 1 .. Len(scd[s]), Arrive(s, i)
      PROVE  DirOK'
  <2>1. /\ UNCHANGED <<pc, clientDir, conn, replies, typed, cmd, target, broken>>
        /\ upset \subseteq upset'
        /\ dirOf' = dirOf \/ (status[s] # "primary" /\ dirOf' = [dirOf EXCEPT ![s] = scd[s][i]])
    BY <1>8 DEF Arrive
  <2>2. conn \in Servers
    BY <1>1, <2>1 DEF PlaceOK
  <2>3. CASE s = conn /\ status[s] # "primary"
    <3>1. broken /\ "behind" \notin upset /\ "pushed" \notin upset
      BY <1>2, <2>1, <2>2, <2>3, Constants DEF LinkOK
    <3>2. scd[conn] = << >>
      BY <1>2, <2>1, <3>1 DEF Heard
    <3> QED
      BY <2>3, <3>2, EmptySeq
  <2>4. CASE ~(s = conn /\ status[s] # "primary")
    <3>1. dirOf'[conn] = dirOf[conn]
      BY <1>1, <2>1, <2>2, <2>4
    <3> QED
      BY <1>4, <2>1, <3>1
  <2> QED
    BY <2>3, <2>4
<1>9. CASE Revoke
  BY <1>4, <1>9 DEF Revoke
<1>10. CASE Start \/ SwitchServer \/ ChangeServerInfo \/ LoginFails \/ ExitCommand
  BY <1>10 DEF Start, SwitchServer, ChangeServerInfo, LoginFails, ExitCommand, Goto, ConnectTo
<1>11. CASE Login
  BY <1>11 DEF Login, DirOK
<1>12. ASSUME NEW j, NEW kind, Send(j, kind), pc = "ready",
              pc' = "wait" => typed'[j] = kind,
              UNCHANGED <<dirOf, conn, broken, clientDir, replies, upset>>
       PROVE  DirOK'
  <2>1. clientDir = dirOf[conn] /\ replies = << >>
    BY <1>3, <1>12
  <2>2. CASE pc' = pc
    BY <1>12, <2>1, <2>2 DEF DirOK
  <2>3. CASE /\ pc' = "wait" /\ cmd' = j
             /\ target' = IF kind \in Moves THEN Move(clientDir, kind) ELSE << >>
    BY <1>12, <2>1, <2>3 DEF DirOK, Arrived
  <2> QED
    BY <1>12, <2>2, <2>3 DEF Send
<1>13. ASSUME NEW kind \in Kinds, Type(kind)
       PROVE  DirOK'
  <2>1. typed'[Len(typed) + 1] = kind
    BY <1>1, <1>13, TypeOne DEF Type
  <2> QED
    BY <1>12, <1>13, <2>1 DEF Type
<1>14. CASE Repeat
  <2>1. CASE pc' = pc /\ draining' = FALSE
    BY <1>4, <1>14, <2>1 DEF Repeat, Send
  <2>2. CASE Send(Head(queue), typed[Head(queue)])
    BY <1>12, <1>14, <2>2 DEF Repeat
  <2> QED
    BY <1>4, <1>14, <2>2 DEF Repeat
<1>15. CASE TakeReply
  <2>1. /\ pc = "wait" /\ replies # << >> /\ replies' = Tail(replies)
        /\ UNCHANGED <<dirOf, conn, broken, target, typed>> /\ upset \subseteq upset'
    BY <1>15 DEF TakeReply
  <2>2. /\ \E c : replies = <<[k |-> cmd, code |-> c]>>
        /\ dirOf[conn] = IF Arrived THEN target ELSE clientDir
        /\ typed[cmd] \in Moves => target = Move(clientDir, typed[cmd])
    BY <1>3, <2>1
  <2>3. replies' = << >>
    BY <2>1, <2>2, OneElement
  <2>4. CASE /\ typed[cmd] \in Moves /\ Head(replies).code \in {"unauthorized", "error"}
             /\ UNCHANGED <<pc, cmd, clientDir>>
    BY <2>1, <2>2, <2>3, <2>4 DEF DirOK, Arrived
  <2>5. CASE /\ typed[cmd] \in Moves /\ Head(replies).code = "bad"
             /\ pc' = "ready" /\ UNCHANGED clientDir
    BY <2>1, <2>2, <2>5 DEF DirOK, Arrived
  <2>6. CASE /\ typed[cmd] \in Moves /\ Head(replies).code = "ok"
             /\ pc' = "ready" /\ clientDir' = target
    BY <2>1, <2>2, <2>6 DEF DirOK, Arrived
  <2>7. CASE typed[cmd] \notin Moves /\ pc' = "ready" /\ UNCHANGED clientDir
    BY <2>1, <2>2, <2>7 DEF DirOK, Arrived
  <2> QED
    BY <1>15, <2>4, <2>5, <2>6, <2>7 DEF TakeReply, End
<1>16. CASE CommandFails
  <2>1. /\ pc = "wait" /\ typed[cmd] = Upload /\ pc' = "ready"
        /\ UNCHANGED <<dirOf, conn, broken, upset, clientDir>>
    BY <1>16 DEF CommandFails, Failed, End, QueueOrExit
  <2>2. dirOf[conn] = clientDir
    BY <1>3, <2>1, OthersAreNoMoves DEF Arrived
  <2> QED
    BY <2>1, <2>2 DEF DirOK
<1>17. ASSUME NEW k \in Ids, TransferEnds(k)
       PROVE  DirOK'
  BY <1>4, <1>17 DEF TransferEnds
<1>18. CASE UNCHANGED vars
  BY <1>4, <1>18 DEF vars
<1> QED
  BY <1>5, <1>6, <1>7, <1>8, <1>9, <1>10, <1>11, <1>13, <1>14, <1>15, <1>16, <1>17, <1>18
     DEF Next, Client, User, Server

LEMMA DirInvNext == TypeInv /\ DirInv /\ [Next]_vars => DirInv'
  BY LinkNext, PipeNext, HeardNext, DirNext DEF DirInv

LEMMA DirInvInit == Init => DirInv
  BY DEF Init, DirInv, LinkOK, PipeOK, Heard, DirOK

\* The prompt shows the directory the server works in, for every way a connection
\* can end and be replaced (CommandHandler 190-204, 366-370; Client 42-64).
THEOREM PromptIsRight == Spec => []DirectoryAgrees
<1>1. DirInv => DirectoryAgrees
  BY DEF DirInv, DirOK, DirectoryAgrees
<1> QED
  BY <1>1, DirInvInit, DirInvNext, TypeInvInit, TypeInvNext, PTL DEF Spec

-----------------------------------------------------------------------------
(* A change of directory that is repeated leads where it would have led. *)

Calm == upset \cap {"behind", "pushed", "misled", "reentered"} = {}

\* A reply that is taken for another command's is remembered.
Misled == upset \cap {"shifted", "resent"} # {} => "misled" \in upset

\* Where a server is when the changes on their way to it have come.
Last(s) == IF scd[s] = << >> THEN dirOf[s] ELSE scd[s][Len(scd[s])]

\* The server the user's last command was for: the one before the switch until
\* the login on the next.
Serving == IF pc = "login" /\ draining THEN Other(conn) ELSE conn

\* The servers agree but for what is on its way to the one that does not serve.
Agree == Calm /\ pc # "exited" =>
  /\ "missed" \notin upset => \A s, t \in Servers : Last(s) = Last(t)
  /\ IF conn = 0 THEN \A s \in Servers : scd[s] = << >> ELSE scd[Serving] = << >>

Once(k) == Move(from[k], typed[k])

\* Directory d is where command k was typed, or where k leads if s has run it.
Where(k, d, s) == d = from[k] \/ (d = Once(k) /\ ran[k][s] > 0)

Placed == Calm =>
  /\ pc = "wait" =>
       /\ ~draining => clientDir = from[cmd]
       /\ draining /\ typed[cmd] \in Moves => Where(cmd, clientDir, Other(conn))
       /\ Arrived => ran[cmd][conn] > 0
  /\ pc = "switch" /\ cmd # 0 /\ typed[cmd] \in Moves =>
       Where(cmd, dirOf[conn], conn) /\ target = Once(cmd)
  /\ \A k \in Typed : typed[k] \in Moves /\ Has(queue, k) =>
       /\ pc = "login" => Where(k, dirOf[Other(conn)], Other(conn))
       /\ pc \in {"ready", "wait"} => Where(k, clientDir, Other(conn))

Landed == \A l \in landed :
  /\ l[1] \in Typed
  /\ Calm => \/ l[2] = Once(l[1])
             \/ /\ l[2] = Move(Once(l[1]), typed[l[1]])
                /\ \A s \in Servers : ran[l[1]][s] > 0

PlaceInv == Misled /\ Agree /\ Placed /\ Landed

\* The history only grows.
LEMMA Grows ==
  ASSUME TypeInv, [Next]_vars
  PROVE  /\ Typed \subseteq Typed' /\ upset \ {"shifted"} \subseteq upset'
         /\ \A k \in Typed : typed'[k] = typed[k] /\ from'[k] = from[k]
         /\ \A k \in Typed, s \in Servers : ran[k][s] > 0 => ran'[k][s] > 0
<1> USE DEF servers, control, link
<1>1. /\ typed \in Seq(Kinds) /\ Len(typed) <= MaxTyped /\ from \in [Ids -> Dirs]
      /\ requests \in Seq(Request) /\ late \in [Servers -> Seq(Request)]
      /\ ran \in [Ids -> [Servers -> Nat]] /\ Typed \subseteq Ids
  BY Facts DEF TypeInv, Types, KnownOK
<1>2. upset \ {"shifted"} \subseteq upset'
  BY DEF Next, Client, User, Server, ServerRuns, ServerRunsLate, ServerNotices, Crash, Promote,
         TakeOver, Becomes, Arrive, Revoke, Start, SwitchServer, Goto, ConnectTo, Login,
         LoginFails, Type, ChangeServerInfo, ExitCommand, Repeat, TakeReply, CommandFails,
         TransferEnds, vars
<1>3. /\ Typed \subseteq Typed'
      /\ \A k \in Typed : typed'[k] = typed[k] /\ from'[k] = from[k]
  <2>1. CASE UNCHANGED <<typed, from>>
    BY <2>1 DEF Typed
  <2>2. ASSUME NEW kind \in Kinds, Len(typed) + 1 \in Ids, typed' = Append(typed, kind),
               from' = from \/ \E d : from' = [from EXCEPT ![Len(typed) + 1] = d]
        PROVE  /\ Typed \subseteq Typed'
               /\ \A k \in Typed : typed'[k] = typed[k] /\ from'[k] = from[k]
    BY <1>1, <2>2, TypeOne
  <2>3. ASSUME NEW kind \in Kinds, Type(kind)
        PROVE  /\ Typed \subseteq Typed'
               /\ \A k \in Typed : typed'[k] = typed[k] /\ from'[k] = from[k]
    BY <2>2, <2>3 DEF Type
  <2>4. CASE ChangeServerInfo
    BY <2>1, <2>2, <2>4, Constants DEF ChangeServerInfo, Goto
  <2> QED
    BY <2>1, <2>3, <2>4
       DEF Next, Client, User, Server, ServerRuns, ServerRunsLate, ServerNotices, Crash, Promote,
           TakeOver, Becomes, Arrive, Revoke, Start, SwitchServer, Goto, ConnectTo, Login,
           LoginFails, ExitCommand, Repeat, TakeReply, CommandFails, TransferEnds, vars
<1>4. \A k \in Typed, s \in Servers : ran[k][s] > 0 => ran'[k][s] > 0
  <2>1. CASE ran' = ran
    BY <2>1
  <2>2. ASSUME NEW s \in Servers, NEW r \in Request, Perform(s, r)
        PROVE  \A k \in Typed, t \in Servers : ran[k][t] > 0 => ran'[k][t] > 0
    <3>1. \A k \in Typed, t \in Servers :
            ran'[k][t] = ran[k][t] \/ ran'[k][t] = ran[k][t] + 1
      BY <2>2, PerformRan
    <3>2. \A k \in Typed, t \in Servers : ran[k][t] \in Nat
      BY <1>1
    <3> QED
      BY <3>1, <3>2
  <2>3. ASSUME NEW s \in Servers, ServerRuns(s)
        PROVE  \A k \in Typed, t \in Servers : ran[k][t] > 0 => ran'[k][t] > 0
    <3>1. Head(requests) \in Request /\ (ran' = ran \/ Perform(s, Head(requests)))
      BY <1>1, <2>3, TakeOne DEF ServerRuns
    <3> QED
      BY <2>1, <2>2, <3>1
  <2>4. ASSUME NEW s \in Servers, ServerRunsLate(s)
        PROVE  \A k \in Typed, t \in Servers : ran[k][t] > 0 => ran'[k][t] > 0
    <3>1. Head(late[s]) \in Request /\ Perform(s, Head(late[s]))
      BY <1>1, <2>4, TakeOne DEF ServerRunsLate
    <3> QED
      BY <2>2, <3>1
  <2> QED
    BY <2>1, <2>3, <2>4
       DEF Next, Client, User, Server, ServerNotices, Crash, Promote,
           TakeOver, Becomes, Arrive, Revoke, Start, SwitchServer, Goto, ConnectTo, Login,
           LoginFails, Type, ChangeServerInfo, ExitCommand, Repeat, TakeReply, CommandFails,
           TransferEnds, vars
<1> QED
  BY <1>2, <1>3, <1>4

LEMMA MisledNext == TypeInv /\ Refused /\ PipeOK /\ Misled /\ [Next]_vars => Misled'
<1> SUFFICES ASSUME TypeInv, Refused, PipeOK, Misled, [Next]_vars PROVE Misled'
  OBVIOUS
<1>1. CASE CommandFails
  BY <1>1 DEF Misled, CommandFails
<1>3. CASE TakeReply
  <2>1. /\ pc = "wait" /\ replies # << >>
        /\ \/ upset' = upset
           \/ /\ upset' = upset \cup {"resent"}
              /\ typed[cmd] \in Moves /\ Head(replies).code = "error"
    BY <1>3 DEF TakeReply
  <2>2. CASE upset' = upset
    BY <2>2 DEF Misled
  <2>3. ASSUME upset' = upset \cup {"resent"}, typed[cmd] \in Moves,
               Head(replies).code = "error", "shifted" \notin upset
        PROVE  FALSE
    <3>1. PICK c : replies = <<[k |-> cmd, code |-> c]>>
      BY <2>1, <2>3 DEF PipeOK
    <3>2. Len(replies) = 1 /\ replies[1].k = cmd /\ replies[1].code = "error"
      BY <2>3, <3>1, OneElement
    <3>3. typed[cmd] = Ls
      BY <3>2 DEF Refused
    <3> QED
      BY <2>3, <3>3, OthersAreNoMoves
  <2> QED
    BY <2>1, <2>2, <2>3 DEF Misled
<1>2. CASE ~CommandFails /\ ~TakeReply
  <2>a. ASSUME Client
        PROVE  \A h \in {"shifted", "resent"} : h \in upset' => h \in upset
    BY <1>2, <2>a DEF Client, Start, SwitchServer, Goto, ConnectTo, Repeat
  <2>b. ASSUME NEW s \in Servers, Server(s) \/ Crash(s) \/ Promote(s) \/ TakeOver(s)
                                 \/ \E i \in 1 .. Len(scd[s]) : Arrive(s, i)
        PROVE  \A h \in {"shifted", "resent"} : h \in upset' => h \in upset
    <3>1. CASE Server(s)
      BY <3>1 DEF Server, ServerRuns, ServerRunsLate, ServerNotices
    <3>2. CASE Crash(s) \/ Promote(s) \/ TakeOver(s)
      BY <3>2 DEF Crash, Promote, TakeOver, Becomes
    <3>3. CASE \E i \in 1 .. Len(scd[s]) : Arrive(s, i)
      <4>1. upset' \subseteq upset \cup {"missed", "pushed"}
        BY <3>3 DEF Arrive
      <4> QED
        BY <4>1
    <3> QED
      BY <2>b, <3>1, <3>2, <3>3
  <2>c. ASSUME User \/ Revoke \/ UNCHANGED vars \/ \E k \in Ids : TransferEnds(k)
        PROVE  \A h \in {"shifted", "resent"} : h \in upset' => h \in upset
    BY <2>c DEF User, Login, LoginFails, Type, ChangeServerInfo, ExitCommand, Goto, Revoke, TransferEnds, vars
  <2>1. \A h \in {"shifted", "resent"} : h \in upset' => h \in upset
    BY <2>a, <2>b, <2>c DEF Next
  <2>2. "misled" \in upset => "misled" \in upset'
    BY <1>2
       DEF Next, Client, User, Server, ServerRuns, ServerRunsLate, ServerNotices, Crash, Promote,
         TakeOver, Becomes, Arrive, Revoke, Start, SwitchServer, Goto, ConnectTo, Login,
         LoginFails, Type, ChangeServerInfo, ExitCommand, Repeat,
         TransferEnds, vars
  <2> QED
    BY <2>1, <2>2 DEF Misled
<1> QED
  BY <1>1, <1>2, <1>3

LEMMA OneLess ==
  ASSUME NEW n \in Nat, 1 <= n
  PROVE  (IF 2 <= n THEN n - 2 + 1 ELSE 0) = n - 1 /\ 1 .. n - 2 + 1 = 1 .. n - 1
  OBVIOUS

\* A change that arrives in its turn takes the server no further than the last.
LEMMA DropFirst ==
  ASSUME NEW S, NEW q \in Seq(S), q # << >>
  PROVE  LET p == SubSeq(q, 1, 0) \o SubSeq(q, 2, Len(q))
         IN  IF p = << >> THEN q[1] = q[Len(q)] ELSE p[Len(p)] = q[Len(q)]
<1> DEFINE a == SubSeq(q, 1, 0)
           b == SubSeq(q, 2, Len(q))
           p == a \o b
<1>1. Len(q) \in Nat /\ 1 <= Len(q)
  BY LenProperties, EmptySeq
<1>2. /\ a \in Seq(S) /\ Len(a) = 0
      /\ b \in Seq(S) /\ Len(b) = Len(q) - 1
      /\ \A i \in 1 .. Len(b) : b[i] = q[i + 1]
  <2>1. a \in Seq(S) /\ Len(a) = 0
    BY <1>1, SubSeqProperties
  <2>0. \A i \in 2 .. Len(q) : q[i] \in S
    BY <1>1, ElementOfSeq
  <2>2. /\ b \in Seq(S) /\ Len(b) = Len(q) - 1
        /\ \A i \in 1 .. Len(b) : b[i] = q[2 + i - 1]
    <3>1. /\ b \in Seq(S) /\ Len(b) = IF 2 <= Len(q) THEN Len(q) - 2 + 1 ELSE 0
          /\ \A i \in 1 .. Len(q) - 2 + 1 : b[i] = q[2 + i - 1]
      BY <1>1, <2>0, SubSeqProperties
    <3> HIDE DEF a, b, p
    <3>2. Len(b) = Len(q) - 1
      BY <1>1, <3>1, OneLess
    <3>3. \A i \in 1 .. Len(b) : i \in 1 .. Len(q) - 2 + 1
      BY <1>1, <3>2, OneLess
    <3> QED
      BY <3>1, <3>2, <3>3
  <2> HIDE DEF a, b
  <2>3. \A i \in 1 .. Len(b) : 2 + i - 1 = i + 1
    BY <1>1, <2>2
  <2> QED
    BY <2>1, <2>2, <2>3
<1> HIDE DEF a, b
<1>3. /\ p \in Seq(S) /\ Len(p) = Len(q) - 1
      /\ \A i \in 1 .. Len(p) : p[i] = q[i + 1]
  BY <1>1, <1>2, ConcatProperties
<1> HIDE DEF p
<1>4. p = << >> => Len(q) = 1
  BY <1>1, <1>3, EmptySeq
<1>5. p # << >> => Len(p) \in 1 .. Len(p) /\ Len(p) + 1 = Len(q)
  BY <1>1, <1>3, EmptySeq
<1>6. IF p = << >> THEN q[1] = q[Len(q)] ELSE p[Len(p)] = q[Len(q)]
  BY <1>3, <1>4, <1>5
<1> QED
  BY <1>6 DEF a, b, p

\* What holds of a session in which nothing came between the servers.
LEMMA CalmFacts ==
  ASSUME TypeInv, OnceInv, DirInv, Misled, Calm
  PROVE  /\ {"shifted", "behind", "pushed", "reentered", "resent"} \cap upset = {} /\ Single
         /\ requests # << >> => pc \in {"wait", "switch", "exited"}
         /\ pc = "ready" => clientDir = dirOf[conn] /\ requests = << >> /\ replies = << >>
         /\ pc = "wait" =>
              /\ cmd \in Typed /\ dirOf[conn] = IF Arrived THEN target ELSE clientDir
              /\ typed[cmd] \in Moves => target = Move(clientDir, typed[cmd])
         /\ pc \in {"wait", "switch"} =>
              \/ requests = << >> /\ replies = << >>
              \/ requests = <<[k |-> cmd, to |-> target]>> /\ replies = << >>
              \/ requests = << >> /\ \E c : replies = <<[k |-> cmd, code |-> c]>>
         /\ pc \in {"ready", "wait"} => scd[conn] = << >>
         /\ pc \in {"login", "ready", "wait"} => conn \in Servers
         /\ pc = "switch" /\ cmd # 0 => conn \in Servers
<1>1. {"shifted", "behind", "pushed", "reentered", "resent"} \cap upset = {}
  BY DEF Misled, Calm
<1>2. LinkOK /\ PipeOK /\ Heard /\ DirOK /\ Single
  BY <1>1 DEF DirInv, OnceInv
<1>3. requests # << >> => pc \in {"wait", "switch", "exited"}
  BY <1>1, <1>2 DEF PipeOK, TypeInv, Types
<1>4. PlaceOK /\ (conn # 0 => conn \in Servers) /\ (cmd # 0 => cmd \in Typed)
  BY Facts DEF TypeInv
<1>5. pc = "wait" =>
        /\ cmd \in Typed /\ dirOf[conn] = IF Arrived THEN target ELSE clientDir
        /\ typed[cmd] \in Moves => target = Move(clientDir, typed[cmd])
  BY <1>1, <1>2, <1>4 DEF DirOK, PlaceOK
<1>6. pc \in {"login", "ready", "wait"} => conn \in Servers
  BY <1>4 DEF PlaceOK
<1>7. pc = "switch" /\ cmd # 0 => conn \in Servers
  BY <1>4 DEF PlaceOK
<1>8. pc = "ready" => clientDir = dirOf[conn] /\ requests = << >> /\ replies = << >>
  BY <1>1, <1>2 DEF DirOK, PipeOK
<1> QED
  BY <1>1, <1>2, <1>3, <1>5, <1>6, <1>7, <1>8 DEF PipeOK, Heard

\* The other server is chosen by the flag.
LEMMA NextServer ==
  ASSUME TypeInv, Flag, NEW s \in Servers, s = IF toPrimary THEN 2 ELSE 1
  PROVE  conn # 0 => s = Other(conn) /\ conn = Other(s)
<1>1. toPrimary \in BOOLEAN /\ conn \in {0} \cup Servers
  BY DEF TypeInv, Types
<1>2. CASE toPrimary
  BY <1>1, <1>2 DEF Flag, Servers, Other
<1>3. CASE ~toPrimary
  BY <1>1, <1>3 DEF Flag, Servers, Other
<1> QED
  BY <1>2, <1>3

LEMMA AgreeNext ==
  TypeInv /\ OnceInv /\ DirInv /\ Misled /\ Agree /\ [Next]_vars => Agree'
<1> SUFFICES ASSUME TypeInv, OnceInv, DirInv, Misled, Agree, [Next]_vars, Calm', pc' # "exited"
             PROVE  Agree'
  BY DEF Agree
<1> USE DEF servers, control, link
<1>1. Calm /\ ("missed" \in upset => "missed" \in upset')
  BY Grows DEF Calm
<1>2. /\ {"shifted", "behind", "pushed", "reentered", "resent"} \cap upset = {} /\ Flag
      /\ requests # << >> => pc \in {"wait", "switch", "exited"}
      /\ scd \in [Servers -> Seq(Existing)] /\ dirOf \in [Servers -> Existing]
      /\ PlaceOK /\ (conn # 0 => conn \in Servers)
  BY <1>1, CalmFacts, Facts DEF Single, TypeInv, Types
<1>3. pc # "exited" =>
        /\ "missed" \notin upset => \A s, t \in Servers : Last(s) = Last(t)
        /\ IF conn = 0 THEN \A s \in Servers : scd[s] = << >> ELSE scd[Serving] = << >>
  BY <1>1 DEF Agree
<1>4. ASSUME UNCHANGED <<dirOf, scd, conn>>, pc # "exited", conn # 0 => Serving' = Serving
      PROVE  Agree'
  <2>1. \A s : Last(s)' = Last(s)
    BY <1>4 DEF Last
  <2> QED
    BY <1>1, <1>3, <1>4, <2>1 DEF Agree
<1>5. ASSUME UNCHANGED <<dirOf, scd, conn, pc, draining>>
      PROVE  Agree'
  BY <1>4, <1>5 DEF Serving
<1>6. ASSUME NEW s \in Servers, ServerRuns(s)
      PROVE  Agree'
  <2> DEFINE r == Head(requests)
  <2>1. /\ conn = s /\ UNCHANGED <<conn, pc, draining, upset>> /\ requests # << >>
        /\ UNCHANGED <<dirOf, scd>> \/ Perform(s, r)
    BY <1>6 DEF ServerRuns
  <2>2. Serving = conn /\ Serving' = conn /\ scd[conn] = << >> /\ conn # 0
    BY <1>2, <1>3, <2>1, Constants DEF Serving
  <2> HIDE DEF r
  <2>3. CASE UNCHANGED <<dirOf, scd>>
    BY <1>5, <2>1, <2>3
  <2>4. CASE /\ dirOf' = [dirOf EXCEPT ![s] = r.to]
             /\ scd' = [scd EXCEPT ![Other(s)] = Append(@, r.to)] /\ r.to \in Existing
    <3>1. Other(s) \in Servers /\ Other(s) # s /\ \A t \in Servers : t = s \/ t = Other(s)
      BY DEF Other, Servers
    <3>2. scd'[s] = << >> /\ dirOf'[s] = r.to
      BY <1>2, <2>1, <2>2, <2>4, <3>1
    <3>3. scd'[Other(s)] # << >> /\ scd'[Other(s)][Len(scd'[Other(s)])] = r.to
      <4>1. scd'[Other(s)] = Append(scd[Other(s)], r.to) /\ scd[Other(s)] \in Seq(Existing)
        BY <1>2, <2>4, <3>1
      <4> DEFINE q == scd[Other(s)]
                 e == r.to
      <4>2. q \in Seq(Existing) /\ e \in Existing
        BY <2>4, <4>1
      <4> HIDE DEF q, e
      <4>3. /\ Len(q) \in Nat /\ Len(Append(q, e)) = Len(q) + 1
            /\ Append(q, e)[Len(q) + 1] = e
        BY <4>2, AppendProperties, LenProperties
      <4>4. Append(q, e) # << >>
        BY <4>2, AppendProperties
      <4>5. Append(q, e)[Len(Append(q, e))] = e
        BY <4>3
      <4> QED
        BY <4>1, <4>4, <4>5 DEF q, e
    <3>4. Last(s)' = r.to
      BY <3>2 DEF Last
    <3>5. Last(Other(s))' = r.to
      BY <3>3 DEF Last
    <3>6. \A t \in Servers : Last(t)' = r.to
      BY <3>1, <3>4, <3>5
    <3> QED
      BY <2>1, <2>2, <3>2, <3>6 DEF Agree
  <2> QED
    BY <2>1, <2>3, <2>4 DEF Perform
<1>7. ASSUME NEW s \in Servers, ServerRunsLate(s)
      PROVE  Agree'
  <2>1. UNCHANGED <<dirOf, scd, conn, pc, draining>>
    BY <1>7 DEF ServerRunsLate, Perform, Calm
  <2> QED
    BY <1>5, <2>1
<1>8. ASSUME NEW s \in Servers, ServerNotices(s) \/ Crash(s) \/ Promote(s) \/ TakeOver(s)
      PROVE  Agree'
  BY <1>5, <1>8 DEF ServerNotices, Crash, Promote, TakeOver, Becomes
<1>9. ASSUME NEW s \in Servers, NEW i \in 1 .. Len(scd[s]), Arrive(s, i)
      PROVE  Agree'
  <2>1. /\ UNCHANGED <<conn, pc, draining>>
        /\ scd' = [scd EXCEPT ![s] = SubSeq(@, 1, i - 1) \o SubSeq(@, i + 1, Len(@))]
        /\ "missed" \notin upset' => i = 1 /\ dirOf' = [dirOf EXCEPT ![s] = scd[s][i]]
    <3>1. /\ UNCHANGED <<conn, pc, draining>>
          /\ scd' = [scd EXCEPT ![s] = SubSeq(@, 1, i - 1) \o SubSeq(@, i + 1, Len(@))]
          /\ \/ /\ dirOf' = [dirOf EXCEPT ![s] = scd[s][i]]
                /\ i > 1 => "missed" \in upset'
             \/ "missed" \in upset'
      BY <1>9 DEF Arrive
    <3>2. scd[s] \in Seq(Existing)
      BY <1>2
    <3>3. i \in Nat /\ 1 <= i
      BY <3>2, LenProperties
    <3>4. ~(i > 1) => i = 1
      BY <3>3
    <3> QED
      BY <3>1, <3>4
  <2>2. \A t \in Servers : t # s => scd'[t] = scd[t]
    BY <1>2, <2>1
  <2>3. \A t \in Servers : scd[t] = << >> => scd'[t] = << >>
    BY <2>2, EmptySeq
  <2>4. ASSUME "missed" \notin upset' PROVE \A t \in Servers : Last(t)' = Last(t)
    <3>1. dirOf'[s] = scd[s][1] /\ \A t \in Servers : t # s => dirOf'[t] = dirOf[t]
      BY <1>2, <2>1, <2>4
    <3>2. scd[s] \in Seq(Existing) /\ scd[s] # << >>
      BY <1>2, EmptySeq
    <3>3. scd'[s] = SubSeq(scd[s], 1, 0) \o SubSeq(scd[s], 2, Len(scd[s]))
      BY <1>2, <2>1, <2>4
    <3>4. IF scd'[s] = << >> THEN scd[s][1] = scd[s][Len(scd[s])]
          ELSE scd'[s][Len(scd'[s])] = scd[s][Len(scd[s])]
      BY <3>2, <3>3, DropFirst
    <3>5. Last(s) = scd[s][Len(scd[s])]
      BY <3>2 DEF Last
    <3>6. Last(s)' = scd[s][Len(scd[s])]
      BY <3>1, <3>4 DEF Last
    <3>7. ASSUME NEW t \in Servers, t # s PROVE Last(t)' = Last(t)
      BY <2>2, <3>1, <3>7 DEF Last
    <3> QED
      BY <3>5, <3>6, <3>7
  <2>5. conn # 0 => Serving \in Servers /\ Serving' = Serving
    BY <1>2, <2>1, Constants DEF Serving
  <2> QED
    BY <1>1, <1>3, <2>1, <2>3, <2>4, <2>5 DEF Agree
<1>10. CASE Revoke
  BY <1>5, <1>10 DEF Revoke
<1>11. ASSUME NEW s \in Servers, ConnectTo(s), pc # "exited",
              conn = 0 \/ (pc = "switch" /\ conn = Other(s) /\ draining')
       PROVE  Agree'
  <2>1. UNCHANGED <<dirOf, scd>> /\ conn' = s /\ pc' = "login"
    BY <1>11 DEF ConnectTo
  <2>2. \A t : Last(t)' = Last(t)
    BY <2>1 DEF Last
  <2>3. s # 0 /\ Other(s) \in Servers
    BY Constants
  <2>4. Serving' = (IF draining' THEN Other(s) ELSE s)
    BY <2>1 DEF Serving
  <2>5. scd[Serving'] = << >>
    <3>1. CASE conn = 0
      BY <1>3, <1>11, <2>3, <2>4, <3>1
    <3>2. CASE pc = "switch" /\ conn = Other(s) /\ draining'
      <4>1. Serving = conn /\ conn # 0
        BY <3>2, Constants DEF Serving
      <4> QED
        BY <1>3, <1>11, <2>4, <3>2, <4>1
    <3> QED
      BY <1>11, <3>1, <3>2
  <2> QED
    BY <1>1, <1>3, <1>11, <2>1, <2>2, <2>3, <2>5 DEF Agree
<1>12. CASE Start
  <2>1. pc = "start" /\ conn = 0
    BY <1>2, <1>12 DEF Start, PlaceOK
  <2>2. CASE ConnectTo(1)
    BY <1>11, <2>1, <2>2 DEF Servers
  <2>3. CASE Goto("switch")
    BY <1>4, <2>1, <2>3 DEF Goto
  <2> QED
    BY <1>12, <2>2, <2>3 DEF Start
<1>13. CASE SwitchServer
  <2>1. ASSUME NEW s \in Servers, s = (IF toPrimary THEN 2 ELSE 1), ConnectTo(s), pc = "switch",
               draining' = TRUE
        PROVE  Agree'
    <3>1. conn # 0 => conn = Other(s)
      BY <1>2, <2>1, NextServer
    <3> QED
      BY <1>11, <2>1, <3>1
  <2> QED
    BY <1>13, <2>1 DEF SwitchServer, Goto, Servers
<1>14. CASE Login
  <2>1. ~Behind(conn) /\ pc = "login" /\ UNCHANGED <<dirOf, scd, conn>> /\ pc' = "ready"
    BY <1>14 DEF Login, Calm
  <2>2. scd[conn] = << >> /\ conn # 0
    BY <1>2, <2>1 DEF Behind, PlaceOK
  <2>3. \A t : Last(t)' = Last(t)
    BY <2>1 DEF Last
  <2> QED
    BY <1>1, <1>3, <2>1, <2>2, <2>3 DEF Agree, Serving
<1>15. CASE LoginFails
  BY <1>4, <1>15 DEF LoginFails, Goto, Serving
<1>16. ASSUME UNCHANGED <<dirOf, scd, conn>>, pc \in {"ready", "wait"},
              pc' \in {"ready", "wait", "switch"}
       PROVE  Agree'
  BY <1>4, <1>16 DEF Serving
<1>17. ASSUME NEW kind \in Kinds, Type(kind)
       PROVE  Agree'
  BY <1>16, <1>17 DEF Type, Send
<1>18. CASE ChangeServerInfo \/ ExitCommand
  BY <1>18 DEF ChangeServerInfo, ExitCommand, Goto, Calm
<1>19. CASE Repeat
  BY <1>16, <1>19 DEF Repeat, Send
<1>20. CASE TakeReply
  BY <1>16, <1>20 DEF TakeReply, End
<1>21. CASE CommandFails
  <2>1. UNCHANGED <<dirOf, scd, conn>> /\ pc = "wait" /\ pc' \in {"ready", "switch"}
    BY <1>21 DEF CommandFails, Failed, End, QueueOrExit
  <2> QED
    BY <1>16, <2>1
<1>22. ASSUME NEW k \in Ids, TransferEnds(k)
       PROVE  Agree'
  BY <1>5, <1>22 DEF TransferEnds
<1>23. CASE UNCHANGED vars
  BY <1>5, <1>23 DEF vars
<1> QED
  BY <1>6, <1>7, <1>8, <1>9, <1>10, <1>12, <1>13, <1>14, <1>15, <1>17, <1>18, <1>19, <1>20,
     <1>21, <1>22, <1>23 DEF Next, Client, User, Server

LEMMA PlacedNext ==
  TypeInv /\ OnceInv /\ DirInv /\ Misled /\ Agree /\ Placed /\ [Next]_vars => Placed'
<1> SUFFICES ASSUME TypeInv, OnceInv, DirInv, Misled, Agree, Placed, [Next]_vars, Calm'
             PROVE  Placed'
  BY DEF Placed
<1> USE DEF servers, control, link
<1>1. Calm
  BY Grows DEF Calm
<1>2. /\ {"shifted", "behind", "pushed", "reentered", "resent"} \cap upset = {} /\ Single
      /\ requests # << >> => pc \in {"wait", "switch", "exited"}
      /\ pc = "ready" => clientDir = dirOf[conn] /\ requests = << >> /\ replies = << >>
      /\ pc = "wait" =>
           /\ cmd \in Typed /\ dirOf[conn] = IF Arrived THEN target ELSE clientDir
           /\ typed[cmd] \in Moves => target = Move(clientDir, typed[cmd])
      /\ pc \in {"wait", "switch"} =>
           \/ requests = << >> /\ replies = << >>
           \/ requests = <<[k |-> cmd, to |-> target]>> /\ replies = << >>
           \/ requests = << >> /\ \E c : replies = <<[k |-> cmd, code |-> c]>>
      /\ pc \in {"ready", "wait"} => scd[conn] = << >>
      /\ pc \in {"login", "ready", "wait"} => conn \in Servers
      /\ pc = "switch" /\ cmd # 0 => conn \in Servers
  BY <1>1, CalmFacts
<1>3. /\ Typed \subseteq Typed'
      /\ \A k \in Typed : typed'[k] = typed[k] /\ from'[k] = from[k]
      /\ \A k \in Typed, s \in Servers : ran[k][s] > 0 => ran'[k][s] > 0
  BY Grows
<1>4. /\ queue \in Seq(Typed) /\ (cmd # 0 => cmd \in Typed) /\ 0 \notin Typed /\ PlaceOK
      /\ transfers \subseteq Typed
      /\ dirOf \in [Servers -> Existing] /\ scd \in [Servers -> Seq(Existing)]
      /\ requests \in Seq(Request) /\ late \in [Servers -> Seq(Request)]
      /\ typed \in Seq(Kinds) /\ Len(typed) <= MaxTyped /\ Typed \subseteq Ids
      /\ from \in [Ids -> Dirs]
  BY Facts DEF TypeInv, Types, KnownOK
<1>5. \A k \in Typed : typed[k] \in Moves =>
        /\ k \in Commands
        /\ Has(queue, k) => /\ pc \in {"switch", "exited"} \/ draining
                            /\ pc = "switch" => k = cmd
                            /\ pc = "wait" => cmd \notin Commands
  BY <1>2, OthersAreNoMoves DEF Commands, Single, Waits
<1>6. /\ pc = "wait" =>
           /\ ~draining => clientDir = from[cmd]
           /\ draining /\ typed[cmd] \in Moves => Where(cmd, clientDir, Other(conn))
           /\ Arrived => ran[cmd][conn] > 0
      /\ pc = "switch" /\ cmd # 0 /\ typed[cmd] \in Moves =>
           Where(cmd, dirOf[conn], conn) /\ target = Once(cmd)
      /\ \A k \in Typed : typed[k] \in Moves /\ Has(queue, k) =>
           /\ pc = "login" => Where(k, dirOf[Other(conn)], Other(conn))
           /\ pc \in {"ready", "wait"} => Where(k, clientDir, Other(conn))
  BY <1>1 DEF Placed
<1>7. \A k \in Typed, s \in Servers : \A d : Where(k, d, s) =>
        d = from'[k] \/ (d = Move(from'[k], typed'[k]) /\ ran'[k][s] > 0)
  BY <1>3 DEF Where, Once
<1>8. \A s \in Servers : Other(s) \in Servers /\ Other(s) # s /\ Other(Other(s)) = s
  BY Constants
<1>9. \A k \in Typed : Once(k)' = Once(k)
  BY <1>3 DEF Once
<1>a. \A k \in Typed, s \in Servers :
        (ran[k][s] > 0 => ran'[k][s] > 0) /\ typed'[k] = typed[k] /\ from'[k] = from[k]
  BY <1>3
<1>10. ASSUME UNCHANGED <<pc, draining, clientDir, cmd, target, conn, queue, replies, typed>>,
              pc = "switch" /\ cmd # 0 => dirOf'[conn] = dirOf[conn],
              pc = "login" => \A k \in Typed : typed[k] \in Moves /\ Has(queue, k) =>
                                dirOf'[Other(conn)] = dirOf[Other(conn)]
       PROVE  Placed'
  <2>1. Typed' = Typed /\ Arrived' = Arrived
    BY <1>10 DEF Typed, Arrived
  <2>2. pc = "wait" =>
           /\ ~draining => clientDir = from'[cmd]
           /\ draining /\ typed[cmd] \in Moves => Where(cmd, clientDir, Other(conn))'
           /\ Arrived => ran'[cmd][conn] > 0
    BY <1>2, <1>6, <1>7, <1>8, <1>a, <1>10 DEF Where, Once
  <2>3. pc = "switch" /\ cmd # 0 /\ typed[cmd] \in Moves =>
           Where(cmd, dirOf[conn], conn)' /\ target = Once(cmd)'
    BY <1>2, <1>4, <1>6, <1>7, <1>9, <1>10 DEF Where, Once
  <2>4. ASSUME NEW k \in Typed, typed[k] \in Moves, Has(queue, k)
        PROVE  /\ pc = "login" => Where(k, dirOf[Other(conn)], Other(conn))'
               /\ pc \in {"ready", "wait"} => Where(k, clientDir, Other(conn))'
    BY <1>2, <1>6, <1>7, <1>8, <1>10, <2>4 DEF Where, Once
  <2> QED
    BY <1>3, <1>10, <2>1, <2>2, <2>3, <2>4 DEF Placed
<1>11. ASSUME pc' \notin {"login", "ready", "wait", "switch"}
       PROVE  Placed'
  BY <1>11 DEF Placed
<1>12. ASSUME NEW s \in Servers, ServerRuns(s)
       PROVE  Placed'
  <2> DEFINE r == Head(requests)
  <2>1. /\ conn = s /\ requests # << >> /\ r \in Request
        /\ UNCHANGED <<pc, draining, clientDir, cmd, target, conn, queue, typed>>
    BY <1>4, <1>12, TakeOne DEF ServerRuns
  <2>2. CASE pc = "exited"
    BY <1>11, <2>1, <2>2
  <2>3. CASE pc # "exited"
    <3>1. /\ pc \in {"wait", "switch"} /\ replies = << >>
          /\ requests = <<[k |-> cmd, to |-> target]>>
      BY <1>2, <2>1, <2>3
    <3>2. r.k = cmd /\ r.to = target /\ cmd \in Typed
      BY <2>1, <3>1, OneElement DEF Request
    <3>3. CASE revoked /\ Reply(r, "unauthorized") /\ UNCHANGED <<dirOf, ran>>
      <4>1. Head(replies').code = "unauthorized"
        BY <3>1, <3>3, OneElement DEF Reply
      <4>2. ~Arrived'
        BY <4>1 DEF Arrived
      <4>3. pc = "wait" =>
              /\ ~draining => clientDir = from'[cmd]
              /\ draining /\ typed[cmd] \in Moves => Where(cmd, clientDir, Other(conn))'
        BY <1>2, <1>6, <1>7, <1>8, <1>a, <2>1 DEF Where, Once
      <4>4. pc = "switch" /\ cmd # 0 /\ typed[cmd] \in Moves =>
              Where(cmd, dirOf[conn], conn)' /\ target = Once(cmd)'
        BY <1>2, <1>4, <1>6, <1>7, <1>9, <2>1, <3>3 DEF Where, Once
      <4>5. ASSUME NEW k \in Typed, typed[k] \in Moves, Has(queue, k)
            PROVE  pc \in {"ready", "wait"} => Where(k, clientDir, Other(conn))'
        BY <1>2, <1>6, <1>7, <1>8, <2>1, <4>5 DEF Where, Once
      <4> QED
        BY <1>3, <2>1, <3>1, <4>2, <4>3, <4>4, <4>5 DEF Placed, Typed
    <3>4. CASE Perform(s, r)
      <4>1. typed[cmd] \in Moves => ran'[cmd][conn] > 0
        <5>1. typed[cmd] \in Moves => ran'[cmd][conn] = ran[cmd][conn] + 1
          BY <1>5, <2>1, <3>2, <3>4, PerformRan
        <5>2. ran[cmd][conn] \in Nat
          BY <1>4, <2>1, <3>2 DEF TypeInv, Types
        <5> QED
          BY <5>1, <5>2
      <4>2. pc = "wait" =>
              /\ ~draining => clientDir = from'[cmd]
              /\ draining /\ typed[cmd] \in Moves => Where(cmd, clientDir, Other(conn))'
        BY <1>2, <1>6, <1>7, <1>8, <1>a, <2>1 DEF Where, Once
      <4>3. dirOf'[conn] = dirOf[conn] \/ dirOf'[conn] = target
        BY <1>4, <2>1, <3>2, <3>4 DEF Perform
      <4>4. pc = "switch" /\ cmd # 0 /\ typed[cmd] \in Moves =>
              Where(cmd, dirOf[conn], conn)' /\ target = Once(cmd)'
        BY <1>2, <1>4, <1>6, <1>7, <1>9, <2>1, <4>1, <4>3 DEF Where, Once
      <4>5. ASSUME NEW k \in Typed, typed[k] \in Moves, Has(queue, k)
            PROVE  pc \in {"ready", "wait"} => Where(k, clientDir, Other(conn))'
        BY <1>2, <1>6, <1>7, <1>8, <2>1, <4>5 DEF Where, Once
      <4>6. Arrived' => ran'[cmd][conn] > 0
        BY <2>1, <4>1 DEF Arrived
      <4> QED
        BY <1>3, <2>1, <3>1, <4>2, <4>4, <4>5, <4>6 DEF Placed, Typed
    <3> QED
      BY <1>12, <3>3, <3>4 DEF ServerRuns
  <2> QED
    BY <2>2, <2>3
<1>13. ASSUME NEW s \in Servers, ServerRunsLate(s)
       PROVE  Placed'
  <2>1. UNCHANGED dirOf
    BY <1>13 DEF ServerRunsLate, Perform, Calm
  <2> QED
    BY <1>10, <1>13, <2>1 DEF ServerRunsLate
<1>14. ASSUME NEW s \in Servers, ServerNotices(s) \/ Crash(s) \/ Promote(s) \/ TakeOver(s)
       PROVE  Placed'
  BY <1>10, <1>14 DEF ServerNotices, Crash, Promote, TakeOver, Becomes
<1>15. ASSUME NEW s \in Servers, NEW i \in 1 .. Len(scd[s]), Arrive(s, i)
       PROVE  Placed'
  <2>1. /\ UNCHANGED <<pc, draining, clientDir, cmd, target, conn, queue, replies, typed>>
        /\ \/ dirOf' = dirOf
           \/ dirOf' = [dirOf EXCEPT ![s] = scd[s][i]] /\ status[s] # "primary"
    BY <1>15 DEF Arrive, Calm
  <2>2. scd[s] # << >>
    BY EmptySeq
  <2>3. pc = "switch" /\ cmd # 0 => dirOf'[conn] = dirOf[conn]
    <3> SUFFICES ASSUME pc = "switch", cmd # 0 PROVE dirOf'[conn] = dirOf[conn]
      OBVIOUS
    <3>1. conn \in Servers /\ conn # 0
      BY <1>2, Constants
    <3>2. scd[conn] = << >>
      BY <1>1, <3>1 DEF Agree, Serving
    <3> QED
      BY <1>4, <2>1, <2>2, <3>1, <3>2
  <2>4. pc = "login" => \A k \in Typed : typed[k] \in Moves /\ Has(queue, k) =>
                          dirOf'[Other(conn)] = dirOf[Other(conn)]
    <3> SUFFICES ASSUME pc = "login", NEW k \in Typed, typed[k] \in Moves, Has(queue, k)
                 PROVE  dirOf'[Other(conn)] = dirOf[Other(conn)]
      OBVIOUS
    <3>1. conn \in Servers /\ conn # 0 /\ draining /\ Other(conn) \in Servers
      BY <1>2, <1>5, Constants
    <3>2. scd[Other(conn)] = << >>
      BY <1>1, <3>1 DEF Agree, Serving
    <3> QED
      BY <1>4, <2>1, <2>2, <3>1, <3>2
  <2> QED
    BY <1>10, <2>1, <2>3, <2>4
<1>16. CASE Revoke
  BY <1>10, <1>16 DEF Revoke
<1>17. CASE Start \/ LoginFails
  <2>1. /\ cmd' = 0 /\ typed' = typed /\ queue' = queue
        /\ \/ pc' \in {"switch", "exited"}
           \/ pc' = "login" /\ typed = << >>
    BY <1>4, <1>17 DEF Start, LoginFails, Goto, ConnectTo, PlaceOK
  <2>2. CASE pc' \in {"switch", "exited"}
    BY <2>1, <2>2 DEF Placed
  <2>3. CASE pc' = "login" /\ typed = << >>
    <3>1. Typed' = {}
      BY <2>1, <2>3, EmptySeq DEF Typed
    <3> QED
      BY <2>3, <3>1 DEF Placed
  <2> QED
    BY <2>1, <2>2, <2>3
<1>18. CASE SwitchServer
  <2>1. ASSUME NEW s \in Servers, s = (IF toPrimary THEN 2 ELSE 1), ConnectTo(s), pc = "switch",
               typed' = typed
        PROVE  Placed'
    <3>1. conn' = s /\ pc' = "login" /\ queue' = queue /\ dirOf' = dirOf
      BY <2>1 DEF ConnectTo
    <3>2. conn # 0 => conn = Other(s)
      BY <1>2, <2>1, NextServer DEF Single
    <3>3. ASSUME NEW k \in Typed, typed[k] \in Moves, Has(queue, k)
          PROVE  Where(k, dirOf[Other(conn)], Other(conn))'
      <4>1. k = cmd /\ cmd # 0
        BY <1>4, <1>5, <2>1, <3>3
      <4>2. conn \in Servers /\ conn = Other(s)
        BY <1>2, <2>1, <3>2, <4>1, Constants
      <4>3. Where(k, dirOf[conn], conn)
        BY <1>6, <2>1, <3>3, <4>1
      <4> QED
        BY <1>7, <3>1, <4>2, <4>3 DEF Where, Once
    <3> QED
      BY <2>1, <3>1, <3>3 DEF Placed, Typed
  <2> QED
    BY <1>11, <1>18, <2>1 DEF SwitchServer, Goto, Servers
<1>19. CASE Login
  <2>1. /\ ~Behind(conn) /\ pc = "login" /\ clientDir' = dirOf[conn] /\ pc' = "ready"
        /\ UNCHANGED <<dirOf, scd, conn, typed, queue>>
    BY <1>19 DEF Login, Calm
  <2>2. ASSUME NEW k \in Typed, typed[k] \in Moves, Has(queue, k)
        PROVE  Where(k, clientDir, Other(conn))'
    <3>1. conn \in Servers /\ conn # 0 /\ draining /\ Other(conn) \in Servers
      BY <1>2, <1>5, <2>1, <2>2, Constants
    <3>2. scd[Other(conn)] = << >> /\ scd[conn] = << >> /\ "missed" \notin upset
      BY <1>1, <2>1, <3>1 DEF Agree, Serving, Behind
    <3>3. Last(Other(conn)) = Last(conn)
      BY <1>1, <2>1, <3>1, <3>2 DEF Agree
    <3>4. dirOf[Other(conn)] = dirOf[conn]
      BY <3>2, <3>3 DEF Last
    <3>5. Where(k, dirOf[conn], Other(conn))
      BY <1>6, <2>1, <2>2, <3>4
    <3> QED
      BY <1>7, <2>1, <3>1, <3>5 DEF Where, Once
  <2> QED
    BY <2>1, <2>2 DEF Placed, Typed
<1>20. ASSUME NEW kind \in Kinds, Type(kind)
       PROVE  Placed'
  <2> DEFINE j == Len(typed) + 1
  <2>1. /\ pc = "ready" /\ ~draining /\ j \in Ids /\ typed' = Append(typed, kind)
        /\ from' = [from EXCEPT ![j] = clientDir]
        /\ UNCHANGED <<draining, queue, clientDir, replies>>
        /\ \/ pc' = "wait" /\ cmd' = j
           \/ pc' = pc
    BY <1>20 DEF Type, Send
  <2>2. Typed' = Typed \cup {j} /\ j \notin Typed /\ from'[j] = clientDir
    BY <1>4, <2>1, TypeOne
  <2> HIDE DEF j
  <2>3. \A k \in Typed' : typed'[k] \in Moves => ~Has(queue, k)
    BY <1>3, <1>4, <1>5, <2>1, <2>2, HasTyped
  <2>4. ~Arrived'
    BY <1>2, <2>1 DEF Arrived
  <2> QED
    BY <2>1, <2>2, <2>3, <2>4 DEF Placed
<1>21. CASE ChangeServerInfo \/ ExitCommand
  BY <1>11, <1>21 DEF ChangeServerInfo, ExitCommand, Goto, Calm
<1>22. CASE Repeat
  <2> DEFINE j == Head(queue)
  <2>1. /\ pc = "ready" /\ draining /\ conn \in Servers
        /\ UNCHANGED <<typed, conn, clientDir, replies, dirOf>>
    BY <1>2, <1>22 DEF Repeat
  <2>2. CASE queue = << >> /\ UNCHANGED <<queue, pc>>
    BY <2>1, <2>2, InEmpty DEF Placed
  <2>3. CASE /\ queue # << >> /\ queue' = Tail(queue) /\ draining' = draining
             /\ (pc' = "wait" /\ cmd' = j) \/ pc' = pc
    <3>1. j \in Typed /\ Has(queue, j) /\ \A k : Has(queue', k) => Has(queue, k)
      BY <1>4, <2>3, TakeOne, HasTail
    <3> HIDE DEF j
    <3>2. ~Arrived'
      BY <1>2, <2>1 DEF Arrived
    <3>3. ASSUME NEW k \in Typed, typed[k] \in Moves, Has(queue, k)
          PROVE  Where(k, clientDir, Other(conn))'
      BY <1>6, <1>7, <1>8, <2>1, <3>3 DEF Where, Once
    <3>4. pc' = "wait" /\ typed[cmd'] \in Moves => Where(cmd, clientDir, Other(conn))'
      BY <2>1, <2>3, <3>1, <3>3 DEF Where, Once
    <3> QED
      BY <1>3, <2>1, <2>3, <3>1, <3>2, <3>3, <3>4 DEF Placed, Typed
  <2> QED
    BY <1>22, <2>2, <2>3 DEF Repeat, Send
<1>23. CASE TakeReply
  <2>1. /\ pc = "wait" /\ replies # << >> /\ replies' = Tail(replies)
        /\ UNCHANGED <<typed, conn, draining, queue, target, dirOf>>
        /\ \/ UNCHANGED <<pc, cmd, clientDir>>
           \/ typed[cmd] \in Moves /\ pc' = "ready"
           \/ pc' = "ready" /\ clientDir' = clientDir
    BY <1>23 DEF TakeReply, End
  <2>2. replies' = << >>
    BY <1>2, <2>1, OneElement
  <2>3. ~Arrived' /\ Typed' = Typed /\ conn \in Servers
    BY <1>2, <2>1, <2>2 DEF Arrived, Typed
  <2>4. ASSUME NEW k \in Typed, typed[k] \in Moves, Has(queue, k), clientDir' = clientDir
        PROVE  Where(k, clientDir, Other(conn))'
    BY <1>6, <1>7, <1>8, <2>1, <2>3, <2>4 DEF Where, Once
  <2>5. CASE UNCHANGED <<pc, cmd, clientDir>>
    <3>1. /\ ~draining => clientDir = from'[cmd]
          /\ draining /\ typed[cmd] \in Moves => Where(cmd, clientDir, Other(conn))'
      BY <1>2, <1>6, <1>7, <1>8, <1>a, <2>1, <2>5 DEF Where, Once
    <3> QED
      BY <2>1, <2>3, <2>4, <2>5, <3>1 DEF Placed
  <2>6. CASE typed[cmd] \in Moves /\ pc' = "ready"
    <3>1. \A k \in Typed : typed[k] \in Moves => ~Has(queue, k)
      BY <1>2, <1>5, <2>1, <2>6
    <3> QED
      BY <2>1, <2>3, <2>6, <3>1 DEF Placed
  <2>7. CASE pc' = "ready" /\ clientDir' = clientDir
    BY <2>1, <2>3, <2>4, <2>7 DEF Placed
  <2> QED
    BY <2>1, <2>5, <2>6, <2>7
<1>24. CASE CommandFails
  <2>1. /\ pc = "wait" /\ UNCHANGED <<typed, conn, draining, target, clientDir, dirOf>>
        /\ \/ pc' = "ready" /\ queue' = queue
           \/ pc' = "exited"
           \/ pc' = "switch" /\ ~draining /\ cmd' = cmd
    BY <1>24 DEF CommandFails, Failed, End, QueueOrExit
  <2>2. Typed' = Typed /\ conn \in Servers /\ cmd \in Typed
    BY <1>2, <2>1 DEF Typed
  <2>3. CASE pc' = "ready" /\ queue' = queue
    <3>1. ASSUME NEW k \in Typed, typed[k] \in Moves, Has(queue, k)
          PROVE  Where(k, clientDir, Other(conn))'
      BY <1>6, <1>7, <1>8, <2>1, <2>2, <3>1 DEF Where, Once
    <3> QED
      BY <2>1, <2>2, <2>3, <3>1 DEF Placed
  <2>4. CASE pc' = "switch" /\ ~draining /\ cmd' = cmd
    <3> SUFFICES ASSUME typed[cmd] \in Moves
                 PROVE  Where(cmd, dirOf[conn], conn)' /\ target' = Once(cmd)'
      BY <2>1, <2>4 DEF Placed
    <3>1. clientDir = from[cmd] /\ target = Move(clientDir, typed[cmd])
      BY <1>2, <1>6, <2>1, <2>4
    <3>2. Where(cmd, dirOf[conn], conn)
      BY <1>2, <1>6, <2>1, <3>1 DEF Where, Once
    <3> QED
      BY <1>7, <1>a, <2>1, <2>2, <2>4, <3>1, <3>2 DEF Where, Once
  <2> QED
    BY <1>11, <2>1, <2>3, <2>4
<1>25. ASSUME NEW j \in Ids, TransferEnds(j)
       PROVE  Placed'
  <2>1. /\ j \in transfers /\ queue' \in {queue, Append(queue, j)}
        /\ UNCHANGED <<pc, draining, clientDir, cmd, target, conn, replies, typed, dirOf>>
    BY <1>25 DEF TransferEnds
  <2>2. j \in Typed /\ j \notin Commands
    BY <1>4, <2>1 DEF OnceInv, Refused
  <2>3. \A k \in Typed : typed[k] \in Moves /\ Has(queue', k) => Has(queue, k)
    <3>1. \A k : Has(Append(queue, j), k) <=> Has(queue, k) \/ j = k
      BY <1>4, <2>2, HasAppend
    <3> QED
      BY <1>5, <2>1, <2>2, <3>1
  <2>4. Typed' = Typed /\ Arrived' = Arrived
    BY <2>1 DEF Typed, Arrived
  <2>5. pc = "wait" =>
           /\ ~draining => clientDir = from'[cmd]
           /\ draining /\ typed[cmd] \in Moves => Where(cmd, clientDir, Other(conn))'
           /\ Arrived => ran'[cmd][conn] > 0
    BY <1>2, <1>6, <1>7, <1>8, <1>a, <2>1 DEF Where, Once
  <2>6. pc = "switch" /\ cmd # 0 /\ typed[cmd] \in Moves =>
           Where(cmd, dirOf[conn], conn)' /\ target = Once(cmd)'
    BY <1>2, <1>4, <1>6, <1>7, <1>9, <2>1 DEF Where, Once
  <2>7. ASSUME NEW k \in Typed, typed[k] \in Moves, Has(queue, k)
        PROVE  /\ pc = "login" => Where(k, dirOf[Other(conn)], Other(conn))'
               /\ pc \in {"ready", "wait"} => Where(k, clientDir, Other(conn))'
    BY <1>2, <1>6, <1>7, <1>8, <2>1, <2>7 DEF Where, Once
  <2> QED
    BY <2>1, <2>3, <2>4, <2>5, <2>6, <2>7 DEF Placed
<1>26. CASE UNCHANGED vars
  BY <1>10, <1>26 DEF vars
<1> QED
  BY <1>12, <1>13, <1>14, <1>15, <1>16, <1>17, <1>18, <1>19, <1>20, <1>21, <1>22, <1>23, <1>24,
     <1>25, <1>26 DEF Next, Client, User, Server

LEMMA LandedNext ==
  TypeInv /\ OnceInv /\ DirInv /\ Misled /\ Placed /\ Landed /\ [Next]_vars => Landed'
<1> SUFFICES ASSUME TypeInv, OnceInv, DirInv, Misled, Placed, Landed, [Next]_vars,
                    NEW l \in landed'
             PROVE  /\ l[1] \in Typed'
                    /\ Calm' => \/ l[2] = Once(l[1])'
                                \/ /\ l[2] = Move(Once(l[1])', typed'[l[1]])
                                   /\ \A s \in Servers : ran'[l[1]][s] > 0
  BY DEF Landed
<1> USE DEF servers, control, link
<1>1. Calm' => Calm
  BY Grows DEF Calm
<1>2. /\ Typed \subseteq Typed'
      /\ \A k \in Typed : typed'[k] = typed[k] /\ from'[k] = from[k]
      /\ \A k \in Typed, s \in Servers : ran[k][s] > 0 => ran'[k][s] > 0
      /\ \A k \in Typed : Once(k)' = Once(k)
  BY Grows DEF Once
<1>3. CASE l \in landed
  BY <1>1, <1>2, <1>3 DEF Landed
<1>4. CASE l \notin landed
  <2>1. TakeReply
    BY <1>4
       DEF Next, Client, User, Server, ServerRuns, ServerRunsLate, ServerNotices, Crash, Promote,
           TakeOver, Becomes, Arrive, Revoke, Start, SwitchServer, Goto, ConnectTo, Login,
           LoginFails, Type, ChangeServerInfo, ExitCommand, Repeat, CommandFails,
           TransferEnds, vars
  <2>2. /\ pc = "wait" /\ l = <<cmd, target>> /\ Arrived
    BY <1>4, <2>1 DEF TakeReply, Arrived
  <2>3. cmd \in Typed /\ (conn # 0 => conn \in Servers) /\ conn # 0
    BY <2>2, Facts DEF TypeInv, PlaceOK
  <2>4. ASSUME Calm
        PROVE  \/ target = Once(cmd)
               \/ target = Move(Once(cmd), typed[cmd]) /\ \A s \in Servers : ran[cmd][s] > 0
    <3>1. target = Move(clientDir, typed[cmd])
      BY <2>2, <2>4, CalmFacts DEF Arrived
    <3>2. ran[cmd][conn] > 0 /\ (~draining => clientDir = from[cmd])
          /\ (draining => Where(cmd, clientDir, Other(conn)))
      BY <2>2, <2>4 DEF Placed, Arrived
    <3>3. \A s \in Servers : s = conn \/ s = Other(conn)
      BY <2>3 DEF Servers, Other
    <3> QED
      BY <3>1, <3>2, <3>3 DEF Where, Once
  <2> QED
    BY <1>1, <1>2, <2>2, <2>3, <2>4
<1> QED
  BY <1>3, <1>4

\* A relative change of directory that is repeated on the other server ends where
\* it would have, or both servers ran it (CommandHandler 194-210; Client 60-71).
THEOREM RepeatedWhereItWas == Spec => []RepeatedInPlace
<1>1. Init => PlaceInv
  <2> SUFFICES ASSUME Init PROVE PlaceInv
    OBVIOUS
  <2>1. /\ Typed = {} /\ landed = {} /\ upset = {} /\ pc = "start" /\ conn = 0
        /\ \A s \in Servers : scd[s] = << >> /\ dirOf[s] = << >>
    BY EmptySeq DEF Init, Typed
  <2>2. \A s \in Servers : Last(s) = << >>
    BY <2>1 DEF Last
  <2> QED
    BY <2>1, <2>2 DEF PlaceInv, Misled, Agree, Placed, Landed
<1>2. TypeInv /\ OnceInv /\ DirInv /\ PlaceInv /\ [Next]_vars => PlaceInv'
  BY MisledNext, AgreeNext, PlacedNext, LandedNext DEF PlaceInv, OnceInv, DirInv
<1>3. PlaceInv => RepeatedInPlace
  BY DEF PlaceInv, Landed, RepeatedInPlace, Calm, Once
<1> QED
  BY <1>1, <1>2, <1>3, DirInvInit, DirInvNext, OnceInvInit, OnceInvNext, TypeInvInit,
     TypeInvNext, PTL DEF Spec

==============================================================================
