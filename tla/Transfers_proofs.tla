--------------------------- MODULE Transfers_proofs ---------------------------
(***************************************************************************)
(* Proofs about Transfers: its types and limits, and the order of each     *)
(* transfer; then its files, what an upload leaves, what a download reads  *)
(* and what the secondary has in the end.  For any sessions, directories,  *)
(* sizes, queues and pool.                                                 *)
(***************************************************************************)
EXTENDS Transfers, FiniteSetTheorems, SequenceTheorems, TLAPS

\* Where a task is: what waits in a queue or in the pool has not been run by the
\* pool, what waits in a queue has not been started either, and nothing waits
\* twice.
Kind(q) == IF q = "send" THEN "download" ELSE "upload"
In(s, x) == \E i \in 1 .. Len(s) : s[i] = x
Distinct(s) == \A i, j \in 1 .. Len(s) : s[i] = s[j] => i = j
InQueue(q, k) == In(queue[q], k)
Pooled(q, k) == In(pool, <<q, k>>)

TasksOK ==
  /\ \A q \in Queues, k \in Ids :
       InQueue(q, k) \/ Pooled(q, k) => k \in Begun /\ kind[k] = Kind(q)
  /\ \A q \in {"rcv", "send"}, k \in Ids :
       /\ InQueue(q, k) => run["own"][k] = "none" /\ client[k] # "asking"
       /\ Pooled(q, k) => run["own"][k] # "none"
       /\ InQueue(q, k) \/ Pooled(q, k) => run["pool"][k] = "none"
  /\ \A k \in Ids :
       /\ InQueue("udp", k) \/ Pooled("udp", k) => copier[k] = "queued"
       /\ ~(InQueue("udp", k) /\ Pooled("udp", k))
  /\ Distinct(pool) /\ \A q \in Queues : Distinct(queue[q])

\* A client is held by exactly one run, which serves it, and nothing has moved
\* before.
TransferOK(k) ==
  /\ client[k] = "none" <=> k \notin Begun
  /\ client[k] \in {"none", "asking"} => run["own"][k] = "none" /\ run["pool"][k] = "none"
  /\ client[k] = "asking" => kind[k] = "download"
  /\ client[k] \in {"none", "asking", "calling", "connected", "left"} =>
       at[k] = 0 /\ got[k] = << >>
  /\ Serving(k) <=> client[k] = "held"
  /\ ~(run["own"][k] = "serving" /\ run["pool"][k] = "serving")

\* A file that is used exists.
FilesExist ==
  /\ \A s \in Sessions : session[s] = "port" => asked[s] \in Downloads
  /\ \A k \in Downloads : disk[path[k]] # Missing
  /\ \A k \in Uploads : client[k] = "held" => disk[path[k]] # Missing
  /\ \A d \in Dirs : latest[d] # 0 =>
       /\ latest[d] \in Uploads /\ path[latest[d]] = d
       /\ client[latest[d]] \in {"held", "ok", "unserved", "gone"}
       /\ disk[d] # Missing

\* Copies are of uploads that ended well.
CopyOrder(k) ==
  /\ copier[k] # "none" => k \in Uploads /\ client[k] = "ok"
  /\ copier[k] \in {"none", "queued"} => k \notin opened
  /\ copier[k] \in {"none", "queued", "announcing"} => sent[k] = << >>
  /\ copier[k] = "sending" => disk[copyPath[k]] # Missing
  /\ k \in opened => remote[copyPath[k]] # Missing
  /\ k \notin opened => written[k] = 0
  /\ written[k] <= Len(sent[k]) /\ Len(sent[k]) <= Sizes[k]

ControlOK ==
  /\ TasksOK /\ FilesExist
  /\ \A k \in Ids : TransferOK(k) /\ CopyOrder(k)

\* As much of the upload k as n pieces.
Part(k, n) == [i \in 1 .. n |-> k]

-----------------------------------------------------------------------------
(* Sequences. *)

LEMMA InAppend ==
  ASSUME NEW S, NEW s \in Seq(S), NEW x \in S
  PROVE  /\ Append(s, x) \in Seq(S)
         /\ \A y : In(Append(s, x), y) <=> In(s, y) \/ y = x
         /\ Distinct(s) /\ ~In(s, x) => Distinct(Append(s, x))
  BY AppendProperties, LenProperties DEF In, Distinct

LEMMA InTail ==
  ASSUME NEW S, NEW s \in Seq(S), s # << >>
  PROVE  /\ Tail(s) \in Seq(S) /\ Head(s) \in S /\ In(s, Head(s))
         /\ Len(Tail(s)) = Len(s) - 1 /\ Len(s) \in Nat \ {0}
         /\ \A y : In(Tail(s), y) => In(s, y)
         /\ Distinct(s) => Distinct(Tail(s)) /\ ~In(Tail(s), Head(s))
<1>1. Len(s) \in Nat \ {0}
  BY EmptySeq, LenProperties
<1>2. /\ Tail(s) \in Seq(S) /\ Len(Tail(s)) = Len(s) - 1
      /\ \A i \in 1 .. Len(Tail(s)) : Tail(s)[i] = s[i + 1]
  BY <1>1, HeadTailProperties
<1>3. Head(s) = s[1] /\ 1 \in 1 .. Len(s)
  BY <1>1
<1>4. Head(s) \in S
  BY <1>3, ElementOfSeq
<1>5. \A i \in 1 .. Len(Tail(s)) : i + 1 \in 1 .. Len(s) /\ i + 1 # 1
  BY <1>1, <1>2
<1>6. \A y : In(Tail(s), y) => In(s, y)
  BY <1>2, <1>5 DEF In
<1>7. Distinct(s) => Distinct(Tail(s)) /\ ~In(Tail(s), Head(s))
  BY <1>1, <1>2, <1>3, <1>5 DEF In, Distinct
<1> QED
  BY <1>1, <1>2, <1>3, <1>4, <1>6, <1>7 DEF In

LEMMA FunctionSeq ==
  ASSUME NEW S, NEW n \in Nat, NEW f \in [1 .. n -> S]
  PROVE  f \in Seq(S)
  BY SeqDef

LEMMA PartProperties ==
  ASSUME NEW k \in 0 .. Hole, NEW n \in Nat
  PROVE  /\ Part(k, n) \in Contents /\ Len(Part(k, n)) = n
         /\ \A i \in 1 .. n : Part(k, n)[i] = k
  BY DEF Part, Contents

LEMMA PutProperties ==
  ASSUME NEW c \in Contents, NEW i \in Nat \ {0}, NEW k \in 0 .. Hole
  PROVE  Put(c, i, k) \in Contents
<1>1. Len(c) \in Nat /\ \A j \in 1 .. Len(c) : c[j] \in 0 .. Hole
  BY LenProperties, ElementOfSeq DEF Contents
<1>2. Hole \in 0 .. Hole
  BY TransfersAssumption DEF Hole
<1> DEFINE n == IF i > Len(c) THEN i ELSE Len(c)
<1>3. n \in Nat
  BY <1>1
<1>4. Put(c, i, k) \in [1 .. n -> 0 .. Hole]
  BY <1>1, <1>2 DEF Put
<1> QED
  BY <1>3, <1>4, FunctionSeq DEF Contents

\* The next piece makes the part of an upload one piece longer.
LEMMA PutPart ==
  ASSUME NEW k \in 0 .. Hole, NEW n \in Nat
  PROVE  Put(Part(k, n), n + 1, k) = Part(k, n + 1)
<1>1. Len(Part(k, n)) = n /\ \A i \in 1 .. n : Part(k, n)[i] = k
  BY PartProperties
<1> QED
  BY <1>1 DEF Put, Part

LEMMA Constants ==
  /\ MaxTransfers \in Nat /\ Hole \in Nat /\ 0 \in 0 .. Hole
  /\ \A k \in Ids : k \in Nat /\ k # 0 /\ k \in 0 .. Hole /\ k \in 0 .. MaxTransfers
  /\ \A k \in 0 .. MaxTransfers : Sizes[k] \in Nat /\ k \in 0 .. Hole
  /\ Missing \notin Contents
  BY TransfersAssumption DEF Ids, Hole, Contents

-----------------------------------------------------------------------------
(* Types. *)

TypeInv == Types /\ ControlOK

LEMMA BegunProperties ==
  ASSUME Types
  PROVE  /\ Len(kind) \in Nat /\ Begun \subseteq Ids
         /\ \A k \in Begun : kind[k] \in {"upload", "download"}
         /\ \A k \in Ids : k \notin Begun => k > Len(kind)
         /\ Uploads \subseteq Begun /\ Downloads \subseteq Begun
         /\ Uploads \cap Downloads = {} /\ Begun = Uploads \cup Downloads
<1>1. Len(kind) \in Nat /\ Len(kind) <= MaxTransfers
  BY LenProperties DEF Types
<1>2. \A k \in Begun : kind[k] \in {"upload", "download"}
  BY ElementOfSeq DEF Types, Begun
<1> QED
  BY <1>1, <1>2, Constants DEF Begun, Ids, Uploads, Downloads

\* A transfer that is asked for takes the next place.
LEMMA AskFor ==
  ASSUME Types, NEW what \in {"upload", "download"}, NEW n, n = Len(kind) + 1, n \in Ids,
         kind' = Append(kind, what)
  PROVE  /\ kind' \in Seq({"upload", "download"}) /\ Len(kind') <= MaxTransfers
         /\ n \notin Begun /\ Begun' = Begun \cup {n} /\ kind'[n] = what
         /\ \A k \in Begun : kind'[k] = kind[k]
         /\ Uploads' = Uploads \cup (IF what = "upload" THEN {n} ELSE {})
         /\ Downloads' = Downloads \cup (IF what = "download" THEN {n} ELSE {})
<1>1. Len(kind) \in Nat
  BY BegunProperties
<1>2. /\ kind' \in Seq({"upload", "download"}) /\ Len(kind') = n /\ kind'[n] = what
      /\ \A k \in 1 .. Len(kind) : kind'[k] = kind[k]
  BY AppendProperties DEF Types
<1>3. n \notin Begun /\ Begun' = Begun \cup {n}
  BY <1>1, <1>2 DEF Begun
<1> QED
  BY <1>2, <1>3, Constants DEF Begun, Uploads, Downloads, Ids

LEMMA WholeContents ==
  ASSUME NEW k \in 0 .. MaxTransfers
  PROVE  Whole(k) \in Contents /\ Len(Whole(k)) = Sizes[k] /\ Whole(k) = Part(k, Sizes[k])
  BY Constants, PartProperties DEF Whole, Part

LEMMA InitType == Init => TypeInv
<1> SUFFICES ASSUME Init PROVE TypeInv
  OBVIOUS
<1>1. /\ << >> \in Contents /\ Len(<< >>) = 0 /\ << >> \in Seq({"upload", "download"})
      /\ << >> \in Seq(Ids) /\ << >> \in Seq(Queues \X Ids)
  BY EmptySeq DEF Contents
<1>2. Home \in Dirs /\ QueueSize \in Nat /\ MaxTransfers \in Nat
  BY TransfersAssumption
<1>3. disk \in [Dirs -> Contents \cup {Missing}]
  BY <1>2, WholeContents DEF Init
<1>4. Types
  BY <1>1, <1>2, <1>3
     DEF Init, Types, ClientPlaces, RunPlaces, Reasons
<1>5. Begun = {} /\ Uploads = {} /\ Downloads = {}
  BY <1>1 DEF Init, Begun, Uploads, Downloads
<1>6. \A q \in Queues, k \in Ids : ~InQueue(q, k) /\ ~Pooled(q, k)
  BY <1>1 DEF Init, InQueue, Pooled, In
<1>7. TasksOK
  BY <1>1, <1>6 DEF TasksOK, Queues, Distinct, Init
<1>8. FilesExist
  BY <1>5 DEF FilesExist, Init
<1>9. \A k \in Ids : TransferOK(k)
  BY <1>5 DEF TransferOK, Init, Serving, Runs
<1>10. \A k \in Ids : CopyOrder(k)
  BY <1>1, Constants DEF CopyOrder, Init
<1> QED
  BY <1>4, <1>7, <1>8, <1>9, <1>10 DEF TypeInv, ControlOK

\* Types are kept.
LEMMA Piece ==
  ASSUME NEW c \in Contents, NEW n \in Nat, n + 1 <= Len(c)
  PROVE  c[n + 1] \in 0 .. Hole
<1>1. n + 1 \in 1 .. Len(c) /\ c \in Seq(0 .. Hole)
  BY LenProperties DEF Contents
<1> QED
  BY <1>1, ElementOfSeq

LEMMA AppendPiece ==
  ASSUME NEW c \in Contents, NEW p \in 0 .. Hole
  PROVE  Append(c, p) \in Contents /\ Len(Append(c, p)) = Len(c) + 1 /\ Len(c) \in Nat
  BY AppendProperties, LenProperties DEF Contents

LEMMA Added ==
  ASSUME Types, NEW q \in Queues, NEW k \in Ids, NEW s \in Sessions, AddOrDie(q, k, s)
  PROVE  /\ session' \in [Sessions -> {"ready", "port", "dead"}]
         /\ queue' \in [Queues -> Seq(Ids)]
         /\ \A p \in Queues : Len(queue'[p]) <= QueueSize
         /\ run' \in [Runs -> [Ids -> RunPlaces]]
<1>1. QueueSize \in Nat /\ Len(queue[q]) \in Nat /\ queue[q] \in Seq(Ids)
  BY TransfersAssumption, LenProperties DEF Types
<1>2. Append(queue[q], k) \in Seq(Ids) /\ Len(Append(queue[q], k)) = Len(queue[q]) + 1
  BY <1>1, AppendProperties
<1>3. session' \in [Sessions -> {"ready", "port", "dead"}]
  BY DEF AddOrDie, Types
<1>4. CASE Len(queue[q]) < QueueSize
  <2>1. run' = run /\ queue' = [queue EXCEPT ![q] = Append(@, k)]
    BY <1>4 DEF AddOrDie
  <2>2. queue' \in [Queues -> Seq(Ids)]
    BY <1>2, <2>1 DEF Types
  <2>3. \A p \in Queues : Len(queue'[p]) <= QueueSize
    BY <1>1, <1>2, <1>4, <2>1 DEF Types
  <2> QED
    BY <1>3, <2>1, <2>2, <2>3 DEF Types
<1>5. CASE ~(Len(queue[q]) < QueueSize)
  <2>1. run' = [run EXCEPT !["own"][k] = "refused"] /\ queue' = queue
    BY <1>5 DEF AddOrDie
  <2>2. run' \in [Runs -> [Ids -> RunPlaces]]
    BY <2>1 DEF Types, RunPlaces, Runs
  <2> QED
    BY <1>3, <2>1, <2>2 DEF Types
<1> QED
  BY <1>4, <1>5

Taken(q) == Tail(queue[q]) \in Seq(Ids) /\ Len(Tail(queue[q])) <= QueueSize

LEMMA TakenOK ==
  ASSUME Types, NEW q \in Queues, queue[q] # << >>
  PROVE  Taken(q) /\ Head(queue[q]) \in Ids
<1>1. queue[q] \in Seq(Ids) /\ QueueSize \in Nat /\ Len(queue[q]) <= QueueSize
  BY TransfersAssumption DEF Types
<1> QED
  BY <1>1, InTail DEF Taken

LEMMA TypesNext == TypeInv /\ [Next]_vars => Types'
<1> SUFFICES ASSUME TypeInv, [Next]_vars PROVE Types'
  OBVIOUS
<1> USE DEF Types, sessions, tasks, transfers, copies, history
<1>1. Types /\ MaxTransfers \in Nat /\ QueueSize \in Nat
  BY TransfersAssumption DEF TypeInv
<1>2. ASSUME NEW s \in Sessions, NEW d \in Dirs, ChangeDir(s, d)
      PROVE  Types'
  BY <1>1, <1>2 DEF ChangeDir
<1>3. ASSUME NEW s \in Sessions, RequestUpload(s)
      PROVE  Types'
  <2>1. LET n == Len(kind) + 1 IN
        n \in Ids /\ kind' = Append(kind, "upload") /\ client' = [client EXCEPT ![n] = "calling"]
    BY <1>3 DEF RequestUpload
  <2>2. kind' \in Seq({"upload", "download"}) /\ Len(kind') <= MaxTransfers
    BY <1>1, <2>1, AskFor
  <2>3. client' \in [Ids -> ClientPlaces]
    BY <1>1, <2>1 DEF ClientPlaces
  <2>4. /\ session' \in [Sessions -> {"ready", "port", "dead"}]
        /\ queue' \in [Queues -> Seq(Ids)]
        /\ \A q \in Queues : Len(queue'[q]) <= QueueSize
        /\ run' \in [Runs -> [Ids -> RunPlaces]]
    BY <1>1, <2>1, <1>3, Added DEF RequestUpload, Queues
  <2> QED
    BY <1>1, <1>3, <2>2, <2>3, <2>4 DEF RequestUpload
<1>4. ASSUME NEW s \in Sessions, RequestDownload(s)
      PROVE  Types'
  <2>1. Len(kind) + 1 \in Ids /\ kind' = Append(kind, "download")
    BY <1>4 DEF RequestDownload
  <2>2. kind' \in Seq({"upload", "download"}) /\ Len(kind') <= MaxTransfers
    BY <1>1, <2>1, AskFor
  <2>3. client' \in [Ids -> ClientPlaces] /\ path' \in [Ids -> Dirs]
    BY <1>1, <1>4, <2>1 DEF RequestDownload, ClientPlaces
  <2>4. Len(kind) + 1 \in 0 .. MaxTransfers
    BY <2>1, Constants
  <2> QED
    BY <1>1, <1>4, <2>2, <2>3, <2>4 DEF RequestDownload
<1>5. ASSUME NEW s \in Sessions, TakePort(s)
      PROVE  Types'
  <2>1. asked[s] \in Ids
    BY <1>1, <1>5, BegunProperties DEF TakePort, TypeInv, ControlOK, FilesExist
  <2>2. client' \in [Ids -> ClientPlaces]
    BY <1>1, <1>5, <2>1 DEF TakePort, ClientPlaces
  <2>3. /\ session' \in [Sessions -> {"ready", "port", "dead"}]
        /\ queue' \in [Queues -> Seq(Ids)]
        /\ \A q \in Queues : Len(queue'[q]) <= QueueSize
        /\ run' \in [Runs -> [Ids -> RunPlaces]]
    BY <1>1, <2>1, <1>5, Added DEF TakePort, Queues
  <2>4. asked' \in [Sessions -> 0 .. MaxTransfers]
    BY <1>1, <1>5 DEF TakePort
  <2> QED
    BY <1>1, <1>5, <2>2, <2>3, <2>4 DEF TakePort
<1>6. ASSUME NEW s \in Sessions, MissPort(s)
      PROVE  Types'
  BY SMTT(30), <1>1, <1>6 DEF MissPort
<1>7. ASSUME NEW q \in Queues, Create(q)
      PROVE  Types'
  <2>1. Taken(q) /\ queue' = [queue EXCEPT ![q] = Tail(@)] /\ Head(queue[q]) \in Ids
    BY <1>1, <1>7, TakenOK DEF Create
  <2>2. /\ queue' \in [Queues -> Seq(Ids)] /\ \A p \in Queues : Len(queue'[p]) <= QueueSize
    BY <1>1, <2>1 DEF Taken
  <2>3. pool' \in Seq(Queues \X Ids)
    BY SMTT(30), <1>1, <1>7, <2>1, InAppend DEF Create
  <2>4. run' \in [Runs -> [Ids -> RunPlaces]]
    BY <1>1, <1>7, <2>1 DEF Create, First, Runs, RunPlaces
  <2> QED
    BY <1>1, <1>7, <2>2, <2>3, <2>4 DEF Create
<1>8. ASSUME PoolRun
      PROVE  Types'
  <2>1. pool' \in Seq(Queues \X Ids) /\ Head(pool) \in Queues \X Ids
    BY <1>1, <1>8, InTail DEF PoolRun
  <2>2. Head(pool)[2] \in Ids
    BY <2>1
  <2>3. copier' \in [Ids -> {"none", "queued", "announcing", "sending", "done"}]
    BY <1>1, <1>8, <2>2 DEF PoolRun
  <2>4. run' \in [Runs -> [Ids -> RunPlaces]]
    <3>1. CASE Head(pool)[1] = "udp"
      BY <1>1, <1>8, <3>1 DEF PoolRun
    <3>2. CASE Head(pool)[1] # "udp"
      <4>1. run' = [run EXCEPT !["pool"][Head(pool)[2]] = First(Head(pool)[2])]
        BY <1>8, <3>2 DEF PoolRun
      <4>2. First(Head(pool)[2]) \in RunPlaces
        BY DEF First, RunPlaces
      <4> QED
        BY <1>1, <2>2, <4>1, <4>2
    <3> QED
      BY <3>1, <3>2
  <2> QED
    BY <1>1, <1>8, <2>1, <2>3, <2>4 DEF PoolRun
<1>9. ASSUME NEW k \in Ids, Connect(k)
      PROVE  Types'
  BY <1>1, <1>9 DEF Connect, ClientPlaces
<1>10. ASSUME NEW k \in Ids, Leave(k) \/ Break(k)
      PROVE  Types'
  <2>1. PICK place \in ClientPlaces : Stop(k, place)
    BY <1>10 DEF Leave, Break, ClientPlaces
  <2>2. client' \in [Ids -> ClientPlaces] /\ run' \in [Runs -> [Ids -> RunPlaces]]
    BY <1>1, <2>1 DEF Stop, RunPlaces, Runs
  <2>3. upset' \subseteq Reasons \X Dirs
    BY <1>1, <2>1 DEF Stop, Reasons
  <2> QED
    BY <1>1, <2>1, <2>2, <2>3 DEF Stop
<1>11. ASSUME NEW r \in Runs, NEW k \in Ids, AcceptUpload(r, k)
      PROVE  Types'
  <2>1. disk' \in [Dirs -> Contents \cup {Missing}]
    BY <1>1, <1>11, EmptySeq DEF AcceptUpload, Contents
  <2>2. latest' \in [Dirs -> 0 .. MaxTransfers] /\ path' \in [Ids -> Dirs]
    BY <1>1, <1>11, Constants DEF AcceptUpload
  <2>3. upset' \subseteq Reasons \X Dirs
    BY <1>1, <1>11 DEF AcceptUpload, Reasons
  <2>4. run' \in [Runs -> [Ids -> RunPlaces]] /\ client' \in [Ids -> ClientPlaces]
    BY <1>1, <1>11 DEF AcceptUpload, Become, RunPlaces, ClientPlaces
  <2> QED
    BY <1>1, <1>11, <2>1, <2>2, <2>3, <2>4 DEF AcceptUpload
<1>12. ASSUME NEW r \in Runs, NEW k \in Ids, AcceptNobody(r, k) \/ OpenFails(r, k)
      PROVE  Types'
  <2>1. CASE AcceptNobody(r, k)
    BY <1>1, <2>1 DEF AcceptNobody, Become, ClientPlaces, RunPlaces
  <2>2. CASE OpenFails(r, k)
    BY <1>1, <2>2 DEF OpenFails, Become, ClientPlaces, RunPlaces
  <2> QED
    BY <1>12, <2>1, <2>2
<1>13. ASSUME NEW r \in Runs, NEW k \in Ids, WritePiece(r, k)
      PROVE  Types'
  <2>1. path[k] \in Dirs /\ at[k] \in Nat /\ k \in 0 .. Hole
    BY <1>1, Constants
  <2>2. disk[path[k]] \in Contents
    BY <1>1, <1>13, <2>1 DEF WritePiece, TypeInv, ControlOK, FilesExist
  <2>3. Put(disk[path[k]], at[k] + 1, k) \in Contents
    BY <2>1, <2>2, PutProperties
  <2>4. disk' \in [Dirs -> Contents \cup {Missing}] /\ at' \in [Ids -> Nat]
    BY <1>1, <1>13, <2>1, <2>3 DEF WritePiece
  <2> QED
    BY <1>1, <1>13, <2>4 DEF WritePiece
<1>14. ASSUME NEW r \in Runs, NEW k \in Ids, FinishUpload(r, k)
      PROVE  Types'
  <2>1. /\ queue' \in [Queues -> Seq(Ids)] /\ \A q \in Queues : Len(queue'[q]) <= QueueSize
    <3>1. Len(queue["udp"]) \in Nat /\ queue["udp"] \in Seq(Ids) /\ "udp" \in Queues
      BY <1>1, LenProperties DEF Queues
    <3>2. /\ Append(queue["udp"], k) \in Seq(Ids)
          /\ Len(Append(queue["udp"], k)) = Len(queue["udp"]) + 1
      BY <3>1, AppendProperties
    <3>3. \/ queue' = queue
          \/ /\ queue' = [queue EXCEPT !["udp"] = Append(@, k)]
             /\ Len(queue["udp"]) < QueueSize
      BY <1>14 DEF FinishUpload
    <3>4. CASE queue' = queue
      BY <1>1, <3>4
    <3>5. CASE queue' = [queue EXCEPT !["udp"] = Append(@, k)] /\ Len(queue["udp"]) < QueueSize
      BY <1>1, <3>1, <3>2, <3>5
    <3> QED
      BY <3>3, <3>4, <3>5
  <2>2. /\ copier' \in [Ids -> {"none", "queued", "announcing", "sending", "done"}]
        /\ copyPath' \in [Ids -> Dirs]
    BY <1>1, <1>14 DEF FinishUpload
  <2>3. upset' \subseteq Reasons \X Dirs
    BY <1>1, <1>14 DEF FinishUpload, Reasons
  <2>4. run' \in [Runs -> [Ids -> RunPlaces]] /\ client' \in [Ids -> ClientPlaces]
    BY <1>1, <1>14 DEF FinishUpload, Become, RunPlaces, ClientPlaces
  <2> QED
    BY <1>1, <1>14, <2>1, <2>2, <2>3, <2>4 DEF FinishUpload
<1>15. ASSUME NEW r \in Runs, NEW k \in Ids, Call(r, k)
      PROVE  Types'
  BY <1>1, <1>15 DEF Call, Become, RunPlaces
<1>16. ASSUME NEW r \in Runs, NEW k \in Ids, AcceptDownload(r, k)
      PROVE  Types'
  <2>1. disk[path[k]] \in Contents /\ path[k] \in Dirs
    BY <1>1, <1>16 DEF AcceptDownload, TypeInv, ControlOK, FilesExist
  <2>2. Len(disk[path[k]]) \in Nat
    BY <2>1, LenProperties DEF Contents
  <2>3. size' \in [Ids -> Nat]
    BY <1>1, <1>16, <2>2 DEF AcceptDownload
  <2>4. upset' \subseteq Reasons \X Dirs
    BY <1>1, <1>16, <2>1 DEF AcceptDownload, Reasons
  <2>5. run' \in [Runs -> [Ids -> RunPlaces]] /\ client' \in [Ids -> ClientPlaces]
    BY <1>1, <1>16 DEF AcceptDownload, Become, RunPlaces, ClientPlaces
  <2> QED
    BY <1>1, <1>16, <2>3, <2>4, <2>5 DEF AcceptDownload
<1>17. ASSUME NEW r \in Runs, NEW k \in Ids, SendPiece(r, k)
      PROVE  Types'
  <2>1. disk[path[k]] \in Contents /\ at[k] \in Nat
    BY <1>1, <1>17 DEF SendPiece, TypeInv, ControlOK, FilesExist
  <2>2. at[k] + 1 <= Len(disk[path[k]]) => disk[path[k]][at[k] + 1] \in 0 .. Hole
    BY <2>1, Piece
  <2>3. at' \in [Ids -> Nat] /\ got' \in [Ids -> Contents]
    <3>1. CASE at' = at /\ got' = got
      BY <1>1, <3>1
    <3>2. CASE ~(at' = at /\ got' = got)
      <4>1. /\ at[k] + 1 <= Len(disk[path[k]]) /\ at' = [at EXCEPT ![k] = at[k] + 1]
            /\ got' = [got EXCEPT ![k] = Append(@, disk[path[k]][at[k] + 1])]
        BY <1>17, <3>2 DEF SendPiece
      <4>2. Append(got[k], disk[path[k]][at[k] + 1]) \in Contents
        BY <1>1, <2>2, <4>1, AppendPiece
      <4> QED
        BY <1>1, <2>1, <4>1, <4>2
    <3> QED
      BY <3>1, <3>2
  <2>4. run' \in [Runs -> [Ids -> RunPlaces]] /\ client' \in [Ids -> ClientPlaces]
    <3>1. \/ run' = run /\ client' = client
          \/ /\ run' = [run EXCEPT ![r][k] = "done"]
             /\ client' = [client EXCEPT ![k] = "cut"]
      BY <1>17 DEF SendPiece, Become
    <3>2. CASE run' = run /\ client' = client
      BY <1>1, <3>2
    <3>3. CASE run' = [run EXCEPT ![r][k] = "done"] /\ client' = [client EXCEPT ![k] = "cut"]
      BY <1>1, <3>3 DEF RunPlaces, ClientPlaces
    <3> QED
      BY <3>1, <3>2, <3>3
  <2> QED
    BY <1>1, <1>17, <2>3, <2>4 DEF SendPiece
<1>18. ASSUME NEW r \in Runs, NEW k \in Ids, FinishDownload(r, k)
      PROVE  Types'
  BY <1>1, <1>18 DEF FinishDownload, Become, ClientPlaces, RunPlaces
<1>19. ASSUME NEW r \in Runs, NEW k \in Ids, Reset(r, k)
      PROVE  Types'
  BY <1>1, <1>19 DEF Reset, Become, RunPlaces
<1>20. ASSUME NEW k \in Ids, OpenCopy(k)
      PROVE  Types'
  BY <1>1, <1>20, EmptySeq DEF OpenCopy, Contents
<1>21. ASSUME NEW k \in Ids, OpenSource(k)
      PROVE  Types'
  BY <1>1, <1>21 DEF OpenSource, CopierBecomes
<1>22. ASSUME NEW k \in Ids, SendTranche(k)
      PROVE  Types'
  <2>1. disk[copyPath[k]] \in Contents /\ Len(sent[k]) \in Nat
    BY <1>1, <1>22, LenProperties DEF SendTranche, TypeInv, ControlOK, CopyOrder, Contents
  <2>2. Len(sent[k]) + 1 <= Len(disk[copyPath[k]])
          => disk[copyPath[k]][Len(sent[k]) + 1] \in 0 .. Hole
    BY <2>1, Piece
  <2>3. sent' \in [Ids -> Contents]
    <3>1. CASE sent' = sent
      BY <1>1, <3>1
    <3>2. CASE sent' # sent
      <4>1. /\ Len(sent[k]) + 1 <= Len(disk[copyPath[k]])
            /\ sent' = [sent EXCEPT ![k] = Append(@, disk[copyPath[k]][Len(sent[k]) + 1])]
        BY <1>22, <3>2 DEF SendTranche
      <4>2. Append(sent[k], disk[copyPath[k]][Len(sent[k]) + 1]) \in Contents
        BY <1>1, <2>2, <4>1, AppendPiece
      <4> QED
        BY <1>1, <4>1, <4>2
    <3> QED
      BY <3>1, <3>2
  <2> QED
    BY <1>1, <1>22, <2>3 DEF SendTranche, CopierBecomes
<1>23. ASSUME NEW k \in Ids, WriteTranche(k)
      PROVE  Types'
  <2>1. remote[copyPath[k]] \in Contents /\ copyPath[k] \in Dirs /\ written[k] \in Nat
    BY <1>1, <1>23 DEF WriteTranche, TypeInv, ControlOK, CopyOrder
  <2>2. sent[k][written[k] + 1] \in 0 .. Hole
    BY <1>1, <1>23, <2>1, Piece DEF WriteTranche
  <2>3. Put(remote[copyPath[k]], written[k] + 1, sent[k][written[k] + 1]) \in Contents
    BY <2>1, <2>2, PutProperties
  <2>4. remote' \in [Dirs -> Contents \cup {Missing}] /\ written' \in [Ids -> Nat]
    BY <1>1, <1>23, <2>1, <2>3 DEF WriteTranche
  <2> QED
    BY <1>1, <1>23, <2>4 DEF WriteTranche
<1>24. ASSUME NEW k \in Ids, FinishCopy(k)
      PROVE  Types'
  BY <1>1, <1>24 DEF FinishCopy, CopierBecomes
<1>25. ASSUME UNCHANGED vars
      PROVE  Types'
  BY <1>1, <1>25 DEF vars
<1> QED
  BY <1>2, <1>3, <1>4, <1>5, <1>6, <1>7, <1>8, <1>9, <1>10, <1>11, <1>12, <1>13, <1>14, <1>15, <1>16, <1>17, <1>18, <1>19, <1>20, <1>21, <1>22, <1>23, <1>24, <1>25
     DEF Next, Session, Answer, Run, Copy

-----------------------------------------------------------------------------
(* Tasks. *)

\* A step leaves what TasksOK says of a transfer as it is.
KeepsRuns(k) ==
  /\ kind'[k] = kind[k]
  /\ \A r \in Runs : run'[r][k] = "none" <=> run[r][k] = "none"
  /\ client'[k] = "asking" => client[k] = "asking"

KeepsTask(k) == KeepsRuns(k) /\ (copier'[k] = "queued" <=> copier[k] = "queued")

LEMMA TasksKept ==
  ASSUME TasksOK, UNCHANGED tasks, Begun \subseteq Begun', \A k \in Begun : KeepsTask(k)
  PROVE  TasksOK'
<1>1. \A q \in Queues, k \in Ids :
        (InQueue(q, k)' <=> InQueue(q, k)) /\ (Pooled(q, k)' <=> Pooled(q, k))
  BY DEF tasks, InQueue, Pooled
<1>2. /\ Distinct(pool)' /\ \A q \in Queues : Distinct(queue'[q])
  BY DEF tasks, TasksOK
<1>3. \A q \in Queues, k \in Ids :
        InQueue(q, k) \/ Pooled(q, k) => k \in Begun /\ kind[k] = Kind(q) /\ KeepsTask(k)
  BY DEF TasksOK
<1> QED
  BY <1>1, <1>2, <1>3 DEF TasksOK, KeepsTask, KeepsRuns, Queues, Runs

LEMMA TasksAdded ==
  ASSUME Types, TasksOK, NEW q \in Queues, NEW k \in Ids, k \in Begun', kind'[k] = Kind(q),
         ~InQueue(q, k), ~Pooled(q, k),
         queue' = [queue EXCEPT ![q] = Append(@, k)], pool' = pool, Begun \subseteq Begun',
         \A j \in Begun : KeepsRuns(j),
         \A j \in Begun : KeepsTask(j) \/ (j = k /\ q = "udp"),
         q # "udp" => /\ run'["own"][k] = "none" /\ run'["pool"][k] = "none"
                      /\ client'[k] # "asking",
         q = "udp" => copier'[k] = "queued"
  PROVE  TasksOK'
<1>1. /\ \A y : In(Append(queue[q], k), y) <=> In(queue[q], y) \/ y = k
      /\ Distinct(Append(queue[q], k))
  BY InAppend DEF Types, TasksOK, InQueue
<1>2. \A p \in Queues : queue'[p] = IF p = q THEN Append(queue[q], k) ELSE queue[p]
  BY DEF Types
<1>3. \A p \in Queues, j \in Ids :
        /\ InQueue(p, j)' <=> InQueue(p, j) \/ (p = q /\ j = k)
        /\ Pooled(p, j)' <=> Pooled(p, j)
  BY <1>1, <1>2 DEF InQueue, Pooled
<1>4. Distinct(pool)' /\ \A p \in Queues : Distinct(queue'[p])
  BY <1>1, <1>2 DEF TasksOK
<1>5. \A p \in Queues, j \in Ids :
        InQueue(p, j) \/ Pooled(p, j) => j \in Begun /\ kind[j] = Kind(p)
  BY DEF TasksOK
<1>6. \A p \in Queues, j \in Ids :
        InQueue(p, j)' \/ Pooled(p, j)' => j \in Begun' /\ kind'[j] = Kind(p)
  BY <1>3, <1>5 DEF KeepsRuns
<1>7. \A p \in {"rcv", "send"}, j \in Ids :
        /\ InQueue(p, j)' => run'["own"][j] = "none" /\ client'[j] # "asking"
        /\ Pooled(p, j)' => run'["own"][j] # "none"
        /\ InQueue(p, j)' \/ Pooled(p, j)' => run'["pool"][j] = "none"
  BY <1>3, <1>5 DEF TasksOK, KeepsRuns, Queues, Runs
<1>8. \A j \in Ids :
        /\ InQueue("udp", j)' \/ Pooled("udp", j)' => copier'[j] = "queued"
        /\ ~(InQueue("udp", j)' /\ Pooled("udp", j)')
  BY <1>3, <1>5 DEF TasksOK, KeepsTask, Queues
<1> QED
  BY <1>4, <1>6, <1>7, <1>8 DEF TasksOK

\* From the queue to the pool: the transfer's own run starts.
LEMMA TasksCreate ==
  ASSUME TypeInv, NEW q \in Queues, Create(q)
  PROVE  TasksOK'
<1> DEFINE k == Head(queue[q])
<1>1. Types /\ TasksOK /\ k \in Ids /\ InQueue(q, k) /\ k \in Begun /\ kind[k] = Kind(q)
  BY TakenOK, InTail DEF TypeInv, ControlOK, TasksOK, Create, InQueue, Types
<1>2. /\ queue' = [queue EXCEPT ![q] = Tail(@)] /\ pool' = Append(pool, <<q, k>>)
      /\ run' = IF q = "udp" THEN run ELSE [run EXCEPT !["own"][k] = First(k)]
      /\ UNCHANGED <<kind, client, copier>>
  BY DEF Create, copies
<1>3. /\ \A y : In(Tail(queue[q]), y) => In(queue[q], y)
      /\ Distinct(Tail(queue[q])) /\ ~In(Tail(queue[q]), k)
  BY <1>1, InTail DEF Types, TasksOK, Create
<1>4. ~Pooled(q, k)
  BY <1>1 DEF TasksOK, Queues
<1>5. /\ \A y : In(pool', y) <=> In(pool, y) \/ y = <<q, k>>
      /\ Distinct(pool')
  <2>1. pool \in Seq(Queues \X Ids) /\ <<q, k>> \in Queues \X Ids /\ Distinct(pool)
    BY <1>1 DEF Types, TasksOK
  <2>2. ~In(pool, <<q, k>>)
    BY <1>4 DEF Pooled
  <2>3. pool' = Append(pool, <<q, k>>)
    BY <1>2
  <2> HIDE DEF k
  <2> DEFINE t == <<q, k>>
  <2> HIDE DEF t
  <2>4. t \in Queues \X Ids /\ ~In(pool, t) /\ pool' = Append(pool, t)
    BY <2>1, <2>2, <2>3 DEF t
  <2>5. (\A y : In(pool', y) <=> In(pool, y) \/ y = t) /\ Distinct(pool')
    BY <2>1, <2>4, InAppend
  <2> QED
    BY <2>5 DEF t
<1>6. \A p \in Queues : queue'[p] = IF p = q THEN Tail(queue[q]) ELSE queue[p]
  BY <1>1, <1>2 DEF Types
<1>7. \A p \in Queues, j \in Ids :
        /\ InQueue(p, j)' => InQueue(p, j) /\ ~(p = q /\ j = k)
        /\ Pooled(p, j)' <=> Pooled(p, j) \/ (p = q /\ j = k)
  BY <1>3, <1>5, <1>6 DEF InQueue, Pooled
<1>8. Begun' = Begun
  BY <1>2 DEF Begun
<1>9. \A p \in Queues, j \in Ids :
        InQueue(p, j)' \/ Pooled(p, j)' => j \in Begun' /\ kind'[j] = Kind(p)
  BY <1>1, <1>2, <1>7, <1>8 DEF TasksOK
<1>10. /\ run'["pool"] = run["pool"] /\ (q # "udp" => run'["own"][k] # "none")
       /\ \A j \in Ids : (j # k \/ q = "udp") => run'["own"][j] = run["own"][j]
  BY <1>1, <1>2 DEF Types, Runs, First
<1>11. \A p \in {"rcv", "send"}, j \in Ids : InQueue(p, j)' =>
         run'["own"][j] = "none" /\ client'[j] # "asking" /\ run'["pool"][j] = "none"
  <2> SUFFICES ASSUME NEW p \in {"rcv", "send"}, NEW j \in Ids, InQueue(p, j)'
               PROVE  /\ run'["own"][j] = "none" /\ client'[j] # "asking"
                      /\ run'["pool"][j] = "none"
    OBVIOUS
  <2>1. InQueue(p, j) /\ kind[j] = Kind(p) /\ p \in Queues
    BY <1>1, <1>7 DEF TasksOK, Queues
  <2>2. j # k \/ q = "udp"
    BY <1>1, <1>7, <2>1 DEF Kind, Queues
  <2> QED
    BY <1>1, <1>2, <1>10, <2>1, <2>2 DEF TasksOK
<1>12. \A p \in {"rcv", "send"}, j \in Ids : Pooled(p, j)' =>
         run'["own"][j] # "none" /\ run'["pool"][j] = "none"
  BY <1>1, <1>7, <1>10 DEF TasksOK, Queues
<1>13. \A j \in Ids :
        /\ InQueue("udp", j)' \/ Pooled("udp", j)' => copier'[j] = "queued"
        /\ ~(InQueue("udp", j)' /\ Pooled("udp", j)')
  BY <1>1, <1>2, <1>7 DEF TasksOK, Queues
<1>14. \A p \in Queues : Distinct(queue'[p])
  BY <1>1, <1>3, <1>6 DEF TasksOK
<1> QED
  BY <1>5, <1>9, <1>11, <1>12, <1>13, <1>14 DEF TasksOK

\* The pool takes its first task.
LEMMA TasksPool ==
  ASSUME TypeInv, PoolRun
  PROVE  TasksOK'
<1> DEFINE q == Head(pool)[1]  k == Head(pool)[2]
<1>1. /\ Types /\ TasksOK /\ Head(pool) \in Queues \X Ids /\ In(pool, Head(pool))
      /\ Distinct(pool') /\ ~In(pool', Head(pool)) /\ \A y : In(pool', y) => In(pool, y)
  BY InTail DEF TypeInv, ControlOK, TasksOK, PoolRun, Types
<1>2. q \in Queues /\ k \in Ids /\ Head(pool) = <<q, k>> /\ Pooled(q, k)
  BY <1>1 DEF Pooled
<1>3. k \in Begun /\ kind[k] = Kind(q)
  BY <1>1, <1>2 DEF TasksOK
<1>4. /\ UNCHANGED <<queue, kind, client>> /\ Begun' = Begun
      /\ IF q = "udp" THEN copier' = [copier EXCEPT ![k] = "announcing"] /\ UNCHANGED run
         ELSE run' = [run EXCEPT !["pool"][k] = First(k)] /\ UNCHANGED copier
  BY DEF PoolRun, Begun
<1>5. \A p \in Queues, j \in Ids :
        /\ InQueue(p, j)' <=> InQueue(p, j)
        /\ Pooled(p, j)' => Pooled(p, j) /\ ~(p = q /\ j = k)
  BY <1>1, <1>2, <1>4 DEF InQueue, Pooled
<1>6. \A p \in Queues, j \in Ids :
        InQueue(p, j)' \/ Pooled(p, j)' => j \in Begun' /\ kind'[j] = Kind(p)
  BY <1>1, <1>4, <1>5 DEF TasksOK
<1>7. run'["own"] = run["own"] /\ \A j \in Ids :
         /\ (j # k \/ q = "udp") => run'["pool"][j] = run["pool"][j]
         /\ (j # k \/ q # "udp") => copier'[j] = copier[j]
  <2>1. run \in [Runs -> [Ids -> RunPlaces]] /\ copier = [j \in Ids |-> copier[j]]
    BY <1>1 DEF Types
  <2>2. CASE q = "udp"
    BY <1>2, <1>4, <2>1, <2>2
  <2>3. CASE q # "udp"
    BY <1>2, <1>4, <2>1, <2>3 DEF Runs
  <2> QED
    BY <2>2, <2>3
<1>8. \A p \in {"rcv", "send"}, j \in Ids :
        /\ InQueue(p, j)' => run'["own"][j] = "none" /\ client'[j] # "asking"
        /\ Pooled(p, j)' => run'["own"][j] # "none"
  BY <1>1, <1>4, <1>5, <1>7 DEF TasksOK, Queues
<1>9. \A p \in {"rcv", "send"}, j \in Ids :
        InQueue(p, j)' \/ Pooled(p, j)' => run'["pool"][j] = "none"
  <2> SUFFICES ASSUME NEW p \in {"rcv", "send"}, NEW j \in Ids, InQueue(p, j)' \/ Pooled(p, j)'
               PROVE  run'["pool"][j] = "none"
    OBVIOUS
  <2>1. (InQueue(p, j) \/ Pooled(p, j)) /\ kind[j] = Kind(p) /\ p \in Queues
    BY <1>1, <1>5 DEF TasksOK, Queues
  <2>2. run["pool"][j] = "none"
    BY <1>1, <2>1 DEF TasksOK
  <2>3. CASE j = k /\ q # "udp"
    <3>1. p = q
      BY <1>2, <1>3, <2>1, <2>3 DEF Kind, Queues
    <3>2. InQueue(q, k)
      BY <1>5, <2>1, <2>3, <3>1
    <3> QED
      BY <1>1, <1>2, <3>2, <2>1, <3>1 DEF TasksOK
  <2> QED
    BY <1>7, <2>2, <2>3
<1>10. \A j \in Ids :
        /\ InQueue("udp", j)' \/ Pooled("udp", j)' => copier'[j] = "queued"
        /\ ~(InQueue("udp", j)' /\ Pooled("udp", j)')
  BY <1>1, <1>2, <1>5, <1>7 DEF TasksOK, Queues
<1> QED
  BY <1>1, <1>4, <1>6, <1>8, <1>9, <1>10 DEF TasksOK

\* The same when the transfer that does change has no task.
LEMMA TasksDropped ==
  ASSUME TasksOK, UNCHANGED tasks, Begun' = Begun, NEW n \in Ids,
         \A k \in Ids \ {n} : k \in Begun => KeepsTask(k),
         \A q \in Queues : ~InQueue(q, n) /\ ~Pooled(q, n)
  PROVE  TasksOK'
<1>1. \A q \in Queues, k \in Ids :
        (InQueue(q, k)' <=> InQueue(q, k)) /\ (Pooled(q, k)' <=> Pooled(q, k))
  BY DEF tasks, InQueue, Pooled
<1>2. /\ Distinct(pool)' /\ \A q \in Queues : Distinct(queue'[q])
  BY DEF tasks, TasksOK
<1>3. \A q \in Queues, k \in Ids :
        InQueue(q, k) \/ Pooled(q, k) => k \in Begun /\ kind[k] = Kind(q) /\ KeepsTask(k)
  BY DEF TasksOK
<1> QED
  BY <1>1, <1>2, <1>3 DEF TasksOK, KeepsTask, KeepsRuns, Queues, Runs

LEMMA TasksNext == TypeInv /\ [Next]_vars => TasksOK'
<1> SUFFICES ASSUME TypeInv, [Next]_vars PROVE TasksOK'
  OBVIOUS
<1> USE DEF sessions, tasks, transfers, copies, history
<1>1. Types /\ TasksOK /\ FilesExist /\ \A k \in Ids : TransferOK(k) /\ CopyOrder(k)
  BY DEF TypeInv, ControlOK
<1>0. Begun \subseteq Ids
  BY <1>1, BegunProperties
<1>2. ASSUME NEW s \in Sessions, NEW d \in Dirs, ChangeDir(s, d)
      PROVE  TasksOK'
  BY <1>1, <1>2, TasksKept DEF ChangeDir, Begun, KeepsTask, KeepsRuns
<1>3. ASSUME NEW s \in Sessions, RequestUpload(s)
      PROVE  TasksOK'
  <2> DEFINE n == Len(kind) + 1
  <2>1. n \in Ids /\ kind' = Append(kind, "upload") /\ client' = [client EXCEPT ![n] = "calling"]
        /\ UNCHANGED <<pool, copier>> /\ AddOrDie("rcv", n, s)
    BY <1>3 DEF RequestUpload
  <2>2. n \notin Begun /\ Begun' = Begun \cup {n} /\ kind'[n] = "upload"
        /\ \A k \in Begun : kind'[k] = kind[k]
    BY <1>1, <2>1, AskFor
  <2> HIDE DEF n
  <2>3. /\ run["own"][n] = "none" /\ run["pool"][n] = "none"
        /\ ~InQueue("rcv", n) /\ ~Pooled("rcv", n)
    BY <1>1, <2>1, <2>2 DEF TransferOK, TasksOK, Queues
  <2>4. client'[n] = "calling" /\ \A k \in Begun : client'[k] = client[k]
    BY <1>0, <1>1, <2>1, <2>2 DEF Types
  <2>5. CASE Len(queue["rcv"]) < QueueSize
    <3>1. queue' = [queue EXCEPT !["rcv"] = Append(@, n)] /\ run' = run
      BY <2>1, <2>5 DEF AddOrDie
    <3>2. \A k \in Begun : KeepsTask(k)
      BY <2>1, <2>2, <2>4, <3>1 DEF KeepsTask, KeepsRuns
    <3> QED
      BY <1>1, <2>1, <2>2, <2>3, <2>4, <3>1, <3>2, TasksAdded DEF KeepsTask, Kind, Queues
  <2>6. CASE ~(Len(queue["rcv"]) < QueueSize)
    <3>1. queue' = queue /\ run' = [run EXCEPT !["own"][n] = "refused"]
      BY <2>1, <2>6 DEF AddOrDie
    <3>2. \A k \in Begun : run'["own"][k] = run["own"][k] /\ run'["pool"][k] = run["pool"][k]
      BY <1>0, <1>1, <2>1, <2>2, <3>1 DEF Types, Runs
    <3>3. \A k \in Begun : KeepsTask(k)
      BY <2>1, <2>2, <2>4, <3>2 DEF KeepsTask, KeepsRuns, Runs
    <3> QED
      BY <1>1, <2>1, <2>2, <3>1, <3>3, TasksKept
  <2> QED
    BY <2>5, <2>6
<1>4. ASSUME NEW s \in Sessions, RequestDownload(s)
      PROVE  TasksOK'
  <2> DEFINE n == Len(kind) + 1
  <2>1. n \in Ids /\ kind' = Append(kind, "download") /\ client' = [client EXCEPT ![n] = "asking"]
        /\ UNCHANGED <<tasks, run, copier>>
    BY <1>4 DEF RequestDownload
  <2>2. n \notin Begun /\ Begun' = Begun \cup {n} /\ \A k \in Begun : kind'[k] = kind[k]
    BY <1>1, <2>1, AskFor
  <2> HIDE DEF n
  <2>3. \A k \in Begun : client'[k] = client[k]
    BY <1>0, <1>1, <2>1, <2>2 DEF Types
  <2> QED
    BY <1>1, <2>1, <2>2, <2>3, TasksKept DEF KeepsTask, KeepsRuns
<1>5. ASSUME NEW s \in Sessions, TakePort(s)
      PROVE  TasksOK'
  <2> DEFINE n == asked[s]
  <2>1. n \in Ids /\ n \in Downloads /\ n \in Begun /\ kind[n] = "download"
    BY <1>1, <1>5, BegunProperties DEF TakePort, FilesExist, Downloads
  <2>2. client[n] = "asking" /\ client' = [client EXCEPT ![n] = "calling"]
        /\ UNCHANGED <<kind, pool, copier>> /\ AddOrDie("send", n, s) /\ Begun' = Begun
    BY <1>5 DEF TakePort, Begun
  <2> HIDE DEF n
  <2>3. /\ run["own"][n] = "none" /\ run["pool"][n] = "none"
        /\ ~InQueue("send", n) /\ ~Pooled("send", n)
    BY <1>1, <2>1, <2>2 DEF TransferOK, TasksOK, Queues
  <2>4. client'[n] = "calling" /\ \A k \in Ids \ {n} : client'[k] = client[k]
    BY <1>1, <2>1, <2>2 DEF Types
  <2>5. CASE Len(queue["send"]) < QueueSize
    <3>1. queue' = [queue EXCEPT !["send"] = Append(@, n)] /\ run' = run
      BY <2>2, <2>5 DEF AddOrDie
    <3>2. \A k \in Begun : KeepsTask(k)
      BY <1>0, <2>2, <2>4, <3>1 DEF KeepsTask, KeepsRuns
    <3> QED
      BY <1>1, <2>1, <2>2, <2>3, <2>4, <3>1, <3>2, TasksAdded DEF KeepsTask, Kind, Queues
  <2>6. CASE ~(Len(queue["send"]) < QueueSize)
    <3>1. queue' = queue /\ run' = [run EXCEPT !["own"][n] = "refused"]
      BY <2>2, <2>6 DEF AddOrDie
    <3>2. \A r \in Runs, k \in Begun :
            run'[r][k] = IF r = "own" /\ k = n THEN "refused" ELSE run[r][k]
      BY <1>0, <1>1, <2>1, <3>1 DEF Types, Runs
    <3>3. \A k \in Ids \ {n} : k \in Begun => KeepsTask(k)
      BY <2>2, <2>4, <3>2 DEF KeepsTask, KeepsRuns, Runs
    <3>4. ~InQueue("rcv", n) /\ ~Pooled("rcv", n) /\ ~InQueue("udp", n) /\ ~Pooled("udp", n)
      BY <1>1, <2>1 DEF TasksOK, Queues, Kind
    <3> QED
      <4>1. \A q \in Queues : ~InQueue(q, n) /\ ~Pooled(q, n)
        BY <2>3, <3>4 DEF Queues
      <4> QED
        BY <1>1, <2>1, <2>2, <3>1, <3>3, <4>1, TasksDropped
  <2> QED
    BY <2>5, <2>6
<1>6. ASSUME NEW s \in Sessions, MissPort(s)
      PROVE  TasksOK'
  BY <1>1, <1>6, TasksKept DEF MissPort, Begun, KeepsTask, KeepsRuns
<1>7. ASSUME NEW q \in Queues, Create(q)
      PROVE  TasksOK'
  BY <1>7, TasksCreate
<1>8. ASSUME PoolRun
      PROVE  TasksOK'
  BY <1>8, TasksPool
<1>9. ASSUME NEW k \in Ids, Connect(k)
      PROVE  TasksOK'
  BY <1>0, <1>1, <1>9, TasksKept DEF Types, Connect, Begun, KeepsTask, KeepsRuns
<1>10. ASSUME NEW k \in Ids, Leave(k) \/ Break(k)
      PROVE  TasksOK'
  <2>1. \A r \in Runs, j \in Ids : run'[r][j] = "none" <=> run[r][j] = "none"
    BY <1>1, <1>10 DEF Types, Leave, Break, Stop, Runs
  <2>2. \A j \in Ids : client'[j] = "asking" => client[j] = "asking"
    BY <1>1, <1>10 DEF Types, Leave, Break, Stop
  <2> QED
    BY <1>0, <1>1, <1>10, <2>1, <2>2, TasksKept DEF Leave, Break, Stop, Begun, KeepsTask, KeepsRuns
<1>14. ASSUME NEW r \in Runs, NEW k \in Ids, FinishUpload(r, k)
      PROVE  TasksOK'
  <2>1. /\ run' = [run EXCEPT ![r][k] = "done"] /\ client' = [client EXCEPT ![k] = "ok"]
        /\ run[r][k] = "serving" /\ client[k] = "held" /\ k \in Uploads /\ Begun' = Begun
        /\ UNCHANGED <<kind, pool>>
    BY <1>14 DEF FinishUpload, Become, Begun
  <2>2. \A j \in Begun : KeepsRuns(j)
    BY <1>0, <1>1, <2>1 DEF Types, KeepsRuns
  <2>3. CASE UNCHANGED <<queue, copier>>
    BY <1>1, <2>1, <2>2, <2>3, TasksKept DEF KeepsTask
  <2>4. CASE ~UNCHANGED <<queue, copier>>
    <3>1. /\ queue' = [queue EXCEPT !["udp"] = Append(@, k)]
          /\ copier' = [copier EXCEPT ![k] = "queued"]
      BY <1>14, <2>4 DEF FinishUpload
    <3>2. copier[k] = "none" /\ kind[k] = "upload" /\ k \in Begun
      BY <1>1, <2>1 DEF CopyOrder, Types, Uploads
    <3>3. ~InQueue("udp", k) /\ ~Pooled("udp", k)
      BY <1>1, <3>2 DEF TasksOK
    <3>4. copier'[k] = "queued" /\ \A j \in Begun \ {k} : copier'[j] = copier[j]
      BY <1>0, <1>1, <3>1 DEF Types
    <3>5. \A j \in Begun : KeepsTask(j) \/ j = k
      BY <2>2, <3>4 DEF KeepsTask
    <3> QED
      BY <1>1, <2>1, <2>2, <3>1, <3>2, <3>3, <3>4, <3>5, TasksAdded DEF Kind, Queues
  <2> QED
    BY <2>3, <2>4
<1>11. ASSUME NEW r \in Runs, NEW k \in Ids, AcceptUpload(r, k)
      PROVE  TasksOK'
  BY <1>0, <1>1, <1>11, TasksKept DEF Types, AcceptUpload, Become, Begun, KeepsTask, KeepsRuns
<1>12. ASSUME NEW r \in Runs, NEW k \in Ids, AcceptNobody(r, k) \/ OpenFails(r, k)
      PROVE  TasksOK'
  <2>1. CASE AcceptNobody(r, k)
    BY <1>0, <1>1, <2>1, TasksKept DEF Types, AcceptNobody, Become, Begun, KeepsTask, KeepsRuns
  <2>2. CASE OpenFails(r, k)
    BY <1>0, <1>1, <2>2, TasksKept DEF Types, OpenFails, Become, Begun, KeepsTask, KeepsRuns
  <2> QED
    BY <1>12, <2>1, <2>2
<1>13. ASSUME NEW r \in Runs, NEW k \in Ids, WritePiece(r, k)
      PROVE  TasksOK'
  BY <1>0, <1>1, <1>13, TasksKept DEF Types, WritePiece, Become, Begun, KeepsTask, KeepsRuns
<1>15. ASSUME NEW r \in Runs, NEW k \in Ids, Call(r, k)
      PROVE  TasksOK'
  BY <1>0, <1>1, <1>15, TasksKept DEF Types, Call, Become, Begun, KeepsTask, KeepsRuns
<1>16. ASSUME NEW r \in Runs, NEW k \in Ids, AcceptDownload(r, k)
      PROVE  TasksOK'
  BY <1>0, <1>1, <1>16, TasksKept DEF Types, AcceptDownload, Become, Begun, KeepsTask, KeepsRuns
<1>18. ASSUME NEW r \in Runs, NEW k \in Ids, FinishDownload(r, k)
      PROVE  TasksOK'
  BY <1>0, <1>1, <1>18, TasksKept DEF Types, FinishDownload, Become, Begun, KeepsTask, KeepsRuns
<1>19. ASSUME NEW r \in Runs, NEW k \in Ids, Reset(r, k)
      PROVE  TasksOK'
  BY <1>0, <1>1, <1>19, TasksKept DEF Types, Reset, Become, Begun, KeepsTask, KeepsRuns
<1>17. ASSUME NEW r \in Runs, NEW k \in Ids, SendPiece(r, k)
      PROVE  TasksOK'
  <2>1. /\ \/ UNCHANGED <<run, client>>
           \/ /\ run' = [run EXCEPT ![r][k] = "done"] /\ run[r][k] = "serving"
              /\ client' = [client EXCEPT ![k] = "cut"]
        /\ UNCHANGED <<kind, queue, pool, copier>>
    BY <1>17 DEF SendPiece, Become
  <2>2. \A j \in Begun : KeepsTask(j)
    <3>1. CASE UNCHANGED <<run, client>>
      BY <2>1, <3>1 DEF KeepsTask, KeepsRuns
    <3>2. CASE ~UNCHANGED <<run, client>>
      <4>1. /\ run' = [run EXCEPT ![r][k] = "done"] /\ run[r][k] = "serving"
            /\ client' = [client EXCEPT ![k] = "cut"]
        BY <2>1, <3>2
      <4>2. \A j \in Ids :
              /\ \A p \in Runs : run'[p][j] = "none" <=> run[p][j] = "none"
              /\ client'[j] = "asking" => client[j] = "asking"
        BY <1>1, <4>1 DEF Types
      <4> QED
        BY <1>0, <2>1, <4>2 DEF KeepsTask, KeepsRuns
    <3> QED
      BY <3>1, <3>2
  <2> QED
    BY <1>1, <2>1, <2>2, TasksKept DEF Begun
<1>20. ASSUME NEW k \in Ids, OpenCopy(k)
      PROVE  TasksOK'
  BY <1>0, <1>1, <1>20, TasksKept DEF Types, OpenCopy, Begun, KeepsTask, KeepsRuns
<1>21. ASSUME NEW k \in Ids, OpenSource(k)
      PROVE  TasksOK'
  BY <1>0, <1>1, <1>21, TasksKept DEF Types, OpenSource, CopierBecomes, Begun, KeepsTask, KeepsRuns
<1>22. ASSUME NEW k \in Ids, SendTranche(k)
      PROVE  TasksOK'
  BY <1>0, <1>1, <1>22, TasksKept DEF Types, SendTranche, CopierBecomes, Begun, KeepsTask, KeepsRuns
<1>23. ASSUME NEW k \in Ids, WriteTranche(k)
      PROVE  TasksOK'
  BY <1>0, <1>1, <1>23, TasksKept DEF Types, WriteTranche, Begun, KeepsTask, KeepsRuns
<1>24. ASSUME NEW k \in Ids, FinishCopy(k)
      PROVE  TasksOK'
  BY <1>0, <1>1, <1>24, TasksKept DEF Types, FinishCopy, CopierBecomes, Begun, KeepsTask, KeepsRuns
<1>25. ASSUME UNCHANGED vars
      PROVE  TasksOK'
  BY <1>1, <1>25, TasksKept DEF vars, Begun, KeepsTask, KeepsRuns
<1> QED
  BY <1>2, <1>3, <1>4, <1>5, <1>6, <1>7, <1>8, <1>9, <1>10, <1>11, <1>12, <1>13, <1>14, <1>15, <1>16, <1>17, <1>18, <1>19, <1>20, <1>21, <1>22, <1>23, <1>24, <1>25
     DEF Next, Session, Answer, Run, Copy

-----------------------------------------------------------------------------
(* Transfers. *)

LEMMA TransferKept ==
  ASSUME NEW j \in Ids, TransferOK(j), client'[j] = client[j],
         \A r \in Runs : run'[r][j] = run[r][j], at'[j] = at[j], got'[j] = got[j],
         j \in Begun => kind'[j] = kind[j], j \in Begun' <=> j \in Begun
  PROVE  TransferOK(j)'
  BY DEF TransferOK, Serving, Runs

LEMMA TransferNext == TypeInv /\ [Next]_vars => \A j \in Ids : TransferOK(j)'
<1> SUFFICES ASSUME TypeInv, [Next]_vars, NEW j \in Ids PROVE TransferOK(j)'
  OBVIOUS
<1> USE DEF sessions, tasks, transfers, copies, history
<1>1. Types /\ TasksOK /\ FilesExist /\ \A k \in Ids : TransferOK(k)
  BY DEF TypeInv, ControlOK
<1>0. Begun \subseteq Ids
  BY <1>1, BegunProperties
<1>2. ASSUME NEW s \in Sessions, NEW d \in Dirs, ChangeDir(s, d)
      PROVE  TransferOK(j)'
  BY <1>0, <1>1, <1>2, TransferKept DEF ChangeDir, Begun
<1>3. ASSUME NEW s \in Sessions, RequestUpload(s)
      PROVE  TransferOK(j)'
  <2> DEFINE n == Len(kind) + 1
  <2>1. n \in Ids /\ kind' = Append(kind, "upload") /\ client' = [client EXCEPT ![n] = "calling"]
        /\ UNCHANGED <<at, got>> /\ AddOrDie("rcv", n, s)
    BY <1>3 DEF RequestUpload
  <2>2. n \notin Begun /\ Begun' = Begun \cup {n} /\ \A k \in Begun : kind'[k] = kind[k]
    BY <1>1, <2>1, AskFor
  <2> HIDE DEF n
  <2>3. run' = run \/ run' = [run EXCEPT !["own"][n] = "refused"]
    BY <2>1 DEF AddOrDie
  <2>4. CASE j = n
    <3>1. /\ run["own"][n] = "none" /\ run["pool"][n] = "none" /\ at[n] = 0 /\ got[n] = << >>
      BY <1>1, <2>1, <2>2 DEF TransferOK
    <3>2. run'["own"][n] \in {"none", "refused"} /\ run'["pool"][n] = "none"
      BY <1>1, <2>1, <2>3, <3>1 DEF Types, Runs
    <3>3. client'[n] = "calling"
      BY <1>1, <2>1 DEF Types
    <3> QED
      BY <2>1, <2>2, <2>4, <3>1, <3>2, <3>3 DEF TransferOK, Serving, Runs
  <2>5. CASE j # n
    <3>1. client'[j] = client[j] /\ \A r \in Runs : run'[r][j] = run[r][j]
      BY <1>1, <2>1, <2>3, <2>5 DEF Types, Runs
    <3> QED
      BY <1>1, <2>1, <2>2, <2>5, <3>1, TransferKept
  <2> QED
    BY <2>4, <2>5
<1>4. ASSUME NEW s \in Sessions, RequestDownload(s)
      PROVE  TransferOK(j)'
  <2> DEFINE n == Len(kind) + 1
  <2>1. n \in Ids /\ kind' = Append(kind, "download") /\ client' = [client EXCEPT ![n] = "asking"]
        /\ UNCHANGED <<at, got, run>>
    BY <1>4 DEF RequestDownload
  <2>2. n \notin Begun /\ Begun' = Begun \cup {n} /\ kind'[n] = "download"
        /\ \A k \in Begun : kind'[k] = kind[k]
    BY <1>1, <2>1, AskFor
  <2> HIDE DEF n
  <2>3. /\ client[n] = "none" /\ run["own"][n] = "none" /\ run["pool"][n] = "none"
        /\ at[n] = 0 /\ got[n] = << >>
    BY <1>1, <2>1, <2>2 DEF TransferOK
  <2>4. client'[n] = "asking" /\ \A k \in Ids \ {n} : client'[k] = client[k]
    BY <1>1, <2>1 DEF Types
  <2> QED
    <3>1. CASE j = n
      BY <2>1, <2>2, <2>3, <2>4, <3>1 DEF TransferOK, Serving, Runs
    <3>2. CASE j # n
      BY <1>1, <2>1, <2>2, <2>4, <3>2, TransferKept
    <3> QED
      BY <3>1, <3>2
<1>5. ASSUME NEW s \in Sessions, TakePort(s)
      PROVE  TransferOK(j)'
  <2> DEFINE n == asked[s]
  <2>1. n \in Ids /\ client[n] = "asking" /\ client' = [client EXCEPT ![n] = "calling"]
        /\ UNCHANGED <<kind, at, got>> /\ AddOrDie("send", n, s) /\ Begun' = Begun
    BY <1>0, <1>1, <1>5, BegunProperties DEF TakePort, FilesExist, Begun
  <2> HIDE DEF n
  <2>3. run' = run \/ run' = [run EXCEPT !["own"][n] = "refused"]
    BY <2>1 DEF AddOrDie
  <2>4. CASE j = n
    <3>1. /\ run["own"][n] = "none" /\ run["pool"][n] = "none" /\ at[n] = 0 /\ got[n] = << >>
          /\ n \in Begun
      BY <1>1, <2>1 DEF TransferOK
    <3>2. run'["own"][n] \in {"none", "refused"} /\ run'["pool"][n] = "none"
      BY <1>1, <2>1, <2>3, <3>1 DEF Types, Runs
    <3>3. client'[n] = "calling"
      BY <1>1, <2>1 DEF Types
    <3> QED
      BY <2>1, <2>4, <3>1, <3>2, <3>3 DEF TransferOK, Serving, Runs
  <2>5. CASE j # n
    <3>1. client'[j] = client[j] /\ \A r \in Runs : run'[r][j] = run[r][j]
      BY <1>1, <2>1, <2>3, <2>5 DEF Types, Runs
    <3> QED
      BY <1>1, <2>1, <2>5, <3>1, TransferKept
  <2> QED
    BY <2>4, <2>5
<1>6. ASSUME NEW s \in Sessions, MissPort(s)
      PROVE  TransferOK(j)'
  BY <1>0, <1>1, <1>6, TransferKept DEF MissPort, Begun
<1>7. ASSUME NEW q \in Queues, Create(q)
      PROVE  TransferOK(j)'
  <2> DEFINE n == Head(queue[q])
  <2>1. n \in Ids /\ InQueue(q, n)
    BY <1>1, <1>7, TakenOK, InTail DEF Create, Types, InQueue
  <2>2. /\ run' = IF q = "udp" THEN run ELSE [run EXCEPT !["own"][n] = First(n)]
        /\ UNCHANGED <<kind, client, at, got>> /\ Begun' = Begun
    BY <1>7 DEF Create, Begun
  <2> HIDE DEF n
  <2>3. CASE j = n /\ q # "udp"
    <3>1. /\ run["own"][n] = "none" /\ run["pool"][n] = "none" /\ client[n] # "asking"
          /\ n \in Begun
      BY <1>1, <2>1, <2>3 DEF TasksOK, Queues
    <3>2. run'["own"][n] \in {"waiting", "started"} /\ run'["pool"][n] = "none"
      BY <1>1, <2>1, <2>2, <2>3, <3>1 DEF Types, Runs, First
    <3> QED
      BY <1>1, <2>2, <2>3, <3>1, <3>2 DEF TransferOK, Serving, Runs
  <2>4. CASE j # n \/ q = "udp"
    <3>1. \A r \in Runs : run'[r][j] = run[r][j]
      BY <1>1, <2>1, <2>2, <2>4 DEF Types, Runs
    <3> QED
      BY <1>1, <2>2, <3>1, TransferKept
  <2> QED
    BY <2>3, <2>4
<1>8. ASSUME PoolRun
      PROVE  TransferOK(j)'
  <2> DEFINE q == Head(pool)[1]  n == Head(pool)[2]
  <2>1. Head(pool) \in Queues \X Ids /\ In(pool, Head(pool))
    BY <1>1, <1>8, InTail DEF PoolRun, Types
  <2>2. q \in Queues /\ n \in Ids /\ Pooled(q, n)
    BY <2>1 DEF Pooled
  <2>3. /\ run' = IF q = "udp" THEN run ELSE [run EXCEPT !["pool"][n] = First(n)]
        /\ UNCHANGED <<kind, client, at, got>> /\ Begun' = Begun
    BY <1>8 DEF PoolRun, Begun
  <2> HIDE DEF q, n
  <2>4. CASE j = n /\ q # "udp"
    <3>1. run["own"][n] # "none" /\ run["pool"][n] = "none" /\ n \in Begun
      BY <1>1, <2>2, <2>4 DEF TasksOK, Queues
    <3>2. run'["own"][n] = run["own"][n] /\ run'["pool"][n] \in {"waiting", "started"}
      BY <1>1, <2>2, <2>3, <2>4 DEF Types, Runs, First
    <3> QED
      BY <1>1, <2>3, <2>4, <3>1, <3>2 DEF TransferOK, Serving, Runs
  <2>5. CASE j # n \/ q = "udp"
    <3>1. \A r \in Runs : run'[r][j] = run[r][j]
      BY <1>1, <2>2, <2>3, <2>5 DEF Types, Runs
    <3> QED
      BY <1>1, <2>3, <3>1, TransferKept
  <2> QED
    BY <2>4, <2>5
<1>9. ASSUME NEW k \in Ids, Connect(k)
      PROVE  TransferOK(j)'
  BY <1>0, <1>1, <1>9 DEF Connect, Uploads, Types, TransferOK, Serving, Runs, Begun
<1>10. ASSUME NEW k \in Ids, Leave(k) \/ Break(k)
      PROVE  TransferOK(j)'
  <2>1. CASE Leave(k)
    BY <1>0, <1>1, <2>1 DEF Leave, Stop, Types, TransferOK, Serving, Runs, Begun
  <2>2. CASE Break(k)
    BY <1>0, <1>1, <2>2 DEF Break, Stop, Types, TransferOK, Serving, Runs, Begun
  <2> QED
    BY <1>10, <2>1, <2>2
<1>11. ASSUME NEW r \in Runs, NEW k \in Ids, AcceptUpload(r, k)
      PROVE  TransferOK(j)'
  BY <1>0, <1>1, <1>11 DEF AcceptUpload, Become, Types, TransferOK, Serving, Runs, Begun
<1>12. ASSUME NEW r \in Runs, NEW k \in Ids, AcceptNobody(r, k) \/ OpenFails(r, k)
      PROVE  TransferOK(j)'
  <2>1. CASE AcceptNobody(r, k)
    BY <1>0, <1>1, <2>1 DEF AcceptNobody, Become, Types, TransferOK, Serving, Runs, Begun
  <2>2. CASE OpenFails(r, k)
    BY <1>0, <1>1, <2>2 DEF OpenFails, Become, Types, TransferOK, Serving, Runs, Begun
  <2> QED
    BY <1>12, <2>1, <2>2
<1>13. ASSUME NEW r \in Runs, NEW k \in Ids, WritePiece(r, k)
      PROVE  TransferOK(j)'
  BY <1>0, <1>1, <1>13 DEF WritePiece, Become, Types, TransferOK, Serving, Runs, Begun
<1>14. ASSUME NEW r \in Runs, NEW k \in Ids, FinishUpload(r, k)
      PROVE  TransferOK(j)'
  BY SMTT(30), <1>0, <1>1, <1>14 DEF FinishUpload, Become, Types, TransferOK, Serving, Runs, Begun
<1>15. ASSUME NEW r \in Runs, NEW k \in Ids, Call(r, k)
      PROVE  TransferOK(j)'
  BY <1>0, <1>1, <1>15 DEF Call, Become, Types, TransferOK, Serving, Runs, Begun
<1>16. ASSUME NEW r \in Runs, NEW k \in Ids, AcceptDownload(r, k)
      PROVE  TransferOK(j)'
  BY <1>0, <1>1, <1>16 DEF AcceptDownload, Become, Types, TransferOK, Serving, Runs, Begun
<1>17. ASSUME NEW r \in Runs, NEW k \in Ids, SendPiece(r, k)
      PROVE  TransferOK(j)'
  <2>1. /\ k \in Downloads /\ client[k] = "held" /\ run[r][k] = "serving"
        /\ UNCHANGED kind /\ Begun' = Begun
    BY <1>17 DEF SendPiece, Begun
  <2>2. CASE run' = run
    <3>1. /\ client' = client /\ at' = [at EXCEPT ![k] = at[k] + 1]
          /\ got' = [got EXCEPT ![k] = Append(@, disk[path[k]][at[k] + 1])]
      BY SMTT(30), <1>1, <1>17, <2>1, <2>2 DEF SendPiece, Become, Types
    <3> QED
      BY <1>1, <2>1, <2>2, <3>1 DEF Types, TransferOK, Serving, Runs
  <2>3. CASE run' # run
    <3>1. /\ run' = [run EXCEPT ![r][k] = "done"] /\ client' = [client EXCEPT ![k] = "cut"]
          /\ UNCHANGED <<at, got>>
      BY <1>17, <2>3 DEF SendPiece, Become
    <3> QED
      BY <1>1, <2>1, <3>1 DEF Types, TransferOK, Serving, Runs
  <2> QED
    BY <2>2, <2>3
<1>18. ASSUME NEW r \in Runs, NEW k \in Ids, FinishDownload(r, k)
      PROVE  TransferOK(j)'
  BY <1>0, <1>1, <1>18 DEF FinishDownload, Become, Types, TransferOK, Serving, Runs, Begun
<1>19. ASSUME NEW r \in Runs, NEW k \in Ids, Reset(r, k)
      PROVE  TransferOK(j)'
  BY <1>0, <1>1, <1>19 DEF Reset, Become, Types, TransferOK, Serving, Runs, Begun
<1>20. ASSUME NEW k \in Ids, OpenCopy(k)
      PROVE  TransferOK(j)'
  BY <1>0, <1>1, <1>20, TransferKept DEF OpenCopy, CopierBecomes, Begun
<1>21. ASSUME NEW k \in Ids, OpenSource(k)
      PROVE  TransferOK(j)'
  BY <1>0, <1>1, <1>21, TransferKept DEF OpenSource, CopierBecomes, Begun
<1>22. ASSUME NEW k \in Ids, SendTranche(k)
      PROVE  TransferOK(j)'
  BY <1>0, <1>1, <1>22, TransferKept DEF SendTranche, CopierBecomes, Begun
<1>23. ASSUME NEW k \in Ids, WriteTranche(k)
      PROVE  TransferOK(j)'
  BY <1>0, <1>1, <1>23, TransferKept DEF WriteTranche, CopierBecomes, Begun
<1>24. ASSUME NEW k \in Ids, FinishCopy(k)
      PROVE  TransferOK(j)'
  BY <1>0, <1>1, <1>24, TransferKept DEF FinishCopy, CopierBecomes, Begun
<1>25. ASSUME UNCHANGED vars
      PROVE  TransferOK(j)'
  BY <1>0, <1>1, <1>25, TransferKept DEF vars, Begun
<1> QED
  BY <1>2, <1>3, <1>4, <1>5, <1>6, <1>7, <1>8, <1>9, <1>10, <1>11, <1>12, <1>13, <1>14, <1>15, <1>16, <1>17, <1>18, <1>19, <1>20, <1>21, <1>22, <1>23, <1>24, <1>25
     DEF Next, Session, Answer, Run, Copy

-----------------------------------------------------------------------------
(* Files and copies. *)

\* No step removes a file, on either server.
LEMMA FilesStay ==
  ASSUME TypeInv, [Next]_vars, NEW d \in Dirs
  PROVE  /\ disk[d] # Missing => disk'[d] # Missing
         /\ remote[d] # Missing => remote'[d] # Missing
<1> USE DEF sessions, tasks, transfers, copies, history
<1>1. Types /\ FilesExist /\ \A k \in Ids : CopyOrder(k)
  BY DEF TypeInv, ControlOK
<1>2. << >> # Missing
  BY EmptySeq, Constants DEF Contents
<1>3. ASSUME NEW r \in Runs, NEW k \in Ids, WritePiece(r, k)
      PROVE  disk'[d] # Missing <=> disk[d] # Missing
  <2>1. Put(disk[path[k]], at[k] + 1, k) \in Contents
    <3>1. disk[path[k]] \in Contents /\ at[k] + 1 \in Nat \ {0} /\ k \in 0 .. Hole
      BY <1>1, <1>3, Constants DEF WritePiece, FilesExist, Types
    <3> QED
      BY <3>1, PutProperties
  <2> QED
    BY <1>1, <1>3, <2>1, Constants DEF WritePiece, Types, FilesExist
<1>4. ASSUME NEW k \in Ids, WriteTranche(k)
      PROVE  remote'[d] # Missing <=> remote[d] # Missing
  <2>1. Put(remote[copyPath[k]], written[k] + 1, sent[k][written[k] + 1]) \in Contents
    <3>1. /\ remote[copyPath[k]] \in Contents /\ written[k] \in Nat
          /\ sent[k] \in Contents /\ written[k] + 1 <= Len(sent[k])
      BY <1>1, <1>4 DEF WriteTranche, CopyOrder, Types
    <3>2. sent[k][written[k] + 1] \in 0 .. Hole
      BY <3>1, Piece
    <3> QED
      BY <3>1, <3>2, PutProperties
  <2> QED
    BY <1>1, <1>4, <2>1, Constants DEF WriteTranche, Types, CopyOrder
<1>5. ASSUME NEW r \in Runs, NEW k \in Ids, AcceptUpload(r, k)
      PROVE  disk[d] # Missing => disk'[d] # Missing
  BY <1>1, <1>2, <1>5 DEF AcceptUpload, Types
<1>6. ASSUME NEW k \in Ids, OpenCopy(k)
      PROVE  remote[d] # Missing => remote'[d] # Missing
  BY <1>1, <1>2, <1>6 DEF OpenCopy, Types
<1>7. \/ \E r \in Runs, k \in Ids : WritePiece(r, k) \/ AcceptUpload(r, k)
      \/ UNCHANGED disk
  <2>1. ASSUME NEW s \in Sessions, Session(s) \/ Answer(s)
        PROVE  UNCHANGED disk
    BY <2>1 DEF Session, Answer, ChangeDir, RequestUpload, RequestDownload, TakePort, MissPort
  <2>2. ASSUME NEW r \in Runs, NEW k \in Ids, Run(r, k)
        PROVE  WritePiece(r, k) \/ AcceptUpload(r, k) \/ UNCHANGED disk
    BY <2>2 DEF Run, AcceptNobody, OpenFails, FinishUpload, Call, AcceptDownload, SendPiece,
                FinishDownload, Reset
  <2>3. ASSUME NEW k \in Ids, Copy(k)
        PROVE  UNCHANGED disk
    BY <2>3 DEF Copy, OpenCopy, OpenSource, SendTranche, WriteTranche, FinishCopy, CopierBecomes
  <2>4. ASSUME NEW k \in Ids, Connect(k) \/ Leave(k) \/ Break(k)
        PROVE  UNCHANGED disk
    BY <2>4 DEF Connect, Leave, Break, Stop
  <2>5. (\E q \in Queues : Create(q)) \/ PoolRun \/ UNCHANGED vars => UNCHANGED disk
    BY DEF Create, PoolRun, vars
  <2> QED
    BY <2>1, <2>2, <2>3, <2>4, <2>5 DEF Next
<1>8. \/ \E k \in Ids : WriteTranche(k) \/ OpenCopy(k)
      \/ UNCHANGED remote
  <2>1. ASSUME NEW s \in Sessions, Session(s) \/ Answer(s)
        PROVE  UNCHANGED remote
    BY <2>1 DEF Session, Answer, ChangeDir, RequestUpload, RequestDownload, TakePort, MissPort
  <2>2. ASSUME NEW r \in Runs, NEW k \in Ids, Run(r, k)
        PROVE  UNCHANGED remote
    BY <2>2 DEF Run, AcceptUpload, AcceptNobody, OpenFails, WritePiece, FinishUpload, Call, AcceptDownload,
                SendPiece, FinishDownload, Reset
  <2>3. ASSUME NEW k \in Ids, Copy(k)
        PROVE  WriteTranche(k) \/ OpenCopy(k) \/ UNCHANGED remote
    BY <2>3 DEF Copy, OpenSource, SendTranche, FinishCopy, CopierBecomes
  <2>4. ASSUME NEW k \in Ids, Connect(k) \/ Leave(k) \/ Break(k)
        PROVE  UNCHANGED remote
    BY <2>4 DEF Connect, Leave, Break, Stop
  <2>5. (\E q \in Queues : Create(q)) \/ PoolRun \/ UNCHANGED vars => UNCHANGED remote
    BY DEF Create, PoolRun, vars
  <2> QED
    BY <2>1, <2>2, <2>3, <2>4, <2>5 DEF Next
<1> QED
  BY <1>3, <1>4, <1>5, <1>6, <1>7, <1>8

LEMMA FilesNext == TypeInv /\ [Next]_vars => FilesExist'
<1> SUFFICES ASSUME TypeInv, [Next]_vars PROVE FilesExist'
  OBVIOUS
<1> USE DEF sessions, tasks, transfers, copies, history
<1>1. Types /\ TasksOK /\ FilesExist /\ \A k \in Ids : TransferOK(k) /\ CopyOrder(k)
  BY DEF TypeInv, ControlOK
<1>0. /\ Begun \subseteq Ids /\ Uploads \subseteq Ids /\ Downloads \subseteq Ids
      /\ Uploads \cap Downloads = {}
  BY <1>1, BegunProperties
<1>a. \A d \in Dirs : disk[d] # Missing => disk'[d] # Missing
  BY FilesStay
<1> DEFINE ByDownload(k) ==
       /\ k \in Downloads /\ Uploads' = Uploads /\ Downloads' = Downloads
       /\ client' = client \/ \E place \in {"held", "ok", "cut"} : client' = [client EXCEPT ![k] = place]
       /\ UNCHANGED <<session, asked, path, latest, disk>>
<1>b. ASSUME NEW k \in Ids, ByDownload(k)
      PROVE  FilesExist'
  <2>1. \A j \in Uploads : client'[j] = client[j]
    BY <1>0, <1>1, <1>b DEF Types
  <2> QED
    BY <1>0, <1>1, <1>b, <2>1 DEF FilesExist
<1> HIDE DEF ByDownload
<1>2. ASSUME NEW s \in Sessions, NEW d \in Dirs, ChangeDir(s, d)
      PROVE  FilesExist'
  BY <1>0, <1>1, <1>a, <1>2 DEF ChangeDir, Types, FilesExist, Begun, Uploads, Downloads
<1>3. ASSUME NEW s \in Sessions, RequestUpload(s)
      PROVE  FilesExist'
  <2> DEFINE n == Len(kind) + 1
  <2>1. n \in Ids /\ kind' = Append(kind, "upload") /\ client' = [client EXCEPT ![n] = "calling"]
        /\ UNCHANGED <<asked, path, disk, latest>> /\ AddOrDie("rcv", n, s)
    BY <1>3 DEF RequestUpload
  <2>2. n \notin Begun /\ Uploads' = Uploads \cup {n} /\ Downloads' = Downloads
    BY <1>1, <2>1, AskFor
  <2> HIDE DEF n
  <2>3. \A p \in Sessions : session'[p] = "port" => session[p] = "port"
    BY <1>1, <2>1 DEF AddOrDie, Types
  <2>4. client'[n] = "calling" /\ \A k \in Uploads : k # n /\ client'[k] = client[k]
    BY <1>0, <1>1, <2>1, <2>2 DEF Types, Uploads
  <2> QED
    BY <1>1, <2>1, <2>2, <2>3, <2>4 DEF FilesExist
<1>4. ASSUME NEW s \in Sessions, RequestDownload(s)
      PROVE  FilesExist'
  <2> DEFINE n == Len(kind) + 1
  <2>1. /\ n \in Ids /\ kind' = Append(kind, "download") /\ client' = [client EXCEPT ![n] = "asking"]
        /\ path' = [path EXCEPT ![n] = dir] /\ session' = [session EXCEPT ![s] = "port"]
        /\ asked' = [asked EXCEPT ![s] = n] /\ disk[dir] # Missing /\ UNCHANGED <<disk, latest>>
    BY <1>4 DEF RequestDownload
  <2>2. n \notin Begun /\ Uploads' = Uploads /\ Downloads' = Downloads \cup {n}
    BY <1>1, <2>1, AskFor
  <2> HIDE DEF n
  <2>3. \A p \in Sessions : session'[p] = "port" =>
          asked'[p] = n \/ (session[p] = "port" /\ asked'[p] = asked[p])
    BY <1>1, <2>1 DEF Types
  <2>4. path'[n] = dir /\ \A k \in Begun : client'[k] = client[k] /\ path'[k] = path[k]
    BY <1>0, <1>1, <2>1, <2>2 DEF Types
  <2>5. \A k \in Uploads : k \in Begun
    BY DEF Uploads
  <2>6. \A k \in Downloads : k \in Begun
    BY DEF Downloads
  <2>7. \A k \in Downloads' : disk'[path'[k]] # Missing
    BY <1>1, <2>1, <2>2, <2>4, <2>6 DEF FilesExist
  <2>8. \A k \in Uploads' : client'[k] = "held" => disk'[path'[k]] # Missing
    BY <1>1, <2>1, <2>2, <2>4, <2>5 DEF FilesExist
  <2> QED
    BY <1>1, <2>1, <2>2, <2>3, <2>4, <2>5, <2>7, <2>8 DEF FilesExist
<1>5. ASSUME NEW s \in Sessions, TakePort(s)
      PROVE  FilesExist'
  BY <1>0, <1>1, <1>a, <1>5 DEF TakePort, AddOrDie, Types, FilesExist, Begun, Uploads, Downloads, TransferOK
<1>6. ASSUME NEW s \in Sessions, MissPort(s)
      PROVE  FilesExist'
  BY <1>0, <1>1, <1>a, <1>6 DEF MissPort, Types, FilesExist, Begun, Uploads, Downloads
<1>7. ASSUME NEW q \in Queues, Create(q)
      PROVE  FilesExist'
  BY <1>0, <1>1, <1>a, <1>7 DEF Create, Types, FilesExist, Begun, Uploads, Downloads
<1>8. ASSUME PoolRun
      PROVE  FilesExist'
  BY <1>0, <1>1, <1>a, <1>8 DEF PoolRun, Types, FilesExist, Begun, Uploads, Downloads
<1>9. ASSUME NEW k \in Ids, Connect(k)
      PROVE  FilesExist'
  BY <1>0, <1>1, <1>a, <1>9 DEF Connect, Types, FilesExist, Begun, Uploads, Downloads, TransferOK
<1>10. ASSUME NEW k \in Ids, Leave(k) \/ Break(k)
      PROVE  FilesExist'
  <2>1. CASE Leave(k)
    BY <1>0, <1>1, <1>a, <2>1 DEF Leave, Stop, Types, FilesExist, Begun, Uploads, Downloads
  <2>2. CASE Break(k)
    BY <1>0, <1>1, <1>a, <2>2 DEF Break, Stop, Types, FilesExist, Begun, Uploads, Downloads
  <2> QED
    BY <1>10, <2>1, <2>2
<1>11. ASSUME NEW r \in Runs, NEW k \in Ids, AcceptUpload(r, k)
      PROVE  FilesExist'
  <2>1. /\ client[k] = "connected" /\ client' = [client EXCEPT ![k] = "held"] /\ k \in Uploads
        /\ path' = [path EXCEPT ![k] = dir] /\ latest' = [latest EXCEPT ![dir] = k]
        /\ disk' = [disk EXCEPT ![dir] = << >>] /\ UNCHANGED <<session, asked, kind>>
        /\ Uploads' = Uploads /\ Downloads' = Downloads
    BY <1>11 DEF AcceptUpload, Uploads, Downloads, Begun
  <2>2. \A j \in Ids : /\ path'[j] = IF j = k THEN dir ELSE path[j]
                      /\ client'[j] = IF j = k THEN "held" ELSE client[j]
    BY <1>1, <2>1 DEF Types
  <2>3. \A d \in Dirs : /\ latest'[d] = IF d = dir THEN k ELSE latest[d]
                       /\ latest[d] # k
    <3>1. \A d \in Dirs : latest'[d] = IF d = dir THEN k ELSE latest[d]
      BY <1>1, <2>1 DEF Types
    <3>2. ASSUME NEW d \in Dirs PROVE latest[d] # k
      BY <1>1, <2>1, Constants DEF FilesExist
    <3> QED
      BY <3>1, <3>2
  <2>4. \A j \in Downloads : j # k /\ path[j] \in Dirs
    BY <1>0, <1>1, <2>1 DEF Types
  <2>5. dir \in Dirs /\ disk'[dir] # Missing
    <3>1. << >> # Missing
      BY EmptySeq, Constants DEF Contents
    <3> QED
      BY <1>1, <2>1, <3>1 DEF Types
  <2>6. \A j \in Downloads' : disk'[path'[j]] # Missing
    BY <1>0, <1>1, <1>a, <2>1, <2>2, <2>4 DEF FilesExist
  <2>7. \A j \in Uploads' : client'[j] = "held" => disk'[path'[j]] # Missing
    BY <1>0, <1>1, <1>a, <2>1, <2>2, <2>5 DEF FilesExist, Types
  <2>8. \A d \in Dirs : latest'[d] # 0 =>
          /\ latest'[d] \in Uploads' /\ path'[latest'[d]] = d
          /\ client'[latest'[d]] \in {"held", "ok", "unserved", "gone"}
          /\ disk'[d] # Missing
    BY <1>0, <1>1, <1>a, <2>1, <2>2, <2>3, <2>5 DEF FilesExist
  <2> QED
    BY <1>1, <2>1, <2>6, <2>7, <2>8 DEF FilesExist
<1>12. ASSUME NEW r \in Runs, NEW k \in Ids, AcceptNobody(r, k) \/ OpenFails(r, k)
      PROVE  FilesExist'
  <2>1. /\ \E place \in {"gone", "unserved"} : client' = [client EXCEPT ![k] = place]
        /\ client[k] \in {"left", "connected"} /\ k \in Uploads
        /\ UNCHANGED <<session, asked, path, latest, disk>>
        /\ Uploads' = Uploads /\ Downloads' = Downloads
    BY <1>12 DEF AcceptNobody, OpenFails, Uploads, Downloads, Begun
  <2>2. /\ client'[k] \in {"gone", "unserved"}
        /\ \A j \in Ids \ {k} : client'[j] = client[j]
    BY <1>1, <2>1 DEF Types
  <2> QED
    BY <1>0, <1>1, <2>1, <2>2 DEF FilesExist
<1>13. ASSUME NEW r \in Runs, NEW k \in Ids, WritePiece(r, k)
      PROVE  FilesExist'
  <2>1. /\ UNCHANGED <<session, asked, kind, path, client, latest>>
        /\ Uploads' = Uploads /\ Downloads' = Downloads
    BY <1>13 DEF WritePiece, Uploads, Downloads, Begun
  <2>2. ASSUME NEW d \in Dirs, disk[d] # Missing PROVE disk'[d] # Missing
    BY <1>1, <1>a, <1>13, <2>2 DEF WritePiece, Types
  <2>3. \A j \in Ids : path[j] \in Dirs
    BY <1>1 DEF Types
  <2> QED
    BY <1>0, <1>1, <2>1, <2>2, <2>3 DEF FilesExist
<1>14. ASSUME NEW r \in Runs, NEW k \in Ids, FinishUpload(r, k)
      PROVE  FilesExist'
  <2>1. /\ UNCHANGED <<session, asked, kind, path, latest, disk>>
        /\ client' = [client EXCEPT ![k] = "ok"]
        /\ Uploads' = Uploads /\ Downloads' = Downloads
    BY <1>14 DEF FinishUpload, Uploads, Downloads, Begun
  <2>2. client'[k] = "ok" /\ \A j \in Ids \ {k} : client'[j] = client[j]
    BY <1>1, <2>1 DEF Types
  <2> QED
    BY <1>0, <1>1, <2>1, <2>2 DEF FilesExist
<1>15. ASSUME NEW r \in Runs, NEW k \in Ids, Call(r, k)
      PROVE  FilesExist'
  <2>1. ByDownload(k)
    BY <1>15 DEF ByDownload, Call, Uploads, Downloads, Begun
  <2> QED
    BY <1>b, <2>1
<1>16. ASSUME NEW r \in Runs, NEW k \in Ids, AcceptDownload(r, k)
      PROVE  FilesExist'
  <2>1. ByDownload(k)
    BY <1>16 DEF ByDownload, AcceptDownload, Uploads, Downloads, Begun
  <2> QED
    BY <1>b, <2>1
<1>17. ASSUME NEW r \in Runs, NEW k \in Ids, SendPiece(r, k)
      PROVE  FilesExist'
  <2>1. ByDownload(k)
    BY <1>17 DEF ByDownload, SendPiece, Uploads, Downloads, Begun
  <2> QED
    BY <1>b, <2>1
<1>18. ASSUME NEW r \in Runs, NEW k \in Ids, FinishDownload(r, k)
      PROVE  FilesExist'
  <2>1. ByDownload(k)
    BY <1>18 DEF ByDownload, FinishDownload, Uploads, Downloads, Begun
  <2> QED
    BY <1>b, <2>1
<1>19. ASSUME NEW r \in Runs, NEW k \in Ids, Reset(r, k)
      PROVE  FilesExist'
  <2>1. ByDownload(k)
    BY <1>19 DEF ByDownload, Reset, Uploads, Downloads, Begun
  <2> QED
    BY <1>b, <2>1
<1>20. ASSUME NEW k \in Ids, OpenCopy(k)
      PROVE  FilesExist'
  BY <1>0, <1>1, <1>a, <1>20 DEF OpenCopy, Types, FilesExist, Begun, Uploads, Downloads
<1>21. ASSUME NEW k \in Ids, OpenSource(k)
      PROVE  FilesExist'
  BY <1>0, <1>1, <1>a, <1>21 DEF OpenSource, CopierBecomes, Types, FilesExist, Begun, Uploads, Downloads
<1>22. ASSUME NEW k \in Ids, SendTranche(k)
      PROVE  FilesExist'
  <2>1. /\ UNCHANGED <<session, asked, path, client, latest, disk>>
        /\ Uploads' = Uploads /\ Downloads' = Downloads
    BY <1>22 DEF SendTranche, CopierBecomes, Uploads, Downloads, Begun
  <2> QED
    BY <1>1, <2>1 DEF FilesExist
<1>23. ASSUME NEW k \in Ids, WriteTranche(k)
      PROVE  FilesExist'
  BY <1>0, <1>1, <1>a, <1>23 DEF WriteTranche, Types, FilesExist, Begun, Uploads, Downloads
<1>24. ASSUME NEW k \in Ids, FinishCopy(k)
      PROVE  FilesExist'
  BY <1>0, <1>1, <1>a, <1>24 DEF FinishCopy, CopierBecomes, Types, FilesExist, Begun, Uploads, Downloads
<1>25. ASSUME UNCHANGED vars
      PROVE  FilesExist'
  BY <1>0, <1>1, <1>a, <1>25 DEF vars, Types, FilesExist, Begun, Uploads, Downloads
<1> QED
  BY <1>2, <1>3, <1>4, <1>5, <1>6, <1>7, <1>8, <1>9, <1>10, <1>11, <1>12, <1>13, <1>14, <1>15, <1>16, <1>17, <1>18, <1>19, <1>20, <1>21, <1>22, <1>23, <1>24, <1>25
     DEF Next, Session, Answer, Run, Copy

LEMMA CopyOrderKept ==
  ASSUME NEW j \in Ids, CopyOrder(j), copier'[j] = copier[j],
         copier[j] # "none" => client'[j] = client[j] /\ j \in Uploads',
         UNCHANGED <<opened, sent, written>>, copier[j] # "none" => copyPath'[j] = copyPath[j],
         \A d \in Dirs : disk[d] # Missing => disk'[d] # Missing,
         \A d \in Dirs : remote[d] # Missing => remote'[d] # Missing,
         copyPath[j] \in Dirs
  PROVE  CopyOrder(j)'
  BY DEF CopyOrder

LEMMA CopyOrderNext == TypeInv /\ [Next]_vars => \A j \in Ids : CopyOrder(j)'
<1> SUFFICES ASSUME TypeInv, [Next]_vars, NEW j \in Ids PROVE CopyOrder(j)'
  OBVIOUS
<1> USE DEF sessions, tasks, transfers, copies, history
<1>1. Types /\ TasksOK /\ FilesExist /\ \A k \in Ids : TransferOK(k) /\ CopyOrder(k)
  BY DEF TypeInv, ControlOK
<1>0. /\ Begun \subseteq Ids /\ Uploads \subseteq Ids /\ Downloads \subseteq Ids
      /\ Uploads \cap Downloads = {}
  BY <1>1, BegunProperties
<1>a. /\ \A d \in Dirs : disk[d] # Missing => disk'[d] # Missing
      /\ \A d \in Dirs : remote[d] # Missing => remote'[d] # Missing
      /\ copyPath[j] \in Dirs
  BY <1>1, FilesStay DEF Types
<1>2. ASSUME NEW s \in Sessions, NEW d \in Dirs, ChangeDir(s, d)
      PROVE  CopyOrder(j)'
  BY <1>0, <1>1, <1>a, <1>2, CopyOrderKept DEF ChangeDir, Types, Begun, Uploads, Downloads, CopyOrder
<1>3. ASSUME NEW s \in Sessions, RequestUpload(s)
      PROVE  CopyOrder(j)'
  <2>1. /\ Len(kind) + 1 \in Ids /\ kind' = Append(kind, "upload")
        /\ client' = [client EXCEPT ![Len(kind) + 1] = "calling"]
        /\ UNCHANGED <<copies, disk>>
    BY <1>3 DEF RequestUpload
  <2>2. Len(kind) + 1 \notin Uploads /\ Uploads \subseteq Uploads'
    BY <1>1, <2>1, AskFor, BegunProperties
  <2>3. copier[j] # "none" => client'[j] = client[j] /\ j \in Uploads'
    BY <1>1, <2>1, <2>2 DEF CopyOrder, Types
  <2> QED
    BY <1>1, <1>a, <2>1, <2>3, CopyOrderKept
<1>4. ASSUME NEW s \in Sessions, RequestDownload(s)
      PROVE  CopyOrder(j)'
  BY SMTT(30), <1>0, <1>1, <1>a, <1>4, CopyOrderKept DEF RequestDownload, Types, Begun, Uploads, Downloads, CopyOrder
<1>5. ASSUME NEW s \in Sessions, TakePort(s)
      PROVE  CopyOrder(j)'
  BY <1>0, <1>1, <1>a, <1>5, CopyOrderKept DEF TakePort, AddOrDie, Types, Begun, Uploads, Downloads, CopyOrder
<1>6. ASSUME NEW s \in Sessions, MissPort(s)
      PROVE  CopyOrder(j)'
  BY <1>0, <1>1, <1>a, <1>6, CopyOrderKept DEF MissPort, Types, Begun, Uploads, Downloads, CopyOrder
<1>7. ASSUME NEW q \in Queues, Create(q)
      PROVE  CopyOrder(j)'
  BY <1>0, <1>1, <1>a, <1>7, CopyOrderKept DEF Create, Types, Begun, Uploads, Downloads, CopyOrder
<1>8. ASSUME PoolRun
      PROVE  CopyOrder(j)'
  <2> DEFINE q == Head(pool)[1]  n == Head(pool)[2]
  <2>1. Head(pool) \in Queues \X Ids /\ In(pool, Head(pool))
    BY <1>1, <1>8, InTail DEF PoolRun, Types
  <2>2. q \in Queues /\ n \in Ids /\ Pooled(q, n)
    BY <2>1 DEF Pooled
  <2>3. /\ UNCHANGED <<kind, client, copyPath, opened, sent, written, remote, disk>>
        /\ IF q = "udp" THEN copier' = [copier EXCEPT ![n] = "announcing"] ELSE UNCHANGED copier
        /\ Uploads' = Uploads
    BY <1>8 DEF PoolRun, Uploads, Begun
  <2> HIDE DEF q, n
  <2>4. CASE q = "udp" /\ j = n
    <3>1. copier[j] = "queued" /\ copier'[j] = "announcing"
      BY <1>1, <2>2, <2>3, <2>4 DEF TasksOK, Types
    <3> QED
      BY <1>1, <2>3, <3>1 DEF CopyOrder
  <2>5. CASE q # "udp" \/ j # n
    <3>1. copier'[j] = copier[j] /\ (copier[j] # "none" => j \in Uploads')
      BY <1>1, <2>2, <2>3, <2>5 DEF Types, CopyOrder
    <3> QED
      BY <1>1, <1>a, <2>3, <3>1, CopyOrderKept
  <2> QED
    BY <2>4, <2>5
<1>9. ASSUME NEW k \in Ids, Connect(k)
      PROVE  CopyOrder(j)'
  BY <1>0, <1>1, <1>a, <1>9, CopyOrderKept DEF Connect, Types, Begun, Uploads, Downloads, CopyOrder
<1>10. ASSUME NEW k \in Ids, Leave(k) \/ Break(k)
      PROVE  CopyOrder(j)'
  <2>1. CASE Leave(k)
    BY <1>0, <1>1, <1>a, <2>1, CopyOrderKept DEF Leave, Stop, Types, Begun, Uploads, Downloads, CopyOrder
  <2>2. CASE Break(k)
    BY <1>0, <1>1, <1>a, <2>2, CopyOrderKept DEF Break, Stop, Types, Begun, Uploads, Downloads, CopyOrder
  <2> QED
    BY <1>10, <2>1, <2>2
<1>11. ASSUME NEW r \in Runs, NEW k \in Ids, AcceptUpload(r, k)
      PROVE  CopyOrder(j)'
  BY SMTT(30), <1>0, <1>1, <1>a, <1>11, CopyOrderKept DEF AcceptUpload, Types, Begun, Uploads, Downloads, CopyOrder
<1>12. ASSUME NEW r \in Runs, NEW k \in Ids, AcceptNobody(r, k) \/ OpenFails(r, k)
      PROVE  CopyOrder(j)'
  <2>1. CASE AcceptNobody(r, k)
    BY <1>0, <1>1, <1>a, <2>1, CopyOrderKept DEF AcceptNobody, Types, Begun, Uploads, Downloads, CopyOrder
  <2>2. CASE OpenFails(r, k)
    BY <1>0, <1>1, <1>a, <2>2, CopyOrderKept DEF OpenFails, Types, Begun, Uploads, Downloads, CopyOrder
  <2> QED
    BY <1>12, <2>1, <2>2
<1>13. ASSUME NEW r \in Runs, NEW k \in Ids, WritePiece(r, k)
      PROVE  CopyOrder(j)'
  BY <1>0, <1>1, <1>a, <1>13, CopyOrderKept DEF WritePiece, Types, Begun, Uploads, Downloads, CopyOrder
<1>14. ASSUME NEW r \in Runs, NEW k \in Ids, FinishUpload(r, k)
      PROVE  CopyOrder(j)'
  BY SMTT(30), <1>0, <1>1, <1>a, <1>14, CopyOrderKept DEF FinishUpload, Types, Begun, Uploads, Downloads, CopyOrder
<1>15. ASSUME NEW r \in Runs, NEW k \in Ids, Call(r, k)
      PROVE  CopyOrder(j)'
  BY <1>0, <1>1, <1>a, <1>15, CopyOrderKept DEF Call, Types, Begun, Uploads, Downloads, CopyOrder
<1>16. ASSUME NEW r \in Runs, NEW k \in Ids, AcceptDownload(r, k)
      PROVE  CopyOrder(j)'
  BY <1>0, <1>1, <1>a, <1>16, CopyOrderKept DEF AcceptDownload, Types, Begun, Uploads, Downloads, CopyOrder
<1>17. ASSUME NEW r \in Runs, NEW k \in Ids, SendPiece(r, k)
      PROVE  CopyOrder(j)'
  BY <1>0, <1>1, <1>a, <1>17, CopyOrderKept DEF SendPiece, Types, Begun, Uploads, Downloads, CopyOrder
<1>18. ASSUME NEW r \in Runs, NEW k \in Ids, FinishDownload(r, k)
      PROVE  CopyOrder(j)'
  BY <1>0, <1>1, <1>a, <1>18, CopyOrderKept DEF FinishDownload, Types, Begun, Uploads, Downloads, CopyOrder
<1>19. ASSUME NEW r \in Runs, NEW k \in Ids, Reset(r, k)
      PROVE  CopyOrder(j)'
  BY <1>0, <1>1, <1>a, <1>19, CopyOrderKept DEF Reset, Types, Begun, Uploads, Downloads, CopyOrder
<1>20. ASSUME NEW k \in Ids, OpenCopy(k)
      PROVE  CopyOrder(j)'
  <2>1. /\ copier[k] \in {"announcing", "sending", "done"} /\ k \notin opened
        /\ opened' = opened \cup {k} /\ remote' = [remote EXCEPT ![copyPath[k]] = << >>]
        /\ UNCHANGED <<kind, client, copyPath, copier, sent, written, disk>> /\ Uploads' = Uploads
    BY <1>20 DEF OpenCopy, Uploads, Begun
  <2>2. CASE j = k
    <3>1. << >> # Missing
      BY EmptySeq, Constants DEF Contents
    <3>2. remote'[copyPath[k]] # Missing
      BY <1>1, <1>a, <2>1, <2>2, <3>1 DEF Types
    <3> QED
      BY <1>1, <2>1, <2>2, <3>2 DEF CopyOrder
  <2>3. CASE j # k
    BY <1>1, <1>a, <2>1, <2>3 DEF CopyOrder
  <2> QED
    BY <2>2, <2>3
<1>21. ASSUME NEW k \in Ids, OpenSource(k)
      PROVE  CopyOrder(j)'
  BY <1>0, <1>1, <1>a, <1>21, CopyOrderKept DEF OpenSource, CopierBecomes, Types, Begun, Uploads, Downloads, CopyOrder
<1>22. ASSUME NEW k \in Ids, SendTranche(k)
      PROVE  CopyOrder(j)'
  <2>1. /\ copier[k] = "sending" /\ Len(sent[k]) + 1 <= Sizes[k]
        /\ UNCHANGED <<kind, client, copyPath, opened, written, remote, disk>> /\ Uploads' = Uploads
        /\ copier' \in {[copier EXCEPT ![k] = "sending"], [copier EXCEPT ![k] = "done"]}
    BY <1>22 DEF SendTranche, CopierBecomes, Uploads, Begun
  <2>2. CASE j = k
    <3>1. copier'[k] \in {"sending", "done"} /\ sent[k] \in Contents /\ written[k] \in Nat
      BY <1>1, <2>1 DEF Types
    <3>2. disk[copyPath[k]] # Missing /\ disk[copyPath[k]] \in Contents
      BY <1>1, <2>1 DEF CopyOrder, Types
    <3>3. Len(sent'[k]) \in {Len(sent[k]), Len(sent[k]) + 1} /\ Len(sent[k]) \in Nat
      <4>1. CASE sent' = sent
        BY <1>1, <4>1, LenProperties DEF Types, Contents
      <4>2. CASE sent' # sent
        <5>1. /\ Len(sent[k]) + 1 <= Len(disk[copyPath[k]])
              /\ sent' = [sent EXCEPT ![k] = Append(@, disk[copyPath[k]][Len(sent[k]) + 1])]
          BY <1>22, <4>2 DEF SendTranche
        <5>2. Len(sent[k]) \in Nat
          BY <3>1, LenProperties DEF Contents
        <5>3. disk[copyPath[k]][Len(sent[k]) + 1] \in 0 .. Hole
          BY <3>2, <5>1, <5>2, Piece
        <5> QED
          BY <1>1, <3>1, <5>1, <5>3, AppendPiece DEF Types
      <4> QED
        BY <4>1, <4>2
    <3>4. Sizes[k] \in Nat
      BY Constants
    <3> QED
      BY <1>1, <2>1, <2>2, <3>1, <3>2, <3>3, <3>4 DEF CopyOrder
  <2>3. CASE j # k
    <3>1. copier'[j] = copier[j] /\ sent'[j] = sent[j]
      BY <1>1, <1>22, <2>1, <2>3 DEF SendTranche, Types
    <3> QED
      BY <1>1, <1>a, <2>1, <3>1 DEF CopyOrder
  <2> QED
    BY <2>2, <2>3
<1>23. ASSUME NEW k \in Ids, WriteTranche(k)
      PROVE  CopyOrder(j)'
  BY <1>0, <1>1, <1>a, <1>23, CopyOrderKept DEF WriteTranche, Types, Begun, Uploads, Downloads, CopyOrder
<1>24. ASSUME NEW k \in Ids, FinishCopy(k)
      PROVE  CopyOrder(j)'
  BY <1>0, <1>1, <1>a, <1>24, CopyOrderKept DEF FinishCopy, CopierBecomes, Types, Begun, Uploads, Downloads, CopyOrder
<1>25. ASSUME UNCHANGED vars
      PROVE  CopyOrder(j)'
  BY <1>0, <1>1, <1>a, <1>25, CopyOrderKept DEF vars, Types, Begun, Uploads, Downloads, CopyOrder
<1> QED
  BY <1>2, <1>3, <1>4, <1>5, <1>6, <1>7, <1>8, <1>9, <1>10, <1>11, <1>12, <1>13, <1>14, <1>15, <1>16, <1>17, <1>18, <1>19, <1>20, <1>21, <1>22, <1>23, <1>24, <1>25
     DEF Next, Session, Answer, Run, Copy

-----------------------------------------------------------------------------
(* The pool. *)

LEMMA TypeInvNext == TypeInv /\ [Next]_vars => TypeInv'
  BY TypesNext, TasksNext, TransferNext, FilesNext, CopyOrderNext DEF TypeInv, ControlOK, Ids

\* Types, and the order in which each transfer is accepted, queued, run and ended,
\* hold always: the strengthening every proof about transfers rests on
\* (Server 66-85, ServerUpload 28-123, ServerDownload 54-131).
THEOREM TypeInvAlways == Spec => []TypeInv
<1>1. Init => TypeInv
  BY InitType
<1>2. TypeInv /\ [Next]_vars => TypeInv'
  BY TypeInvNext
<1> QED
  BY <1>1, <1>2, PTL DEF Spec

PoolOK == Cardinality(InPool) + Cardinality(Copying) <= PoolThreads

\* No other step takes a thread of the pool.
LEMMA PoolKept ==
  ASSUME Types, [Next]_vars, ~PoolRun
  PROVE  InPool' \subseteq InPool /\ Copying' \subseteq Copying
<1> SUFFICES ASSUME NEW j \in Ids
             PROVE  (j \in InPool' => j \in InPool) /\ (j \in Copying' => j \in Copying)
  BY DEF InPool, Copying
<1> DEFINE Keeps == (j \in InPool' => j \in InPool) /\ (j \in Copying' => j \in Copying)
<1> USE DEF sessions, tasks, transfers, copies, history, InPool, Copying, Types
<1>1. ASSUME NEW s \in Sessions, NEW d \in Dirs, ChangeDir(s, d)
      PROVE  Keeps
  BY <1>1 DEF ChangeDir
<1>2. ASSUME NEW s \in Sessions, RequestUpload(s)
      PROVE  Keeps
  BY <1>2 DEF RequestUpload, AddOrDie, Runs
<1>3. ASSUME NEW s \in Sessions, RequestDownload(s)
      PROVE  Keeps
  BY <1>3 DEF RequestDownload
<1>4. ASSUME NEW s \in Sessions, TakePort(s)
      PROVE  Keeps
  BY <1>4 DEF TakePort, AddOrDie, Runs
<1>5. ASSUME NEW s \in Sessions, MissPort(s)
      PROVE  Keeps
  BY <1>5 DEF MissPort
<1>6. ASSUME NEW q \in Queues, Create(q)
      PROVE  Keeps
  BY <1>6 DEF Create, First, Runs
<1>7. ASSUME NEW k \in Ids, Connect(k)
      PROVE  Keeps
  BY <1>7 DEF Connect
<1>8. ASSUME NEW k \in Ids, Leave(k) \/ Break(k)
      PROVE  Keeps
  BY <1>8 DEF Leave, Break, Stop, Runs
<1>9. ASSUME NEW r \in Runs, NEW k \in Ids, AcceptUpload(r, k)
      PROVE  Keeps
  BY <1>9 DEF AcceptUpload, Become
<1>10. ASSUME NEW r \in Runs, NEW k \in Ids, AcceptNobody(r, k) \/ OpenFails(r, k)
      PROVE  Keeps
  <2>1. CASE AcceptNobody(r, k)
    BY <2>1 DEF AcceptNobody, Become
  <2>2. CASE OpenFails(r, k)
    BY <2>2 DEF OpenFails, Become
  <2> QED
    BY <1>10, <2>1, <2>2
<1>11. ASSUME NEW r \in Runs, NEW k \in Ids, WritePiece(r, k)
      PROVE  Keeps
  BY <1>11 DEF WritePiece, Become
<1>12. ASSUME NEW r \in Runs, NEW k \in Ids, FinishUpload(r, k)
      PROVE  Keeps
  BY <1>12 DEF FinishUpload, Become
<1>13. ASSUME NEW r \in Runs, NEW k \in Ids, Call(r, k)
      PROVE  Keeps
  BY <1>13 DEF Call, Become
<1>14. ASSUME NEW r \in Runs, NEW k \in Ids, AcceptDownload(r, k)
      PROVE  Keeps
  BY <1>14 DEF AcceptDownload, Become
<1>15. ASSUME NEW r \in Runs, NEW k \in Ids, SendPiece(r, k)
      PROVE  Keeps
  <2>1. copier' = copier /\ (run' = run \/ run' = [run EXCEPT ![r][k] = "done"])
    BY <1>15 DEF SendPiece, Become
  <2>2. CASE run' = run
    BY <2>1, <2>2
  <2>3. CASE run' = [run EXCEPT ![r][k] = "done"]
    BY <2>1, <2>3
  <2> QED
    BY <2>1, <2>2, <2>3
<1>16. ASSUME NEW r \in Runs, NEW k \in Ids, FinishDownload(r, k)
      PROVE  Keeps
  BY <1>16 DEF FinishDownload, Become
<1>17. ASSUME NEW r \in Runs, NEW k \in Ids, Reset(r, k)
      PROVE  Keeps
  BY <1>17 DEF Reset, Become
<1>18. ASSUME NEW k \in Ids, OpenCopy(k)
      PROVE  Keeps
  BY <1>18 DEF OpenCopy
<1>19. ASSUME NEW k \in Ids, OpenSource(k)
      PROVE  Keeps
  BY <1>19 DEF OpenSource, CopierBecomes
<1>20. ASSUME NEW k \in Ids, SendTranche(k)
      PROVE  Keeps
  BY <1>20 DEF SendTranche, CopierBecomes
<1>21. ASSUME NEW k \in Ids, WriteTranche(k)
      PROVE  Keeps
  BY <1>21 DEF WriteTranche
<1>22. ASSUME NEW k \in Ids, FinishCopy(k)
      PROVE  Keeps
  BY <1>22 DEF FinishCopy, CopierBecomes
<1>23. ASSUME UNCHANGED vars
      PROVE  Keeps
  BY <1>23 DEF vars
<1> QED
  BY <1>1, <1>2, <1>3, <1>4, <1>5, <1>6, <1>7, <1>8, <1>9, <1>10, <1>11, <1>12, <1>13, <1>14, <1>15, <1>16, <1>17, <1>18, <1>19, <1>20, <1>21, <1>22, <1>23
     DEF Next, Session, Answer, Run, Copy

LEMMA OneMore ==
  ASSUME NEW S, NEW T, NEW x, IsFiniteSet(S), T \subseteq S \cup {x}
  PROVE  Cardinality(T) <= Cardinality(S) + 1
<1>1. /\ IsFiniteSet(S \cup {x}) /\ Cardinality(S) \in Nat
      /\ Cardinality(S \cup {x}) <= Cardinality(S) + 1
  <2>1. Cardinality(S) \in Nat
    BY FS_CardinalityType
  <2>2. /\ IsFiniteSet(S \cup {x})
        /\ Cardinality(S \cup {x}) = IF x \in S THEN Cardinality(S) ELSE Cardinality(S) + 1
    BY FS_AddElement
  <2> QED
    BY <2>1, <2>2
<1>2. Cardinality(T) <= Cardinality(S \cup {x})
  BY <1>1, FS_Subset
<1>3. Cardinality(T) \in Nat /\ Cardinality(S \cup {x}) \in Nat
  BY <1>1, FS_Subset, FS_CardinalityType
<1> QED
  BY <1>1, <1>2, <1>3

\* The pool has room for the task it runs.
LEMMA PoolNext == TypeInv /\ PoolOK /\ [Next]_vars => PoolOK'
<1> SUFFICES ASSUME TypeInv, PoolOK, [Next]_vars PROVE PoolOK'
  OBVIOUS
<1>1. Types /\ Types' /\ PoolThreads \in Nat /\ MaxTransfers \in Nat
  BY TypesNext, TransfersAssumption DEF TypeInv
<1>2. IsFiniteSet(Ids)
  BY <1>1, FS_Interval DEF Ids
<1>3. /\ IsFiniteSet(InPool) /\ IsFiniteSet(Copying)
      /\ IsFiniteSet(InPool') /\ IsFiniteSet(Copying')
  BY <1>2, FS_Subset DEF InPool, Copying
<1>4. /\ Cardinality(InPool) \in Nat /\ Cardinality(Copying) \in Nat
      /\ Cardinality(InPool') \in Nat /\ Cardinality(Copying') \in Nat
  BY <1>3, FS_CardinalityType
<1>5. CASE ~PoolRun
  <2>1. Cardinality(InPool') <= Cardinality(InPool) /\ Cardinality(Copying') <= Cardinality(Copying)
    BY <1>1, <1>3, <1>5, PoolKept, FS_Subset
  <2> QED
    BY <1>1, <1>4, <2>1 DEF PoolOK
<1>6. CASE PoolRun
  <2> DEFINE n == Head(pool)[2]
  <2>1. Head(pool) \in Queues \X Ids
    BY <1>1, <1>6, InTail DEF PoolRun, Types
  <2>2. n \in Ids
    BY <2>1
  <2>3. Cardinality(InPool) + Cardinality(Copying) < PoolThreads
    BY <1>6 DEF PoolRun
  <2>4. CASE Head(pool)[1] = "udp"
    <3>1. run' = run /\ copier' = [copier EXCEPT ![n] = "announcing"]
      BY <1>6, <2>4 DEF PoolRun
    <3>2. InPool' = InPool /\ Copying' \subseteq Copying \cup {n}
      BY <1>1, <3>1 DEF InPool, Copying, Types
    <3>3. Cardinality(Copying') <= Cardinality(Copying) + 1
      BY <1>3, <1>4, <3>2, OneMore
    <3> QED
      BY <1>1, <1>4, <2>3, <3>2, <3>3 DEF PoolOK
  <2>5. CASE Head(pool)[1] # "udp"
    <3>1. copier' = copier /\ run' = [run EXCEPT !["pool"][n] = First(n)]
      BY <1>6, <2>5 DEF PoolRun
    <3>2. Copying' = Copying /\ InPool' \subseteq InPool \cup {n}
      BY <1>1, <3>1 DEF InPool, Copying, Types, Runs
    <3>3. Cardinality(InPool') <= Cardinality(InPool) + 1
      BY <1>3, <1>4, <3>2, OneMore
    <3> QED
      BY <1>1, <1>4, <2>3, <3>2, <3>3 DEF PoolOK
  <2> QED
    BY <2>4, <2>5
<1> QED
  BY <1>5, <1>6

\* The types are right and the queues and the pool keep their limits
\* (Server 66-68, 85).
THEOREM TransfersTypeCorrect == Spec => []TypeOK
<1>1. Init => PoolOK
  <2> SUFFICES ASSUME Init PROVE PoolOK
    OBVIOUS
  <2>1. InPool = {} /\ Copying = {}
    BY DEF Init, InPool, Copying, Runs
  <2> QED
    BY <2>1, FS_EmptySet, TransfersAssumption DEF PoolOK
<1>2. TypeInv /\ PoolOK /\ [Next]_vars => PoolOK'
  BY PoolNext
<1>3. TypeInv /\ PoolOK => TypeOK
  BY DEF TypeInv, TypeOK, PoolOK
<1> QED
  BY <1>1, <1>2, <1>3, TypeInvAlways, PTL DEF Spec

-----------------------------------------------------------------------------
(* The files of the transfers. *)

\* A file that is not disturbed is what its newest upload has written of it, and
\* nobody else writes it.
FileOK(d) ==
  LET u == latest[d] IN
  Undisturbed(d, {"written", "torn"}) =>
    /\ Writers(d) \subseteq {u}
    /\ disk[d] # Missing =>
         disk[d] = Part(u, IF u \in Writers(d) THEN at[u] ELSE Sizes[u])

\* A download under way reads a whole file, which stays.
ReadOK(k) ==
  LET u == latest[path[k]] IN
  Undisturbed(path[k], {"written", "torn", "read"}) =>
    /\ client[k] = "held" =>
         /\ Writers(path[k]) = {}
         /\ size[k] = Sizes[u] /\ at[k] <= size[k] /\ got[k] = Part(u, at[k])
    /\ client[k] = "ok" => \E o \in Uploads \cup {0} : got[k] = Whole(o)

\* A copy under way has sent and written a part of the newest upload, which is
\* whole and stays.
CopyOK(d) ==
  LET u == latest[d] IN
  Undisturbed(d, {"written", "torn", "copied", "strayed", "dropped"}) =>
    /\ CopiesOf(d) \subseteq {u}
    /\ Writers(d) # {} => CopiesOf(d) = {}
    /\ Writers(d) = {} /\ CopiesOf(d) = {} => remote[d] = disk[d]
    /\ u \in CopiesOf(d) =>
         /\ sent[u] = Part(u, Len(sent[u]))
         /\ u \in opened => remote[d] = Part(u, written[u])
         /\ copier[u] = "done" => Len(sent[u]) = Sizes[u]
-----------------------------------------------------------------------------
(* Who writes and reads, and what steps do about it. *)

LEMMA HeldWrites ==
  ASSUME TypeInv
  PROVE  /\ \A d \in Dirs : Writers(d) = {k \in Uploads : client[k] = "held" /\ path[k] = d}
         /\ \A d \in Dirs : Readers(d) = {k \in Downloads : client[k] = "held" /\ path[k] = d}
<1>1. Uploads \subseteq Ids /\ Downloads \subseteq Ids
  BY BegunProperties DEF TypeInv
<1> QED
  BY <1>1 DEF TypeInv, ControlOK, TransferOK, Writers, Readers

LEMMA HeldWritesNext ==
  ASSUME TypeInv, [Next]_vars
  PROVE  /\ TypeInv'
         /\ \A d \in Dirs : Writers(d)' = {k \in Uploads' : client'[k] = "held" /\ path'[k] = d}
         /\ Uploads \subseteq Ids /\ Downloads \subseteq Ids
         /\ Uploads' \subseteq Ids /\ Downloads' \subseteq Ids
<1>1. TypeInv'
  BY TypeInvNext
<1>2. /\ Uploads' \subseteq Ids /\ Downloads' \subseteq Ids
      /\ Uploads \subseteq Ids /\ Downloads \subseteq Ids
  <2>1. Types' /\ Types
    BY <1>1 DEF TypeInv
  <2>2. Len(kind') <= MaxTransfers /\ Len(kind') \in Nat
    BY <2>1, LenProperties DEF Types
  <2> QED
    BY <2>1, <2>2, BegunProperties, Constants DEF Uploads, Downloads, Begun, Ids
<1> QED
  BY <1>1, <1>2 DEF TypeInv, ControlOK, TransferOK, Writers

LEMMA UndisturbedMeans ==
  /\ \A d \in Dirs, R \in SUBSET Reasons :
       Undisturbed(d, R) <=> \A why \in R : <<why, d>> \notin upset
  /\ \A d \in Dirs, R \in SUBSET Reasons :
       Undisturbed(d, R)' <=> \A why \in R : <<why, d>> \notin upset'
  BY DEF Undisturbed

\* What is no step of an upload's own leaves uploads as they are.
Quiet ==
  /\ UNCHANGED <<disk, latest>> /\ upset \subseteq upset'
  /\ \A k \in Ids :
       /\ (k \in Uploads' /\ client'[k] = "held") <=> (k \in Uploads /\ client[k] = "held")
       /\ (k \in Uploads /\ client[k] = "held") => path'[k] = path[k] /\ at'[k] = at[k]

UploadStep ==
  \E k \in Ids :
    \/ k \in Uploads /\ client[k] = "held" /\ (Leave(k) \/ Break(k))
    \/ \E r \in Runs : AcceptUpload(r, k) \/ WritePiece(r, k) \/ FinishUpload(r, k)

LEMMA QuietSteps == TypeInv /\ [Next]_vars => Quiet \/ UploadStep
<1> SUFFICES ASSUME TypeInv, [Next]_vars PROVE Quiet \/ UploadStep
  OBVIOUS
<1> USE DEF sessions, tasks, transfers, copies, history
<1>1. Types /\ TasksOK /\ FilesExist /\ \A k \in Ids : TransferOK(k) /\ CopyOrder(k)
  BY DEF TypeInv, ControlOK
<1>0. /\ Begun \subseteq Ids /\ Uploads \subseteq Ids /\ Downloads \subseteq Ids
      /\ Uploads \cap Downloads = {}
  BY <1>1, BegunProperties
<1>2. ASSUME NEW s \in Sessions, NEW d \in Dirs, ChangeDir(s, d)
      PROVE  Quiet
  BY <1>0, <1>1, <1>2 DEF ChangeDir, Types, Quiet, Begun, Uploads, Downloads
<1>3. ASSUME NEW s \in Sessions, RequestUpload(s)
      PROVE  Quiet
  <2> DEFINE n == Len(kind) + 1
  <2>1. /\ n \in Ids /\ kind' = Append(kind, "upload") /\ client' = [client EXCEPT ![n] = "calling"]
        /\ path' = path
        /\ UNCHANGED <<disk, latest, upset, at>>
    BY <1>3 DEF RequestUpload
  <2>2. n \notin Begun /\ Uploads' = Uploads \cup (IF "upload" = "upload" THEN {n} ELSE {})
    BY <1>1, <2>1, AskFor
  <2> HIDE DEF n
  <2>3. n \notin Uploads /\ client'[n] = "calling"
    BY <1>1, <2>1, <2>2 DEF Uploads, Types
  <2>4. \A k \in Ids : k # n => client'[k] = client[k] /\ path'[k] = path[k]
    BY <1>1, <2>1 DEF Types
  <2> QED
    BY <2>1, <2>2, <2>3, <2>4 DEF Quiet
<1>4. ASSUME NEW s \in Sessions, RequestDownload(s)
      PROVE  Quiet
  <2> DEFINE n == Len(kind) + 1
  <2>1. /\ n \in Ids /\ kind' = Append(kind, "download") /\ client' = [client EXCEPT ![n] = "asking"]
        /\ path' = [path EXCEPT ![n] = dir]
        /\ UNCHANGED <<disk, latest, upset, at>>
    BY <1>4 DEF RequestDownload
  <2>2. n \notin Begun /\ Uploads' = Uploads \cup (IF "download" = "upload" THEN {n} ELSE {})
    BY <1>1, <2>1, AskFor
  <2> HIDE DEF n
  <2>3. n \notin Uploads /\ client'[n] = "asking"
    BY <1>1, <2>1, <2>2 DEF Uploads, Types
  <2>4. \A k \in Ids : k # n => client'[k] = client[k] /\ path'[k] = path[k]
    BY <1>1, <2>1 DEF Types
  <2> QED
    BY <2>1, <2>2, <2>3, <2>4 DEF Quiet
<1>5. ASSUME NEW s \in Sessions, TakePort(s)
      PROVE  Quiet
  BY <1>0, <1>1, <1>5 DEF TakePort, AddOrDie, Types, Quiet, Begun, Uploads, Downloads
<1>6. ASSUME NEW s \in Sessions, MissPort(s)
      PROVE  Quiet
  BY <1>0, <1>1, <1>6 DEF MissPort, Types, Quiet, Begun, Uploads, Downloads
<1>7. ASSUME NEW q \in Queues, Create(q)
      PROVE  Quiet
  BY <1>0, <1>1, <1>7 DEF Create, Types, Quiet, Begun, Uploads, Downloads
<1>8. ASSUME PoolRun
      PROVE  Quiet
  BY <1>0, <1>1, <1>8 DEF PoolRun, Types, Quiet, Begun, Uploads, Downloads
<1>9. ASSUME NEW k \in Ids, Connect(k)
      PROVE  Quiet
  BY <1>0, <1>1, <1>9 DEF Connect, Types, Quiet, Begun, Uploads, Downloads
<1>10. ASSUME NEW k \in Ids, Leave(k) \/ Break(k), ~(k \in Uploads /\ client[k] = "held")
      PROVE  Quiet
  <2>1. CASE Leave(k)
    BY <1>0, <1>1, <1>10, <2>1 DEF Leave, Stop, Types, Quiet, Begun, Uploads, Downloads, TransferOK
  <2>2. CASE Break(k)
    BY <1>0, <1>1, <1>10, <2>2 DEF Break, Stop, Types, Quiet, Begun, Uploads, Downloads, TransferOK
  <2> QED
    BY <1>10, <2>1, <2>2
<1>12. ASSUME NEW r \in Runs, NEW k \in Ids, AcceptNobody(r, k) \/ OpenFails(r, k)
      PROVE  Quiet
  BY <1>0, <1>1, <1>12 DEF AcceptNobody, OpenFails, Types, Quiet, Begun, Uploads, Downloads
<1>15. ASSUME NEW r \in Runs, NEW k \in Ids, Call(r, k)
      PROVE  Quiet
  BY <1>0, <1>1, <1>15 DEF Call, Types, Quiet, Begun, Uploads, Downloads
<1>16. ASSUME NEW r \in Runs, NEW k \in Ids, AcceptDownload(r, k)
      PROVE  Quiet
  BY <1>0, <1>1, <1>16 DEF AcceptDownload, Types, Quiet, Begun, Uploads, Downloads
<1>17. ASSUME NEW r \in Runs, NEW k \in Ids, SendPiece(r, k)
      PROVE  Quiet
  BY <1>0, <1>1, <1>17 DEF SendPiece, Types, Quiet, Begun, Uploads, Downloads
<1>18. ASSUME NEW r \in Runs, NEW k \in Ids, FinishDownload(r, k)
      PROVE  Quiet
  BY <1>0, <1>1, <1>18 DEF FinishDownload, Types, Quiet, Begun, Uploads, Downloads
<1>19. ASSUME NEW r \in Runs, NEW k \in Ids, Reset(r, k)
      PROVE  Quiet
  BY <1>0, <1>1, <1>19 DEF Reset, Types, Quiet, Begun, Uploads, Downloads
<1>20. ASSUME NEW k \in Ids, OpenCopy(k)
      PROVE  Quiet
  BY <1>0, <1>1, <1>20 DEF OpenCopy, Types, Quiet, Begun, Uploads, Downloads
<1>21. ASSUME NEW k \in Ids, OpenSource(k)
      PROVE  Quiet
  BY <1>0, <1>1, <1>21 DEF OpenSource, CopierBecomes, Types, Quiet, Begun, Uploads, Downloads
<1>22. ASSUME NEW k \in Ids, SendTranche(k)
      PROVE  Quiet
  BY <1>0, <1>1, <1>22 DEF SendTranche, CopierBecomes, Types, Quiet, Begun, Uploads, Downloads
<1>23. ASSUME NEW k \in Ids, WriteTranche(k)
      PROVE  Quiet
  BY <1>0, <1>1, <1>23 DEF WriteTranche, Types, Quiet, Begun, Uploads, Downloads
<1>24. ASSUME NEW k \in Ids, FinishCopy(k)
      PROVE  Quiet
  BY <1>0, <1>1, <1>24 DEF FinishCopy, CopierBecomes, Types, Quiet, Begun, Uploads, Downloads
<1>25. ASSUME UNCHANGED vars
      PROVE  Quiet
  BY <1>0, <1>1, <1>25 DEF vars, Types, Quiet, Begun, Uploads, Downloads
<1> QED
  BY <1>2, <1>3, <1>4, <1>5, <1>6, <1>7, <1>8, <1>9, <1>10, <1>12, <1>15, <1>16, <1>17, <1>18, <1>19, <1>20, <1>21, <1>22, <1>23, <1>24, <1>25
     DEF Next, Session, Answer, Run, Copy, UploadStep

-----------------------------------------------------------------------------
(* What an upload leaves. *)

FilesOK == \A d \in Dirs : FileOK(d)

LEMMA EmptyPart == \A k : Part(k, 0) = << >>
  BY DEF Part

\* A directory whose files and writers a step leaves alone.
LEMMA FileKept ==
  ASSUME NEW d \in Dirs, FileOK(d), upset \subseteq upset', latest'[d] = latest[d],
         disk'[d] = disk[d], Writers(d)' = Writers(d),
         \A k \in Writers(d) : at'[k] = at[k]
  PROVE  FileOK(d)'
<1>1. Undisturbed(d, {"written", "torn"})' => Undisturbed(d, {"written", "torn"})
  BY UndisturbedMeans DEF Reasons
<1> QED
  BY <1>1 DEF FileOK

\* What the four steps of an upload do, in terms of who is held.
LEMMA AcceptUploadDoes ==
  ASSUME TypeInv, NEW r \in Runs, NEW k \in Ids, AcceptUpload(r, k)
  PROVE  /\ k \in Uploads /\ Uploads' = Uploads /\ Downloads' = Downloads /\ client[k] = "connected"
         /\ dir \in Dirs /\ at' = at /\ at[k] = 0 /\ upset \subseteq upset'
         /\ client'[k] = "held" /\ path'[k] = dir
         /\ \A j \in Ids : j # k => client'[j] = client[j] /\ path'[j] = path[j]
         /\ disk'[dir] = << >> /\ latest'[dir] = k
         /\ \A d \in Dirs : d # dir => disk'[d] = disk[d] /\ latest'[d] = latest[d]
         /\ Writers(dir) # {} => <<"written", dir>> \in upset'
         /\ Readers(dir) # {} => <<"read", dir>> \in upset'
         /\ CopiesOf(dir) # {} => <<"copied", dir>> \in upset'
         /\ UNCHANGED <<kind, size, got, copies>>
<1> USE DEF sessions, tasks, transfers, history
<1>1. Types /\ TransferOK(k)
  BY DEF TypeInv, ControlOK
<1>2. /\ k \in Uploads /\ Uploads' = Uploads /\ Downloads' = Downloads /\ client[k] = "connected"
      /\ at' = at /\ at[k] = 0 /\ upset \subseteq upset' /\ UNCHANGED <<kind, size, got, copies>>
  BY <1>1 DEF AcceptUpload, TransferOK, Uploads, Downloads, Begun
<1>3. /\ dir \in Dirs /\ client'[k] = "held" /\ path'[k] = dir
      /\ \A j \in Ids : j # k => client'[j] = client[j] /\ path'[j] = path[j]
      /\ disk'[dir] = << >> /\ latest'[dir] = k
      /\ \A d \in Dirs : d # dir => disk'[d] = disk[d] /\ latest'[d] = latest[d]
  BY <1>1 DEF AcceptUpload, Types
<1>4. upset' = upset \cup {<<"written", dir>> : o \in Writers(dir)}
                     \cup {<<"read", dir>> : o \in Readers(dir)}
                     \cup {<<"copied", dir>> : o \in CopiesOf(dir)}
  BY DEF AcceptUpload
<1> QED
  BY <1>2, <1>3, <1>4

LEMMA WritePieceDoes ==
  ASSUME TypeInv, NEW r \in Runs, NEW k \in Ids, WritePiece(r, k)
  PROVE  /\ k \in Uploads /\ Uploads' = Uploads /\ Downloads' = Downloads
         /\ client[k] = "held" /\ path[k] \in Dirs /\ at[k] \in Nat /\ at'[k] = at[k] + 1
         /\ \A j \in Ids : j # k => at'[j] = at[j]
         /\ disk'[path[k]] = Put(disk[path[k]], at[k] + 1, k) /\ disk[path[k]] # Missing
         /\ \A d \in Dirs : d # path[k] => disk'[d] = disk[d]
         /\ UNCHANGED <<kind, path, client, size, got, copies, latest, upset>>
<1> USE DEF sessions, tasks, transfers, history
<1>1. Types /\ FilesExist
  BY DEF TypeInv, ControlOK
<1> QED
  BY <1>1 DEF WritePiece, Types, FilesExist, Uploads, Downloads, Begun

LEMMA FinishUploadDoes ==
  ASSUME TypeInv, NEW r \in Runs, NEW k \in Ids, FinishUpload(r, k)
  PROVE  /\ k \in Uploads /\ Uploads' = Uploads /\ Downloads' = Downloads
         /\ client[k] = "held" /\ client'[k] = "ok" /\ at[k] = Sizes[k]
         /\ \A j \in Ids : j # k => client'[j] = client[j]
         /\ upset \subseteq upset' /\ path[k] \in Dirs /\ dir \in Dirs
         /\ UNCHANGED <<kind, path, at, size, got, disk, latest, opened, sent, written, remote>>
<1> USE DEF sessions, tasks, transfers, history
<1>1. Types
  BY DEF TypeInv
<1> QED
  BY <1>1 DEF FinishUpload, Types, Uploads, Downloads, Begun

LEMMA LeaveUploadDoes ==
  ASSUME TypeInv, NEW k \in Ids, k \in Uploads, client[k] = "held", Leave(k) \/ Break(k)
  PROVE  /\ Uploads' = Uploads /\ Downloads' = Downloads /\ client'[k] \in {"gone", "unserved"}
         /\ \A j \in Ids : j # k => client'[j] = client[j]
         /\ path[k] \in Dirs /\ upset' = upset \cup {<<"torn", path[k]>>}
         /\ UNCHANGED <<kind, path, at, size, got, disk, copies, latest>>
<1> USE DEF sessions, tasks, transfers, history
<1>1. Types /\ TransferOK(k)
  BY DEF TypeInv, ControlOK
<1>2. Serving(k)
  BY <1>1 DEF TransferOK
<1> QED
  BY <1>1, <1>2 DEF Leave, Break, Stop, Types, Uploads, Downloads, Begun

LEMMA FilesOKNext == TypeInv /\ FilesOK /\ [Next]_vars => FilesOK'
<1> SUFFICES ASSUME TypeInv, FilesOK, [Next]_vars, NEW d \in Dirs
             PROVE  FileOK(d)'
  BY DEF FilesOK
<1>1. FileOK(d) /\ Writers(d) = {k \in Uploads : client[k] = "held" /\ path[k] = d}
  BY HeldWrites DEF FilesOK
<1>2. Writers(d)' = {k \in Uploads' : client'[k] = "held" /\ path'[k] = d}
  BY HeldWritesNext
<1>3. Uploads \subseteq Ids /\ Uploads' \subseteq Ids
  BY HeldWritesNext
<1>4. CASE Quiet
  BY <1>1, <1>2, <1>3, <1>4, FileKept DEF Quiet
<1>5. ASSUME NEW r \in Runs, NEW k \in Ids, AcceptUpload(r, k)
      PROVE  FileOK(d)'
  <2>1. CASE d = dir
    <3>1. CASE Writers(d) = {}
      <4>1. Writers(d)' = {k} /\ latest'[d] = k /\ disk'[d] = << >> /\ at'[k] = 0
        BY <1>1, <1>2, <1>3, <1>5, <2>1, <3>1, AcceptUploadDoes
      <4> QED
        BY <4>1, EmptyPart DEF FileOK
    <3>2. CASE Writers(d) # {}
      <4>1. <<"written", d>> \in upset'
        BY <1>5, <2>1, <3>2, AcceptUploadDoes
      <4> QED
        BY <4>1, UndisturbedMeans DEF FileOK, Reasons
    <3> QED
      BY <3>1, <3>2
  <2>2. CASE d # dir
    <3>1. Writers(d)' = Writers(d)
      BY <1>1, <1>2, <1>3, <1>5, <2>2, AcceptUploadDoes
    <3> QED
      BY <1>1, <1>5, <2>2, <3>1, AcceptUploadDoes, FileKept
  <2> QED
    BY <2>1, <2>2
<1>6. ASSUME NEW r \in Runs, NEW k \in Ids, WritePiece(r, k)
      PROVE  FileOK(d)'
  <2>1. Writers(d)' = Writers(d)
    BY <1>1, <1>2, <1>6, WritePieceDoes
  <2>2. CASE d = path[k]
    <3>1. SUFFICES ASSUME Undisturbed(d, {"written", "torn"})' PROVE FileOK(d)'
      BY DEF FileOK
    <3>2. Undisturbed(d, {"written", "torn"}) /\ k \in Writers(d) /\ latest'[d] = latest[d]
      BY <1>1, <1>6, <2>2, <3>1, WritePieceDoes DEF Undisturbed
    <3>3. Writers(d) \subseteq {k} /\ latest[d] = k /\ disk[d] = Part(k, at[k])
      BY <1>1, <1>6, <2>2, <3>2, WritePieceDoes DEF FileOK
    <3>4. disk'[d] = Part(k, at[k] + 1) /\ at'[k] = at[k] + 1
      BY <1>6, <2>2, <3>3, WritePieceDoes, PutPart, Constants
    <3> QED
      BY <2>1, <3>2, <3>3, <3>4 DEF FileOK
  <2>3. CASE d # path[k]
    <3>1. \A j \in Writers(d) : at'[j] = at[j]
      BY <1>1, <1>3, <1>6, <2>3, WritePieceDoes
    <3> QED
      BY <1>1, <1>6, <2>1, <2>3, <3>1, WritePieceDoes, FileKept
  <2> QED
    BY <2>2, <2>3
<1>7. ASSUME NEW r \in Runs, NEW k \in Ids, FinishUpload(r, k)
      PROVE  FileOK(d)'
  <2>1. Writers(d)' = Writers(d) \ {k}
    BY <1>1, <1>2, <1>3, <1>7, FinishUploadDoes
  <2>2. CASE d = path[k]
    <3>1. SUFFICES ASSUME Undisturbed(d, {"written", "torn"})' PROVE FileOK(d)'
      BY DEF FileOK
    <3>2. Undisturbed(d, {"written", "torn"}) /\ k \in Writers(d) /\ latest'[d] = latest[d]
      BY <1>1, <1>7, <2>2, <3>1, FinishUploadDoes DEF Undisturbed
    <3>3. Writers(d) \subseteq {k} /\ latest[d] = k
      BY <1>1, <3>2 DEF FileOK
    <3>4. disk[d] # Missing => disk[d] = Part(k, Sizes[k])
      BY <1>1, <1>7, <3>2, <3>3, FinishUploadDoes DEF FileOK
    <3> QED
      BY <1>7, <2>1, <3>2, <3>3, <3>4, FinishUploadDoes DEF FileOK
  <2>3. CASE d # path[k]
    <3>1. Writers(d)' = Writers(d)
      BY <1>1, <2>1, <2>3
    <3> QED
      BY <1>1, <1>7, <3>1, FinishUploadDoes, FileKept
  <2> QED
    BY <2>2, <2>3
<1>8. ASSUME NEW k \in Ids, k \in Uploads, client[k] = "held", Leave(k) \/ Break(k)
      PROVE  FileOK(d)'
  <2>1. CASE d = path[k]
    <3>1. <<"torn", d>> \in upset'
      BY <1>8, <2>1, LeaveUploadDoes
    <3> QED
      BY <3>1, UndisturbedMeans DEF FileOK, Reasons
  <2>2. CASE d # path[k]
    <3>1. Writers(d)' = Writers(d)
      BY <1>1, <1>2, <1>3, <1>8, <2>2, LeaveUploadDoes
    <3> QED
      BY <1>1, <1>8, <3>1, LeaveUploadDoes, FileKept
  <2> QED
    BY <2>1, <2>2
<1> QED
  BY <1>4, <1>5, <1>6, <1>7, <1>8, QuietSteps DEF UploadStep

LEMMA InitFiles == Init => FilesOK
<1> SUFFICES ASSUME Init, NEW d \in Dirs PROVE FileOK(d)
  BY DEF FilesOK
<1>1. Uploads = {} /\ Writers(d) = {}
  BY EmptySeq DEF Init, Uploads, Begun, Writers
<1>2. 0 \in 0 .. MaxTransfers
  BY Constants
<1>3. disk[d] # Missing => disk[d] = Part(0, Sizes[0])
  BY <1>2, WholeContents DEF Init
<1> QED
  BY <1>1, <1>3 DEF FileOK, Init

\* A file nobody writes is, whole, the upload that opened it last, unless two
\* uploads wrote it at once or one was cut off in the middle (ServerUpload 79-113).
THEOREM FileIsNewestAlways == Spec => []FileIsNewest
<1>1. Init => FilesOK
  BY InitFiles
<1>2. TypeInv /\ FilesOK /\ [Next]_vars => FilesOK'
  BY FilesOKNext
<1>3. TypeInv /\ FilesOK => FileIsNewest
  <2> SUFFICES ASSUME TypeInv, FilesOK, NEW d \in Dirs, disk[d] # Missing, Writers(d) = {},
                      Undisturbed(d, {"written", "torn"})
               PROVE  disk[d] = Whole(latest[d])
    BY DEF FileIsNewest
  <2>1. disk[d] = Part(latest[d], Sizes[latest[d]])
    BY DEF FilesOK, FileOK
  <2>2. latest[d] \in 0 .. MaxTransfers
    BY DEF TypeInv, Types
  <2> QED
    BY <2>1, <2>2, WholeContents
<1> QED
  BY <1>1, <1>2, <1>3, TypeInvAlways, PTL DEF Spec

-----------------------------------------------------------------------------
(* What a download reads. *)

ReadsOK == \A k \in Downloads : ReadOK(k)

\* What no step of a download's own leaves it as it is, or without its client.
DownloadStep(j) == \E r \in Runs : AcceptDownload(r, j) \/ SendPiece(r, j) \/ FinishDownload(r, j)

DownloadKept(j) ==
  /\ UNCHANGED <<path[j], size[j], at[j], got[j]>>
  /\ client'[j] = client[j] \/ client'[j] \notin {"held", "ok"}

LEMMA DownloadSteps ==
  ASSUME TypeInv, [Next]_vars, NEW j \in Ids, j \in Downloads
  PROVE  DownloadKept(j) \/ DownloadStep(j)
<1> USE DEF sessions, tasks, transfers, copies, history
<1>1. Types /\ TasksOK /\ FilesExist /\ \A k \in Ids : TransferOK(k) /\ CopyOrder(k)
  BY DEF TypeInv, ControlOK
<1>0. /\ Begun \subseteq Ids /\ Uploads \subseteq Ids /\ Downloads \subseteq Ids
      /\ Uploads \cap Downloads = {}
  BY <1>1, BegunProperties
<1>2. ASSUME NEW s \in Sessions, NEW d \in Dirs, ChangeDir(s, d)
      PROVE  DownloadKept(j)
  BY <1>0, <1>1, <1>2 DEF ChangeDir, Types, DownloadKept, Uploads, Downloads
<1>3. ASSUME NEW s \in Sessions, RequestUpload(s)
      PROVE  DownloadKept(j)
  <2>1. j # Len(kind) + 1
    BY <1>1, BegunProperties DEF Downloads, Begun
  <2> QED
    BY <1>1, <1>3, <2>1 DEF RequestUpload, Types, DownloadKept
<1>4. ASSUME NEW s \in Sessions, RequestDownload(s)
      PROVE  DownloadKept(j)
  <2>1. j # Len(kind) + 1
    BY <1>1, BegunProperties DEF Downloads, Begun
  <2> QED
    BY <1>1, <1>4, <2>1 DEF RequestDownload, Types, DownloadKept
<1>5. ASSUME NEW s \in Sessions, TakePort(s)
      PROVE  DownloadKept(j)
  BY <1>0, <1>1, <1>5 DEF TakePort, AddOrDie, Types, DownloadKept, Uploads, Downloads
<1>6. ASSUME NEW s \in Sessions, MissPort(s)
      PROVE  DownloadKept(j)
  BY <1>0, <1>1, <1>6 DEF MissPort, Types, DownloadKept, Uploads, Downloads
<1>7. ASSUME NEW q \in Queues, Create(q)
      PROVE  DownloadKept(j)
  BY <1>0, <1>1, <1>7 DEF Create, Types, DownloadKept, Uploads, Downloads
<1>8. ASSUME PoolRun
      PROVE  DownloadKept(j)
  BY <1>0, <1>1, <1>8 DEF PoolRun, Types, DownloadKept, Uploads, Downloads
<1>9. ASSUME NEW k \in Ids, Connect(k)
      PROVE  DownloadKept(j)
  BY <1>0, <1>1, <1>9 DEF Connect, Types, DownloadKept, Uploads, Downloads
<1>10. ASSUME NEW k \in Ids, Leave(k) \/ Break(k)
      PROVE  DownloadKept(j)
  BY <1>0, <1>1, <1>10 DEF Leave, Break, Stop, Types, DownloadKept, Uploads, Downloads
<1>11. ASSUME NEW r \in Runs, NEW k \in Ids, AcceptUpload(r, k)
      PROVE  DownloadKept(j)
  BY <1>0, <1>1, <1>11 DEF AcceptUpload, Types, DownloadKept, Uploads, Downloads
<1>12. ASSUME NEW r \in Runs, NEW k \in Ids, AcceptNobody(r, k) \/ OpenFails(r, k)
      PROVE  DownloadKept(j)
  BY <1>0, <1>1, <1>12 DEF AcceptNobody, OpenFails, Types, DownloadKept, Uploads, Downloads
<1>13. ASSUME NEW r \in Runs, NEW k \in Ids, WritePiece(r, k)
      PROVE  DownloadKept(j)
  BY <1>0, <1>1, <1>13 DEF WritePiece, Types, DownloadKept, Uploads, Downloads
<1>14. ASSUME NEW r \in Runs, NEW k \in Ids, FinishUpload(r, k)
      PROVE  DownloadKept(j)
  BY <1>0, <1>1, <1>14 DEF FinishUpload, Types, DownloadKept, Uploads, Downloads
<1>15. ASSUME NEW r \in Runs, NEW k \in Ids, Call(r, k)
      PROVE  DownloadKept(j)
  BY <1>0, <1>1, <1>15 DEF Call, Types, DownloadKept, Uploads, Downloads
<1>16. ASSUME NEW r \in Runs, NEW k \in Ids, AcceptDownload(r, k), k # j
      PROVE  DownloadKept(j)
  BY <1>0, <1>1, <1>16 DEF AcceptDownload, Types, DownloadKept, Uploads, Downloads
<1>17. ASSUME NEW r \in Runs, NEW k \in Ids, SendPiece(r, k), k # j
      PROVE  DownloadKept(j)
  <2>1. /\ \/ UNCHANGED client
           \/ client' = [client EXCEPT ![k] = "cut"]
        /\ \/ UNCHANGED <<at, got>>
           \/ /\ at' = [at EXCEPT ![k] = at[k] + 1]
              /\ got' = [got EXCEPT ![k] = Append(@, disk[path[k]][at[k] + 1])]
        /\ UNCHANGED <<path, size>>
    BY <1>17 DEF SendPiece
  <2> QED
    BY <1>1, <1>17, <2>1 DEF Types, DownloadKept
<1>18. ASSUME NEW r \in Runs, NEW k \in Ids, FinishDownload(r, k), k # j
      PROVE  DownloadKept(j)
  BY <1>0, <1>1, <1>18 DEF FinishDownload, Types, DownloadKept, Uploads, Downloads
<1>19. ASSUME NEW r \in Runs, NEW k \in Ids, Reset(r, k)
      PROVE  DownloadKept(j)
  BY <1>0, <1>1, <1>19 DEF Reset, Types, DownloadKept, Uploads, Downloads
<1>20. ASSUME NEW k \in Ids, OpenCopy(k)
      PROVE  DownloadKept(j)
  BY <1>0, <1>1, <1>20 DEF OpenCopy, Types, DownloadKept, Uploads, Downloads
<1>21. ASSUME NEW k \in Ids, OpenSource(k)
      PROVE  DownloadKept(j)
  BY <1>0, <1>1, <1>21 DEF OpenSource, CopierBecomes, Types, DownloadKept, Uploads, Downloads
<1>22. ASSUME NEW k \in Ids, SendTranche(k)
      PROVE  DownloadKept(j)
  BY <1>0, <1>1, <1>22 DEF SendTranche, CopierBecomes, Types, DownloadKept, Uploads, Downloads
<1>23. ASSUME NEW k \in Ids, WriteTranche(k)
      PROVE  DownloadKept(j)
  BY <1>0, <1>1, <1>23 DEF WriteTranche, Types, DownloadKept, Uploads, Downloads
<1>24. ASSUME NEW k \in Ids, FinishCopy(k)
      PROVE  DownloadKept(j)
  BY <1>0, <1>1, <1>24 DEF FinishCopy, CopierBecomes, Types, DownloadKept, Uploads, Downloads
<1>25. ASSUME UNCHANGED vars
      PROVE  DownloadKept(j)
  BY <1>0, <1>1, <1>25 DEF vars, Types, DownloadKept, Uploads, Downloads
<1> QED
  BY <1>2, <1>3, <1>4, <1>5, <1>6, <1>7, <1>8, <1>9, <1>10, <1>11, <1>12, <1>13, <1>14, <1>15, <1>16, <1>17, <1>18, <1>19, <1>20, <1>21, <1>22, <1>23, <1>24, <1>25
     DEF Next, Session, Answer, Run, Copy, DownloadStep

\* Nothing but a request begins a transfer.
LEMMA OnlyRequestsBegin ==
  ASSUME [Next]_vars
  PROVE  \/ \E s \in Sessions : RequestDownload(s)
         \/ \E s \in Sessions : RequestUpload(s)
         \/ kind' = kind
<1> USE DEF sessions, tasks, transfers, copies, history
<1>1. ASSUME NEW s \in Sessions, Session(s) \/ Answer(s)
      PROVE  RequestDownload(s) \/ RequestUpload(s) \/ kind' = kind
  BY <1>1 DEF Session, Answer, ChangeDir, TakePort, MissPort
<1>2. ASSUME NEW r \in Runs, NEW k \in Ids, Run(r, k)
      PROVE  kind' = kind
  BY <1>2 DEF Run, AcceptUpload, AcceptNobody, OpenFails, WritePiece, FinishUpload, Call, AcceptDownload,
              SendPiece, FinishDownload, Reset
<1>3. ASSUME NEW k \in Ids, Copy(k)
      PROVE  kind' = kind
  BY <1>3 DEF Copy, OpenCopy, OpenSource, SendTranche, WriteTranche, FinishCopy, CopierBecomes
<1>4. ASSUME NEW k \in Ids, Connect(k) \/ Leave(k) \/ Break(k)
      PROVE  kind' = kind
  BY <1>4 DEF Connect, Leave, Break, Stop
<1>5. (\E q \in Queues : Create(q)) \/ PoolRun \/ UNCHANGED vars => kind' = kind
  BY DEF Create, PoolRun, vars
<1> QED
  BY <1>1, <1>2, <1>3, <1>4, <1>5 DEF Next

\* A transfer that was not a download before has no client to serve yet.
LEMMA NewDownload ==
  ASSUME TypeInv, [Next]_vars, NEW j \in Downloads', j \notin Downloads
  PROVE  client'[j] \notin {"held", "ok"}
<1> USE DEF sessions, tasks, transfers, copies, history
<1>1. Types /\ TasksOK /\ FilesExist /\ \A k \in Ids : TransferOK(k) /\ CopyOrder(k)
  BY DEF TypeInv, ControlOK
<1>0. /\ Begun \subseteq Ids /\ Uploads \subseteq Ids /\ Downloads \subseteq Ids
      /\ Uploads \cap Downloads = {}
  BY <1>1, BegunProperties
<1>2. CASE \E s \in Sessions : RequestDownload(s)
  <2> DEFINE n == Len(kind) + 1
  <2>1. /\ n \in Ids /\ kind' = Append(kind, "download")
        /\ client' = [client EXCEPT ![n] = "asking"]
    BY <1>2 DEF RequestDownload
  <2>2. Downloads' = Downloads \cup {n}
    BY <1>1, <2>1, AskFor
  <2> QED
    BY <1>1, <2>1, <2>2 DEF Types
<1>3. CASE \E s \in Sessions : RequestUpload(s)
  <2> DEFINE n == Len(kind) + 1
  <2>1. n \in Ids /\ kind' = Append(kind, "upload")
    BY <1>3 DEF RequestUpload
  <2>2. Downloads' = Downloads
    BY <1>1, <2>1, AskFor
  <2> QED
    BY <2>2
<1>4. CASE kind' = kind
  BY <1>4 DEF Downloads, Begun
<1> QED
  BY <1>2, <1>3, <1>4, OnlyRequestsBegin

LEMMA UploadsGrow ==
  ASSUME TypeInv, [Next]_vars
  PROVE  Uploads \subseteq Uploads'
<1> USE DEF sessions, tasks, transfers, copies, history
<1>1. Types
  BY DEF TypeInv
<1>2. CASE \E s \in Sessions : RequestDownload(s) \/ RequestUpload(s)
  BY <1>1, <1>2, AskFor DEF RequestDownload, RequestUpload
<1>3. CASE kind' = kind
  BY <1>3 DEF Uploads, Begun
<1> QED
  BY <1>2, <1>3, OnlyRequestsBegin

LEMMA AppendPart ==
  ASSUME NEW k \in 0 .. Hole, NEW n \in Nat
  PROVE  Append(Part(k, n), k) = Part(k, n + 1)
  BY DEF Part

\* As long as the file is not disturbed nobody writes it while it is read, and its
\* newest upload stays.
LEMMA ReadStays ==
  ASSUME TypeInv, [Next]_vars, NEW j \in Downloads, client[j] = "held",
         NEW d \in Dirs, d = path[j], Writers(d) = {}, <<"read", d>> \notin upset'
  PROVE  Writers(d)' = {} /\ latest'[d] = latest[d]
<1>1. Writers(d) = {k \in Uploads : client[k] = "held" /\ path[k] = d}
      /\ Readers(d) = {k \in Downloads : client[k] = "held" /\ path[k] = d}
  BY HeldWrites
<1>2. /\ Writers(d)' = {k \in Uploads' : client'[k] = "held" /\ path'[k] = d}
      /\ Uploads \subseteq Ids /\ Uploads' \subseteq Ids
  BY HeldWritesNext
<1>3. CASE Quiet
  BY <1>1, <1>2, <1>3 DEF Quiet
<1>4. ASSUME NEW r \in Runs, NEW k \in Ids, AcceptUpload(r, k)
      PROVE  Writers(d)' = {} /\ latest'[d] = latest[d]
  <2>1. d # dir
    BY <1>1, <1>4, AcceptUploadDoes
  <2> QED
    BY <1>1, <1>2, <1>4, <2>1, AcceptUploadDoes
<1>5. ASSUME NEW r \in Runs, NEW k \in Ids, WritePiece(r, k)
      PROVE  Writers(d)' = {} /\ latest'[d] = latest[d]
  BY <1>1, <1>2, <1>5, WritePieceDoes
<1>6. ASSUME NEW r \in Runs, NEW k \in Ids, FinishUpload(r, k)
      PROVE  Writers(d)' = {} /\ latest'[d] = latest[d]
  BY <1>1, <1>2, <1>6, FinishUploadDoes
<1>7. ASSUME NEW k \in Ids, k \in Uploads, client[k] = "held", Leave(k) \/ Break(k)
      PROVE  Writers(d)' = {} /\ latest'[d] = latest[d]
  BY <1>1, <1>2, <1>7, LeaveUploadDoes
<1> QED
  BY <1>3, <1>4, <1>5, <1>6, <1>7, QuietSteps DEF UploadStep

LEMMA UpsetGrows == TypeInv /\ [Next]_vars => upset \subseteq upset'
  BY QuietSteps, AcceptUploadDoes, WritePieceDoes, FinishUploadDoes, LeaveUploadDoes
     DEF Quiet, UploadStep

\* The newest upload of a directory, or the older file, has a size.
LEMMA NewestSize ==
  ASSUME TypeInv, NEW d \in Dirs
  PROVE  /\ latest[d] \in 0 .. Hole /\ Sizes[latest[d]] \in Nat
         /\ latest[d] \in 0 .. MaxTransfers /\ latest[d] \in Uploads \cup {0}
<1>1. latest[d] \in 0 .. MaxTransfers /\ (latest[d] # 0 => latest[d] \in Uploads)
  BY DEF TypeInv, ControlOK, Types, FilesExist
<1> QED
  BY <1>1, Constants

LEMMA ReadsOKNext == TypeInv /\ FilesOK /\ ReadsOK /\ [Next]_vars => ReadsOK'
<1> SUFFICES ASSUME TypeInv, FilesOK, ReadsOK, [Next]_vars, NEW j \in Downloads'
             PROVE  ReadOK(j)'
  BY DEF ReadsOK
<1> USE DEF sessions, tasks, transfers, copies, history
<1>1. /\ Types /\ FilesExist /\ \A k \in Ids : TransferOK(k)
      /\ Uploads \subseteq Ids /\ Downloads \subseteq Ids /\ Downloads' \subseteq Ids
  BY HeldWritesNext DEF TypeInv, ControlOK
<1>2. CASE j \notin Downloads
  BY <1>2, NewDownload DEF ReadOK
<1>3. ASSUME j \in Downloads, NEW d \in Dirs, d = path[j], NEW u, u = latest[d]
      PROVE  ReadOK(j)'
  <2>1. /\ ReadOK(j) /\ FileOK(d) /\ disk[d] # Missing /\ disk[d] \in Contents
        /\ u \in 0 .. Hole /\ Sizes[u] \in Nat /\ u \in 0 .. MaxTransfers
        /\ u \in Uploads \cup {0} /\ at[j] \in Nat
    BY <1>1, <1>3, NewestSize DEF ReadsOK, FilesOK, FilesExist, Types
  <2>2. path'[j] = path[j]
    <3>1. CASE DownloadKept(j)
      BY <3>1 DEF DownloadKept
    <3>2. CASE DownloadStep(j)
      BY <3>2 DEF DownloadStep, AcceptDownload, SendPiece, FinishDownload
    <3> QED
      BY <1>1, <1>3, <3>1, <3>2, DownloadSteps
  <2>3. SUFFICES ASSUME Undisturbed(d, {"written", "torn", "read"})' PROVE ReadOK(j)'
    BY <1>3, <2>2 DEF ReadOK
  <2>4. /\ Undisturbed(d, {"written", "torn", "read"}) /\ Undisturbed(d, {"written", "torn"})
        /\ <<"read", d>> \notin upset'
    <3>1. upset \subseteq upset'
      BY UpsetGrows
    <3> QED
      BY <1>3, <2>3, <3>1, UndisturbedMeans DEF Reasons
  <2>5. ASSUME client[j] = "held"
        PROVE  /\ Writers(d) = {} /\ Writers(d)' = {} /\ latest'[d] = u
               /\ size[j] = Sizes[u] /\ at[j] <= size[j] /\ got[j] = Part(u, at[j])
               /\ disk[d] = Part(u, Sizes[u])
    <3>1. Writers(d) = {} /\ size[j] = Sizes[u] /\ at[j] <= size[j] /\ got[j] = Part(u, at[j])
      BY <1>3, <2>1, <2>4, <2>5 DEF ReadOK
    <3> QED
      BY <1>3, <2>1, <2>4, <2>5, <3>1, ReadStays DEF FileOK
  <2>6. Uploads \subseteq Uploads'
    BY UploadsGrow
  <2>7. CASE DownloadKept(j)
    <3>1. CASE client'[j] = "held"
      <4>1. client[j] = "held" /\ UNCHANGED <<path[j], size[j], at[j], got[j]>>
        BY <2>7, <3>1 DEF DownloadKept
      <4> QED
        BY <1>3, <2>5, <3>1, <4>1 DEF ReadOK
    <3>2. CASE client'[j] = "ok"
      <4>1. client[j] = "ok" /\ got'[j] = got[j]
        BY <2>7, <3>2 DEF DownloadKept
      <4>2. \E o \in Uploads \cup {0} : got[j] = Whole(o)
        BY <1>3, <2>1, <2>4, <4>1 DEF ReadOK
      <4> QED
        BY <2>6, <3>2, <4>1, <4>2 DEF ReadOK
    <3>3. CASE client'[j] \notin {"held", "ok"}
      BY <3>3 DEF ReadOK
    <3> QED
      BY <3>1, <3>2, <3>3
  <2>8. ASSUME NEW r \in Runs, AcceptDownload(r, j)
        PROVE  ReadOK(j)'
    <3>1. /\ client[j] = "calling" /\ client' = [client EXCEPT ![j] = "held"]
          /\ size' = [size EXCEPT ![j] = Len(disk[d])] /\ UNCHANGED <<kind, path, at, got, latest>>
          /\ upset' = upset \cup {<<"read", d>> : o \in Writers(d)}
      BY <1>3, <2>8 DEF AcceptDownload
    <3>2. Writers(d) = {}
      BY <2>4, <3>1
    <3>3. Writers(d)' = {}
      <4>1. Uploads' = Uploads /\ \A k \in Ids : k # j => client'[k] = client[k]
        BY <1>1, <3>1 DEF Uploads, Begun, Types
      <4>2. j \notin Uploads
        BY <1>3 DEF Uploads, Downloads
      <4> QED
        BY <1>1, <2>1, <3>1, <3>2, <4>1, <4>2, HeldWrites, HeldWritesNext
    <3>4. disk[d] = Part(u, Sizes[u]) /\ Len(disk[d]) = Sizes[u]
      BY <1>3, <2>1, <2>4, <3>2, PartProperties DEF FileOK
    <3>5. at[j] = 0 /\ got[j] = << >>
      BY <1>1, <1>3, <3>1 DEF TransferOK
    <3>6. client'[j] = "held" /\ size'[j] = Sizes[u]
      BY <1>1, <1>3, <3>1, <3>4 DEF Types
    <3> QED
      BY <1>3, <2>1, <3>1, <3>3, <3>5, <3>6, EmptyPart DEF ReadOK
  <2>9. ASSUME NEW r \in Runs, SendPiece(r, j)
        PROVE  ReadOK(j)'
    <3>1. client[j] = "held" /\ at[j] < size[j] /\ UNCHANGED size
      BY <2>9 DEF SendPiece
    <3>2. /\ disk[d] = Part(u, Sizes[u]) /\ Len(disk[d]) = Sizes[u]
          /\ at[j] + 1 \in 1 .. Sizes[u] /\ disk[d][at[j] + 1] = u
      BY <2>1, <2>5, <3>1, PartProperties
    <3>3. /\ at' = [at EXCEPT ![j] = at[j] + 1] /\ UNCHANGED client
          /\ got' = [got EXCEPT ![j] = Append(@, disk[d][at[j] + 1])]
      BY <1>3, <2>1, <2>9, <3>2 DEF SendPiece
    <3>4. at'[j] = at[j] + 1 /\ got'[j] = Part(u, at[j] + 1)
      BY <1>1, <1>3, <2>1, <2>5, <3>1, <3>2, <3>3, AppendPart DEF Types
    <3> QED
      BY <1>3, <2>1, <2>2, <2>5, <3>1, <3>2, <3>3, <3>4 DEF ReadOK
  <2>10. ASSUME NEW r \in Runs, FinishDownload(r, j)
         PROVE  ReadOK(j)'
    <3>1. /\ client[j] = "held" /\ at[j] = size[j] /\ UNCHANGED <<path, got>>
          /\ client' = [client EXCEPT ![j] = "ok"]
      BY <2>10 DEF FinishDownload
    <3>2. client'[j] = "ok"
      BY <1>1, <1>3, <3>1 DEF Types
    <3>3. got[j] = Whole(u)
      BY <2>1, <2>5, <3>1, WholeContents
    <3> QED
      BY <2>1, <2>6, <3>1, <3>2, <3>3 DEF ReadOK
  <2> QED
    BY <1>1, <1>3, <2>7, <2>8, <2>9, <2>10, DownloadSteps DEF DownloadStep
<1>4. j \in Downloads => path[j] \in Dirs
  BY <1>1 DEF Types
<1> QED
  BY <1>2, <1>3, <1>4

\* A download that ended well is one whole file, unless the file was written while
\* it was read or was not whole already (ServerDownload 92-131).
THEOREM DownloadWholeAlways == Spec => []DownloadWhole
<1>1. Init => FilesOK /\ ReadsOK
  <2>1. Init => ReadsOK
    BY EmptySeq DEF Init, ReadsOK, Downloads, Begun
  <2> QED
    BY <2>1, InitFiles
<1>2. TypeInv /\ FilesOK /\ [Next]_vars => FilesOK'
  BY FilesOKNext
<1>3. TypeInv /\ FilesOK /\ ReadsOK /\ [Next]_vars => ReadsOK'
  BY ReadsOKNext
<1>4. ReadsOK => DownloadWhole
  BY DEF ReadsOK, ReadOK, DownloadWhole
<1> QED
  BY <1>1, <1>2, <1>3, <1>4, TypeInvAlways, PTL DEF Spec

-----------------------------------------------------------------------------
(* What the secondary has. *)

CopiesOK == \A d \in Dirs : CopyOK(d)

Disturbances == {"written", "torn", "copied", "strayed", "dropped"}

\* A copy that is under way.
LEMMA CopiesProperties ==
  ASSUME TypeInv
  PROVE  /\ Uploads \subseteq Ids
         /\ \A k \in Ids : copier[k] # "none" => k \in Uploads
         /\ \A d \in Dirs : CopiesOf(d) =
              {k \in Ids : copier[k] # "none" /\ copyPath[k] = d /\ ~Through(k)}
<1>1. Uploads \subseteq Ids /\ \A k \in Ids : copier[k] # "none" => k \in Uploads
  BY BegunProperties DEF TypeInv, ControlOK, CopyOrder
<1> QED
  BY <1>1 DEF CopiesOf

LEMMA CopiesPropertiesNext ==
  ASSUME TypeInv, [Next]_vars
  PROVE  \A d \in Dirs : CopiesOf(d)' =
           {k \in Ids : copier'[k] # "none" /\ copyPath'[k] = d /\ ~Through(k)'}
<1>1. TypeInv' /\ Uploads' \subseteq Ids
  BY HeldWritesNext
<1>2. \A k \in Ids : copier'[k] # "none" => k \in Uploads'
  BY <1>1 DEF TypeInv, ControlOK, CopyOrder
<1> QED
  BY <1>1, <1>2 DEF CopiesOf

LEMMA StillUndisturbed ==
  ASSUME TypeInv, [Next]_vars, NEW d \in Dirs, Undisturbed(d, Disturbances)'
  PROVE  /\ Undisturbed(d, Disturbances) /\ Undisturbed(d, {"written", "torn"})
         /\ \A why \in Disturbances : <<why, d>> \notin upset'
<1>1. upset \subseteq upset'
  BY UpsetGrows
<1> QED
  BY <1>1, UndisturbedMeans DEF Reasons, Disturbances

\* A directory a step leaves alone.
LEMMA CopyKept ==
  ASSUME TypeInv, [Next]_vars, NEW d \in Dirs, CopyOK(d),
         latest'[d] = latest[d], disk'[d] = disk[d], remote'[d] = remote[d],
         Writers(d)' = Writers(d), CopiesOf(d)' = CopiesOf(d),
         \A k \in CopiesOf(d) : /\ UNCHANGED <<sent[k], written[k], copier[k]>>
                                /\ k \in opened' <=> k \in opened
  PROVE  CopyOK(d)'
<1>1. SUFFICES ASSUME Undisturbed(d, Disturbances)' PROVE CopyOK(d)'
  BY DEF CopyOK, Disturbances
<1>2. Undisturbed(d, Disturbances)
  BY <1>1, StillUndisturbed
<1> QED
  BY <1>2 DEF CopyOK, Disturbances

\* The steps of copies leave uploads alone.
LEMMA QuietWriters ==
  ASSUME TypeInv, [Next]_vars, Quiet, NEW d \in Dirs
  PROVE  Writers(d)' = Writers(d) /\ latest'[d] = latest[d] /\ disk'[d] = disk[d]
<1>1. Writers(d) = {k \in Uploads : client[k] = "held" /\ path[k] = d}
  BY HeldWrites
<1>2. /\ Writers(d)' = {k \in Uploads' : client'[k] = "held" /\ path'[k] = d}
      /\ Uploads \subseteq Ids /\ Uploads' \subseteq Ids
  BY HeldWritesNext
<1> QED
  BY <1>1, <1>2 DEF Quiet

\* The upload that is copied is the newest, whole and not being replaced.
LEMMA AtCopy ==
  ASSUME TypeInv, FilesOK, CopiesOK, NEW k \in Ids, NEW d \in Dirs, k \in CopiesOf(d),
         Undisturbed(d, Disturbances), Undisturbed(d, {"written", "torn"})
  PROVE  /\ k = latest[d] /\ Writers(d) = {} /\ CopiesOf(d) = {k}
         /\ disk[d] = Part(k, Sizes[k]) /\ Len(disk[d]) = Sizes[k] /\ disk[d] # Missing
         /\ Sizes[k] \in Nat
         /\ sent[k] = Part(k, Len(sent[k])) /\ Len(sent[k]) \in Nat
         /\ k \in opened => remote[d] = Part(k, written[k])
         /\ copier[k] = "done" => Len(sent[k]) = Sizes[k]
<1>1. CopyOK(d) /\ FileOK(d)
  BY DEF CopiesOK, FilesOK
<1>2. k = latest[d] /\ Writers(d) = {} /\ CopiesOf(d) = {k}
  BY <1>1 DEF CopyOK, Disturbances
<1>3. k # 0 /\ k \in 0 .. Hole /\ Sizes[k] \in Nat
  BY Constants
<1>4. disk[d] # Missing
  BY <1>2, <1>3 DEF TypeInv, ControlOK, FilesExist
<1>5. disk[d] = Part(k, Sizes[k])
  BY <1>1, <1>2, <1>4 DEF FileOK
<1>6. Len(sent[k]) \in Nat
  BY LenProperties DEF TypeInv, Types, Contents
<1> QED
  BY <1>1, <1>2, <1>3, <1>4, <1>5, <1>6, PartProperties DEF CopyOK, Disturbances

\* A step of the copy of k.
CopyOnly(k) ==
  /\ UNCHANGED <<kind, transfers, disk, latest, upset, copyPath>>
  /\ copier[k] # "none" /\ copier'[k] # "none"
  /\ \A j \in Ids : j # k =>
       UNCHANGED <<copier[j], sent[j], written[j]>> /\ (j \in opened' <=> j \in opened)
  /\ \A d \in Dirs : d # copyPath[k] => remote'[d] = remote[d]

LEMMA CopyStep ==
  ASSUME TypeInv, FilesOK, CopiesOK, [Next]_vars, NEW k \in Ids, CopyOnly(k), ~Through(k),
         NEW d \in Dirs,
         (/\ d = copyPath[k]
          /\ k = latest[d] /\ disk[d] = Part(k, Sizes[k]) /\ Len(disk[d]) = Sizes[k]
          /\ Sizes[k] \in Nat /\ disk[d] # Missing
          /\ sent[k] = Part(k, Len(sent[k])) /\ Len(sent[k]) \in Nat
          /\ k \in opened => remote[d] = Part(k, written[k])
          /\ copier[k] = "done" => Len(sent[k]) = Sizes[k])
         => /\ sent'[k] = Part(k, Len(sent'[k]))
            /\ k \in opened' => remote'[d] = Part(k, written'[k])
            /\ copier'[k] = "done" => Len(sent'[k]) = Sizes[k]
  PROVE  CopyOK(d)'
<1>1. Quiet
  BY DEF CopyOnly, Quiet, transfers, Uploads, Begun
<1>2. Writers(d)' = Writers(d) /\ latest'[d] = latest[d] /\ disk'[d] = disk[d]
  BY <1>1, QuietWriters
<1>3. /\ CopiesOf(d) = {j \in Ids : copier[j] # "none" /\ copyPath[j] = d /\ ~Through(j)}
      /\ CopiesOf(d)' = {j \in Ids : copier'[j] # "none" /\ copyPath'[j] = d /\ ~Through(j)'}
      /\ CopyOK(d)
  BY CopiesProperties, CopiesPropertiesNext DEF CopiesOK
<1>4. \A j \in Ids : j # k => (j \in CopiesOf(d)' <=> j \in CopiesOf(d))
  BY <1>3 DEF CopyOnly, Through
<1>5. CASE d # copyPath[k]
  <2>1. k \notin CopiesOf(d) /\ k \notin CopiesOf(d)'
    BY <1>3, <1>5 DEF CopyOnly
  <2>2. CopiesOf(d)' = CopiesOf(d) /\ CopiesOf(d) \subseteq Ids
    BY <1>3, <1>4, <2>1
  <2> QED
    BY <1>2, <1>3, <1>5, <2>1, <2>2, CopyKept DEF CopyOnly
<1>6. CASE d = copyPath[k]
  <2>1. SUFFICES ASSUME Undisturbed(d, Disturbances)' PROVE CopyOK(d)'
    BY DEF CopyOK, Disturbances
  <2>2. k \in CopiesOf(d)
    BY <1>3, <1>6 DEF CopyOnly
  <2>3. Undisturbed(d, Disturbances) /\ Undisturbed(d, {"written", "torn"})
    BY <2>1, StillUndisturbed
  <2>4. /\ k = latest[d] /\ Writers(d) = {} /\ CopiesOf(d) = {k} /\ disk[d] = Part(k, Sizes[k])
        /\ sent'[k] = Part(k, Len(sent'[k]))
        /\ k \in opened' => remote'[d] = Part(k, written'[k])
        /\ copier'[k] = "done" => Len(sent'[k]) = Sizes[k]
    BY <1>6, <2>2, <2>3, AtCopy
  <2>5. CopiesOf(d)' \subseteq {k}
    BY <1>3, <1>4, <2>4
  <2>6. k \notin CopiesOf(d)' => remote'[d] = disk'[d]
    <3>1. SUFFICES ASSUME k \notin CopiesOf(d)' PROVE remote'[d] = disk'[d]
      OBVIOUS
    <3>2. Through(k)'
      BY <1>3, <1>6, <3>1 DEF CopyOnly
    <3> QED
      BY <1>2, <2>4, <3>2 DEF Through
  <2> QED
    BY <1>2, <2>4, <2>5, <2>6 DEF CopyOK
<1> QED
  BY <1>5, <1>6

\* A copy that the pool takes.
CopyPooled(n) ==
  /\ UNCHANGED <<kind, path, client, at, disk, latest, upset, copyPath, opened, sent, written, remote>>
  /\ copier[n] = "queued"
  /\ \A k \in Ids : copier'[k] = IF k = n THEN "announcing" ELSE copier[k]

LEMMA CopiesPooled ==
  ASSUME TypeInv, CopiesOK, [Next]_vars, NEW n \in Ids, CopyPooled(n), NEW d \in Dirs
  PROVE  CopyOK(d)'
<1>1. Quiet
  BY DEF CopyPooled, Quiet, Uploads, Begun
<1>2. Writers(d)' = Writers(d) /\ latest'[d] = latest[d] /\ disk'[d] = disk[d]
  BY <1>1, QuietWriters
<1>3. /\ CopiesOf(d) = {j \in Ids : copier[j] # "none" /\ copyPath[j] = d /\ ~Through(j)}
      /\ CopiesOf(d)' = {j \in Ids : copier'[j] # "none" /\ copyPath'[j] = d /\ ~Through(j)'}
      /\ CopyOK(d)
  BY CopiesProperties, CopiesPropertiesNext DEF CopiesOK
<1>4. CopiesOf(d)' = CopiesOf(d)
  BY <1>3 DEF CopyPooled, Through
<1>5. SUFFICES ASSUME Undisturbed(d, Disturbances)' PROVE CopyOK(d)'
  BY DEF CopyOK, Disturbances
<1>6. Undisturbed(d, Disturbances)
  BY <1>5, StillUndisturbed
<1>7. latest[d] \in CopiesOf(d) => copier'[latest[d]] # "done" \/ copier[latest[d]] = "done"
  BY <1>3 DEF CopyPooled
<1> QED
  BY <1>2, <1>3, <1>4, <1>6, <1>7 DEF CopyOK, CopyPooled, Disturbances

\* An upload that ends queues its copy, or is on record for why it does not.
LEMMA CopiesFinish ==
  ASSUME TypeInv, FilesOK, CopiesOK, [Next]_vars, NEW r \in Runs, NEW k \in Ids,
         FinishUpload(r, k), NEW d \in Dirs
  PROVE  CopyOK(d)'
<1> USE DEF sessions, tasks
<1>1. Types /\ CopyOrder(k)
  BY DEF TypeInv, ControlOK
<1>2. /\ k \in Uploads /\ client[k] = "held" /\ client'[k] = "ok" /\ path' = path
      /\ Uploads' = Uploads /\ path[k] \in Dirs /\ dir \in Dirs
      /\ \A j \in Ids : j # k => client'[j] = client[j]
      /\ UNCHANGED <<disk, latest, opened, sent, written, remote>>
  BY FinishUploadDoes
<1>3. copier[k] = "none" /\ k \notin opened /\ sent[k] = << >>
  BY <1>1, <1>2 DEF CopyOrder, Types
<1>4. /\ copyPath' = [copyPath EXCEPT ![k] = dir]
      /\ \/ /\ copier' = [copier EXCEPT ![k] = "queued"]
            /\ dir # path[k] =>
                 <<"strayed", dir>> \in upset' /\ <<"strayed", path[k]>> \in upset'
         \/ copier' = copier /\ <<"dropped", path[k]>> \in upset'
  <2>1. copyPath' = [copyPath EXCEPT ![k] = dir]
    BY DEF FinishUpload
  <2>2. CASE Len(queue["udp"]) < QueueSize
    <3>1. /\ copier' = [copier EXCEPT ![k] = "queued"]
          /\ upset' = upset \cup (IF dir = path[k] THEN {}
                                  ELSE {<<"strayed", dir>>, <<"strayed", path[k]>>})
      BY <2>2 DEF FinishUpload
    <3> QED
      BY <2>1, <3>1
  <2>3. CASE ~(Len(queue["udp"]) < QueueSize)
    <3>1. copier' = copier /\ upset' = upset \cup {<<"dropped", path[k]>>}
      BY <2>3 DEF FinishUpload
    <3> QED
      BY <2>1, <3>1
  <2> QED
    BY <2>2, <2>3
<1>5. /\ \A j \in Ids : j # k => copier'[j] = copier[j] /\ copyPath'[j] = copyPath[j]
      /\ copyPath'[k] = dir /\ copier'[k] \in {"none", "queued"}
      /\ copier'[k] = "none" => <<"dropped", path[k]>> \in upset'
      /\ copier'[k] = "queued" /\ dir # path[k] =>
           <<"strayed", dir>> \in upset' /\ <<"strayed", path[k]>> \in upset'
  BY <1>1, <1>3, <1>4 DEF Types
<1>6. /\ Writers(d) = {j \in Uploads : client[j] = "held" /\ path[j] = d}
      /\ Writers(d)' = {j \in Uploads' : client'[j] = "held" /\ path'[j] = d}
      /\ Uploads \subseteq Ids
  BY HeldWrites, HeldWritesNext
<1>7. /\ CopiesOf(d) = {j \in Ids : copier[j] # "none" /\ copyPath[j] = d /\ ~Through(j)}
      /\ CopiesOf(d)' = {j \in Ids : copier'[j] # "none" /\ copyPath'[j] = d /\ ~Through(j)'}
      /\ CopyOK(d) /\ FileOK(d)
  BY CopiesProperties, CopiesPropertiesNext DEF CopiesOK, FilesOK
<1>8. k \notin CopiesOf(d) /\ \A j \in Ids : j # k => (j \in CopiesOf(d)' <=> j \in CopiesOf(d))
  BY <1>2, <1>3, <1>5, <1>7 DEF Through
<1>9. CASE d # path[k] /\ (d # dir \/ copier'[k] = "none")
  <2>1. CopiesOf(d)' = CopiesOf(d) /\ CopiesOf(d) \subseteq Ids
    BY <1>5, <1>7, <1>8, <1>9
  <2>2. Writers(d)' = Writers(d)
    BY <1>2, <1>6, <1>9
  <2> QED
    BY <1>2, <1>5, <1>7, <1>8, <2>1, <2>2, CopyKept
<1>10. CASE d = path[k] \/ (d = dir /\ copier'[k] = "queued")
  <2>1. SUFFICES ASSUME Undisturbed(d, Disturbances)' PROVE CopyOK(d)'
    BY DEF CopyOK, Disturbances
  <2>2. /\ Undisturbed(d, Disturbances) /\ Undisturbed(d, {"written", "torn"})
        /\ <<"strayed", d>> \notin upset' /\ <<"dropped", d>> \notin upset'
    BY <2>1, StillUndisturbed DEF Disturbances
  <2>3. d = dir /\ d = path[k] /\ copier'[k] = "queued"
    BY <1>5, <1>10, <2>2
  <2>4. k \in Writers(d) /\ latest[d] = k /\ Writers(d) \subseteq {k}
    BY <1>2, <1>6, <1>7, <2>2, <2>3 DEF FileOK
  <2>5. CopiesOf(d) = {}
    BY <1>7, <2>2, <2>4 DEF CopyOK, Disturbances
  <2>6. CopiesOf(d)' = {k}
    <3>1. CopiesOf(d)' \subseteq {k}
      BY <1>7, <1>8, <2>5
    <3>2. k \in CopiesOf(d)'
      BY <1>5, <1>7, <2>3 DEF Through
    <3> QED
      BY <3>1, <3>2
  <2>7. Writers(d)' = {}
    BY <1>2, <1>6, <2>4
  <2>8. Len(sent'[k]) = 0 /\ sent'[k] = Part(k, 0)
    BY <1>2, <1>3, EmptyPart, EmptySeq
  <2> QED
    BY <1>2, <1>3, <2>3, <2>4, <2>6, <2>7, <2>8 DEF CopyOK
<1> QED
  BY <1>5, <1>9, <1>10

\* The steps of a transfer that do not touch copies.
LEMMA CopiesAlone ==
  ASSUME TypeInv, FilesOK, CopiesOK, [Next]_vars, UNCHANGED copies, NEW d \in Dirs
  PROVE  CopyOK(d)'
<1> USE DEF copies
<1>1. /\ CopiesOf(d)' = CopiesOf(d) /\ CopyOK(d) /\ CopiesOf(d) \subseteq Ids
      /\ Writers(d) = {k \in Uploads : client[k] = "held" /\ path[k] = d}
  BY CopiesProperties, CopiesPropertiesNext, HeldWrites DEF CopiesOK, Through
<1>2. /\ Writers(d)' = {k \in Uploads' : client'[k] = "held" /\ path'[k] = d}
      /\ Uploads \subseteq Ids /\ Uploads' \subseteq Ids
  BY HeldWritesNext
<1>3. CASE Quiet
  BY <1>1, <1>3, QuietWriters, CopyKept
<1>4. ASSUME NEW r \in Runs, NEW k \in Ids, AcceptUpload(r, k)
      PROVE  CopyOK(d)'
  <2>1. CASE d = dir
    <3>1. SUFFICES ASSUME Undisturbed(d, Disturbances)' PROVE CopyOK(d)'
      BY DEF CopyOK, Disturbances
    <3>2. CopiesOf(d) = {}
      BY <1>4, <2>1, <3>1, AcceptUploadDoes, StillUndisturbed DEF Disturbances
    <3>3. k \in Writers(d)'
      BY <1>2, <1>4, <2>1, AcceptUploadDoes
    <3> QED
      BY <1>1, <3>2, <3>3 DEF CopyOK
  <2>2. CASE d # dir
    <3>1. Writers(d)' = Writers(d)
      BY <1>1, <1>2, <1>4, <2>2, AcceptUploadDoes
    <3> QED
      BY <1>1, <1>4, <2>2, <3>1, AcceptUploadDoes, CopyKept
  <2> QED
    BY <2>1, <2>2
<1>5. ASSUME NEW r \in Runs, NEW k \in Ids, WritePiece(r, k)
      PROVE  CopyOK(d)'
  <2>1. Writers(d)' = Writers(d)
    BY <1>1, <1>2, <1>5, WritePieceDoes
  <2>2. CASE d = path[k]
    <3>1. SUFFICES ASSUME Undisturbed(d, Disturbances)' PROVE CopyOK(d)'
      BY DEF CopyOK, Disturbances
    <3>2. Undisturbed(d, Disturbances)
      BY <3>1, StillUndisturbed
    <3>3. k \in Writers(d)
      BY <1>1, <1>5, <2>2, WritePieceDoes
    <3>4. CopiesOf(d) = {}
      BY <1>1, <3>2, <3>3 DEF CopyOK, Disturbances
    <3> QED
      BY <1>1, <2>1, <3>3, <3>4 DEF CopyOK
  <2>3. CASE d # path[k]
    BY <1>1, <1>5, <2>1, <2>3, WritePieceDoes, CopyKept
  <2> QED
    BY <2>2, <2>3
<1>6. ASSUME NEW k \in Ids, k \in Uploads, client[k] = "held", Leave(k) \/ Break(k)
      PROVE  CopyOK(d)'
  <2>1. CASE d = path[k]
    <3>1. <<"torn", d>> \in upset'
      BY <1>6, <2>1, LeaveUploadDoes
    <3> QED
      BY <3>1, StillUndisturbed DEF CopyOK, Disturbances
  <2>2. CASE d # path[k]
    <3>1. Writers(d)' = Writers(d)
      BY <1>1, <1>2, <1>6, <2>2, LeaveUploadDoes
    <3> QED
      BY <1>1, <1>6, <3>1, LeaveUploadDoes, CopyKept
  <2> QED
    BY <2>1, <2>2
<1>7. ASSUME NEW r \in Runs, NEW k \in Ids, FinishUpload(r, k)
      PROVE  CopyOK(d)'
  BY <1>7, CopiesFinish
<1> QED
  BY <1>3, <1>4, <1>5, <1>6, <1>7, QuietSteps DEF UploadStep

LEMMA CopiesOKNext == TypeInv /\ FilesOK /\ CopiesOK /\ [Next]_vars => CopiesOK'
<1> SUFFICES ASSUME TypeInv, FilesOK, CopiesOK, [Next]_vars, NEW d \in Dirs PROVE CopyOK(d)'
  BY DEF CopiesOK
<1> USE DEF sessions, tasks, history
<1>1. Types /\ TasksOK /\ FilesExist /\ \A k \in Ids : CopyOrder(k)
  BY DEF TypeInv, ControlOK
<1>2. CASE UNCHANGED copies
  BY <1>2, CopiesAlone
<1>3. ASSUME NEW r \in Runs, NEW k \in Ids, FinishUpload(r, k)
      PROVE  CopyOK(d)'
  BY <1>3, CopiesFinish
<1>4. CASE PoolRun /\ ~UNCHANGED copies
  <2> DEFINE q == Head(pool)[1]  n == Head(pool)[2]
  <2>1. Head(pool) \in Queues \X Ids /\ In(pool, Head(pool))
    BY <1>1, <1>4, InTail DEF PoolRun, Types
  <2>2. n \in Ids /\ Pooled(q, n)
    BY <2>1 DEF Pooled
  <2>3. q = "udp" /\ copier' = [copier EXCEPT ![n] = "announcing"]
        /\ UNCHANGED <<kind, path, client, at, size, got, disk, latest, upset>>
        /\ UNCHANGED <<copyPath, opened, sent, written, remote>>
    BY <1>4 DEF PoolRun, copies
  <2> HIDE DEF q, n
  <2>4. copier[n] = "queued"
    BY <1>1, <2>2, <2>3 DEF TasksOK
  <2>5. \A k \in Ids : copier'[k] = IF k = n THEN "announcing" ELSE copier[k]
    BY <1>1, <2>2, <2>3 DEF Types
  <2>6. CopyPooled(n)
    BY <2>3, <2>4, <2>5 DEF CopyPooled
  <2> QED
    BY <2>2, <2>6, CopiesPooled
<1>5. ASSUME NEW k \in Ids, OpenCopy(k)
      PROVE  CopyOK(d)'
  <2>1. /\ copier[k] \in {"announcing", "sending", "done"} /\ k \notin opened /\ opened' = opened \cup {k}
        /\ remote' = [remote EXCEPT ![copyPath[k]] = << >>]
        /\ UNCHANGED <<kind, transfers, disk, latest, upset, copyPath, copier, sent, written>>
    BY <1>5 DEF OpenCopy
  <2>2. CopyOnly(k) /\ ~Through(k)
    BY <1>1, <2>1 DEF CopyOnly, Through, Types
  <2>3. written[k] = 0 /\ (d = copyPath[k] => remote'[d] = << >>)
    BY <1>1, <2>1 DEF CopyOrder, Types
  <2> QED
    BY <2>1, <2>2, <2>3, CopyStep, EmptyPart
<1>6. ASSUME NEW k \in Ids, OpenSource(k)
      PROVE  CopyOK(d)'
  <2>1. /\ copier[k] = "announcing"
        /\ copier' = [copier EXCEPT ![k] = IF disk[copyPath[k]] = Missing THEN "done" ELSE "sending"]
        /\ UNCHANGED <<kind, transfers, disk, latest, upset, copyPath, opened, remote, sent, written>>
    BY <1>6 DEF OpenSource, CopierBecomes
  <2>2. /\ \A j \in Ids : j # k => copier'[j] = copier[j]
        /\ copier'[k] = IF disk[copyPath[k]] = Missing THEN "done" ELSE "sending"
    BY <1>1, <2>1 DEF Types
  <2>3. CopyOnly(k) /\ ~Through(k)
    BY <2>1, <2>2 DEF CopyOnly, Through
  <2> QED
    BY <2>1, <2>2, <2>3, CopyStep
<1>7. ASSUME NEW k \in Ids, SendTranche(k)
      PROVE  CopyOK(d)'
  <2> DEFINE i == Len(sent[k]) + 1
  <2>1. /\ copier[k] = "sending" /\ i <= Sizes[k]
        /\ UNCHANGED <<kind, transfers, disk, latest, upset, copyPath, opened, remote, written>>
        /\ IF i <= Len(disk[copyPath[k]])
           THEN /\ sent' = [sent EXCEPT ![k] = Append(@, disk[copyPath[k]][i])]
                /\ copier' = [copier EXCEPT ![k] = "sending"]
           ELSE copier' = [copier EXCEPT ![k] = "done"] /\ UNCHANGED sent
    BY <1>7 DEF SendTranche, CopierBecomes
  <2>2. /\ \A j \in Ids : j # k => copier'[j] = copier[j] /\ sent'[j] = sent[j]
        /\ copier'[k] \in {"sending", "done"}
    BY <1>1, <2>1 DEF Types
  <2>3. CopyOnly(k) /\ ~Through(k)
    BY <2>1, <2>2 DEF CopyOnly, Through
  <2>4. ASSUME d = copyPath[k], k = latest[d], disk[d] = Part(k, Sizes[k]),
               Len(disk[d]) = Sizes[k], Sizes[k] \in Nat,
               sent[k] = Part(k, Len(sent[k])), Len(sent[k]) \in Nat
        PROVE  copier'[k] = "sending" /\ sent'[k] = Part(k, Len(sent'[k]))
    <3>1. k \in 0 .. Hole /\ disk[d][i] = k
      BY <2>1, <2>4, PartProperties, Constants
    <3>2. sent'[k] = Append(sent[k], k) /\ copier'[k] = "sending"
      <4>1. /\ sent' = [sent EXCEPT ![k] = Append(@, k)]
            /\ copier' = [copier EXCEPT ![k] = "sending"]
        BY <2>1, <2>4, <3>1
      <4>2. sent \in [Ids -> Contents] /\ DOMAIN copier = Ids
        BY <1>1 DEF Types
      <4> QED
        BY <4>1, <4>2
    <3>3. sent'[k] = Part(k, i)
      BY <2>4, <3>1, <3>2, AppendPart
    <3> QED
      BY <2>4, <3>1, <3>2, <3>3, PartProperties
  <2> QED
    BY <2>1, <2>3, <2>4, CopyStep
<1>8. ASSUME NEW k \in Ids, WriteTranche(k)
      PROVE  CopyOK(d)'
  <2> DEFINE i == written[k] + 1
  <2>1. /\ k \in opened /\ i <= Len(sent[k]) /\ written' = [written EXCEPT ![k] = i]
        /\ remote' = [remote EXCEPT ![copyPath[k]] = Put(@, i, sent[k][i])]
        /\ UNCHANGED <<kind, transfers, disk, latest, upset, copyPath, copier, opened, sent>>
    BY <1>8 DEF WriteTranche
  <2>2. written[k] \in Nat /\ written'[k] = i /\ \A j \in Ids : j # k => written'[j] = written[j]
    BY <1>1, <2>1 DEF Types
  <2>3. CopyOnly(k) /\ ~Through(k)
    BY <1>1, <2>1, <2>2 DEF CopyOnly, Through, Types, CopyOrder
  <2>4. ASSUME d = copyPath[k], sent[k] = Part(k, Len(sent[k])), Len(sent[k]) \in Nat,
               remote[d] = Part(k, written[k])
        PROVE  remote'[d] = Part(k, written'[k])
    <3>1. k \in 0 .. Hole /\ sent[k][i] = k
      BY <2>1, <2>2, <2>4, PartProperties, Constants
    <3>2. remote'[d] = Put(remote[d], i, k)
      BY <1>1, <2>1, <2>4, <3>1 DEF Types
    <3> QED
      BY <2>2, <2>4, <3>1, <3>2, PutPart
  <2> QED
    BY <2>1, <2>3, <2>4, CopyStep
<1>9. ASSUME NEW k \in Ids, FinishCopy(k)
      PROVE  CopyOK(d)'
  <2>1. /\ copier[k] = "sending" /\ Len(sent[k]) = Sizes[k] /\ copier' = [copier EXCEPT ![k] = "done"]
        /\ UNCHANGED <<kind, transfers, disk, latest, upset, copyPath, opened, remote, sent, written>>
    BY <1>9 DEF FinishCopy, CopierBecomes
  <2>2. copier'[k] = "done" /\ \A j \in Ids : j # k => copier'[j] = copier[j]
    BY <1>1, <2>1 DEF Types
  <2>3. CopyOnly(k) /\ ~Through(k)
    BY <2>1, <2>2 DEF CopyOnly, Through
  <2> QED
    BY <2>1, <2>3, CopyStep
<1>10. ASSUME NEW t \in Sessions, Session(t) \/ Answer(t)
      PROVE  CopyOK(d)'
  BY <1>2, <1>10 DEF Session, Answer, ChangeDir, RequestUpload, RequestDownload, TakePort, MissPort
<1>11. ASSUME NEW k \in Ids, Connect(k) \/ Leave(k) \/ Break(k)
      PROVE  CopyOK(d)'
  BY <1>2, <1>11 DEF Connect, Leave, Break, Stop
<1>12. ASSUME NEW r \in Runs, NEW k \in Ids, Run(r, k)
      PROVE  CopyOK(d)'
  BY <1>2, <1>3, <1>12 DEF Run, AcceptUpload, AcceptNobody, OpenFails, WritePiece, Call,
                           AcceptDownload, SendPiece, FinishDownload, Reset
<1>13. ASSUME NEW k \in Ids, Copy(k)
      PROVE  CopyOK(d)'
  BY <1>5, <1>6, <1>7, <1>8, <1>9, <1>13 DEF Copy
<1>14. CASE (\E q \in Queues : Create(q)) \/ UNCHANGED vars
  BY <1>2, <1>14 DEF Create, vars
<1> QED
  BY <1>2, <1>4, <1>10, <1>11, <1>12, <1>13, <1>14 DEF Next

\* When a file is neither written nor copied both servers have the same, unless an
\* upload replaced it under a copy, the user changed directory under an upload, or
\* the queue of copies was full (ServerUpload 60, 79, 117, 123).
THEOREM SecondaryFollowsAlways == Spec => []SecondaryFollows
<1>1. Init => FilesOK /\ CopiesOK
  <2>1. Init => CopiesOK
    <3> SUFFICES ASSUME Init, NEW d \in Dirs PROVE CopyOK(d)
      BY DEF CopiesOK
    <3>1. CopiesOf(d) = {} /\ Writers(d) = {} /\ remote = disk
      BY EmptySeq DEF Init, CopiesOf, Writers, Uploads, Begun
    <3> QED
      BY <3>1 DEF CopyOK
  <2> QED
    BY <2>1, InitFiles
<1>2. TypeInv /\ FilesOK /\ [Next]_vars => FilesOK'
  BY FilesOKNext
<1>3. TypeInv /\ FilesOK /\ CopiesOK /\ [Next]_vars => CopiesOK'
  BY CopiesOKNext
<1>4. CopiesOK => SecondaryFollows
  BY DEF CopiesOK, CopyOK, SecondaryFollows
<1> QED
  BY <1>1, <1>2, <1>3, <1>4, TypeInvAlways, PTL DEF Spec
=============================================================================
