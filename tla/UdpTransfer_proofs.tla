------------------------- MODULE UdpTransfer_proofs -------------------------
(***************************************************************************)
(* Proofs about UdpTransfer, for every file, tranche size, buffer and      *)
(* number of faults.                                                       *)
(***************************************************************************)
EXTENDS UdpTransfer, FiniteSetTheorems, SequenceTheorems, TLAPS

\* The loop indices stay inside the tranche being sent or received.
IndexOK ==
  /\ sPc \in {"start", "handshake"} => blocksSent = 0 /\ sIdx = 0
  /\ sPc = "send" => blocksSent < noBlocks /\ sIdx < Tranche(blocksSent)
  /\ rPc \in {"idle", "open"} => blocksRead = 0 /\ rIdx = 0
  /\ rPc = "recv" => blocksRead < noBlocks /\ rIdx < Tranche(blocksRead)

TypeInv == TypeOK /\ IndexOK

-----------------------------------------------------------------------------
\* A tranche has at most NO_BLOCKS_TRANSFER blocks, and at least one of those
\* that are left.
LEMMA TrancheBounds ==
  ASSUME NEW done \in Nat, done <= noBlocks
  PROVE  /\ noBlocks \in Nat
         /\ Tranche(done) \in Nat
         /\ Tranche(done) <= NO_BLOCKS_TRANSFER
         /\ done + Tranche(done) <= noBlocks
         /\ done < noBlocks => 0 < Tranche(done)
<1>1. noBlocks \in Nat
  BY FileAssumption, LenProperties DEF noBlocks
<1> QED
  BY <1>1, TrancheAssumption DEF Tranche

\* What the network makes of a datagram of kind S is a queue of such.
LEMMA EnqueueType ==
  ASSUME NEW S, NEW q \in Seq(S), NEW m \in S
  PROVE  Enqueue(q, m) \in Seq(S)
BY AppendProperties DEF Enqueue

LEMMA SwapType ==
  ASSUME NEW S, NEW q \in Seq(S), NEW i \in 1 .. Len(q) - 1
  PROVE  /\ Swap(q, i) \in Seq(S)
         /\ Len(Swap(q, i)) = Len(q)
         /\ Swap(q, i)[i] = q[i + 1]
         /\ Swap(q, i)[i + 1] = q[i]
         /\ \A j \in 1 .. Len(q) : j # i /\ j # i + 1 => Swap(q, i)[j] = q[j]
<1>1. Len(q) \in Nat /\ DOMAIN q = 1 .. Len(q)
  BY LenProperties
<1>2. i \in 1 .. Len(q) /\ i + 1 \in 1 .. Len(q)
  BY <1>1
<1>3. q[i] \in S /\ q[i + 1] \in S
  BY <1>1, <1>2, ElementOfSeq
<1>4. [q EXCEPT ![i] = q[i + 1]] \in Seq(S)
  BY <1>1, <1>2, <1>3, ExceptSeq
<1> QED
  BY <1>1, <1>2, <1>3 DEF Swap

LEMMA ToSecondaryType ==
  ASSUME TypeOK, NEW m \in Datagrams, ToSecondary(m)
  PROVE  toRcv' \in Seq(Datagrams) /\ losses' \in 0 .. MaxLosses
<1>1. toRcv \in Seq(Datagrams) /\ losses \in 0 .. MaxLosses
  BY DEF TypeOK
<1>2. Enqueue(toRcv, m) \in Seq(Datagrams)
  BY <1>1, EnqueueType
<1> QED
  BY <1>1, <1>2, BoundAssumption DEF ToSecondary, Lose

LEMMA ToPrimaryType ==
  ASSUME TypeOK, NEW m \in {OK} \cup Seq(Datagrams), ToPrimary(m)
  PROVE  toSnd' \in Seq({OK} \cup Seq(Datagrams)) /\ losses' \in 0 .. MaxLosses
<1>1. toSnd \in Seq({OK} \cup Seq(Datagrams)) /\ losses \in 0 .. MaxLosses
  BY DEF TypeOK
<1>2. Enqueue(toSnd, m) \in Seq({OK} \cup Seq(Datagrams))
  BY <1>1, EnqueueType
<1> QED
  BY <1>1, <1>2, BoundAssumption DEF ToPrimary, Lose

LEMMA TimesOutType ==
  ASSUME TypeOK, NEW quiet, TimesOut(quiet)
  PROVE  late' \in 0 .. MaxLate
BY BoundAssumption DEF TypeOK, TimesOut

-----------------------------------------------------------------------------
LEMMA InitTypeInv == Init => TypeInv
<1> SUFFICES ASSUME Init PROVE TypeInv
  OBVIOUS
<1>1. noBlocks \in Nat
  BY FileAssumption, LenProperties DEF noBlocks
<1>2. TypeOK
  BY <1>1, TrancheAssumption, FileAssumption, BoundAssumption
  DEF Init, TypeOK, Slots
<1> QED
  BY <1>2 DEF Init, TypeInv, IndexOK

LEMMA NextTypeInv == TypeInv /\ [Next]_vars => TypeInv'
<1> SUFFICES ASSUME TypeInv, [Next]_vars PROVE TypeInv'
  OBVIOUS
<1> USE DEF TypeInv
<1>0. noBlocks \in Nat /\ OK \in Datagrams /\ ErrorMd5 \in Datagrams
  BY FileAssumption, LenProperties DEF noBlocks, Datagrams, Controls
<1>1. CASE SendFileInfo
  <2>1. losses' \in 0 .. MaxLosses
    BY <1>1, BoundAssumption DEF SendFileInfo, Lose, TypeOK
  <2>2. info' \in BOOLEAN
    BY <1>1, Zenon DEF SendFileInfo, TypeOK
  <2>3. TypeOK'
    BY <1>1, <2>1, <2>2 DEF SendFileInfo, TypeOK, rVars
  <2>4. IndexOK'
    BY <1>1 DEF SendFileInfo, IndexOK, rVars
  <2> QED
    BY <2>3, <2>4
<1>2. CASE TakeHandshake
  <2>1. toSnd' \in Seq({OK} \cup Seq(Datagrams))
    BY <1>2, HeadTailProperties DEF TakeHandshake, TypeOK
  <2>2. TypeOK'
    BY <1>2, <2>1 DEF TakeHandshake, SenderLoop, TypeOK, rVars
  <2>3. blocksSent = 0 /\ sIdx = 0
    BY <1>2 DEF TakeHandshake, IndexOK
  <2>4. 0 < noBlocks => 0 < Tranche(0)
    BY <1>0, TrancheBounds
  <2>5. /\ sPc' \in {"send", "done", "aborted"}
        /\ sPc' = "send" => 0 < noBlocks
    BY <1>2, <2>3 DEF TakeHandshake, SenderLoop
  <2>6. /\ blocksSent' = 0 /\ sIdx' = 0
        /\ UNCHANGED <<rPc, blocksRead, rIdx>>
    BY <1>2, <2>3 DEF TakeHandshake, rVars
  <2>7. IndexOK'
    BY <2>4, <2>5, <2>6 DEF IndexOK
  <2> QED
    BY <2>2, <2>7
<1>3. CASE HandshakeTimeout
  <2>1. late' \in 0 .. MaxLate
    BY <1>3, TimesOutType DEF HandshakeTimeout
  <2> QED
    BY <1>3, <2>1 DEF HandshakeTimeout, TypeOK, IndexOK, rVars
<1>4. CASE SendBlock
  <2> DEFINE block == File[blocksSent + sIdx + 1]
  <2>1. blocksSent < noBlocks /\ sIdx < Tranche(blocksSent)
    BY <1>4 DEF SendBlock, IndexOK
  <2>2. blocksSent \in Nat /\ sIdx \in Nat
    BY DEF TypeOK
  <2>3. /\ blocksSent + sIdx + 1 \in 1 .. noBlocks
        /\ sIdx + 1 \in 0 .. NO_BLOCKS_TRANSFER
    BY <1>0, <2>1, <2>2, TrancheBounds, TrancheAssumption
  <2>4. block \in Blocks
    BY <2>3, FileAssumption, ElementOfSeq DEF noBlocks
  <2>5. sMd' \in Seq(Blocks)
    BY <1>4, <2>4, AppendProperties DEF SendBlock, TypeOK
  <2>6. toRcv' \in Seq(Datagrams) /\ losses' \in 0 .. MaxLosses
    BY <1>4, <2>4, ToSecondaryType DEF SendBlock, Datagrams
  <2>7. sIdx' = sIdx + 1 /\ blocksSent' = blocksSent
    BY <1>4 DEF SendBlock
  <2>8. TypeOK'
    BY <1>4, <2>3, <2>5, <2>6, <2>7 DEF SendBlock, TypeOK, rVars
  <2>9. IndexOK'
    BY <1>4, <2>1, <2>7 DEF SendBlock, IndexOK, rVars, Tranche
  <2> QED
    BY <2>8, <2>9
<1>5. ASSUME NEW md5Secondary, Judge(md5Secondary),
             toSnd' \in Seq({OK} \cup Seq(Datagrams)),
             late' \in 0 .. MaxLate
      PROVE  TypeInv'
  <2>1. toRcv' \in Seq(Datagrams) /\ losses' \in 0 .. MaxLosses
    BY <1>0, <1>5, ToSecondaryType DEF Judge
  <2>2. blocksSent' \in Nat /\ sIdx' = 0 /\ sPc' = SenderLoop(blocksSent')
    BY <1>5, TrancheAssumption, SMTT(20) DEF Judge, TypeOK
  <2>3. newInfo' \in BOOLEAN /\ hollow' \in BOOLEAN
    BY <1>5, Zenon DEF Judge, TypeOK
  <2>4. UNCHANGED <<rVars, info, overtakes>> /\ sMd' = << >>
    BY <1>5 DEF Judge
  <2>5. sPc' \in {"send", "done"} /\ (sPc' = "send" => blocksSent' < noBlocks)
    BY <2>2 DEF SenderLoop
  <2>6. TypeOK'
    BY <1>5, <2>1, <2>2, <2>3, <2>4, <2>5, TrancheAssumption, SMTT(20)
    DEF TypeOK, rVars
  <2>7. blocksSent' < noBlocks => 0 < Tranche(blocksSent')
    BY <1>0, <2>2, TrancheBounds
  <2>8. IndexOK'
    BY <2>2, <2>4, <2>5, <2>7 DEF IndexOK, rVars
  <2> QED
    BY <2>6, <2>8
<1>6. CASE CheckMd5
  <2>1. toSnd' \in Seq({OK} \cup Seq(Datagrams))
    BY <1>6, HeadTailProperties DEF CheckMd5, TypeOK
  <2>2. late' \in 0 .. MaxLate
    BY <1>6 DEF CheckMd5, TypeOK
  <2> QED
    BY <1>5, <1>6, <2>1, <2>2 DEF CheckMd5
<1>7. CASE Md5Timeout
  <2>1. toSnd' \in Seq({OK} \cup Seq(Datagrams))
    BY <1>7 DEF Md5Timeout, TypeOK
  <2>2. late' \in 0 .. MaxLate
    BY <1>7, TimesOutType DEF Md5Timeout
  <2> QED
    BY <1>5, <1>7, <2>1, <2>2 DEF Md5Timeout
<1>8. CASE AcceptUdp
  BY <1>8 DEF AcceptUdp, TypeOK, IndexOK, sVars, Tranche
<1>9. CASE OpenCopy
  <2>1. toSnd' \in Seq({OK} \cup Seq(Datagrams)) /\ losses' \in 0 .. MaxLosses
    BY <1>9, ToPrimaryType DEF OpenCopy
  <2>2. copy' \in Seq(Slots) /\ rPc' \in {"recv", "done", "failed"}
    <3>1. << >> \in Seq(Slots)
      OBVIOUS
    <3> QED
      BY <1>9, <3>1 DEF OpenCopy, ReceiverLoop, TypeOK
  <2>3. TypeOK'
    BY <1>9, <2>1, <2>2 DEF OpenCopy, TypeOK, sVars
  <2>4. blocksRead = 0 /\ rIdx = 0
    BY <1>9 DEF OpenCopy, IndexOK
  <2>5. rPc' = "recv" => 0 < noBlocks
    BY <1>9, <2>4 DEF OpenCopy, ReceiverLoop
  <2>6. IndexOK'
    BY <1>0, <1>9, <2>2, <2>4, <2>5, TrancheBounds
    DEF OpenCopy, IndexOK, sVars, TypeOK
  <2> QED
    BY <2>3, <2>6
<1>10. CASE ReceiveBlock
  <2>1. blocksRead < noBlocks /\ rIdx < Tranche(blocksRead)
    BY <1>10 DEF ReceiveBlock, IndexOK
  <2>2. blocksRead \in Nat /\ rIdx \in Nat /\ blocksRead <= noBlocks
    BY <1>0 DEF TypeOK
  <2>3. /\ rIdx \in 0 .. NO_BLOCKS_TRANSFER - 1
        /\ rIdx + 1 \in 0 .. NO_BLOCKS_TRANSFER
    BY <2>1, <2>2, TrancheBounds, TrancheAssumption
  <2>4. Head(toRcv) \in Datagrams /\ toRcv' \in Seq(Datagrams)
    BY <1>10, HeadTailProperties DEF ReceiveBlock, TypeOK
  <2>5. cache' \in [0 .. NO_BLOCKS_TRANSFER - 1 -> Slots]
    BY <1>10, <2>3, <2>4 DEF ReceiveBlock, TypeOK, Slots
  <2>6. rMd' \in Seq(Datagrams)
    BY <1>10, <2>4, AppendProperties DEF ReceiveBlock, TypeOK
  <2>7. TypeOK'
    BY <1>10, <2>3, <2>4, <2>5, <2>6
    DEF ReceiveBlock, AfterBlocks, TypeOK, sVars
  <2>8. IndexOK'
    BY <1>10, <2>1 DEF ReceiveBlock, AfterBlocks, IndexOK, sVars, Tranche
  <2> QED
    BY <2>7, <2>8
<1>11. CASE BlockTimeout
  <2>1. late' \in 0 .. MaxLate
    BY <1>11, TimesOutType DEF BlockTimeout
  <2> QED
    BY <1>11, <2>1 DEF BlockTimeout, TypeOK, IndexOK, sVars
<1>12. CASE SendMd5
  <2>1. toSnd' \in Seq({OK} \cup Seq(Datagrams)) /\ losses' \in 0 .. MaxLosses
    BY <1>12, ToPrimaryType DEF SendMd5, TypeOK
  <2> QED
    BY <1>12, <2>1 DEF SendMd5, TypeOK, IndexOK, sVars
<1>13. ASSUME NEW ans, Settle(ans),
              toRcv' \in Seq(Datagrams), late' \in 0 .. MaxLate
       PROVE  TypeInv'
  <2>1. blocksRead \in Nat /\ blocksRead <= noBlocks
    BY <1>0 DEF TypeOK
  <2>2. /\ Tranche(blocksRead) \in Nat
        /\ Tranche(blocksRead) <= NO_BLOCKS_TRANSFER
        /\ blocksRead + Tranche(blocksRead) <= noBlocks
    BY <2>1, TrancheBounds
  <2>3. blocksRead' \in 0 .. noBlocks
    BY <1>0, <1>13, <2>1, <2>2 DEF Settle
  <2>4. [i \in 1 .. Tranche(blocksRead) |-> cache[i - 1]] \in Seq(Slots)
    <3>1. \A i \in 1 .. Tranche(blocksRead) : cache[i - 1] \in Slots
      BY <2>2, TrancheAssumption DEF TypeOK
    <3> QED
      BY <2>2, <3>1, IsASeq
  <2>5. copy' \in Seq(Slots)
    <3> DEFINE tranche == [i \in 1 .. Tranche(blocksRead) |-> cache[i - 1]]
    <3>1. copy \in Seq(Slots)
      BY DEF TypeOK
    <3>2. copy \o tranche \in Seq(Slots)
      BY <2>4, <3>1, ConcatProperties
    <3>3. copy' = copy \o tranche \/ copy' = copy
      BY <1>13 DEF Settle
    <3> QED
      BY <3>1, <3>2, <3>3
  <2>6. /\ rMd' \in Seq(Datagrams)
        /\ clone' = rMd'
        /\ rIdx' = 0
        /\ rPc' = ReceiverLoop(blocksRead')
    BY <1>13 DEF Settle, TypeOK
  <2>10. mistaken' \in BOOLEAN
    BY <1>13, Zenon DEF Settle, TypeOK
  <2>7. TypeOK'
    BY <1>13, <2>3, <2>5, <2>6, <2>10, TrancheAssumption
    DEF Settle, ReceiverLoop, TypeOK, sVars
  <2>8. blocksRead' < noBlocks => 0 < Tranche(blocksRead')
    BY <2>3, <1>0, TrancheBounds
  <2>9. IndexOK'
    BY <1>13, <2>6, <2>8 DEF Settle, ReceiverLoop, IndexOK, sVars, Tranche
  <2> QED
    BY <2>7, <2>9
<1>14. CASE ReceiveAnswer
  <2>1. toRcv' \in Seq(Datagrams)
    BY <1>14, HeadTailProperties DEF ReceiveAnswer, TypeOK
  <2>2. late' \in 0 .. MaxLate
    BY <1>14 DEF ReceiveAnswer, TypeOK
  <2> QED
    BY <1>13, <1>14, <2>1, <2>2 DEF ReceiveAnswer
<1>15. CASE AnswerTimeout
  <2>1. toRcv' \in Seq(Datagrams)
    BY <1>15 DEF AnswerTimeout, TypeOK
  <2>2. late' \in 0 .. MaxLate
    BY <1>15, TimesOutType DEF AnswerTimeout
  <2> QED
    BY <1>13, <1>15, <2>1, <2>2 DEF AnswerTimeout
<1>16. CASE Overtake
  <2>1. toRcv' \in Seq(Datagrams)
    BY <1>16, SwapType DEF Overtake, TypeOK
  <2>2. toSnd' \in Seq({OK} \cup Seq(Datagrams))
    BY <1>16, SwapType DEF Overtake, TypeOK
  <2>3. overtakes' \in 0 .. MaxOvertakes
    BY <1>16, BoundAssumption DEF Overtake, TypeOK
  <2> QED
    BY <1>16, <2>1, <2>2, <2>3 DEF Overtake, TypeOK, IndexOK, sVars, rVars
<1>17. CASE UNCHANGED vars
  BY <1>17 DEF vars, sVars, rVars, netVars, TypeOK, IndexOK
<1> QED
  BY <1>1, <1>2, <1>3, <1>4, <1>6, <1>7, <1>8, <1>9, <1>10, <1>11, <1>12,
     <1>14, <1>15, <1>16, <1>17
  DEF Next, Sender, Receiver

\* UdpTransfer is well-typed in every state: in particular no loop of either
\* end leaves its tranche, the cache or the file.
THEOREM TypeCorrect == Spec => []TypeOK
<1>1. Spec => []TypeInv
  BY InitTypeInv, NextTypeInv, PTL DEF Spec
<1>2. TypeInv => TypeOK
  BY DEF TypeInv
<1> QED
  BY <1>1, <1>2, PTL

-----------------------------------------------------------------------------
(* The secondary never writes ahead of the primary's approvals.  An        *)
(* approval is an "OK" on its way: counting those makes the claim          *)
(* inductive.                                                              *)

Acks(q) == {j \in 1 .. Len(q) : q[j] = OK}
Pending == Cardinality(Acks(toRcv))

\* Every approved tranche is written, lost, or still on its way; the secondary
\* will stay c blocks behind even when what is on its way is written.
LagsBy(c) == blocksRead + NO_BLOCKS_TRANSFER * Pending + c <= blocksSent

LEMMA AcksFinite ==
  ASSUME NEW S, NEW q \in Seq(S)
  PROVE  IsFiniteSet(Acks(q)) /\ Cardinality(Acks(q)) \in Nat
<1>1. Len(q) \in Nat
  BY LenProperties
<1>2. IsFiniteSet(1 .. Len(q))
  BY <1>1, FS_Interval
<1>3. IsFiniteSet(Acks(q))
  BY <1>2, FS_Subset DEF Acks
<1> QED
  BY <1>3, FS_CardinalityType

LEMMA AcksAppend ==
  ASSUME NEW S, NEW q \in Seq(S), NEW m \in S
  PROVE  LET n == Cardinality(Acks(q)) IN
         /\ m = OK => Cardinality(Acks(Append(q, m))) = n + 1
         /\ m # OK => Cardinality(Acks(Append(q, m))) = n
<1>1. /\ Len(q) \in Nat
      /\ Len(Append(q, m)) = Len(q) + 1
      /\ \A j \in 1 .. Len(q) : Append(q, m)[j] = q[j]
      /\ Append(q, m)[Len(q) + 1] = m
  BY AppendProperties, LenProperties
<1>2. Cardinality(Acks(q)) \in Nat /\ IsFiniteSet(Acks(q))
  BY AcksFinite
<1>3. CASE m = OK
  <2>1. Acks(Append(q, m)) = Acks(q) \cup {Len(q) + 1}
    BY <1>1, <1>3 DEF Acks
  <2>2. Len(q) + 1 \notin Acks(q)
    BY <1>1 DEF Acks
  <2> QED
    BY <1>2, <1>3, <2>1, <2>2, FS_AddElement
<1>4. CASE m # OK
  <2>1. Acks(Append(q, m)) = Acks(q)
    BY <1>1, <1>4 DEF Acks
  <2> QED
    BY <1>2, <1>4, <2>1
<1> QED
  BY <1>3, <1>4

LEMMA AcksTail ==
  ASSUME NEW S, NEW q \in Seq(S), q # << >>
  PROVE  /\ Head(q) = OK => Cardinality(Acks(q)) = Cardinality(Acks(Tail(q))) + 1
         /\ Head(q) # OK => Cardinality(Acks(q)) = Cardinality(Acks(Tail(q)))
<1>1. /\ Len(q) \in Nat \ {0}
      /\ Tail(q) \in Seq(S)
      /\ Len(Tail(q)) = Len(q) - 1
      /\ \A j \in 1 .. Len(Tail(q)) : Tail(q)[j] = q[j + 1]
      /\ Head(q) = q[1]
  BY HeadTailProperties, LenProperties, EmptySeq
<1> DEFINE Later == {j \in Acks(q) : j # 1}
           f == [j \in Acks(Tail(q)) |-> j + 1]
<1>2. /\ IsFiniteSet(Acks(Tail(q))) /\ Cardinality(Acks(Tail(q))) \in Nat
      /\ IsFiniteSet(Acks(q)) /\ Cardinality(Acks(q)) \in Nat
  BY <1>1, AcksFinite
<1>3. f \in Bijection(Acks(Tail(q)), Later)
  <2>1. \A j \in Acks(Tail(q)) : j + 1 \in Later /\ j \in Nat
    BY <1>1 DEF Acks
  <2>2. \A k \in Later : k - 1 \in Acks(Tail(q)) /\ f[k - 1] = k
    BY <1>1 DEF Acks
  <2>3. f \in [Acks(Tail(q)) -> Later]
    BY <2>1
  <2>4. \A i, j \in Acks(Tail(q)) : f[i] = f[j] => i = j
    BY <2>1
  <2>5. \A k \in Later : \E j \in Acks(Tail(q)) : f[j] = k
    BY <2>2
  <2> QED
    BY <2>3, <2>4, <2>5 DEF Bijection, Injection, Surjection, IsInjective
<1>4. IsFiniteSet(Later) /\ Cardinality(Later) = Cardinality(Acks(Tail(q)))
  <2>1. ExistsBijection(Acks(Tail(q)), Later)
    BY <1>3 DEF ExistsBijection
  <2> HIDE DEF Later, f
  <2> QED
    BY <1>2, <2>1, FS_Bijection
<1>5. CASE Head(q) = OK
  <2>1. Acks(q) = Later \cup {1} /\ 1 \notin Later
    BY <1>1, <1>5 DEF Acks
  <2> HIDE DEF Later, f
  <2> QED
    BY <1>2, <1>4, <1>5, <2>1, FS_AddElement
<1>6. CASE Head(q) # OK
  <2>1. Acks(q) = Later
    BY <1>1, <1>6 DEF Acks
  <2> HIDE DEF Later, f
  <2> QED
    BY <1>2, <1>4, <1>6, <2>1
<1> QED
  BY <1>5, <1>6

LEMMA AcksSwap ==
  ASSUME NEW S, NEW q \in Seq(S), NEW i \in 1 .. Len(q) - 1
  PROVE  Cardinality(Acks(Swap(q, i))) = Cardinality(Acks(q))
<1> DEFINE r == Swap(q, i)
           mirror(j) == IF j = i THEN i + 1 ELSE IF j = i + 1 THEN i ELSE j
           f == [j \in Acks(q) |-> mirror(j)]
<1>1. /\ r \in Seq(S) /\ Len(r) = Len(q)
      /\ r[i] = q[i + 1] /\ r[i + 1] = q[i]
      /\ \A j \in 1 .. Len(q) : j # i /\ j # i + 1 => r[j] = q[j]
  BY SwapType
<1>2. Len(q) \in Nat
  BY LenProperties
<1> HIDE DEF r
<1>3. \A j \in 1 .. Len(q) : /\ mirror(j) \in 1 .. Len(q)
                             /\ mirror(mirror(j)) = j
                             /\ r[mirror(j)] = q[j]
  BY <1>1, <1>2
<1>4. f \in Bijection(Acks(q), Acks(r))
  <2> HIDE DEF mirror
  <2>1. \A j \in Acks(q) : j \in 1 .. Len(q) /\ mirror(j) \in Acks(r)
    BY <1>1, <1>3 DEF Acks
  <2>2. \A k \in Acks(r) : mirror(k) \in Acks(q) /\ f[mirror(k)] = k
    <3> SUFFICES ASSUME NEW k \in Acks(r)
                 PROVE  mirror(k) \in Acks(q) /\ f[mirror(k)] = k
      OBVIOUS
    <3>1. k \in 1 .. Len(q) /\ r[k] = OK
      BY <1>1 DEF Acks
    <3>2. mirror(k) \in 1 .. Len(q) /\ mirror(mirror(k)) = k
      BY <1>3, <3>1
    <3>3. q[mirror(k)] = OK
      BY <1>3, <3>1, <3>2
    <3> QED
      BY <3>2, <3>3 DEF Acks
  <2>3. f \in [Acks(q) -> Acks(r)]
    BY <2>1
  <2>4. \A j, k \in Acks(q) : f[j] = f[k] => j = k
    BY <1>3, <2>1
  <2>5. \A k \in Acks(r) : \E j \in Acks(q) : f[j] = k
    BY <2>2
  <2> QED
    BY <2>3, <2>4, <2>5 DEF Bijection, Injection, Surjection, IsInjective
<1>5. ExistsBijection(Acks(q), Acks(r))
  BY <1>4 DEF ExistsBijection
<1>6. IsFiniteSet(Acks(q))
  BY AcksFinite
<1>7. Cardinality(Acks(q)) = Cardinality(Acks(r))
  <2> HIDE DEF f
  <2> QED
    BY <1>5, <1>6, FS_Bijection
<1> QED
  BY <1>7 DEF r

\* Queueing a datagram adds at most one approval, and none unless it is one.
LEMMA AcksToSecondary ==
  ASSUME TypeOK, NEW m \in Datagrams, ToSecondary(m)
  PROVE  /\ Pending \in Nat /\ Pending' \in Nat
         /\ Pending' = Pending \/ (m = OK /\ Pending' = Pending + 1)
<1>1. toRcv \in Seq(Datagrams) /\ Pending \in Nat
  BY AcksFinite DEF TypeOK, Pending
<1>2. CASE toRcv' = Append(toRcv, m)
  <2>1. /\ m = OK => Pending' = Pending + 1
        /\ m # OK => Pending' = Pending
    BY <1>1, <1>2, AcksAppend DEF Pending
  <2> QED
    BY <1>1, <2>1
<1>3. CASE toRcv' = toRcv
  BY <1>1, <1>3 DEF Pending
<1> QED
  BY <1>2, <1>3 DEF ToSecondary, Enqueue

LEMMA InitLagsBy == Init => LagsBy(0)
<1> SUFFICES ASSUME Init PROVE LagsBy(0)
  OBVIOUS
<1>1. Acks(toRcv) = {}
  BY DEF Init, Acks
<1>2. Pending = 0
  BY <1>1, FS_EmptySet DEF Pending
<1> QED
  BY <1>2, TrancheAssumption DEF Init, LagsBy

\* One more tranche is one more NO_BLOCKS_TRANSFER.
LEMMA OneMore ==
  ASSUME NEW n \in Nat
  PROVE  /\ NO_BLOCKS_TRANSFER * n \in Nat
         /\ NO_BLOCKS_TRANSFER * (n + 1) =
              NO_BLOCKS_TRANSFER * n + NO_BLOCKS_TRANSFER
BY TrancheAssumption

\* What reads as an approval and is no block of the file is one.
LEMMA ReadsAsOk ==
  ASSUME NEW ans \in Datagrams, IsOk(ans), ans \notin Blocks
  PROVE  ans = OK
BY ControlAssumption DEF IsOk, Datagrams, Controls

\* A lag is never made good: while approvals can be told from the file's
\* blocks, no step brings the two ends closer than those under way already do.
LEMMA NextLagsBy ==
  ASSUME NEW c \in Nat, TypeInv, LagsBy(c), [Next]_vars, OK \notin Blocks, ~mistaken'
  PROVE  LagsBy(c)'
<1> USE DEF TypeInv
<1>a. ErrorMd5 # OK /\ \A b \in Blocks : b # OK
  BY ControlAssumption
<1>b. toRcv \in Seq(Datagrams) /\ Pending \in Nat
  BY AcksFinite DEF TypeOK, Pending
<1>0. /\ noBlocks \in Nat /\ OK \in Datagrams /\ ErrorMd5 \in Datagrams
      /\ ErrorMd5 # OK /\ \A b \in Blocks : b # OK /\ b \in Datagrams
      /\ NO_BLOCKS_TRANSFER \in Nat
      /\ toRcv \in Seq(Datagrams) /\ Pending \in Nat
      /\ blocksSent \in Nat /\ blocksRead \in Nat /\ blocksRead <= noBlocks
  BY <1>a, <1>b, FileAssumption, TrancheAssumption, LenProperties
     DEF noBlocks, Datagrams, Controls, TypeOK
<1>1. ASSUME UNCHANGED <<blocksSent, blocksRead, toRcv>>
      PROVE  LagsBy(c)'
  BY <1>1 DEF LagsBy, Pending
<1>2. CASE SendBlock
  <2> DEFINE block == File[blocksSent + sIdx + 1]
  <2>1. blocksSent < noBlocks /\ sIdx < Tranche(blocksSent) /\ sIdx \in Nat
    BY <1>2 DEF SendBlock, IndexOK, TypeOK
  <2>2. blocksSent + sIdx + 1 \in 1 .. noBlocks
    BY <1>0, <2>1, TrancheBounds
  <2>3. block \in Blocks
    BY <2>2, FileAssumption, ElementOfSeq DEF noBlocks
  <2>4. Pending' = Pending
    BY <1>0, <1>2, <2>3, AcksToSecondary DEF SendBlock
  <2>5. UNCHANGED <<blocksSent, blocksRead>>
    BY <1>2 DEF SendBlock, rVars
  <2> QED
    BY <2>4, <2>5 DEF LagsBy
<1>3. ASSUME NEW md5Secondary, Judge(md5Secondary)
      PROVE  LagsBy(c)'
  <2>1. blocksRead' = blocksRead
    BY <1>3 DEF Judge, rVars
  <2>2. CASE /\ ToSecondary(OK)
             /\ blocksSent' = blocksSent + NO_BLOCKS_TRANSFER
    <3>1. Pending' = Pending \/ Pending' = Pending + 1
      BY <1>0, <2>2, AcksToSecondary
    <3>2. /\ NO_BLOCKS_TRANSFER * Pending \in Nat
          /\ NO_BLOCKS_TRANSFER * (Pending + 1) =
               NO_BLOCKS_TRANSFER * Pending + NO_BLOCKS_TRANSFER
      BY <1>0, OneMore
    <3>3. \/ NO_BLOCKS_TRANSFER * Pending' = NO_BLOCKS_TRANSFER * Pending
          \/ NO_BLOCKS_TRANSFER * Pending' =
               NO_BLOCKS_TRANSFER * Pending + NO_BLOCKS_TRANSFER
      BY <3>1, <3>2
    <3> QED
      BY <1>0, <2>1, <2>2, <3>2, <3>3 DEF LagsBy
  <2>3. CASE ToSecondary(ErrorMd5) /\ blocksSent' = blocksSent
    <3>1. Pending' = Pending
      BY <1>0, <2>3, AcksToSecondary
    <3> QED
      BY <2>1, <2>3, <3>1 DEF LagsBy
  <2> QED
    BY <1>3, <2>2, <2>3 DEF Judge
<1>4. CASE ReceiveBlock
  <2>1. /\ toRcv # << >> /\ toRcv' = Tail(toRcv)
        /\ UNCHANGED <<blocksSent, blocksRead>>
    BY <1>4 DEF ReceiveBlock, sVars
  <2>2. /\ Head(toRcv) = OK => Pending = Pending' + 1
        /\ Head(toRcv) # OK => Pending = Pending'
    BY <1>0, <2>1, AcksTail DEF Pending
  <2>3. Tail(toRcv) \in Seq(Datagrams)
    BY <1>0, <2>1, HeadTailProperties
  <2>4. Pending' \in Nat
    BY <2>1, <2>3, AcksFinite DEF Pending
  <2>5. Pending = Pending' + 1 \/ Pending = Pending'
    BY <2>2, <2>4
  <2>6. /\ NO_BLOCKS_TRANSFER * Pending' \in Nat
        /\ NO_BLOCKS_TRANSFER * Pending' <= NO_BLOCKS_TRANSFER * Pending
    <3>1. /\ NO_BLOCKS_TRANSFER * Pending' \in Nat
          /\ NO_BLOCKS_TRANSFER * (Pending' + 1) =
               NO_BLOCKS_TRANSFER * Pending' + NO_BLOCKS_TRANSFER
      BY <2>4, OneMore
    <3>2. \/ NO_BLOCKS_TRANSFER * Pending = NO_BLOCKS_TRANSFER * Pending'
          \/ NO_BLOCKS_TRANSFER * Pending =
               NO_BLOCKS_TRANSFER * Pending' + NO_BLOCKS_TRANSFER
      BY <2>5, <3>1
    <3> QED
      BY <1>0, <3>1, <3>2
  <2>7. NO_BLOCKS_TRANSFER * Pending \in Nat
    BY <1>0, OneMore
  <2> QED
    BY <1>0, <2>1, <2>6, <2>7 DEF LagsBy
<1>5. CASE ReceiveAnswer
  <2>1. /\ toRcv # << >> /\ toRcv' = Tail(toRcv)
        /\ blocksSent' = blocksSent
        /\ Settle(Head(toRcv))
    BY <1>5 DEF ReceiveAnswer, Settle, sVars
  <2>2. /\ Head(toRcv) = OK => Pending = Pending' + 1
        /\ Head(toRcv) # OK => Pending = Pending'
    BY <1>0, <2>1, AcksTail DEF Pending
  <2>3. Tail(toRcv) \in Seq(Datagrams)
    BY <1>0, <2>1, HeadTailProperties
  <2>4. Pending' \in Nat
    BY <2>1, <2>3, AcksFinite DEF Pending
  <2>5. /\ NO_BLOCKS_TRANSFER * Pending' \in Nat
        /\ NO_BLOCKS_TRANSFER * (Pending' + 1) =
             NO_BLOCKS_TRANSFER * Pending' + NO_BLOCKS_TRANSFER
    BY <2>4, OneMore
  <2>6. CASE Head(toRcv) = OK
    <3>1. blocksRead' = blocksRead + Tranche(blocksRead)
      BY <2>1, <2>6, ControlAssumption DEF Settle, IsOk
    <3>2. /\ Tranche(blocksRead) \in Nat
          /\ Tranche(blocksRead) <= NO_BLOCKS_TRANSFER
      BY <1>0, TrancheBounds
    <3>3. NO_BLOCKS_TRANSFER * Pending =
            NO_BLOCKS_TRANSFER * Pending' + NO_BLOCKS_TRANSFER
      BY <2>2, <2>5, <2>6
    <3> QED
      BY <1>0, <2>1, <2>5, <3>1, <3>2, <3>3 DEF LagsBy
  <2>7. CASE Head(toRcv) # OK
    <3>1. blocksRead' = blocksRead
      <4>1. Head(toRcv) \in Datagrams
        BY <1>0, <2>1, HeadTailProperties
      <4>2. ~IsOk(Head(toRcv)) \/ Head(toRcv) \in Blocks
        BY <2>7, <4>1, ReadsAsOk
      <4> QED
        BY <2>1, <4>2 DEF Settle
    <3>2. Pending = Pending'
      BY <2>2, <2>4, <2>7
    <3> QED
      BY <2>1, <3>1, <3>2 DEF LagsBy
  <2> QED
    BY <2>6, <2>7
<1>6. CASE AnswerTimeout
  <2>1. ~IsOk(NoAnswer)
    BY NoAnswerAssumption DEF IsOk
  <2> QED
    BY <1>1, <1>6, <2>1 DEF AnswerTimeout, Settle, sVars
<1>7. CASE Overtake
  <2>1. Pending' = Pending
    <3>1. CASE UNCHANGED toRcv
      BY <3>1 DEF Pending
    <3>2. ASSUME NEW i \in 1 .. Len(toRcv) - 1, toRcv' = Swap(toRcv, i)
          PROVE  Pending' = Pending
      BY <1>0, <3>2, AcksSwap DEF Pending
    <3> QED
      BY <1>7, <3>1, <3>2 DEF Overtake
  <2> QED
    BY <1>7, <2>1 DEF Overtake, LagsBy, sVars, rVars
<1>8. CASE \/ SendFileInfo \/ TakeHandshake \/ HandshakeTimeout
           \/ AcceptUdp \/ OpenCopy \/ BlockTimeout \/ SendMd5
  BY <1>1, <1>8 DEF SendFileInfo, TakeHandshake, HandshakeTimeout, AcceptUdp,
     OpenCopy, BlockTimeout, SendMd5, sVars, rVars
<1>9. CASE UNCHANGED vars
  BY <1>1, <1>9 DEF vars, sVars, rVars, netVars
<1> QED
  BY <1>2, <1>3, <1>4, <1>5, <1>6, <1>7, <1>8, <1>9
  DEF Next, Sender, Receiver, CheckMd5, Md5Timeout

\* When the file has a block that is an "OK" itself, the first answer that
\* reads so is taken for what it may be.
Lags ==
  \/ mistaken
  \/ OK \in Blocks /\ blocksRead = 0
  \/ OK \notin Blocks /\ LagsBy(0)

\* Whatever moves blocksRead reads as an approval.
LEMMA WriteReadsOk ==
  ASSUME TypeInv, [Next]_vars, ~mistaken', OK \in Blocks
  PROVE  blocksRead' = blocksRead
<1>1. toRcv \in Seq(Datagrams)
  BY DEF TypeInv, TypeOK
<1>2. CASE ReceiveAnswer
  <2>1. toRcv # << >> /\ Settle(Head(toRcv)) /\ Head(toRcv) \in Datagrams
    BY <1>1, <1>2, HeadTailProperties DEF ReceiveAnswer
  <2>2. ~IsOk(Head(toRcv)) \/ Head(toRcv) \in Blocks
    BY <2>1, ReadsAsOk
  <2> QED
    BY <2>1, <2>2 DEF Settle
<1>3. CASE AnswerTimeout
  BY <1>3, NoAnswerAssumption DEF AnswerTimeout, Settle, IsOk
<1>4. CASE UNCHANGED blocksRead
  BY <1>4
<1> QED
  BY <1>2, <1>3, <1>4
     DEF Next, Sender, SendFileInfo, TakeHandshake, HandshakeTimeout, SendBlock, CheckMd5,
     Md5Timeout, Judge, Receiver, AcceptUdp, OpenCopy, ReceiveBlock, BlockTimeout, SendMd5,
     Overtake, vars, rVars

LEMMA StaysMistaken ==
  ASSUME mistaken, [Next]_vars
  PROVE  mistaken'
BY DEF Next, Sender, SendFileInfo, TakeHandshake, HandshakeTimeout, SendBlock, CheckMd5,
   Md5Timeout, Judge, Receiver, AcceptUdp, OpenCopy, ReceiveBlock, BlockTimeout, SendMd5,
   ReceiveAnswer, AnswerTimeout, Settle, Overtake, vars, rVars

LEMMA InitLags == Init => Lags
BY InitLagsBy DEF Lags, Init

LEMMA NextLags == TypeInv /\ Lags /\ [Next]_vars => Lags'
<1> SUFFICES ASSUME TypeInv, Lags, [Next]_vars, ~mistaken' PROVE Lags'
  BY DEF Lags
<1>1. ~mistaken
  BY StaysMistaken
<1>2. CASE OK \in Blocks /\ blocksRead = 0
  BY <1>2, WriteReadsOk DEF Lags
<1>3. CASE OK \notin Blocks /\ LagsBy(0)
  <2>1. LagsBy(0)'
    BY <1>3, NextLagsBy
  <2> QED
    BY <1>3, <2>1 DEF Lags
<1> QED
  BY <1>1, <1>2, <1>3 DEF Lags

LEMMA NotAhead ==
  ASSUME TypeInv, Lags
  PROVE  SecondaryNeverAhead
<1>1. Pending \in Nat /\ blocksRead \in Int /\ blocksSent \in Nat
  BY AcksFinite DEF TypeInv, TypeOK, Pending
<1>2. NO_BLOCKS_TRANSFER * Pending \in Nat
  BY <1>1, OneMore
<1> QED
  BY <1>1, <1>2 DEF Lags, LagsBy, SecondaryNeverAhead

\* However many datagrams are lost, overtaken or late, and whatever the file
\* holds, the secondary has written no more than the primary has approved,
\* until a block of the file has passed for an approval.
THEOREM NeverAhead == Spec => []SecondaryNeverAhead
<1>1. Init => TypeInv /\ Lags
  BY InitTypeInv, InitLags
<1>2. TypeInv /\ Lags /\ [Next]_vars => (TypeInv /\ Lags)'
  BY NextTypeInv, NextLags
<1>3. TypeInv /\ Lags => SecondaryNeverAhead
  BY NotAhead
<1> QED
  BY <1>1, <1>2, <1>3, PTL DEF Spec

-----------------------------------------------------------------------------
(* A copy that is finished is exact.  The digests say what each end took   *)
(* in since it last compared; following the blocks of one tranche through  *)
(* them, the two sockets and the cache makes the claim inductive.          *)

\* What the secondary's digest holds is what this round put in the cache.
RoundOK ==
  /\ clone = << >>
  /\ rPc \in {"recv", "digest"} =>
       rIdx = Len(rMd) /\ \A i \in 1 .. Len(rMd) : cache[i - 1] = rMd[i]
  /\ rPc \notin {"recv", "digest"} => rMd = << >>
  /\ rPc = "done" => blocksRead = noBlocks
  /\ rPc \in {"recv", "digest", "answer"} => blocksRead < noBlocks

\* What the primary's digest holds is the tranche it read, as far as it sent
\* it, and nothing when it resends.
SentOK ==
  /\ sPc \in {"send", "await"} => blocksSent < noBlocks
  /\ sPc = "done" => noBlocks <= blocksSent
  /\ blocksSent < noBlocks + NO_BLOCKS_TRANSFER
  /\ sPc = "await" => sIdx = Tranche(blocksSent)
  /\ newInfo /\ sPc \in {"send", "await"} =>
       Len(sMd) = sIdx /\ \A i \in 1 .. sIdx : sMd[i] = File[blocksSent + i]
  /\ ~newInfo => sMd = << >> /\ sPc \in {"send", "await"}
  /\ sPc \notin {"send", "await"} => sMd = << >>

DigestInv == TypeInv /\ RoundOK /\ SentOK /\ Lags

Answers == {OK} \cup Seq(Datagrams)

LEMMA Ranges ==
  ASSUME TypeOK
  PROVE  /\ NO_BLOCKS_TRANSFER \in Nat \ {0} /\ noBlocks \in Nat
         /\ blocksSent \in Nat /\ blocksRead \in Nat /\ blocksRead <= noBlocks
         /\ sIdx \in Nat /\ rIdx \in Nat
         /\ toRcv \in Seq(Datagrams) /\ toSnd \in Seq(Answers)
         /\ rMd \in Seq(Datagrams) /\ clone \in Seq(Datagrams)
         /\ sMd \in Seq(Blocks) /\ sMd \in Seq(Datagrams)
         /\ copy \in Seq(Slots)
         /\ OK \in Datagrams /\ ErrorMd5 \in Datagrams
         /\ ~IsOk(NoAnswer) /\ IsOk(OK) /\ NoAnswer \notin Seq(Datagrams)
         /\ \A i \in 1 .. noBlocks : File[i] \in Blocks
<1>1. noBlocks \in Nat /\ \A i \in 1 .. noBlocks : File[i] \in Blocks
  BY FileAssumption, LenProperties, ElementOfSeq DEF noBlocks
<1>2. sMd \in Seq(Blocks) /\ Blocks \subseteq Datagrams
  BY DEF TypeOK, Datagrams
<1>3. sMd \in Seq(Datagrams)
  BY <1>2, SeqMonotonic
<1>4. /\ OK \in Datagrams /\ ErrorMd5 \in Datagrams
      /\ ~IsOk(NoAnswer) /\ IsOk(OK) /\ NoAnswer \notin Seq(Datagrams)
  BY ControlAssumption, NoAnswerAssumption DEF Datagrams, Controls, IsOk
<1> QED
  BY <1>1, <1>2, <1>3, <1>4, TrancheAssumption DEF TypeOK, Answers

LEMMA InitDigestInv == Init => DigestInv
<1> SUFFICES ASSUME Init PROVE DigestInv
  OBVIOUS
<1>1. TypeInv /\ Lags
  BY InitTypeInv, InitLags
<1>2. noBlocks \in Nat /\ NO_BLOCKS_TRANSFER \in Nat \ {0}
  BY <1>1, Ranges DEF TypeInv
<1>3. RoundOK /\ SentOK
  BY <1>2 DEF Init, RoundOK, SentOK
<1> QED
  BY <1>1, <1>3 DEF DigestInv

LEMMA NextRoundOK ==
  ASSUME TypeInv, RoundOK, [Next]_vars
  PROVE  RoundOK'
<1>1. /\ rMd \in Seq(Datagrams) /\ toRcv \in Seq(Datagrams) /\ noBlocks \in Nat
      /\ blocksRead \in Nat /\ blocksRead <= noBlocks /\ Len(rMd) \in Nat
  BY Ranges DEF TypeInv
<1>2. ASSUME UNCHANGED rVars
      PROVE  RoundOK'
  BY <1>2 DEF RoundOK, rVars
<1>3. CASE AcceptUdp
  BY <1>3 DEF AcceptUdp, RoundOK
<1>4. CASE OpenCopy
  <2>1. blocksRead = 0 /\ rIdx = 0 /\ rMd = << >> /\ Len(rMd) = 0
    BY <1>4 DEF OpenCopy, RoundOK, TypeInv, IndexOK
  <2>2. rPc' \in {"recv", "done", "failed"} /\ (rPc' = "recv" => blocksRead < noBlocks)
        /\ (rPc' = "done" => ~(blocksRead < noBlocks))
    BY <1>4 DEF OpenCopy, ReceiverLoop
  <2>3. clone' = rMd /\ UNCHANGED <<blocksRead, rIdx, rMd, cache>>
    BY <1>4 DEF OpenCopy
  <2> QED
    BY <1>1, <2>1, <2>2, <2>3 DEF RoundOK
<1>5. CASE ReceiveBlock
  <2>1. /\ rIdx = Len(rMd) /\ blocksRead < noBlocks /\ clone = << >>
        /\ \A i \in 1 .. Len(rMd) : cache[i - 1] = rMd[i]
    BY <1>5 DEF ReceiveBlock, RoundOK
  <2>2. rIdx < Tranche(blocksRead) /\ Tranche(blocksRead) <= NO_BLOCKS_TRANSFER
        /\ Tranche(blocksRead) \in Nat
    BY <1>1, <1>5, TrancheBounds DEF ReceiveBlock, TypeInv, IndexOK
  <2>3. Head(toRcv) \in Datagrams
    BY <1>1, <1>5, HeadTailProperties DEF ReceiveBlock
  <2>4. /\ Len(rMd') = Len(rMd) + 1 /\ rMd'[Len(rMd) + 1] = Head(toRcv)
        /\ \A i \in 1 .. Len(rMd) : rMd'[i] = rMd[i]
    BY <1>1, <1>5, <2>3, AppendProperties DEF ReceiveBlock
  <2>5. /\ cache'[rIdx] = Head(toRcv)
        /\ \A i \in 1 .. Len(rMd) : cache'[i - 1] = cache[i - 1]
    BY <1>1, <1>5, <2>1, <2>2, TrancheAssumption DEF ReceiveBlock, TypeInv, TypeOK
  <2>6. \A i \in 1 .. Len(rMd') : cache'[i - 1] = rMd'[i]
    <3> SUFFICES ASSUME NEW i \in 1 .. Len(rMd') PROVE cache'[i - 1] = rMd'[i]
      OBVIOUS
    <3>1. CASE i \in 1 .. Len(rMd)
      BY <2>1, <2>4, <2>5, <3>1
    <3>2. CASE i = Len(rMd) + 1
      BY <1>1, <2>1, <2>4, <2>5, <3>2
    <3> QED
      BY <1>1, <2>4, <3>1, <3>2
  <2>7. /\ rPc' \in {"recv", "digest"} /\ rIdx' = rIdx + 1
        /\ UNCHANGED <<clone, blocksRead>>
    BY <1>5 DEF ReceiveBlock, AfterBlocks
  <2> QED
    BY <2>1, <2>4, <2>6, <2>7 DEF RoundOK
<1>6. CASE BlockTimeout
  BY <1>6 DEF BlockTimeout, RoundOK
<1>7. CASE SendMd5
  BY <1>7 DEF SendMd5, RoundOK
<1>8. ASSUME NEW ans, Settle(ans)
      PROVE  RoundOK'
  <2>1. clone = << >> /\ rMd = << >> /\ blocksRead < noBlocks
    BY <1>8 DEF Settle, RoundOK
  <2>2. rMd' = << >> /\ clone' = << >> /\ rIdx' = 0
    BY <1>8, <2>1 DEF Settle
  <2>3. /\ rPc' \in {"recv", "done"} /\ (rPc' = "recv" => blocksRead' < noBlocks)
        /\ (rPc' = "done" => ~(blocksRead' < noBlocks))
    BY <1>8 DEF Settle, ReceiverLoop
  <2>4. blocksRead' \in Nat /\ blocksRead' <= noBlocks
    <3>1. Tranche(blocksRead) \in Nat /\ blocksRead + Tranche(blocksRead) <= noBlocks
      BY <1>1, TrancheBounds
    <3>2. blocksRead' = blocksRead \/ blocksRead' = blocksRead + Tranche(blocksRead)
      BY <1>8 DEF Settle
    <3> QED
      BY <1>1, <3>1, <3>2
  <2> QED
    BY <1>1, <2>2, <2>3, <2>4 DEF RoundOK
<1>9. CASE Sender \/ Overtake \/ UNCHANGED vars
  BY <1>2, <1>9 DEF Sender, SendFileInfo, TakeHandshake, HandshakeTimeout, SendBlock,
     CheckMd5, Md5Timeout, Judge, Overtake, vars
<1> QED
  BY <1>3, <1>4, <1>5, <1>6, <1>7, <1>8, <1>9
     DEF Next, Receiver, ReceiveAnswer, AnswerTimeout

LEMMA NextSentOK ==
  ASSUME TypeInv, SentOK, [Next]_vars
  PROVE  SentOK'
<1>1. /\ noBlocks \in Nat /\ NO_BLOCKS_TRANSFER \in Nat \ {0} /\ blocksSent \in Nat
      /\ sMd \in Seq(Blocks) /\ sIdx \in Nat /\ newInfo \in BOOLEAN
      /\ \A i \in 1 .. noBlocks : File[i] \in Blocks
  BY Ranges DEF TypeInv, TypeOK
<1>2. ASSUME UNCHANGED sVars
      PROVE  SentOK'
  BY <1>2 DEF SentOK, sVars, Tranche
<1>3. CASE SendFileInfo \/ HandshakeTimeout
  BY <1>3 DEF SendFileInfo, HandshakeTimeout, SentOK
<1>4. CASE TakeHandshake
  <2>1. blocksSent = 0 /\ sIdx = 0 /\ sMd = << >> /\ newInfo
    BY <1>4 DEF TakeHandshake, SentOK, TypeInv, IndexOK
  <2>2. UNCHANGED <<blocksSent, sIdx, newInfo, sMd>>
        /\ sPc' \in {"send", "done", "aborted"}
        /\ (sPc' = "send" => blocksSent < noBlocks)
        /\ (sPc' = "done" => ~(blocksSent < noBlocks))
    BY <1>4 DEF TakeHandshake, SenderLoop
  <2> QED
    BY <1>1, <2>1, <2>2 DEF SentOK
<1>5. CASE SendBlock
  <2> DEFINE block == File[blocksSent + sIdx + 1]
  <2>1. /\ blocksSent < noBlocks /\ sIdx < Tranche(blocksSent) /\ Tranche(blocksSent) \in Nat
        /\ blocksSent + Tranche(blocksSent) <= noBlocks
    BY <1>1, <1>5, TrancheBounds DEF SendBlock, TypeInv, IndexOK
  <2>2. block \in Blocks
    BY <1>1, <2>1
  <2>3. /\ Len(Append(sMd, block)) = Len(sMd) + 1
        /\ Append(sMd, block)[Len(sMd) + 1] = block
        /\ \A i \in 1 .. Len(sMd) : Append(sMd, block)[i] = sMd[i]
    BY <1>1, <2>2, AppendProperties
  <2>4. /\ UNCHANGED <<blocksSent, newInfo>> /\ sIdx' = sIdx + 1
        /\ sPc' = IF sIdx + 1 < Tranche(blocksSent) THEN "send" ELSE "await"
        /\ sMd' = IF newInfo THEN Append(sMd, block) ELSE sMd
    BY <1>5 DEF SendBlock
  <2>5. Tranche(blocksSent)' = Tranche(blocksSent)
    BY <2>4 DEF Tranche
  <2>6. newInfo => Len(sMd') = sIdx' /\ \A i \in 1 .. sIdx' : sMd'[i] = File[blocksSent + i]
    <3> SUFFICES ASSUME newInfo
                 PROVE  Len(sMd') = sIdx' /\ \A i \in 1 .. sIdx' : sMd'[i] = File[blocksSent + i]
      OBVIOUS
    <3>1. Len(sMd) = sIdx /\ \A i \in 1 .. sIdx : sMd[i] = File[blocksSent + i]
      BY <1>5 DEF SendBlock, SentOK
    <3>2. blocksSent + sIdx + 1 = blocksSent + (sIdx + 1)
      BY <1>1
    <3> QED
      BY <1>1, <2>3, <2>4, <3>1, <3>2
  <2>7. ~newInfo => sMd' = << >>
    BY <2>4 DEF SentOK
  <2> QED
    BY <1>1, <2>1, <2>4, <2>5, <2>6, <2>7 DEF SentOK
<1>6. ASSUME NEW md5, Judge(md5)
      PROVE  SentOK'
  <2>1. /\ sMd' = << >> /\ sIdx' = 0 /\ sPc' = SenderLoop(blocksSent')
        /\ \/ newInfo' = TRUE /\ blocksSent' = blocksSent + NO_BLOCKS_TRANSFER
           \/ newInfo' = FALSE /\ blocksSent' = blocksSent
        /\ blocksSent < noBlocks
    BY <1>6 DEF Judge, SentOK
  <2>2. /\ sPc' \in {"send", "done"} /\ (sPc' = "send" <=> blocksSent' < noBlocks)
        /\ blocksSent' \in Nat /\ blocksSent' < noBlocks + NO_BLOCKS_TRANSFER
    BY <1>1, <2>1 DEF SenderLoop
  <2>3. ~newInfo' => sPc' = "send"
    BY <1>1, <2>1, <2>2
  <2> QED
    BY <1>1, <2>1, <2>2, <2>3 DEF SentOK
<1>7. CASE Receiver \/ Overtake \/ UNCHANGED vars
  BY <1>2, <1>7 DEF Receiver, AcceptUdp, OpenCopy, ReceiveBlock, BlockTimeout, SendMd5,
     ReceiveAnswer, AnswerTimeout, Settle, Overtake, vars
<1> QED
  BY <1>3, <1>4, <1>5, <1>6, <1>7 DEF Next, Sender, CheckMd5, Md5Timeout

LEMMA NextDigestInv == DigestInv /\ [Next]_vars => DigestInv'
<1> SUFFICES ASSUME DigestInv, [Next]_vars PROVE DigestInv'
  OBVIOUS
<1>1. TypeInv' /\ Lags'
  BY NextTypeInv, NextLags DEF DigestInv
<1> QED
  BY <1>1, NextRoundOK, NextSentOK DEF DigestInv

\* An answer taken next is no hash of a whole tranche.
HeadShort ==
  toSnd # << >> => /\ Head(toSnd) \in Seq(Datagrams)
                   /\ Len(Head(toSnd)) < Tranche(blocksSent)

\* What was written is the file so far.
Written == Len(copy) = blocksRead /\ \A i \in 1 .. blocksRead : copy[i] = File[i]

\* The cache holds the tranche that comes next in the copy.
Cached == \A i \in 1 .. Tranche(blocksRead) : cache[i - 1] = File[blocksRead + i]

Receiving == rPc \in {"recv", "digest", "answer"}
Sending == newInfo /\ sPc \in {"send", "await"}

\* Nothing was sent but the handshake and hashes of nothing.
Greeting ==
  /\ sPc \in {"start", "handshake", "aborted"} /\ newInfo
  /\ blocksSent = 0 /\ blocksRead = 0 /\ toRcv = << >> /\ rMd = << >>
  /\ rPc \in {"idle", "open"} => toSnd = << >>
  /\ rPc \notin {"idle", "open"} => Written
  /\ \A i \in 2 .. Len(toSnd) : toSnd[i] = << >>

\* The blocks sent are those of this round followed by those on their way.
Collecting ==
  /\ Sending /\ Receiving /\ blocksRead = blocksSent /\ Written /\ HeadShort
  /\ Len(rMd) + Len(toRcv) = Len(sMd)
  /\ \A i \in 1 .. Len(rMd) : rMd[i] = sMd[i]
  /\ \A i \in 1 .. Len(toRcv) : toRcv[i] = sMd[Len(rMd) + i]

\* A block of the tranche was lost, hashed without the others or taken for an
\* answer: the tranche can only be resent.
Incomplete ==
  Sending /\ rPc \notin {"idle", "open"} /\ HeadShort /\ Len(rMd) + Len(toRcv) < Len(sMd)

\* The whole tranche is in the cache and its hash on its way.
Hashed ==
  /\ Sending /\ sPc = "await" /\ Receiving /\ blocksRead = blocksSent /\ Written
  /\ toRcv = << >> /\ rMd = << >> /\ Cached /\ toSnd # << >>
  /\ \/ HeadShort
     \/ Head(toSnd) = sMd /\ (Len(toSnd) > 1 => toSnd[2] = << >>)

\* The approval of the cached tranche is next; blocks of the next may follow.
Approved ==
  /\ newInfo /\ Receiving /\ Written /\ Cached /\ rMd = << >>
  /\ blocksSent = blocksRead + NO_BLOCKS_TRANSFER
  /\ sPc \in {"send", "await", "done"} /\ (sPc # "done" => HeadShort)
  /\ toRcv # << >> /\ Head(toRcv) = OK
  /\ OK \notin Blocks => \A i \in 2 .. Len(toRcv) : toRcv[i] # OK
  /\ \/ Len(toRcv) - 1 < Len(sMd)
     \/ Len(toRcv) - 1 = Len(sMd) /\ \A i \in 1 .. Len(sMd) : toRcv[i + 1] = sMd[i]

\* No claim is left, or the copy is finished and exact.  A primary that
\* resends approves only the hash of nothing, and a lag is never made good;
\* what is approved in a file with a block that is an "OK" is never certain.
Decided ==
  \/ hollow \/ overtakes # 0 \/ rPc = "failed" \/ ~newInfo
  \/ mistaken \/ OK \in Blocks
  \/ LagsBy(NO_BLOCKS_TRANSFER)
  \/ rPc = "done" /\ copy = File

Phase == Decided \/ Greeting \/ Collecting \/ Incomplete \/ Hashed \/ Approved

-----------------------------------------------------------------------------
LEMMA InitPhase == Init => Phase
BY DEF Init, Phase, Greeting

LEMMA DecidedNext ==
  ASSUME DigestInv, Decided, [Next]_vars
  PROVE  Decided'
<1>1. /\ overtakes \in Nat /\ hollow \in BOOLEAN /\ newInfo \in BOOLEAN
      /\ NO_BLOCKS_TRANSFER \in Nat
  BY TrancheAssumption DEF DigestInv, TypeInv, TypeOK
<1>2. CASE LagsBy(NO_BLOCKS_TRANSFER)
  BY <1>1, <1>2, NextLagsBy DEF DigestInv, Decided
<1>6. CASE mistaken \/ OK \in Blocks
  BY <1>6, StaysMistaken DEF Decided
<1>3. CASE overtakes # 0
  <2>1. overtakes' = overtakes \/ overtakes' = overtakes + 1
    BY DEF Next, Sender, SendFileInfo, TakeHandshake, HandshakeTimeout, SendBlock, CheckMd5,
       Md5Timeout, Judge, Receiver, AcceptUdp, OpenCopy, ReceiveBlock, BlockTimeout, SendMd5,
       ReceiveAnswer, AnswerTimeout, Settle, Overtake, vars, netVars
  <2> QED
    BY <1>1, <1>3, <2>1 DEF Decided
<1>4. CASE rPc = "failed" \/ (rPc = "done" /\ copy = File)
  BY <1>4 DEF Next, Sender, SendFileInfo, TakeHandshake, HandshakeTimeout, SendBlock, CheckMd5,
     Md5Timeout, Judge, Receiver, AcceptUdp, OpenCopy, ReceiveBlock, BlockTimeout, SendMd5,
     ReceiveAnswer, AnswerTimeout, Settle, Overtake, vars, rVars, Decided
<1>5. CASE hollow \/ ~newInfo
  <2>1. ASSUME NEW md5, Judge(md5)
        PROVE  hollow' \/ ~newInfo'
    <3>1. sPc = "await" /\ (~newInfo => sMd = << >>)
      BY <2>1 DEF Judge, DigestInv, SentOK
    <3>2. CASE newInfo' = FALSE
      BY <3>2
    <3>3. CASE hollow' = (hollow \/ sMd = << >>)
      BY <1>5, <3>1, <3>3
    <3> QED
      BY <2>1, <3>2, <3>3 DEF Judge
  <2>2. CASE UNCHANGED <<hollow, newInfo>>
    BY <1>5, <2>2 DEF Decided
  <2> QED
    BY <2>1, <2>2
       DEF Next, Sender, SendFileInfo, TakeHandshake, HandshakeTimeout, SendBlock, CheckMd5,
       Md5Timeout, Receiver, AcceptUdp, OpenCopy, ReceiveBlock, BlockTimeout, SendMd5,
       ReceiveAnswer, AnswerTimeout, Settle, Overtake, vars, sVars, Decided
<1> QED
  BY <1>2, <1>3, <1>4, <1>5, <1>6 DEF Decided

LEMMA OvertakeDecides ==
  ASSUME DigestInv, Overtake
  PROVE  Decided'
<1>1. overtakes \in Nat
  BY BoundAssumption DEF DigestInv, TypeInv, TypeOK
<1> QED
  BY <1>1 DEF Overtake, Decided

\* What the primary takes for the hash of a whole tranche is one.
LEMMA ShortDecides ==
  ASSUME DigestInv, Sending, HeadShort, CheckMd5 \/ Md5Timeout
  PROVE  Decided'
<1>1. /\ sMd \in Seq(Datagrams) /\ NoAnswer \notin Seq(Datagrams)
      /\ Len(sMd) = Tranche(blocksSent)
  <2>1. sPc = "await" /\ newInfo
    BY DEF CheckMd5, Md5Timeout, Judge, Sending
  <2> QED
    BY <2>1, Ranges DEF DigestInv, TypeInv, SentOK
<1>2. CASE CheckMd5
  <2>1. /\ toSnd # << >> /\ Judge(Head(toSnd)) /\ Head(toSnd) # sMd
    <3>1. toSnd # << >> /\ Judge(Head(toSnd))
      BY <1>2 DEF CheckMd5
    <3>2. Tranche(blocksSent) \in Int /\ Len(Head(toSnd)) < Tranche(blocksSent)
          /\ Len(Head(toSnd)) \in Nat
      <4>1. Head(toSnd) \in Seq(Datagrams) /\ Len(Head(toSnd)) < Tranche(blocksSent)
        BY <3>1 DEF HeadShort
      <4> QED
        BY <1>1, <4>1, LenProperties
    <3> QED
      BY <1>1, <3>1, <3>2
  <2> QED
    BY <2>1 DEF Judge, Matches, Decided
<1>3. CASE Md5Timeout
  BY <1>1, <1>3 DEF Md5Timeout, Judge, Matches, Decided
<1> QED
  BY <1>2, <1>3

\* The answers waiting for the primary after one more.
LEMMA AnswerQueued ==
  ASSUME DigestInv, NEW m \in Answers, ToPrimary(m)
  PROVE  /\ toSnd # << >> => toSnd' # << >> /\ Head(toSnd') = Head(toSnd)
         /\ toSnd = << >> => toSnd' = << >> \/ toSnd' = <<m>>
         /\ \A i \in 1 .. Len(toSnd') :
              toSnd'[i] = IF i \in 1 .. Len(toSnd) THEN toSnd[i] ELSE m
<1>1. toSnd \in Seq(Answers) /\ Len(toSnd) \in Nat
  BY Ranges, LenProperties DEF DigestInv, TypeInv
<1>2. CASE toSnd' = toSnd
  <2>1. Len(toSnd') = Len(toSnd)
    BY <1>2
  <2> QED
    BY <1>2, <2>1
<1>3. CASE toSnd' = Append(toSnd, m)
  <2>1. /\ toSnd' \in Seq(Answers) /\ Len(toSnd') = Len(toSnd) + 1
        /\ \A i \in 1 .. Len(toSnd) : toSnd'[i] = toSnd[i]
        /\ toSnd'[Len(toSnd) + 1] = m
    BY <1>1, <1>3, AppendProperties
  <2>2. toSnd # << >> => Head(toSnd') = Head(toSnd)
    BY <1>1, <2>1, HeadTailProperties, EmptySeq
  <2>3. toSnd = << >> => toSnd' = <<m>>
    BY <1>3
  <2> QED
    BY <1>1, <2>1, <2>2, <2>3
<1> QED
  BY <1>2, <1>3 DEF ToPrimary, Enqueue

LEMMA ShortQueued ==
  ASSUME DigestInv, HeadShort, ToPrimary(rMd), Len(rMd) < Tranche(blocksSent),
         blocksSent' = blocksSent
  PROVE  HeadShort'
<1>1. rMd \in Seq(Datagrams) /\ rMd \in Answers
  BY Ranges DEF DigestInv, TypeInv, Answers
<1>2. Tranche(blocksSent)' = Tranche(blocksSent)
  BY DEF Tranche
<1> QED
  BY <1>1, <1>2, AnswerQueued DEF HeadShort

\* The primary sends the next block of the tranche: it is queued or it is not.
SentBlock ==
  /\ Sending' /\ UNCHANGED <<blocksSent, newInfo, rVars, toSnd>>
  /\ sMd' \in Seq(Blocks) /\ Len(sMd') = Len(sMd) + 1
  /\ \A i \in 1 .. Len(sMd) : sMd'[i] = sMd[i]
  /\ toRcv' \in Seq(Datagrams)
  /\ \/ toRcv' = toRcv
     \/ /\ Len(toRcv') = Len(toRcv) + 1
        /\ \A i \in 1 .. Len(toRcv) : toRcv'[i] = toRcv[i]
        /\ toRcv'[Len(toRcv) + 1] = sMd'[Len(sMd) + 1]

LEMMA BlockSent ==
  ASSUME DigestInv, Sending, SendBlock
  PROVE  SentBlock
<1> DEFINE block == File[blocksSent + sIdx + 1]
<1>1. /\ toRcv \in Seq(Datagrams) /\ sMd \in Seq(Blocks)
      /\ blocksSent \in Nat /\ sIdx \in Nat /\ noBlocks \in Nat
      /\ \A i \in 1 .. noBlocks : File[i] \in Blocks
  BY Ranges DEF DigestInv, TypeInv
<1>2. /\ blocksSent < noBlocks /\ sIdx < Tranche(blocksSent) /\ Tranche(blocksSent) \in Nat
      /\ blocksSent + Tranche(blocksSent) <= noBlocks
  BY <1>1, TrancheBounds DEF SendBlock, DigestInv, TypeInv, IndexOK
<1>3. block \in Blocks /\ block \in Datagrams
  BY <1>1, <1>2 DEF Datagrams
<1>4. /\ ToSecondary(block) /\ sMd' = Append(sMd, block)
      /\ UNCHANGED <<blocksSent, newInfo, rVars, toSnd>> /\ sPc' \in {"send", "await"}
  BY DEF SendBlock, Sending
<1>5. /\ sMd' \in Seq(Blocks) /\ Len(sMd') = Len(sMd) + 1 /\ sMd'[Len(sMd) + 1] = block
      /\ \A i \in 1 .. Len(sMd) : sMd'[i] = sMd[i]
  BY <1>1, <1>3, <1>4, AppendProperties
<1>6. toRcv' = toRcv \/ toRcv' = Append(toRcv, block)
  BY <1>4 DEF ToSecondary, Enqueue
<1> HIDE DEF block
<1>7. /\ toRcv' \in Seq(Datagrams)
      /\ \/ toRcv' = toRcv
         \/ /\ Len(toRcv') = Len(toRcv) + 1 /\ toRcv'[Len(toRcv) + 1] = block
            /\ \A i \in 1 .. Len(toRcv) : toRcv'[i] = toRcv[i]
  BY <1>1, <1>3, <1>6, AppendProperties
<1> QED
  BY <1>4, <1>5, <1>7 DEF SentBlock, Sending

LEMMA SentSize ==
  ASSUME DigestInv, Sending
  PROVE  /\ blocksSent < noBlocks /\ Tranche(blocksSent) \in Nat /\ 0 < Tranche(blocksSent)
         /\ Tranche(blocksSent) <= NO_BLOCKS_TRANSFER
         /\ blocksSent + Tranche(blocksSent) <= noBlocks
         /\ Len(sMd) \in Nat /\ Len(sMd) <= Tranche(blocksSent)
         /\ sPc = "await" <=> Len(sMd) = Tranche(blocksSent)
         /\ \A i \in 1 .. Len(sMd) : sMd[i] = File[blocksSent + i]
<1>1. /\ newInfo /\ sPc \in {"send", "await"} /\ blocksSent < noBlocks
      /\ Len(sMd) = sIdx /\ \A i \in 1 .. sIdx : sMd[i] = File[blocksSent + i]
      /\ sPc = "await" => sIdx = Tranche(blocksSent)
      /\ sPc = "send" => sIdx < Tranche(blocksSent)
  BY DEF Sending, DigestInv, TypeInv, IndexOK, SentOK
<1>2. blocksSent \in Nat /\ noBlocks \in Nat /\ sIdx \in Nat
  BY Ranges DEF DigestInv, TypeInv
<1>3. /\ Tranche(blocksSent) \in Nat /\ 0 < Tranche(blocksSent)
      /\ Tranche(blocksSent) <= NO_BLOCKS_TRANSFER
      /\ blocksSent + Tranche(blocksSent) <= noBlocks
  BY <1>1, <1>2, TrancheBounds
<1> QED
  BY <1>1, <1>2, <1>3

-----------------------------------------------------------------------------
(* Each phase leads to itself or to a later one. *)

\* A settled answer either writes the tranche or starts the round again.
LEMMA NotOkSettles ==
  ASSUME DigestInv, NEW ans, ~IsOk(ans), Settle(ans)
  PROVE  /\ rPc = "answer" /\ rPc' = "recv" /\ rMd = << >> /\ rMd' = << >>
         /\ UNCHANGED <<blocksRead, copy, cache, sVars, toSnd, overtakes>>
<1>1. /\ rPc = "answer" /\ rMd = << >> /\ clone = << >> /\ blocksRead < noBlocks
  BY DEF Settle, DigestInv, RoundOK
<1> QED
  BY <1>1 DEF Settle, ReceiverLoop

LEMMA GreetingNext ==
  ASSUME DigestInv, Greeting, [Next]_vars
  PROVE  Decided' \/ Greeting' \/ Collecting'
<1>1. /\ toSnd \in Seq(Answers) /\ Len(toSnd) \in Nat /\ noBlocks \in Nat
      /\ << >> \in Seq(Datagrams) /\ << >> \in Answers /\ OK \in Answers
  BY Ranges, LenProperties DEF DigestInv, TypeInv, Answers
<1>2. CASE SendFileInfo \/ HandshakeTimeout \/ AcceptUdp \/ BlockTimeout \/ UNCHANGED vars
  BY <1>2 DEF SendFileInfo, HandshakeTimeout, AcceptUdp, BlockTimeout, vars, sVars, rVars,
     netVars, Greeting, Written
<1>3. CASE TakeHandshake
  <2>1. /\ toSnd # << >> /\ toSnd' = Tail(toSnd)
        /\ sPc' \in {"send", "done", "aborted"}
        /\ (sPc' = "send" => 0 < noBlocks) /\ (sPc' = "done" => ~(0 < noBlocks))
        /\ UNCHANGED <<blocksSent, newInfo, sMd, rVars, toRcv>>
    BY <1>3 DEF TakeHandshake, SenderLoop, Greeting
  <2>2. /\ rPc \notin {"idle", "open"} /\ Written
        /\ sMd = << >>
    BY <1>3, <2>1 DEF Greeting, TakeHandshake, DigestInv, SentOK
  <2>3. /\ Len(toSnd') = Len(toSnd) - 1 /\ Len(toSnd') \in Nat
        /\ \A i \in 1 .. Len(toSnd') : toSnd'[i] = toSnd[i + 1]
        /\ toSnd' \in Seq(Answers)
    BY <1>1, <2>1, HeadTailProperties, LenProperties
  <2>4. \A i \in 1 .. Len(toSnd') : toSnd'[i] = << >>
    BY <1>1, <2>3 DEF Greeting
  <2>5. toSnd' # << >> => Head(toSnd') = << >>
    BY <2>3, <2>4, EmptySeq, HeadTailProperties
  <2>6. CASE sPc' = "aborted"
    BY <2>1, <2>2, <2>4, <2>6 DEF Greeting, Written, rVars
  <2>7. CASE sPc' = "send"
    <3>1. 0 < Tranche(0) /\ 0 < noBlocks
      BY <1>1, <2>1, <2>7, TrancheBounds
    <3>2. CASE rPc = "failed"
      BY <2>1, <3>2 DEF Decided, rVars
    <3>3. CASE rPc # "failed"
      <4>1. rPc \in {"recv", "digest", "answer"}
        BY <2>2, <3>1, <3>3 DEF DigestInv, TypeInv, TypeOK, RoundOK, Greeting
      <4>2. HeadShort'
        BY <1>1, <2>1, <2>5, <3>1 DEF HeadShort, Greeting, Tranche
      <4> QED
        BY <2>1, <2>2, <2>7, <4>1, <4>2
           DEF Greeting, Collecting, Sending, Receiving, Written, rVars
    <3> QED
      BY <3>2, <3>3
  <2>8. CASE sPc' = "done"
    <3>1. noBlocks = 0
      BY <1>1, <2>1, <2>8
    <3>2. rPc \in {"done", "failed"}
      BY <2>2, <3>1 DEF DigestInv, TypeInv, TypeOK, RoundOK, Greeting
    <3>3. copy = File
      <4>1. copy \in Seq(Slots) /\ File \in Seq(Blocks) /\ Len(copy) = 0 /\ Len(File) = 0
        BY <2>2, <3>1, FileAssumption
           DEF DigestInv, TypeInv, TypeOK, Greeting, Written, noBlocks
      <4> QED
        BY <4>1, EmptySeq
    <3> QED
      BY <2>1, <3>2, <3>3 DEF Decided, rVars
  <2> QED
    BY <2>1, <2>6, <2>7, <2>8
<1>4. CASE OpenCopy
  <2>1. /\ toSnd = << >> /\ ToPrimary(OK)
        /\ UNCHANGED <<sVars, blocksRead, rMd, toRcv>>
        /\ \/ copy' = << >> /\ rPc' \in {"recv", "done"}
           \/ rPc' = "failed"
    BY <1>4 DEF OpenCopy, ReceiverLoop, Greeting
  <2>2. CASE rPc' = "failed"
    BY <2>2 DEF Decided
  <2>3. CASE copy' = << >> /\ rPc' \in {"recv", "done"}
    <3>1. \A i \in 2 .. Len(toSnd') : toSnd'[i] = << >>
      BY <1>1, <2>1, AnswerQueued
    <3>2. Written'
      BY <2>1, <2>3 DEF Greeting, Written
    <3> QED
      BY <2>1, <2>3, <3>1, <3>2 DEF Greeting, sVars
  <2> QED
    BY <2>1, <2>2, <2>3
<1>5. CASE SendMd5
  <2>1. /\ ToPrimary(<< >>) /\ rMd' = << >>
        /\ rPc = "digest" /\ rPc' = "answer"
        /\ UNCHANGED <<sVars, blocksRead, copy, toRcv>>
    BY <1>5 DEF SendMd5, Greeting
  <2>2. \A i \in 2 .. Len(toSnd') : toSnd'[i] = << >>
    BY <1>1, <2>1, AnswerQueued DEF Greeting
  <2> QED
    BY <2>1, <2>2 DEF Greeting, Written, sVars
<1>6. CASE AnswerTimeout
  <2>1. ~IsOk(NoAnswer) /\ Settle(NoAnswer) /\ toRcv' = toRcv
    BY <1>6, Ranges DEF AnswerTimeout, DigestInv, TypeInv
  <2>2. /\ rPc = "answer" /\ rPc' = "recv" /\ rMd' = << >>
        /\ UNCHANGED <<blocksRead, copy, sVars, toSnd>>
    BY <2>1, NotOkSettles
  <2> QED
    BY <2>1, <2>2 DEF Greeting, Written, sVars
<1>7. CASE Overtake
  BY <1>7, OvertakeDecides
<1>8. CASE SendBlock \/ CheckMd5 \/ Md5Timeout \/ ReceiveBlock \/ ReceiveAnswer
  BY <1>8 DEF Greeting, SendBlock, CheckMd5, Md5Timeout, Judge, ReceiveBlock, ReceiveAnswer
<1> QED
  BY <1>2, <1>3, <1>4, <1>5, <1>6, <1>7, <1>8 DEF Next, Sender, Receiver

LEMMA IncompleteNext ==
  ASSUME DigestInv, Incomplete, [Next]_vars
  PROVE  Decided' \/ Incomplete'
<1>1. /\ toRcv \in Seq(Datagrams) /\ rMd \in Seq(Datagrams) /\ sMd \in Seq(Blocks)
      /\ Len(toRcv) \in Nat /\ Len(rMd) \in Nat /\ Len(sMd) \in Nat
  BY Ranges, LenProperties DEF DigestInv, TypeInv
<1>2. /\ newInfo /\ sPc \in {"send", "await"} /\ rPc \notin {"idle", "open"} /\ HeadShort
      /\ Len(rMd) + Len(toRcv) < Len(sMd)
  BY DEF Incomplete, Sending
<1>3. Len(sMd) <= Tranche(blocksSent) /\ Tranche(blocksSent) \in Nat
  BY SentSize DEF Incomplete
<1>4. CASE SendFileInfo \/ TakeHandshake \/ HandshakeTimeout \/ AcceptUdp \/ OpenCopy
  BY <1>2, <1>4 DEF SendFileInfo, TakeHandshake, HandshakeTimeout, AcceptUdp, OpenCopy
<1>5. CASE SendBlock
  <2>1. SentBlock
    BY <1>5, BlockSent DEF Incomplete
  <2> QED
    BY <1>1, <1>2, <2>1 DEF SentBlock, Incomplete, HeadShort, Tranche, rVars
<1>6. CASE CheckMd5 \/ Md5Timeout
  BY <1>6, ShortDecides DEF Incomplete
<1>7. CASE ReceiveBlock
  <2>1. /\ toRcv # << >> /\ rMd' = Append(rMd, Head(toRcv)) /\ toRcv' = Tail(toRcv)
        /\ rPc' \in {"recv", "digest"} /\ UNCHANGED <<sVars, toSnd>>
    BY <1>7 DEF ReceiveBlock, AfterBlocks
  <2>2. Len(rMd') = Len(rMd) + 1 /\ Len(toRcv') = Len(toRcv) - 1
    BY <1>1, <2>1, HeadTailProperties, AppendProperties
  <2> QED
    BY <1>1, <1>2, <2>1, <2>2 DEF Incomplete, Sending, HeadShort, Tranche, sVars
<1>8. CASE SendMd5
  <2>1. /\ ToPrimary(rMd) /\ rMd' = << >> /\ rPc' = "answer" /\ UNCHANGED <<sVars, toRcv>>
    BY <1>8 DEF SendMd5
  <2>2. HeadShort'
    BY <1>1, <1>2, <1>3, <2>1, ShortQueued DEF sVars
  <2> QED
    BY <1>1, <1>2, <2>1, <2>2 DEF Incomplete, Sending, sVars
<1>9. CASE ReceiveAnswer \/ AnswerTimeout
  <2>1. /\ rPc' \in {"recv", "done"} /\ rMd' = << >>
        /\ UNCHANGED <<sVars, toSnd>>
    BY <1>9 DEF ReceiveAnswer, AnswerTimeout, Settle, ReceiverLoop, DigestInv, RoundOK
  <2>2. Len(toRcv') <= Len(toRcv) /\ Len(toRcv') \in Nat
    <3>1. CASE toRcv' = toRcv
      BY <1>1, <3>1
    <3>2. CASE toRcv # << >> /\ toRcv' = Tail(toRcv)
      BY <1>1, <3>2, HeadTailProperties, LenProperties
    <3> QED
      BY <1>9, <3>1, <3>2 DEF ReceiveAnswer, AnswerTimeout
  <2> QED
    BY <1>1, <1>2, <2>1, <2>2 DEF Incomplete, Sending, HeadShort, Tranche, sVars
<1>10. CASE BlockTimeout \/ UNCHANGED vars
  BY <1>2, <1>10
     DEF BlockTimeout, vars, sVars, rVars, netVars, Incomplete, Sending, HeadShort, Tranche
<1>11. CASE Overtake
  BY <1>11, OvertakeDecides
<1> QED
  BY <1>4, <1>5, <1>6, <1>7, <1>8, <1>9, <1>10, <1>11 DEF Next, Sender, Receiver

\* A block that reaches the secondary's socket keeps the round complete.
LEMMA CollectingSends ==
  ASSUME DigestInv, Collecting, SendBlock, toRcv' # toRcv
  PROVE  Collecting'
<1>a. /\ toRcv \in Seq(Datagrams) /\ rMd \in Seq(Datagrams) /\ sMd \in Seq(Blocks)
      /\ rMd \in Answers /\ toSnd \in Seq(Answers) /\ Len(toSnd) \in Nat
      /\ Len(toRcv) \in Nat /\ Len(rMd) \in Nat /\ Len(sMd) \in Nat
  BY Ranges, LenProperties DEF DigestInv, TypeInv, Answers
<1>b. /\ newInfo /\ sPc \in {"send", "await"} /\ rPc \in {"recv", "digest", "answer"}
      /\ HeadShort /\ blocksRead = blocksSent /\ Written
      /\ Len(rMd) + Len(toRcv) = Len(sMd)
      /\ \A i \in 1 .. Len(rMd) : rMd[i] = sMd[i]
      /\ \A i \in 1 .. Len(toRcv) : toRcv[i] = sMd[Len(rMd) + i]
  BY DEF Collecting, Sending, Receiving
<1>c. /\ blocksSent < noBlocks /\ Tranche(blocksSent) \in Nat /\ 0 < Tranche(blocksSent)
      /\ Len(sMd) <= Tranche(blocksSent)
      /\ sPc = "await" <=> Len(sMd) = Tranche(blocksSent)
      /\ \A i \in 1 .. Len(sMd) : sMd[i] = File[blocksSent + i]
  BY SentSize DEF Collecting
<1>d. Len(rMd) + Len(toRcv) = Len(sMd)
  BY DEF Collecting
<1>1. /\ SentBlock /\ UNCHANGED <<rMd, rPc, blocksRead, copy>>
  BY BlockSent DEF Collecting, SentBlock, rVars
<1>2. HeadShort' /\ Written'
  BY <1>b, <1>1 DEF SentBlock, HeadShort, Tranche, Written
<1>3. CASE /\ Len(toRcv') = Len(toRcv) + 1
           /\ \A i \in 1 .. Len(toRcv) : toRcv'[i] = toRcv[i]
           /\ toRcv'[Len(toRcv) + 1] = sMd'[Len(sMd) + 1]
  <2>1. Len(sMd') = Len(sMd) + 1 /\ \A i \in 1 .. Len(sMd) : sMd'[i] = sMd[i]
    BY <1>1 DEF SentBlock
  <2>2. \A i \in 1 .. Len(rMd') : rMd'[i] = sMd'[i]
    <3>1. \A i \in 1 .. Len(rMd) : i \in 1 .. Len(sMd)
      BY <1>a, <1>d
    <3> QED
      BY <1>b, <1>1, <2>1, <3>1
  <2>3. \A i \in 1 .. Len(toRcv') : toRcv'[i] = sMd'[Len(rMd') + i]
    <3> SUFFICES ASSUME NEW i \in 1 .. Len(toRcv')
                 PROVE  toRcv'[i] = sMd'[Len(rMd) + i]
      BY <1>1
    <3>1. CASE i \in 1 .. Len(toRcv)
      <4>1. Len(rMd) + i \in 1 .. Len(sMd)
        BY <1>a, <1>d, <3>1
      <4> QED
        BY <1>b, <1>3, <2>1, <3>1, <4>1
    <3>2. CASE i = Len(toRcv) + 1
      <4>1. Len(rMd) + i = Len(sMd) + 1
        BY <1>a, <1>d, <3>2
      <4> QED
        BY <1>3, <3>2, <4>1
    <3> QED
      BY <1>a, <1>3, <3>1, <3>2
  <2>4. Len(rMd') + Len(toRcv') = Len(sMd')
    BY <1>a, <1>b, <1>1, <1>3, <2>1
  <2> QED
    BY <1>b, <1>1, <1>2, <2>2, <2>3, <2>4 DEF SentBlock, Collecting, Receiving
<1> QED
  BY <1>1, <1>3 DEF SentBlock

LEMMA CollectingTakes ==
  ASSUME DigestInv, Collecting, ReceiveBlock
  PROVE  Collecting'
<1>a. /\ toRcv \in Seq(Datagrams) /\ rMd \in Seq(Datagrams) /\ sMd \in Seq(Blocks)
      /\ rMd \in Answers /\ toSnd \in Seq(Answers) /\ Len(toSnd) \in Nat
      /\ Len(toRcv) \in Nat /\ Len(rMd) \in Nat /\ Len(sMd) \in Nat
  BY Ranges, LenProperties DEF DigestInv, TypeInv, Answers
<1>b. /\ newInfo /\ sPc \in {"send", "await"} /\ rPc \in {"recv", "digest", "answer"}
      /\ HeadShort /\ blocksRead = blocksSent /\ Written
      /\ Len(rMd) + Len(toRcv) = Len(sMd)
      /\ \A i \in 1 .. Len(rMd) : rMd[i] = sMd[i]
      /\ \A i \in 1 .. Len(toRcv) : toRcv[i] = sMd[Len(rMd) + i]
  BY DEF Collecting, Sending, Receiving
<1>c. /\ blocksSent < noBlocks /\ Tranche(blocksSent) \in Nat /\ 0 < Tranche(blocksSent)
      /\ Len(sMd) <= Tranche(blocksSent)
      /\ sPc = "await" <=> Len(sMd) = Tranche(blocksSent)
      /\ \A i \in 1 .. Len(sMd) : sMd[i] = File[blocksSent + i]
  BY SentSize DEF Collecting
<1>d. Len(rMd) + Len(toRcv) = Len(sMd)
  BY DEF Collecting
<1>1. /\ toRcv # << >> /\ rMd' = Append(rMd, Head(toRcv)) /\ toRcv' = Tail(toRcv)
      /\ rPc' \in {"recv", "digest"} /\ UNCHANGED <<sVars, blocksRead, copy, toSnd>>
  BY DEF ReceiveBlock, AfterBlocks
<1>2. /\ Len(toRcv) > 0 /\ Head(toRcv) = toRcv[1] /\ Len(toRcv') = Len(toRcv) - 1
      /\ \A i \in 1 .. Len(toRcv') : toRcv'[i] = toRcv[i + 1]
      /\ Head(toRcv) \in Datagrams
  BY <1>a, <1>1, HeadTailProperties, EmptySeq
<1>3. /\ Len(rMd') = Len(rMd) + 1 /\ rMd'[Len(rMd) + 1] = Head(toRcv)
      /\ \A i \in 1 .. Len(rMd) : rMd'[i] = rMd[i]
  BY <1>a, <1>1, <1>2, AppendProperties
<1>4. \A i \in 1 .. Len(rMd') : rMd'[i] = sMd[i]
  <2> SUFFICES ASSUME NEW i \in 1 .. Len(rMd') PROVE rMd'[i] = sMd[i]
    OBVIOUS
  <2>1. i \in 1 .. Len(rMd) \/ i = Len(rMd) + 1
    BY <1>a, <1>3
  <2>2. 1 \in 1 .. Len(toRcv)
    BY <1>a, <1>2
  <2> QED
    BY <1>b, <1>2, <1>3, <2>1, <2>2
<1>5. \A i \in 1 .. Len(toRcv') : toRcv'[i] = sMd[Len(rMd') + i]
  <2> SUFFICES ASSUME NEW i \in 1 .. Len(toRcv')
               PROVE  toRcv'[i] = sMd[Len(rMd') + i]
    OBVIOUS
  <2>1. i + 1 \in 1 .. Len(toRcv) /\ Len(rMd') + i = Len(rMd) + (i + 1)
    BY <1>a, <1>2, <1>3
  <2> QED
    BY <1>b, <1>2, <2>1
<1>6. Len(rMd') + Len(toRcv') = Len(sMd)
  <2>1. \A a, b, c \in Nat : a + b = c => (a + 1) + (b - 1) = c
    OBVIOUS
  <2>2. (Len(rMd) + 1) + (Len(toRcv) - 1) = Len(sMd)
    BY <1>a, <1>d, <2>1
  <2>3. Len(rMd') = Len(rMd) + 1 /\ Len(toRcv') = Len(toRcv) - 1
    BY <1>2, <1>3
  <2> QED
    BY <2>2, <2>3
<1> QED
  BY <1>b, <1>1, <1>4, <1>5, <1>6
     DEF Collecting, Sending, Receiving, HeadShort, Written, Tranche, sVars

\* A full round is hashed with the tranche in the cache.
LEMMA CollectingHashes ==
  ASSUME DigestInv, Collecting, SendMd5, ~(Len(rMd) < Tranche(blocksSent))
  PROVE  /\ sPc = "await" /\ toRcv = << >> /\ rMd = sMd /\ Cached'
         /\ Len(sMd) = Tranche(blocksSent)
         /\ toSnd' = <<rMd>> => Hashed'
<1>a. /\ toRcv \in Seq(Datagrams) /\ rMd \in Seq(Datagrams) /\ sMd \in Seq(Blocks)
      /\ rMd \in Answers /\ toSnd \in Seq(Answers) /\ Len(toSnd) \in Nat
      /\ Len(toRcv) \in Nat /\ Len(rMd) \in Nat /\ Len(sMd) \in Nat
  BY Ranges, LenProperties DEF DigestInv, TypeInv, Answers
<1>b. /\ newInfo /\ sPc \in {"send", "await"} /\ rPc \in {"recv", "digest", "answer"}
      /\ HeadShort /\ blocksRead = blocksSent /\ Written
      /\ Len(rMd) + Len(toRcv) = Len(sMd)
      /\ \A i \in 1 .. Len(rMd) : rMd[i] = sMd[i]
      /\ \A i \in 1 .. Len(toRcv) : toRcv[i] = sMd[Len(rMd) + i]
  BY DEF Collecting, Sending, Receiving
<1>c. /\ blocksSent < noBlocks /\ Tranche(blocksSent) \in Nat /\ 0 < Tranche(blocksSent)
      /\ Len(sMd) <= Tranche(blocksSent)
      /\ sPc = "await" <=> Len(sMd) = Tranche(blocksSent)
      /\ \A i \in 1 .. Len(sMd) : sMd[i] = File[blocksSent + i]
  BY SentSize DEF Collecting
<1>d. Len(rMd) + Len(toRcv) = Len(sMd)
  BY DEF Collecting
<1>1. /\ ToPrimary(rMd) /\ rMd' = << >> /\ rPc = "digest" /\ rPc' = "answer"
      /\ UNCHANGED <<sVars, blocksRead, copy, cache, toRcv>> /\ Len(<< >>) = 0
  BY DEF SendMd5
<1>2. /\ Len(rMd) = Len(sMd) /\ Len(toRcv) = 0 /\ Len(sMd) = Tranche(blocksSent)
  BY <1>a, <1>b, <1>c
<1>3. sPc = "await" /\ toRcv = << >> /\ rMd = sMd
  <2>1. sMd \in Seq(Datagrams)
    BY Ranges DEF DigestInv, TypeInv
  <2> QED
    BY <1>a, <1>b, <1>c, <1>2, <2>1, EmptySeq, SeqEqual
<1>4. Cached'
  <2>1. \A i \in 1 .. Len(rMd) : cache[i - 1] = rMd[i]
    BY <1>1 DEF DigestInv, RoundOK
  <2> QED
    BY <1>b, <1>c, <1>1, <1>2, <1>3, <2>1 DEF Cached, Tranche
<1>5. ASSUME toSnd' = <<rMd>>
      PROVE  Hashed'
  <2>1. toSnd' # << >> /\ Head(toSnd') = sMd /\ Len(toSnd') = 1
    BY <1>3, <1>5
  <2> QED
    BY <1>b, <1>1, <1>3, <1>4, <2>1 DEF Hashed, Sending, Receiving, Written, sVars
<1> QED
  BY <1>2, <1>3, <1>4, <1>5

LEMMA CollectingNext ==
  ASSUME DigestInv, Collecting, [Next]_vars
  PROVE  Decided' \/ Collecting' \/ Incomplete' \/ Hashed'
<1>1. /\ toRcv \in Seq(Datagrams) /\ rMd \in Seq(Datagrams) /\ sMd \in Seq(Blocks)
      /\ rMd \in Answers /\ toSnd \in Seq(Answers) /\ Len(toSnd) \in Nat
      /\ Len(toRcv) \in Nat /\ Len(rMd) \in Nat /\ Len(sMd) \in Nat
  BY Ranges, LenProperties DEF DigestInv, TypeInv, Answers
<1>2. /\ newInfo /\ sPc \in {"send", "await"} /\ rPc \in {"recv", "digest", "answer"}
      /\ HeadShort /\ blocksRead = blocksSent /\ Written
      /\ Len(rMd) + Len(toRcv) = Len(sMd)
      /\ \A i \in 1 .. Len(rMd) : rMd[i] = sMd[i]
      /\ \A i \in 1 .. Len(toRcv) : toRcv[i] = sMd[Len(rMd) + i]
  BY DEF Collecting, Sending, Receiving
<1>3. /\ blocksSent < noBlocks /\ Tranche(blocksSent) \in Nat /\ 0 < Tranche(blocksSent)
      /\ Len(sMd) <= Tranche(blocksSent)
      /\ sPc = "await" <=> Len(sMd) = Tranche(blocksSent)
      /\ \A i \in 1 .. Len(sMd) : sMd[i] = File[blocksSent + i]
  BY SentSize DEF Collecting
<1>a. Len(rMd) + Len(toRcv) = Len(sMd)
  BY DEF Collecting
<1>4. CASE SendFileInfo \/ TakeHandshake \/ HandshakeTimeout \/ AcceptUdp \/ OpenCopy
  BY <1>2, <1>4 DEF SendFileInfo, TakeHandshake, HandshakeTimeout, AcceptUdp, OpenCopy
<1>5. CASE SendBlock
  <2>1. CASE toRcv' = toRcv
    <3>1. SentBlock /\ UNCHANGED <<rMd, rPc>> /\ HeadShort'
      BY <1>2, <1>5, BlockSent DEF Collecting, SentBlock, rVars, HeadShort, Tranche
    <3> QED
      BY <1>1, <1>2, <2>1, <3>1 DEF SentBlock, Incomplete
  <2> QED
    BY <1>5, <2>1, CollectingSends
<1>6. CASE CheckMd5 \/ Md5Timeout
  BY <1>6, ShortDecides DEF Collecting
<1>7. CASE ReceiveBlock
  BY <1>7, CollectingTakes
<1>8. CASE SendMd5
  <2>1. /\ ToPrimary(rMd) /\ rMd' = << >> /\ rPc = "digest" /\ rPc' = "answer"
        /\ UNCHANGED <<sVars, blocksRead, copy, cache, toRcv>> /\ Len(<< >>) = 0
    BY <1>8 DEF SendMd5
  <2>2. CASE Len(rMd) < Tranche(blocksSent)
    <3>1. HeadShort'
      BY <1>2, <2>1, <2>2, ShortQueued DEF sVars
    <3>2. CASE Len(rMd) = 0
      BY <1>1, <1>2, <2>1, <3>1, <3>2
         DEF Collecting, Sending, Receiving, Written, sVars
    <3>3. CASE Len(rMd) > 0
      BY <1>1, <1>2, <2>1, <3>1, <3>3 DEF Incomplete, Sending, sVars
    <3> QED
      BY <1>1, <3>2, <3>3
  <2>3. CASE ~(Len(rMd) < Tranche(blocksSent))
    <3>1. /\ sPc = "await" /\ toRcv = << >> /\ rMd = sMd /\ Cached'
          /\ Len(sMd) = Tranche(blocksSent) /\ Len(toRcv) = 0
      BY <1>8, <2>3, CollectingHashes
    <3>4. CASE toSnd' = << >>
      <4>1. HeadShort'
        BY <3>4 DEF HeadShort
      <4> QED
        BY <1>1, <1>2, <1>3, <2>1, <3>1, <4>1 DEF Incomplete, Sending, sVars
    <3>5. CASE toSnd # << >>
      <4>1. HeadShort' /\ toSnd' # << >>
        BY <1>1, <1>2, <2>1, <3>5, AnswerQueued DEF HeadShort, Tranche, sVars
      <4> QED
        BY <1>2, <2>1, <3>1, <4>1 DEF Hashed, Sending, Receiving, Written, sVars
    <3>6. CASE toSnd = << >> /\ toSnd' = <<rMd>>
      BY <1>8, <2>3, <3>6, CollectingHashes
    <3> QED
      BY <1>1, <2>1, <3>4, <3>5, <3>6, AnswerQueued
  <2> QED
    BY <2>2, <2>3
<1>9. CASE ReceiveAnswer
  <2>1. /\ toRcv # << >> /\ Settle(Head(toRcv)) /\ toRcv' = Tail(toRcv)
    BY <1>9 DEF ReceiveAnswer
  <2>2. /\ Len(toRcv) > 0 /\ Head(toRcv) = toRcv[1] /\ Len(toRcv') = Len(toRcv) - 1
    BY <1>1, <2>1, HeadTailProperties, EmptySeq
  <2>3. Head(toRcv) \in Blocks
    <3>1. Head(toRcv) = sMd[Len(rMd) + 1] /\ Len(rMd) + 1 \in 1 .. Len(sMd)
      BY <1>1, <1>2, <2>2
    <3> QED
      BY <1>1, <3>1, ElementOfSeq
  <2>4. CASE IsOk(Head(toRcv))
    BY <2>1, <2>3, <2>4 DEF Settle, Decided
  <2>5. CASE ~IsOk(Head(toRcv))
    <3>1. /\ rPc' = "recv" /\ rMd' = rMd /\ UNCHANGED <<sVars, toSnd>>
      BY <2>1, <2>5, NotOkSettles
    <3> QED
      BY <1>1, <1>2, <2>2, <3>1 DEF Incomplete, Sending, HeadShort, Tranche, sVars
  <2> QED
    BY <2>4, <2>5
<1>10. CASE AnswerTimeout
  <2>1. ~IsOk(NoAnswer) /\ Settle(NoAnswer) /\ toRcv' = toRcv
    BY <1>10, Ranges DEF AnswerTimeout, DigestInv, TypeInv
  <2>2. /\ rPc' = "recv" /\ rMd' = rMd /\ UNCHANGED <<blocksRead, copy, sVars, toSnd>>
    BY <2>1, NotOkSettles
  <2> QED
    BY <1>2, <2>1, <2>2
       DEF Collecting, Sending, Receiving, HeadShort, Written, Tranche, sVars
<1>11. CASE BlockTimeout \/ UNCHANGED vars
  BY <1>2, <1>11 DEF BlockTimeout, vars, sVars, rVars, netVars, Collecting, Sending,
     Receiving, HeadShort, Written, Tranche
<1>12. CASE Overtake
  BY <1>12, OvertakeDecides
<1> QED
  BY <1>4, <1>5, <1>6, <1>7, <1>8, <1>9, <1>10, <1>11, <1>12 DEF Next, Sender, Receiver

\* Without an approval under way the secondary's lag shows in blocksRead.
LEMMA NonePending ==
  ASSUME NEW q, NEW n \in Nat, \A i \in 1 .. Len(q) : q[i] # OK
  PROVE  n + NO_BLOCKS_TRANSFER * Cardinality(Acks(q)) + NO_BLOCKS_TRANSFER
           = n + NO_BLOCKS_TRANSFER
<1>1. Acks(q) = {}
  BY DEF Acks
<1>2. Cardinality(Acks(q)) = 0
  BY <1>1, FS_EmptySet
<1> QED
  BY <1>2, TrancheAssumption

\* A hash of the whole tranche is approved; the approval is what comes next.
LEMMA HashedApproves ==
  ASSUME DigestInv, Hashed, CheckMd5, Head(toSnd) = sMd,
         Len(toSnd) > 1 => toSnd[2] = << >>, toRcv' = <<OK>>
  PROVE  Approved'
<1>a. /\ toSnd \in Seq(Answers) /\ Len(toSnd) \in Nat /\ Len(toSnd) > 0
      /\ << >> \in Answers /\ << >> \in Seq(Datagrams) /\ NO_BLOCKS_TRANSFER \in Nat
      /\ blocksSent \in Nat /\ sMd \in Seq(Datagrams) /\ NoAnswer \notin Seq(Datagrams)
      /\ noBlocks \in Nat /\ OK \in Datagrams
  BY Ranges, LenProperties, EmptySeq DEF DigestInv, TypeInv, Answers, Hashed
<1>b. /\ newInfo /\ sPc = "await" /\ rPc \in {"recv", "digest", "answer"}
      /\ blocksRead = blocksSent /\ Written /\ Cached
      /\ toRcv = << >> /\ rMd = << >> /\ toSnd # << >>
      /\ HeadShort \/ (Head(toSnd) = sMd /\ (Len(toSnd) > 1 => toSnd[2] = << >>))
  BY DEF Hashed, Sending, Receiving
<1>c. Len(sMd) = Tranche(blocksSent) /\ 0 < Tranche(blocksSent) /\ Tranche(blocksSent) \in Nat
  BY <1>b, SentSize DEF Hashed
<1>1. Judge(sMd) /\ toSnd' = Tail(toSnd)
  BY DEF CheckMd5
<1>2. /\ newInfo' = TRUE /\ sMd' = << >> /\ ToSecondary(OK)
      /\ blocksSent' = blocksSent + NO_BLOCKS_TRANSFER /\ UNCHANGED rVars
      /\ sPc' = SenderLoop(blocksSent')
  BY <1>1 DEF Judge, Matches
<1>3. blocksSent' = blocksRead' + NO_BLOCKS_TRANSFER /\ blocksRead' \in Nat
  BY <1>a, <1>b, <1>2 DEF rVars
<1>4. sPc' # "done" => HeadShort'
  <2> SUFFICES ASSUME sPc' # "done", toSnd' # << >>
               PROVE  /\ Head(toSnd') \in Seq(Datagrams)
                      /\ Len(Head(toSnd')) < Tranche(blocksSent')
    BY DEF HeadShort, Tranche
  <2>1. /\ Len(toSnd') = Len(toSnd) - 1 /\ toSnd' \in Seq(Answers)
        /\ \A i \in 1 .. Len(toSnd') : toSnd'[i] = toSnd[i + 1]
    BY <1>a, <1>b, <1>1, HeadTailProperties
  <2>2. Len(toSnd') > 0 /\ Head(toSnd') = toSnd'[1]
    BY <2>1, EmptySeq, HeadTailProperties
  <2>3. Head(toSnd') = << >>
    BY <1>a, <2>1, <2>2
  <2>4. blocksSent' < noBlocks
    BY <1>2 DEF SenderLoop
  <2>5. 0 < Tranche(blocksSent')
    BY <1>a, <1>2, <2>4, TrancheBounds
  <2> QED
    BY <1>a, <2>3, <2>5
<1>5. /\ toRcv' # << >> /\ Head(toRcv') = OK /\ Len(toRcv') = 1 /\ Len(sMd') = 0
  BY <1>2
<1>6. Written' /\ Cached' /\ rMd' = << >> /\ rPc' \in {"recv", "digest", "answer"}
  BY <1>b, <1>2 DEF Written, Cached, Tranche, rVars
<1>7. sPc' \in {"send", "done"}
  BY <1>2 DEF SenderLoop
<1> QED
  BY <1>2, <1>3, <1>4, <1>5, <1>6, <1>7 DEF Approved, Receiving

LEMMA HashedNext ==
  ASSUME DigestInv, Hashed, [Next]_vars
  PROVE  Decided' \/ Hashed' \/ Approved'
<1>1. /\ toSnd \in Seq(Answers) /\ Len(toSnd) \in Nat /\ Len(toSnd) > 0
      /\ << >> \in Answers /\ << >> \in Seq(Datagrams) /\ NO_BLOCKS_TRANSFER \in Nat
      /\ blocksSent \in Nat /\ sMd \in Seq(Datagrams) /\ NoAnswer \notin Seq(Datagrams)
      /\ noBlocks \in Nat /\ OK \in Datagrams
  BY Ranges, LenProperties, EmptySeq DEF DigestInv, TypeInv, Answers, Hashed
<1>2. /\ newInfo /\ sPc = "await" /\ rPc \in {"recv", "digest", "answer"}
      /\ blocksRead = blocksSent /\ Written /\ Cached
      /\ toRcv = << >> /\ rMd = << >> /\ toSnd # << >>
      /\ HeadShort \/ (Head(toSnd) = sMd /\ (Len(toSnd) > 1 => toSnd[2] = << >>))
  BY DEF Hashed, Sending, Receiving
<1>3. Len(sMd) = Tranche(blocksSent) /\ 0 < Tranche(blocksSent) /\ Tranche(blocksSent) \in Nat
  BY <1>2, SentSize DEF Hashed
<1>4. CASE \/ SendFileInfo \/ TakeHandshake \/ HandshakeTimeout \/ SendBlock
           \/ AcceptUdp \/ OpenCopy \/ ReceiveBlock \/ ReceiveAnswer
  BY <1>2, <1>4 DEF SendFileInfo, TakeHandshake, HandshakeTimeout, SendBlock, AcceptUdp,
     OpenCopy, ReceiveBlock, ReceiveAnswer
<1>5. CASE Md5Timeout
  BY <1>1, <1>5 DEF Md5Timeout, Judge, Matches, Decided
<1>6. CASE CheckMd5
  <2>1. CASE HeadShort
    BY <1>6, <2>1, ShortDecides DEF Hashed
  <2>2. CASE Head(toSnd) = sMd /\ (Len(toSnd) > 1 => toSnd[2] = << >>)
    <3>1. Judge(sMd) /\ toSnd' = Tail(toSnd)
      BY <1>6, <2>2 DEF CheckMd5
    <3>2. /\ newInfo' = TRUE /\ sMd' = << >> /\ ToSecondary(OK)
          /\ blocksSent' = blocksSent + NO_BLOCKS_TRANSFER /\ UNCHANGED rVars
          /\ sPc' = SenderLoop(blocksSent')
      BY <3>1 DEF Judge, Matches
    <3>3. toRcv' = << >> \/ toRcv' = <<OK>>
      BY <1>2, <3>2 DEF ToSecondary, Enqueue
    <3>4. blocksSent' = blocksRead' + NO_BLOCKS_TRANSFER /\ blocksRead' \in Nat
      BY <1>1, <1>2, <3>2 DEF rVars
    <3>5. CASE toRcv' = << >>
      <4>1. \A i \in 1 .. Len(toRcv') : toRcv'[i] # OK
        BY <3>5
      <4>2. blocksRead' + NO_BLOCKS_TRANSFER * Pending' + NO_BLOCKS_TRANSFER
              = blocksRead' + NO_BLOCKS_TRANSFER
        BY <3>4, <4>1, NonePending DEF Pending
      <4>3. LagsBy(NO_BLOCKS_TRANSFER)'
        BY <1>1, <3>4, <4>2 DEF LagsBy
      <4> QED
        BY <4>3 DEF Decided
    <3>6. CASE toRcv' = <<OK>>
      BY <1>6, <2>2, <3>6, HashedApproves
    <3> QED
      BY <3>3, <3>5, <3>6
  <2> QED
    BY <1>2, <2>1, <2>2
<1>7. CASE SendMd5
  <2>1. /\ ToPrimary(<< >>) /\ rMd' = << >> /\ rPc' = "answer"
        /\ UNCHANGED <<sVars, blocksRead, copy, cache, toRcv>>
    BY <1>2, <1>7 DEF SendMd5
  <2>2. /\ toSnd' # << >> /\ Head(toSnd') = Head(toSnd)
        /\ Len(toSnd') > 1 => toSnd'[2] = toSnd[2] \/ toSnd'[2] = << >>
        /\ Len(toSnd') > 1 /\ toSnd'[2] # << >> => Len(toSnd) > 1 /\ toSnd'[2] = toSnd[2]
    BY <1>1, <1>2, <2>1, AnswerQueued
  <2>3. Cached' /\ Written' /\ (HeadShort => HeadShort')
    BY <2>1, <2>2, <1>2 DEF Cached, Written, HeadShort, Tranche, sVars
  <2>4. HeadShort' \/ (Head(toSnd') = sMd /\ (Len(toSnd') > 1 => toSnd'[2] = << >>))
    BY <1>2, <2>2, <2>3
  <2> QED
    BY <1>2, <2>1, <2>2, <2>3, <2>4 DEF Hashed, Sending, Receiving, sVars
<1>8. CASE AnswerTimeout
  <2>1. ~IsOk(NoAnswer) /\ Settle(NoAnswer) /\ toRcv' = toRcv
    BY <1>8, Ranges DEF AnswerTimeout, DigestInv, TypeInv
  <2>2. /\ rPc' = "recv" /\ rMd' = << >> /\ UNCHANGED <<blocksRead, copy, cache, sVars, toSnd>>
    BY <2>1, NotOkSettles
  <2> QED
    BY <1>2, <2>1, <2>2
       DEF Hashed, Sending, Receiving, HeadShort, Written, Cached, Tranche, sVars
<1>9. CASE BlockTimeout \/ UNCHANGED vars
  BY <1>2, <1>9 DEF BlockTimeout, vars, sVars, rVars, netVars, Hashed, Sending,
     Receiving, HeadShort, Written, Cached, Tranche
<1>10. CASE Overtake
  BY <1>10, OvertakeDecides
<1> QED
  BY <1>4, <1>5, <1>6, <1>7, <1>8, <1>9, <1>10 DEF Next, Sender, Receiver

LEMMA ApprovedSends ==
  ASSUME DigestInv, Approved, SendBlock
  PROVE  Approved'
<1>a. /\ toRcv \in Seq(Datagrams) /\ sMd \in Seq(Blocks) /\ copy \in Seq(Slots)
      /\ Len(toRcv) \in Nat /\ Len(sMd) \in Nat /\ Len(copy) \in Nat
      /\ << >> \in Answers /\ << >> \in Seq(Datagrams) /\ NO_BLOCKS_TRANSFER \in Nat \ {0}
      /\ blocksSent \in Nat /\ blocksRead \in Nat /\ noBlocks \in Nat
      /\ ~IsOk(NoAnswer) /\ IsOk(OK)
  BY Ranges, LenProperties DEF DigestInv, TypeInv, Answers
<1>b. /\ newInfo /\ sPc \in {"send", "await", "done"} /\ rPc \in {"recv", "digest", "answer"}
      /\ sPc # "done" => HeadShort
      /\ blocksSent = blocksRead + NO_BLOCKS_TRANSFER /\ Written /\ Cached /\ rMd = << >>
      /\ toRcv # << >> /\ Head(toRcv) = OK
      /\ OK \notin Blocks => \A i \in 2 .. Len(toRcv) : toRcv[i] # OK
      /\ \/ Len(toRcv) - 1 < Len(sMd)
         \/ Len(toRcv) - 1 = Len(sMd) /\ \A i \in 1 .. Len(sMd) : toRcv[i + 1] = sMd[i]
  BY DEF Approved, Receiving
<1>c. /\ Len(toRcv) > 0 /\ Len(Tail(toRcv)) = Len(toRcv) - 1 /\ Len(Tail(toRcv)) \in Nat
      /\ \A i \in 1 .. Len(Tail(toRcv)) : /\ Tail(toRcv)[i] = toRcv[i + 1]
                                          /\ i + 1 \in 2 .. Len(toRcv)
      /\ Head(toRcv) = toRcv[1]
  BY <1>a, <1>b, HeadTailProperties, EmptySeq
<1>1. Sending /\ HeadShort
  BY <1>b DEF SendBlock, Sending
<1>2. /\ SentBlock /\ UNCHANGED <<rMd, rPc, blocksRead, copy, cache, blocksSent, toSnd>>
      /\ newInfo' /\ sPc' \in {"send", "await"}
      /\ Len(sMd') = Len(sMd) + 1 /\ sMd' \in Seq(Blocks)
      /\ \A i \in 1 .. Len(sMd) : sMd'[i] = sMd[i]
  BY <1>1, BlockSent DEF SentBlock, Sending, rVars
<1>3. HeadShort' /\ Written' /\ Cached' /\ rMd' = << >> /\ Receiving'
  BY <1>b, <1>1, <1>2 DEF HeadShort, Tranche, Written, Cached, Receiving
<1>4. CASE toRcv' = toRcv
  <2>1. Len(toRcv') - 1 < Len(sMd')
    BY <1>a, <1>b, <1>2, <1>4
  <2> QED
    BY <1>b, <1>2, <1>3, <1>4, <2>1 DEF Approved
<1>5. CASE /\ toRcv' \in Seq(Datagrams) /\ Len(toRcv') = Len(toRcv) + 1
           /\ \A i \in 1 .. Len(toRcv) : toRcv'[i] = toRcv[i]
           /\ toRcv'[Len(toRcv) + 1] = sMd'[Len(sMd) + 1]
  <2>1. toRcv' # << >> /\ Head(toRcv') = OK
    <3>1. 1 \in 1 .. Len(toRcv) /\ toRcv'[1] = toRcv[1] /\ Len(toRcv') # 0
      BY <1>a, <1>c, <1>5
    <3>2. toRcv' # << >>
      BY <1>5, <3>1, EmptySeq
    <3>3. Head(toRcv') = toRcv'[1]
      BY <1>5, <3>2, HeadTailProperties
    <3>4. toRcv[1] = OK
      BY <1>b, <1>c
    <3> QED
      BY <3>1, <3>2, <3>3, <3>4
  <2>2. OK \notin Blocks => sMd'[Len(sMd) + 1] # OK
    <3>1. Len(sMd) + 1 \in 1 .. Len(sMd')
      BY <1>a, <1>2
    <3> QED
      BY <1>a, <1>2, <3>1, ElementOfSeq
  <2>3. OK \notin Blocks => \A i \in 2 .. Len(toRcv') : toRcv'[i] # OK
    <3> SUFFICES ASSUME OK \notin Blocks, NEW i \in 2 .. Len(toRcv') PROVE toRcv'[i] # OK
      OBVIOUS
    <3>1. i \in 2 .. Len(toRcv) \/ i = Len(toRcv) + 1
      BY <1>a, <1>5
    <3> QED
      BY <1>a, <1>b, <1>5, <2>2, <3>1
  <2>4. CASE Len(toRcv) - 1 < Len(sMd)
    <3>1. Len(toRcv') - 1 < Len(sMd')
      BY <1>a, <1>2, <1>5, <2>4
    <3> QED
      BY <1>b, <1>2, <1>3, <2>1, <2>3, <3>1 DEF Approved
  <2>5. CASE Len(toRcv) - 1 = Len(sMd) /\ \A i \in 1 .. Len(sMd) : toRcv[i + 1] = sMd[i]
    <3>1. Len(toRcv') - 1 = Len(sMd')
      BY <1>a, <1>2, <1>5, <2>5
    <3>2. \A i \in 1 .. Len(sMd') : toRcv'[i + 1] = sMd'[i]
      <4> SUFFICES ASSUME NEW i \in 1 .. Len(sMd') PROVE toRcv'[i + 1] = sMd'[i]
        OBVIOUS
      <4>1. CASE i \in 1 .. Len(sMd)
        <5>1. i + 1 \in 1 .. Len(toRcv)
          BY <1>a, <2>5, <4>1
        <5> QED
          BY <1>2, <1>5, <2>5, <4>1, <5>1
      <4>2. CASE i = Len(sMd) + 1
        <5>1. i + 1 = Len(toRcv) + 1
          BY <1>a, <2>5, <4>2
        <5> QED
          BY <1>5, <4>2, <5>1
      <4> QED
        BY <1>a, <1>2, <4>1, <4>2
    <3> QED
      BY <1>b, <1>2, <1>3, <2>1, <2>3, <3>1, <3>2 DEF Approved
  <2> QED
    BY <1>b, <2>4, <2>5
<1> QED
  BY <1>2, <1>4, <1>5 DEF SentBlock

\* The approval writes the cached tranche: the copy is finished or the next
\* tranche is being collected.
LEMMA ApprovedWrites ==
  ASSUME DigestInv, Approved, ReceiveAnswer
  PROVE  \/ Collecting' \/ Incomplete'
         \/ rPc' = "done" /\ blocksRead' = noBlocks /\ copy' = File
<1>a. /\ toRcv \in Seq(Datagrams) /\ sMd \in Seq(Blocks) /\ copy \in Seq(Slots)
      /\ Len(toRcv) \in Nat /\ Len(sMd) \in Nat /\ Len(copy) \in Nat
      /\ << >> \in Answers /\ << >> \in Seq(Datagrams) /\ NO_BLOCKS_TRANSFER \in Nat \ {0}
      /\ blocksSent \in Nat /\ blocksRead \in Nat /\ noBlocks \in Nat
      /\ ~IsOk(NoAnswer) /\ IsOk(OK)
  BY Ranges, LenProperties DEF DigestInv, TypeInv, Answers
<1>b. /\ newInfo /\ sPc \in {"send", "await", "done"} /\ rPc \in {"recv", "digest", "answer"}
      /\ sPc # "done" => HeadShort
      /\ blocksSent = blocksRead + NO_BLOCKS_TRANSFER /\ Written /\ Cached /\ rMd = << >>
      /\ toRcv # << >> /\ Head(toRcv) = OK
      /\ OK \notin Blocks => \A i \in 2 .. Len(toRcv) : toRcv[i] # OK
      /\ \/ Len(toRcv) - 1 < Len(sMd)
         \/ Len(toRcv) - 1 = Len(sMd) /\ \A i \in 1 .. Len(sMd) : toRcv[i + 1] = sMd[i]
  BY DEF Approved, Receiving
<1>c. /\ Len(toRcv) > 0 /\ Len(Tail(toRcv)) = Len(toRcv) - 1 /\ Len(Tail(toRcv)) \in Nat
      /\ \A i \in 1 .. Len(Tail(toRcv)) : /\ Tail(toRcv)[i] = toRcv[i + 1]
                                          /\ i + 1 \in 2 .. Len(toRcv)
      /\ Head(toRcv) = toRcv[1]
  BY <1>a, <1>b, HeadTailProperties, EmptySeq
<1>1. /\ Settle(OK) /\ toRcv' = Tail(toRcv)
  BY <1>b DEF ReceiveAnswer
<1> DEFINE tranche == [i \in 1 .. Tranche(blocksRead) |-> cache[i - 1]]
<1>2. /\ copy' = copy \o tranche /\ blocksRead' = blocksRead + Tranche(blocksRead)
      /\ rMd' = rMd /\ rPc' = ReceiverLoop(blocksRead') /\ UNCHANGED <<sVars, toSnd>>
  BY <1>a, <1>1 DEF Settle
<1>3. /\ blocksRead < noBlocks /\ Tranche(blocksRead) \in Nat
      /\ blocksRead + Tranche(blocksRead) <= noBlocks
  <2>1. blocksRead \in Nat /\ noBlocks \in Nat /\ blocksRead < noBlocks
    BY <1>a, <1>b DEF DigestInv, RoundOK
  <2>2. blocksRead <= noBlocks
    BY <2>1
  <2> QED
    BY <2>1, <2>2, TrancheBounds
<1>4. /\ tranche \in Seq(Slots) /\ Len(tranche) = Tranche(blocksRead)
      /\ \A i \in 1 .. Tranche(blocksRead) : tranche[i] = File[blocksRead + i]
  <2>1. \A i \in 1 .. Tranche(blocksRead) : cache[i - 1] = File[blocksRead + i]
    BY <1>b DEF Cached
  <2>2. \A i \in 1 .. Tranche(blocksRead) : cache[i - 1] \in Slots
    <3> SUFFICES ASSUME NEW i \in 1 .. Tranche(blocksRead) PROVE cache[i - 1] \in Slots
      OBVIOUS
    <3>1. blocksRead + i \in 1 .. noBlocks
      BY <1>a, <1>3
    <3>2. File[blocksRead + i] \in Blocks
      BY <3>1, FileAssumption, ElementOfSeq DEF noBlocks
    <3> QED
      BY <2>1, <3>2 DEF Slots, Datagrams
  <2> QED
    BY <1>3, <2>1, <2>2, IsASeq, LenProperties
<1> HIDE DEF tranche
<1>5. Written'
  <2>1. /\ Len(copy') = blocksRead'
        /\ \A i \in 1 .. blocksRead : copy'[i] = copy[i]
        /\ \A i \in 1 .. Tranche(blocksRead) : copy'[blocksRead + i] = tranche[i]
    <3>1. Len(copy) = blocksRead
      BY <1>b DEF Written
    <3>2. /\ Len(copy \o tranche) = Len(copy) + Len(tranche)
          /\ \A i \in 1 .. Len(copy) + Len(tranche) :
               (copy \o tranche)[i] = IF i <= Len(copy) THEN copy[i] ELSE tranche[i - Len(copy)]
      BY <1>a, <1>4, ConcatProperties
    <3>3. \A i \in 1 .. blocksRead : (copy \o tranche)[i] = copy[i]
      BY <1>a, <1>3, <1>4, <3>1, <3>2
    <3>4. \A i \in 1 .. Tranche(blocksRead) : (copy \o tranche)[blocksRead + i] = tranche[i]
      BY <1>a, <1>3, <1>4, <3>1, <3>2
    <3> QED
      BY <1>2, <1>4, <3>1, <3>2, <3>3, <3>4
  <2>2. \A i \in 1 .. blocksRead' : copy'[i] = File[i]
    <3> SUFFICES ASSUME NEW i \in 1 .. blocksRead' PROVE copy'[i] = File[i]
      OBVIOUS
    <3>1. CASE i \in 1 .. blocksRead
      BY <1>b, <2>1, <3>1 DEF Written
    <3>2. CASE i \notin 1 .. blocksRead
      <4> DEFINE j == i - blocksRead
      <4>1. j \in 1 .. Tranche(blocksRead) /\ i = blocksRead + j
        BY <1>a, <1>2, <1>3, <3>2
      <4> QED
        BY <1>4, <2>1, <4>1
    <3> QED
      BY <3>1, <3>2
  <2> QED
    BY <2>1, <2>2 DEF Written
<1>6. CASE blocksRead' = noBlocks
  <2>1. rPc' = "done"
    BY <1>a, <1>2, <1>6 DEF ReceiverLoop
  <2>2. copy' = File
    <3>1. copy' \in Seq(Slots)
      BY NextTypeInv DEF DigestInv, TypeInv, TypeOK, Next, Receiver
    <3>2. File \in Seq(Slots)
      <4>1. Blocks \subseteq Slots
        BY DEF Slots, Datagrams
      <4> QED
        BY <4>1, FileAssumption, SeqMonotonic
    <3>3. Len(copy') = Len(File) /\ \A i \in 1 .. Len(copy') : copy'[i] = File[i]
      BY <1>5, <1>6 DEF Written, noBlocks
    <3> QED
      BY <3>1, <3>2, <3>3, SeqEqual
  <2> QED
    BY <1>6, <2>1, <2>2
<1>7. CASE blocksRead' # noBlocks
  <2>1. blocksRead' = blocksSent /\ blocksSent < noBlocks /\ rPc' = "recv"
    BY <1>a, <1>b, <1>2, <1>3, <1>7 DEF Tranche, ReceiverLoop
  <2>2. sPc \in {"send", "await"}
    BY <1>a, <1>b, <2>1 DEF DigestInv, SentOK
  <2>3. /\ HeadShort' /\ Sending' /\ Receiving' /\ blocksRead' = blocksSent'
        /\ Len(rMd') = 0 /\ sMd' = sMd
    BY <1>b, <1>2, <2>1, <2>2 DEF HeadShort, Tranche, Sending, Receiving, sVars
  <2>4. CASE Len(toRcv) - 1 < Len(sMd)
    <3>1. Len(rMd') + Len(toRcv') < Len(sMd')
      BY <1>a, <1>c, <1>1, <2>3, <2>4
    <3> QED
      BY <2>1, <2>3, <3>1 DEF Incomplete
  <2>5. CASE Len(toRcv) - 1 = Len(sMd) /\ \A i \in 1 .. Len(sMd) : toRcv[i + 1] = sMd[i]
    <3>1. Len(rMd') + Len(toRcv') = Len(sMd')
      BY <1>a, <1>c, <1>1, <2>3, <2>5
    <3>2. \A i \in 1 .. Len(toRcv') : toRcv'[i] = sMd'[Len(rMd') + i]
      <4> SUFFICES ASSUME NEW i \in 1 .. Len(toRcv')
                   PROVE  toRcv'[i] = sMd[i] /\ Len(rMd') + i = i
        BY <2>3
      <4>1. i \in 1 .. Len(sMd) /\ Len(rMd') + i = i
        BY <1>a, <1>c, <1>1, <2>3, <2>5
      <4> QED
        BY <1>c, <1>1, <2>5, <4>1
    <3>3. \A i \in 1 .. Len(rMd') : rMd'[i] = sMd'[i]
      BY <2>3
    <3> QED
      BY <1>5, <2>3, <3>1, <3>2, <3>3 DEF Collecting
  <2> QED
    BY <1>b, <2>4, <2>5
<1> QED
  BY <1>6, <1>7

LEMMA ApprovedNext ==
  ASSUME DigestInv, Approved, [Next]_vars, OK \notin Blocks
  PROVE  Decided' \/ Approved' \/ Collecting' \/ Incomplete'
<1>1. /\ toRcv \in Seq(Datagrams) /\ sMd \in Seq(Blocks) /\ copy \in Seq(Slots)
      /\ Len(toRcv) \in Nat /\ Len(sMd) \in Nat /\ Len(copy) \in Nat
      /\ << >> \in Answers /\ << >> \in Seq(Datagrams) /\ NO_BLOCKS_TRANSFER \in Nat \ {0}
      /\ blocksSent \in Nat /\ blocksRead \in Nat /\ noBlocks \in Nat
      /\ ~IsOk(NoAnswer) /\ IsOk(OK)
  BY Ranges, LenProperties DEF DigestInv, TypeInv, Answers
<1>2. /\ newInfo /\ sPc \in {"send", "await", "done"} /\ rPc \in {"recv", "digest", "answer"}
      /\ sPc # "done" => HeadShort
      /\ blocksSent = blocksRead + NO_BLOCKS_TRANSFER /\ Written /\ Cached /\ rMd = << >>
      /\ toRcv # << >> /\ Head(toRcv) = OK
      /\ OK \notin Blocks => \A i \in 2 .. Len(toRcv) : toRcv[i] # OK
      /\ \/ Len(toRcv) - 1 < Len(sMd)
         \/ Len(toRcv) - 1 = Len(sMd) /\ \A i \in 1 .. Len(sMd) : toRcv[i + 1] = sMd[i]
  BY DEF Approved, Receiving
<1>3. /\ Len(toRcv) > 0 /\ Len(Tail(toRcv)) = Len(toRcv) - 1 /\ Len(Tail(toRcv)) \in Nat
      /\ \A i \in 1 .. Len(Tail(toRcv)) : /\ Tail(toRcv)[i] = toRcv[i + 1]
                                          /\ i + 1 \in 2 .. Len(toRcv)
      /\ Head(toRcv) = toRcv[1]
  BY <1>1, <1>2, HeadTailProperties, EmptySeq
<1>4. CASE SendFileInfo \/ TakeHandshake \/ HandshakeTimeout \/ AcceptUdp \/ OpenCopy
  BY <1>2, <1>4 DEF SendFileInfo, TakeHandshake, HandshakeTimeout, AcceptUdp, OpenCopy
<1>5. CASE SendBlock
  BY <1>5, ApprovedSends
<1>6. CASE CheckMd5 \/ Md5Timeout
  <2>1. Sending /\ HeadShort
    BY <1>2, <1>6 DEF CheckMd5, Md5Timeout, Judge, Sending
  <2> QED
    BY <1>6, <2>1, ShortDecides
<1>7. CASE ReceiveBlock
  <2>1. toRcv' = Tail(toRcv) /\ UNCHANGED <<blocksRead, blocksSent>>
    BY <1>7 DEF ReceiveBlock, sVars
  <2>2. \A i \in 1 .. Len(toRcv') : toRcv'[i] # OK
    BY <1>2, <1>3, <2>1
  <2>3. blocksRead' + NO_BLOCKS_TRANSFER * Pending' + NO_BLOCKS_TRANSFER
          = blocksRead' + NO_BLOCKS_TRANSFER
    BY <1>1, <2>1, <2>2, NonePending DEF Pending
  <2>4. LagsBy(NO_BLOCKS_TRANSFER)'
    BY <1>1, <1>2, <2>1, <2>3 DEF LagsBy
  <2> QED
    BY <2>4 DEF Decided
<1>8. CASE SendMd5
  <2>1. /\ ToPrimary(rMd) /\ rMd' = << >> /\ rPc' = "answer" /\ Len(rMd) = 0
        /\ UNCHANGED <<sVars, blocksRead, copy, cache, toRcv>>
    BY <1>2, <1>8 DEF SendMd5
  <2>2. sPc' # "done" => HeadShort'
    <3> SUFFICES ASSUME sPc # "done" PROVE HeadShort'
      BY <2>1 DEF sVars
    <3>1. HeadShort /\ Sending
      BY <1>2 DEF Sending
    <3>2. 0 < Tranche(blocksSent)
      BY <3>1, SentSize
    <3> QED
      BY <2>1, <3>1, <3>2, ShortQueued DEF sVars
  <2> QED
    BY <1>2, <2>1, <2>2 DEF Approved, Receiving, Written, Cached, Tranche, sVars
<1>9. CASE ReceiveAnswer
  BY <1>9, ApprovedWrites DEF Decided
<1>10. CASE AnswerTimeout
  <2>1. ~IsOk(NoAnswer) /\ Settle(NoAnswer) /\ toRcv' = toRcv
    BY <1>1, <1>10 DEF AnswerTimeout
  <2>2. /\ rPc' = "recv" /\ rMd' = << >> /\ UNCHANGED <<blocksRead, copy, cache, sVars, toSnd>>
    BY <2>1, NotOkSettles
  <2> QED
    BY <1>2, <2>1, <2>2
       DEF Approved, Receiving, HeadShort, Written, Cached, Tranche, sVars
<1>11. CASE BlockTimeout \/ UNCHANGED vars
  BY <1>2, <1>11 DEF BlockTimeout, vars, sVars, rVars, netVars, Approved,
     Receiving, HeadShort, Written, Cached, Tranche
<1>12. CASE Overtake
  BY <1>12, OvertakeDecides
<1> QED
  BY <1>4, <1>5, <1>6, <1>7, <1>8, <1>9, <1>10, <1>11, <1>12 DEF Next, Sender, Receiver

LEMMA PhaseDone ==
  ASSUME DigestInv, Phase
  PROVE  CopyExactUnlessHollow
<1> SUFFICES ASSUME rPc = "done", ~hollow, ~mistaken, overtakes = 0
             PROVE  copy = File
  BY DEF CopyExactUnlessHollow
<1>1. /\ blocksRead = noBlocks /\ blocksSent \in Nat /\ noBlocks \in Nat
      /\ NO_BLOCKS_TRANSFER \in Nat \ {0}
      /\ SecondaryNeverAhead /\ blocksSent < noBlocks + NO_BLOCKS_TRANSFER
  BY Ranges, NotAhead DEF DigestInv, TypeInv, RoundOK, SentOK
<1>2. ~(sPc \in {"send", "await"})
  BY <1>1 DEF SecondaryNeverAhead, DigestInv, SentOK
<1>3. newInfo
  BY <1>2 DEF DigestInv, SentOK
<1>6. CASE OK \in Blocks
  <2>1. noBlocks = 0
    BY <1>1, <1>6 DEF DigestInv, Lags, LagsBy
  <2>2. Blocks = {}
    BY <2>1, FileAssumption, LenProperties DEF Blocks, noBlocks
  <2> QED
    BY <1>6, <2>2
<1>4. ~LagsBy(NO_BLOCKS_TRANSFER)
  <2>1. Pending \in Nat
    BY AcksFinite DEF DigestInv, TypeInv, TypeOK, Pending
  <2>2. NO_BLOCKS_TRANSFER * Pending \in Nat
    BY <2>1, OneMore
  <2> QED
    BY <1>1, <2>2 DEF LagsBy
<1>5. CASE Greeting
  <2>1. /\ copy \in Seq(Slots) /\ Len(copy) = 0 /\ File \in Seq(Blocks) /\ Len(File) = 0
    BY <1>1, <1>5, FileAssumption
       DEF Greeting, Written, noBlocks, DigestInv, TypeInv, TypeOK
  <2> QED
    BY <2>1, EmptySeq
<1> QED
  BY <1>2, <1>3, <1>4, <1>5, <1>6
     DEF Phase, Decided, Collecting, Incomplete, Hashed, Approved, Sending, Receiving

\* Whatever is lost, dropped or late, and whatever the file holds, a secondary
\* that finishes has the primary's file, unless a tranche was approved on the
\* hash of nothing, a block of the file passed for an approval or a datagram
\* overtook another.
THEOREM ExactCopy == Spec => []CopyExactUnlessHollow
<1>1. Init => DigestInv /\ Phase
  BY InitDigestInv, InitPhase
<1>2. DigestInv /\ Phase /\ [Next]_vars => (DigestInv /\ Phase)'
  <2> SUFFICES ASSUME DigestInv, Phase, [Next]_vars PROVE DigestInv' /\ Phase'
    OBVIOUS
  <2>1. CASE OK \in Blocks
    BY <2>1, NextDigestInv DEF Phase, Decided
  <2>2. CASE OK \notin Blocks
    BY <2>2, NextDigestInv, DecidedNext, GreetingNext, CollectingNext, IncompleteNext,
       HashedNext, ApprovedNext DEF Phase
  <2> QED
    BY <2>1, <2>2
<1>3. DigestInv /\ Phase => CopyExactUnlessHollow
  BY PhaseDone
<1> QED
  BY <1>1, <1>2, <1>3, PTL DEF Spec

-----------------------------------------------------------------------------
(* When no datagram is lost, late or overtaken, a buffer holds a tranche   *)
(* and its verdict, and the files open, no receive times out and each      *)
(* phase follows the last: the transfer implements FileCopy.               *)

Lossless ==
  /\ MaxLosses = 0 /\ MaxOvertakes = 0 /\ MaxLate = 0
  /\ NO_BLOCKS_TRANSFER < BufferSize /\ ~MayFailToOpen

\* The announcement, then the handshake, is under way.
Opening ==
  /\ sPc \in {"start", "handshake"} /\ newInfo
  /\ blocksSent = 0 /\ blocksRead = 0 /\ toRcv = << >> /\ rMd = << >>
  /\ rPc \in {"idle", "open", "recv", "done"}
  /\ sPc = "start" => rPc = "idle" /\ ~info
  /\ sPc = "handshake" => (info <=> rPc = "idle")
  /\ rPc \in {"idle", "open"} => toSnd = << >> /\ copy = Previous
  /\ rPc \in {"recv", "done"} => toSnd = <<OK>> /\ copy = << >>

CollectingInTime ==
  /\ Collecting /\ toSnd = << >>
  /\ rPc = IF Len(rMd) = Tranche(blocksRead) THEN "digest" ELSE "recv"

HashedInTime == Hashed /\ toSnd = <<sMd>> /\ rPc = "answer"

ApprovedInTime ==
  Approved /\ toSnd = << >> /\ rPc = "answer" /\ Len(toRcv) - 1 = Len(sMd)

Complete ==
  rPc = "done" /\ sPc = "done" /\ copy = File /\ blocksRead = noBlocks /\ toRcv = << >>

InTime == Opening \/ CollectingInTime \/ HashedInTime \/ ApprovedInTime \/ Complete

\* A step is one of FileCopy or leaves its variables alone.
Copies == [Copying!Next]_(Copying!vars)

LEMMA NoFault ==
  ASSUME Lossless, DigestInv
  PROVE  /\ \A quiet : TimesOut(quiet) => quiet
         /\ ~Lose /\ ~Overtake /\ ~MayFailToOpen
<1>1. losses = 0 /\ overtakes = 0 /\ late = 0
  BY DEF Lossless, DigestInv, TypeInv, TypeOK
<1> QED
  BY <1>1 DEF Lossless, TimesOut, Lose, Overtake

\* A buffer with room queues what is sent.
LEMMA NoDrop ==
  ASSUME Lossless, DigestInv, NEW m
  PROVE  /\ ToSecondary(m) /\ Len(toRcv) <= NO_BLOCKS_TRANSFER => toRcv' = Append(toRcv, m)
         /\ ToPrimary(m) /\ toSnd = << >> => toSnd' = <<m>>
<1>1. BufferSize \in Nat /\ NO_BLOCKS_TRANSFER \in Nat \ {0} /\ Len(toRcv) \in Nat
  BY BoundAssumption, Ranges, LenProperties DEF DigestInv, TypeInv
<1>2. Len(toRcv) <= NO_BLOCKS_TRANSFER => Len(toRcv) < BufferSize
  BY <1>1 DEF Lossless
<1>3. toSnd = << >> => Len(toSnd) < BufferSize /\ Append(toSnd, m) = <<m>>
  BY <1>1 DEF Lossless
<1> QED
  BY <1>2, <1>3, NoFault DEF ToSecondary, ToPrimary, Enqueue

\* A copy that was written is the file so far.
LEMMA WrittenIs ==
  ASSUME NEW S, NEW c \in Seq(S), NEW n \in Nat, n <= noBlocks, Len(c) = n,
         \A i \in 1 .. n : c[i] = File[i]
  PROVE  c = SubSeq(File, 1, n)
<1>1. noBlocks \in Nat /\ \A i \in 1 .. n : File[i] \in Blocks
  BY FileAssumption, LenProperties, ElementOfSeq DEF noBlocks
<1>2. /\ SubSeq(File, 1, n) \in Seq(Blocks)
      /\ Len(SubSeq(File, 1, n)) = IF 1 <= n THEN n - 1 + 1 ELSE 0
      /\ \A i \in 1 .. n - 1 + 1 : SubSeq(File, 1, n)[i] = File[1 + i - 1]
  BY <1>1, SubSeqProperties
<1>3. Len(SubSeq(File, 1, n)) = n /\ \A i \in 1 .. n : SubSeq(File, 1, n)[i] = File[i]
  BY <1>2
<1>4. c \in Seq(S \cup Blocks) /\ SubSeq(File, 1, n) \in Seq(S \cup Blocks)
  BY <1>2, SeqMonotonic
<1> QED
  BY <1>3, <1>4, SeqEqual

LEMMA OpeningInTime ==
  ASSUME Lossless, DigestInv, Opening, [Next]_vars
  PROVE  InTime' /\ Copies
<1>1. noBlocks \in Nat /\ OK \in Answers
  BY Ranges DEF DigestInv, TypeInv, Answers
<1>2. CASE SendFileInfo
  BY <1>2, NoFault DEF SendFileInfo, InTime, Opening, rVars, Copies, Copying!vars
<1>3. CASE AcceptUdp
  BY <1>3 DEF AcceptUdp, InTime, Opening, sVars, Copies, Copying!vars
<1>4. CASE OpenCopy
  <2>1. /\ rPc = "open" /\ copy' = << >> /\ rPc' = ReceiverLoop(blocksRead) /\ toSnd' = <<OK>>
        /\ UNCHANGED <<sVars, blocksRead, rMd, info, toRcv>>
    BY <1>4, NoFault, NoDrop DEF OpenCopy, Opening
  <2>2. rPc' \in {"recv", "done"} /\ sPc = "handshake" /\ ~info
    BY <2>1 DEF ReceiverLoop, Opening
  <2>3. InTime'
    BY <2>1, <2>2 DEF InTime, Opening, sVars
  <2>4. Copying!Open
    BY <2>1, <2>2 DEF Copying!Open, sVars
  <2> QED
    BY <2>3, <2>4 DEF Copies, Copying!Next
<1>5. CASE TakeHandshake
  <2>1. /\ toSnd = <<OK>> /\ rPc \in {"recv", "done"} /\ toSnd' = << >>
        /\ sPc' = SenderLoop(0) /\ copy = << >> /\ blocksSent = 0 /\ blocksRead = 0
        /\ UNCHANGED <<blocksSent, newInfo, sMd, rVars, toRcv>>
    <3>1. sPc' = SenderLoop(blocksSent) /\ toSnd # << >> /\ toSnd' = Tail(toSnd)
          /\ UNCHANGED <<blocksSent, newInfo, sMd, rVars, toRcv>>
      BY <1>5, NoFault, Zenon DEF TakeHandshake
    <3>2. /\ rPc \in {"recv", "done"} /\ toSnd = <<OK>> /\ copy = << >>
          /\ blocksSent = 0 /\ blocksRead = 0
      BY <3>1 DEF Opening
    <3>3. Tail(<<OK>>) = << >>
      OBVIOUS
    <3> QED
      BY <3>1, <3>2, <3>3
  <2>2. sMd = << >> /\ newInfo /\ toRcv = << >> /\ rMd = << >>
    BY <1>5 DEF TakeHandshake, Opening, DigestInv, SentOK
  <2>3. CASE 0 < noBlocks
    <3>1. 0 < Tranche(0) /\ Tranche(0) \in Nat
      BY <1>1, <2>3, TrancheBounds
    <3>2. rPc = "recv"
      BY <2>1, <2>3 DEF DigestInv, RoundOK
    <3>3. /\ Len(rMd') = 0 /\ Len(toRcv') = 0 /\ Len(sMd') = 0 /\ Len(copy') = 0
      BY <2>1, <2>2 DEF rVars
    <3>4. sPc' = "send" /\ Sending' /\ Receiving' /\ HeadShort' /\ Written'
      BY <2>1, <2>2, <2>3, <3>2, <3>3
         DEF SenderLoop, Sending, Receiving, HeadShort, Written, rVars
    <3>5. Collecting'
      BY <2>1, <3>3, <3>4 DEF Collecting, rVars
    <3>6. Tranche(blocksRead)' = Tranche(0)
      BY <2>1 DEF Tranche, rVars
    <3>7. CollectingInTime'
      BY <2>1, <3>1, <3>2, <3>3, <3>5, <3>6 DEF CollectingInTime, rVars
    <3> QED
      BY <2>1, <3>7 DEF InTime, Copies, Copying!vars, rVars
  <2>4. CASE ~(0 < noBlocks)
    <3>1. noBlocks = 0 /\ rPc = "done" /\ sPc' = "done"
      BY <1>1, <2>1, <2>4 DEF DigestInv, RoundOK, SenderLoop
    <3>2. File = << >>
      BY <3>1, FileAssumption, EmptySeq DEF noBlocks
    <3>3. Complete'
      BY <2>1, <2>2, <3>1, <3>2 DEF Complete, rVars
    <3> QED
      BY <2>1, <3>3 DEF InTime, Copies, Copying!vars, rVars
  <2> QED
    BY <2>3, <2>4
<1>6. CASE HandshakeTimeout \/ BlockTimeout
  <2>1. CASE HandshakeTimeout
    <3>1. sPc = "handshake" /\ SenderQuiet
      BY <2>1, NoFault DEF HandshakeTimeout
    <3> QED
      BY <3>1 DEF SenderQuiet, Opening
  <2>2. CASE BlockTimeout
    <3>1. rPc = "recv" /\ ReceiverQuiet
      BY <2>2, NoFault DEF BlockTimeout
    <3> QED
      BY <3>1 DEF ReceiverQuiet, Opening
  <2> QED
    BY <1>6, <2>1, <2>2
<1>7. CASE UNCHANGED vars
  BY <1>7 DEF vars, sVars, rVars, netVars, InTime, Opening, Copies, Copying!vars
<1>8. CASE \/ SendBlock \/ CheckMd5 \/ Md5Timeout \/ ReceiveBlock \/ SendMd5
           \/ ReceiveAnswer \/ AnswerTimeout
  BY <1>8 DEF SendBlock, CheckMd5, Md5Timeout, Judge, ReceiveBlock, SendMd5, ReceiveAnswer,
     AnswerTimeout, Settle, Opening
<1> QED
  BY <1>2, <1>3, <1>4, <1>5, <1>6, <1>7, <1>8, NoFault DEF Next, Sender, Receiver

LEMMA CollectingStep ==
  ASSUME Lossless, DigestInv, CollectingInTime, [Next]_vars
  PROVE  InTime' /\ Copies
<1>1. /\ toRcv \in Seq(Datagrams) /\ rMd \in Seq(Datagrams)
      /\ Len(toRcv) \in Nat /\ Len(rMd) \in Nat /\ NO_BLOCKS_TRANSFER \in Nat
      /\ blocksRead \in Nat /\ noBlocks \in Nat
  BY Ranges, LenProperties DEF DigestInv, TypeInv
<1>2. /\ Collecting /\ toSnd = << >> /\ Sending /\ blocksRead = blocksSent
      /\ Len(rMd) + Len(toRcv) = Len(sMd)
      /\ rPc = IF Len(rMd) = Tranche(blocksRead) THEN "digest" ELSE "recv"
  BY DEF CollectingInTime, Collecting
<1>3. /\ Tranche(blocksSent) \in Nat /\ Tranche(blocksSent) <= NO_BLOCKS_TRANSFER
      /\ Len(sMd) \in Nat /\ Len(sMd) <= Tranche(blocksSent)
      /\ sPc = "await" <=> Len(sMd) = Tranche(blocksSent)
  BY <1>2, SentSize
<1>4. sPc \in {"send", "await"}
  BY <1>2 DEF Sending
<1>5. CASE SendBlock
  <2>1. PICK block : ToSecondary(block)
    BY <1>5 DEF SendBlock
  <2>2. Len(toRcv) <= NO_BLOCKS_TRANSFER
    BY <1>1, <1>2, <1>3
  <2>3. toRcv' = Append(toRcv, block)
    BY <2>1, <2>2, NoDrop
  <2>4. toRcv' # toRcv
    <3>1. Len(Append(toRcv, block)) = Len(toRcv) + 1
      BY <1>1
    <3> QED
      BY <1>1, <2>3, <3>1
  <2>5. Collecting'
    BY <1>2, <1>5, <2>4, CollectingSends
  <2>6. UNCHANGED <<blocksSent, rVars, toSnd>>
    BY <1>5 DEF SendBlock
  <2> QED
    BY <1>2, <2>5, <2>6 DEF InTime, CollectingInTime, Tranche, rVars, Copies, Copying!vars
<1>6. CASE ReceiveBlock
  <2>1. Collecting'
    BY <1>2, <1>6, CollectingTakes
  <2>2. /\ rMd' = Append(rMd, Head(toRcv)) /\ rPc' = AfterBlocks(rIdx + 1) /\ rPc = "recv"
        /\ UNCHANGED <<sVars, blocksRead, copy, toSnd>>
    BY <1>6 DEF ReceiveBlock
  <2>3. Len(rMd') = Len(rMd) + 1
    BY <1>1, <2>2
  <2>4. rIdx = Len(rMd) /\ rIdx < Tranche(blocksRead)
    BY <2>2 DEF DigestInv, TypeInv, IndexOK, RoundOK
  <2>5. rPc' = IF Len(rMd') = Tranche(blocksRead) THEN "digest" ELSE "recv"
    BY <1>1, <1>2, <1>3, <2>2, <2>3, <2>4 DEF AfterBlocks
  <2>6. CollectingInTime'
    BY <1>2, <2>1, <2>2, <2>5 DEF CollectingInTime, Tranche
  <2> QED
    BY <2>2, <2>5, <2>6 DEF InTime, Copies, Copying!vars, sVars
<1>7. CASE SendMd5
  <2>1. /\ ToPrimary(rMd) /\ rPc = "digest" /\ rPc' = "answer"
        /\ UNCHANGED <<sVars, blocksRead, copy>>
    BY <1>7 DEF SendMd5
  <2>2. ~(Len(rMd) < Tranche(blocksSent))
    BY <1>1, <1>2, <1>3, <2>1
  <2>3. toSnd' = <<rMd>>
    BY <1>2, <2>1, NoDrop
  <2>4. Hashed' /\ rMd = sMd
    BY <1>2, <1>7, <2>2, <2>3, CollectingHashes
  <2> QED
    BY <2>1, <2>3, <2>4 DEF InTime, HashedInTime, sVars, Copies, Copying!vars
<1>8. CASE BlockTimeout
  <2>1. rPc = "recv" /\ ReceiverQuiet
    BY <1>8, NoFault DEF BlockTimeout
  <2>2. Len(toRcv) = 0 /\ sPc = "await"
    BY <1>4, <2>1 DEF ReceiverQuiet
  <2> QED
    BY <1>1, <1>2, <1>3, <2>1, <2>2
<1>9. CASE Md5Timeout
  <2>1. sPc = "await" /\ SenderQuiet
    BY <1>9, NoFault DEF Md5Timeout, Judge
  <2>2. Len(toRcv) = 0 /\ rPc # "digest"
    BY <2>1 DEF SenderQuiet
  <2> QED
    BY <1>1, <1>2, <1>3, <2>1, <2>2
<1>10. CASE UNCHANGED vars
  <2>1. UNCHANGED <<sPc, blocksSent, newInfo, sMd, rVars, toRcv, toSnd>>
    BY <1>10 DEF vars, sVars, netVars
  <2>2. Collecting'
    BY <1>2, <2>1
       DEF Collecting, Sending, Receiving, Written, HeadShort, Tranche, rVars
  <2> QED
    BY <1>2, <2>1, <2>2 DEF InTime, CollectingInTime, Tranche, rVars, Copies, Copying!vars
<1>11. CASE \/ SendFileInfo \/ TakeHandshake \/ HandshakeTimeout \/ CheckMd5
            \/ AcceptUdp \/ OpenCopy \/ ReceiveAnswer \/ AnswerTimeout
  BY <1>2, <1>4, <1>11 DEF SendFileInfo, TakeHandshake, HandshakeTimeout, CheckMd5, AcceptUdp,
     OpenCopy, ReceiveAnswer, AnswerTimeout, Settle
<1> QED
  BY <1>5, <1>6, <1>7, <1>8, <1>9, <1>10, <1>11, NoFault DEF Next, Sender, Receiver

LEMMA HashedStep ==
  ASSUME Lossless, DigestInv, HashedInTime, [Next]_vars
  PROVE  InTime' /\ Copies
<1>1. /\ blocksSent \in Nat /\ noBlocks \in Nat /\ copy \in Seq(Slots)
      /\ NO_BLOCKS_TRANSFER \in Nat \ {0}
  BY Ranges DEF DigestInv, TypeInv
<1>2. /\ Hashed /\ toSnd = <<sMd>> /\ rPc = "answer" /\ sPc = "await" /\ Sending
      /\ toRcv = << >> /\ blocksRead = blocksSent /\ Written
      /\ toSnd # << >> /\ Head(toSnd) = sMd /\ Tail(toSnd) = << >> /\ Len(toSnd) = 1
  BY DEF HashedInTime, Hashed
<1>3. CASE CheckMd5
  <2>1. Judge(sMd) /\ toSnd' = << >>
    BY <1>2, <1>3 DEF CheckMd5
  <2>2. /\ ToSecondary(OK) /\ blocksSent' = blocksSent + NO_BLOCKS_TRANSFER
        /\ sMd' = << >> /\ UNCHANGED rVars
    BY <2>1 DEF Judge, Matches
  <2>3. toRcv' = <<OK>>
    <3>1. Len(toRcv) <= NO_BLOCKS_TRANSFER /\ Append(toRcv, OK) = <<OK>>
      BY <1>1, <1>2
    <3> QED
      BY <2>2, <3>1, NoDrop
  <2>4. Approved'
    BY <1>2, <1>3, <2>3, HashedApproves
  <2>5. ApprovedInTime'
    <3>1. Len(toRcv') - 1 = Len(sMd')
      BY <2>2, <2>3
    <3> QED
      BY <1>2, <2>1, <2>2, <2>4, <3>1 DEF ApprovedInTime, rVars
  <2>6. Copying!Approve
    <3>1. blocksSent < noBlocks
      BY <1>2, SentSize
    <3>2. copy = SubSeq(File, 1, blocksSent)
      BY <1>1, <1>2, <3>1, WrittenIs DEF Written
    <3> QED
      BY <1>1, <1>2, <2>2, <3>1, <3>2
         DEF Copying!Approve, Copying!Upto, rVars, noBlocks
  <2> QED
    BY <2>5, <2>6 DEF InTime, Copies, Copying!Next
<1>4. CASE Md5Timeout \/ AnswerTimeout
  <2>1. SenderQuiet \/ ReceiverQuiet
    BY <1>4, NoFault DEF Md5Timeout, AnswerTimeout
  <2> QED
    BY <1>2, <2>1 DEF SenderQuiet, ReceiverQuiet
<1>5. CASE UNCHANGED vars
  BY <1>2, <1>5 DEF vars, sVars, rVars, netVars, InTime, HashedInTime, Hashed, Sending,
     Receiving, Written, Cached, HeadShort, Tranche, Copies, Copying!vars
<1>6. CASE \/ SendFileInfo \/ TakeHandshake \/ HandshakeTimeout \/ SendBlock \/ AcceptUdp
           \/ OpenCopy \/ ReceiveBlock \/ BlockTimeout \/ SendMd5 \/ ReceiveAnswer
  BY <1>2, <1>6 DEF SendFileInfo, TakeHandshake, HandshakeTimeout, SendBlock, AcceptUdp,
     OpenCopy, ReceiveBlock, BlockTimeout, SendMd5, ReceiveAnswer
<1> QED
  BY <1>3, <1>4, <1>5, <1>6, NoFault DEF Next, Sender, Receiver

LEMMA ApprovedStep ==
  ASSUME Lossless, DigestInv, ApprovedInTime, [Next]_vars
  PROVE  InTime' /\ Copies
<1>1. /\ toRcv \in Seq(Datagrams) /\ copy \in Seq(Slots)
      /\ Len(toRcv) \in Nat /\ Len(sMd) \in Nat /\ NO_BLOCKS_TRANSFER \in Nat \ {0}
      /\ blocksSent \in Nat /\ blocksRead \in Nat /\ noBlocks \in Nat
  BY Ranges, LenProperties DEF DigestInv, TypeInv
<1>2. /\ Approved /\ toSnd = << >> /\ rPc = "answer" /\ rMd = << >> /\ newInfo /\ Written
      /\ Len(toRcv) - 1 = Len(sMd) /\ toRcv # << >> /\ Head(toRcv) = OK
      /\ blocksSent = blocksRead + NO_BLOCKS_TRANSFER /\ sPc \in {"send", "await", "done"}
  BY DEF ApprovedInTime, Approved
<1>3. CASE SendBlock
  <2>1. PICK block : ToSecondary(block)
    BY <1>3 DEF SendBlock
  <2>2. Sending /\ sPc # "await"
    BY <1>2, <1>3 DEF SendBlock, Sending
  <2>3. Len(toRcv) <= NO_BLOCKS_TRANSFER
    <3>1. /\ Tranche(blocksSent) \in Nat /\ Tranche(blocksSent) <= NO_BLOCKS_TRANSFER
          /\ Len(sMd) <= Tranche(blocksSent) /\ Len(sMd) # Tranche(blocksSent)
      BY <2>2, SentSize
    <3> QED
      BY <1>1, <1>2, <3>1
  <2>4. toRcv' = Append(toRcv, block)
    BY <2>1, <2>3, NoDrop
  <2>5. Len(toRcv') = Len(toRcv) + 1
    BY <1>1, <2>4
  <2>6. Approved'
    BY <1>2, <1>3, ApprovedSends
  <2>7. Len(sMd') = Len(sMd) + 1 /\ UNCHANGED <<blocksSent, rVars, toSnd>>
    BY <1>3, <2>2, BlockSent DEF SentBlock
  <2>8. Len(toRcv') - 1 = Len(sMd')
    BY <1>1, <1>2, <2>5, <2>7
  <2> QED
    BY <1>2, <2>6, <2>7, <2>8 DEF InTime, ApprovedInTime, rVars, Copies, Copying!vars
<1>4. CASE ReceiveAnswer
  <2>1. Settle(OK) /\ toRcv' = Tail(toRcv)
    BY <1>2, <1>4 DEF ReceiveAnswer
  <2>2. /\ blocksRead' = blocksRead + Tranche(blocksRead)
        /\ rMd' = << >> /\ rPc' = ReceiverLoop(blocksRead') /\ UNCHANGED <<sVars, toSnd>>
    BY <1>2, <2>1, ControlAssumption DEF Settle, IsOk
  <2>3. Len(toRcv') = Len(sMd) /\ toRcv' \in Seq(Datagrams)
    BY <1>1, <1>2, <2>1, HeadTailProperties
  <2>4. /\ blocksRead < noBlocks /\ Tranche(blocksRead) \in Nat /\ 0 < Tranche(blocksRead)
        /\ Tranche(blocksRead) <= NO_BLOCKS_TRANSFER
        /\ blocksRead + Tranche(blocksRead) <= noBlocks
    <3>1. blocksRead \in Nat /\ noBlocks \in Nat /\ blocksRead < noBlocks
      BY <1>1, <1>2 DEF DigestInv, RoundOK
    <3>2. blocksRead <= noBlocks
      BY <3>1
    <3> QED
      BY <3>1, <3>2, TrancheBounds
  <2>5. blocksRead' = IF blocksSent < noBlocks THEN blocksSent ELSE noBlocks
    BY <1>1, <1>2, <2>2, <2>4 DEF Tranche
  <2>6. Len(copy) < (IF blocksSent < noBlocks THEN blocksSent ELSE noBlocks)
    BY <1>1, <1>2, <2>4 DEF Written
  <2>7. DigestInv'
    BY <1>4, NextDigestInv DEF Next, Receiver
  <2>8. ASSUME copy' = SubSeq(File, 1, blocksRead')
        PROVE  Copying!Write
    BY <1>2, <2>2, <2>5, <2>6, <2>8 DEF Copying!Write, sVars, ReceiverLoop
  <2>9. CASE Collecting'
    <3>1. rPc' = "recv" /\ Written' /\ blocksRead' < noBlocks
      BY <2>2, <2>9 DEF Collecting, Receiving, ReceiverLoop
    <3>2. /\ copy' \in Seq(Slots) /\ blocksRead' \in Nat
      BY <2>7 DEF DigestInv, TypeInv, TypeOK
    <3>3. copy' = SubSeq(File, 1, blocksRead')
      BY <1>1, <3>1, <3>2, WrittenIs DEF Written
    <3>4. 0 < Tranche(blocksRead')
      BY <1>1, <3>1, <3>2, TrancheBounds
    <3>5. Len(rMd') = 0 /\ Len(rMd') # Tranche(blocksRead')
      BY <2>2, <3>4
    <3>6. CollectingInTime'
      BY <1>2, <2>2, <2>9, <3>1, <3>5 DEF CollectingInTime, Tranche
    <3> QED
      BY <2>8, <3>3, <3>6 DEF InTime, Copies, Copying!Next
  <2>10. CASE Incomplete'
    <3>1. Len(rMd') + Len(toRcv') < Len(sMd') /\ Len(rMd') = 0 /\ sMd' = sMd
      BY <2>2, <2>10 DEF Incomplete, sVars
    <3> QED
      BY <1>1, <2>3, <3>1
  <2>11. CASE rPc' = "done" /\ blocksRead' = noBlocks /\ copy' = File
    <3>1. sPc = "done" /\ sMd = << >>
      BY <1>1, <1>2, <2>2, <2>4, <2>11 DEF DigestInv, SentOK
    <3>2. toRcv' = << >> /\ sPc' = "done"
      BY <2>2, <2>3, <3>1, EmptySeq DEF sVars
    <3>3. Complete'
      BY <2>11, <3>2 DEF Complete
    <3>4. copy' = SubSeq(File, 1, blocksRead')
      BY <2>11, FileAssumption, SubSeqFull DEF noBlocks
    <3> QED
      BY <2>8, <3>3, <3>4 DEF InTime, Copies, Copying!Next
  <2> QED
    BY <1>2, <1>4, <2>9, <2>10, <2>11, ApprovedWrites
<1>5. CASE Md5Timeout \/ AnswerTimeout
  <2>1. SenderQuiet \/ ReceiverQuiet
    BY <1>5, NoFault DEF Md5Timeout, AnswerTimeout
  <2> QED
    BY <1>2, <2>1 DEF SenderQuiet, ReceiverQuiet
<1>6. CASE UNCHANGED vars
  BY <1>2, <1>6 DEF vars, sVars, rVars, netVars, InTime, ApprovedInTime, Approved,
     Receiving, Written, Cached, HeadShort, Tranche, Copies, Copying!vars
<1>7. CASE \/ SendFileInfo \/ TakeHandshake \/ HandshakeTimeout \/ CheckMd5 \/ AcceptUdp
           \/ OpenCopy \/ ReceiveBlock \/ BlockTimeout \/ SendMd5
  BY <1>2, <1>7 DEF SendFileInfo, TakeHandshake, HandshakeTimeout, CheckMd5, AcceptUdp,
     OpenCopy, ReceiveBlock, BlockTimeout, SendMd5
<1> QED
  BY <1>3, <1>4, <1>5, <1>6, <1>7, NoFault DEF Next, Sender, Receiver

LEMMA CompleteStep ==
  ASSUME Lossless, Complete, [Next]_vars, DigestInv
  PROVE  InTime' /\ Copies
<1>1. CASE UNCHANGED vars
  BY <1>1 DEF vars, sVars, rVars, netVars, InTime, Complete, Copies, Copying!vars
<1>2. CASE Sender
  BY <1>2 DEF Complete, Sender, SendFileInfo, TakeHandshake, HandshakeTimeout, SendBlock,
     CheckMd5, Md5Timeout, Judge
<1>3. CASE Receiver
  BY <1>3 DEF Complete, Receiver, AcceptUdp, OpenCopy, ReceiveBlock, BlockTimeout, SendMd5,
     ReceiveAnswer, AnswerTimeout, Settle
<1> QED
  BY <1>1, <1>2, <1>3, NoFault DEF Next

LEMMA InTimeNext ==
  ASSUME Lossless, DigestInv, InTime, [Next]_vars
  PROVE  InTime' /\ Copies
BY OpeningInTime, CollectingStep, HashedStep, ApprovedStep, CompleteStep DEF InTime

LEMMA InTimeInFlight ==
  ASSUME DigestInv, InTime
  PROVE  TrancheInFlight
<1>1. NO_BLOCKS_TRANSFER \in Nat /\ Len(toRcv) \in Nat /\ Len(rMd) \in Nat /\ Len(sMd) \in Nat
  BY Ranges, LenProperties DEF DigestInv, TypeInv
<1>2. Sending => Len(sMd) <= NO_BLOCKS_TRANSFER
  <2> SUFFICES ASSUME Sending PROVE Len(sMd) <= NO_BLOCKS_TRANSFER
    OBVIOUS
  <2>1. /\ Len(sMd) <= Tranche(blocksSent) /\ Tranche(blocksSent) <= NO_BLOCKS_TRANSFER
        /\ Tranche(blocksSent) \in Nat
    BY SentSize
  <2> QED
    BY <1>1, <2>1
<1>3. CASE toRcv = << >>
  BY <1>1, <1>3 DEF TrancheInFlight
<1>4. CASE CollectingInTime
  <2>1. Len(rMd) + Len(toRcv) = Len(sMd) /\ Len(sMd) <= NO_BLOCKS_TRANSFER
    BY <1>2, <1>4 DEF CollectingInTime, Collecting
  <2> QED
    BY <1>1, <2>1 DEF TrancheInFlight
<1>5. CASE ApprovedInTime
  <2>1. sPc = "done" => sMd = << >> /\ Len(sMd) = 0
    BY DEF DigestInv, SentOK
  <2>2. Len(toRcv) - 1 = Len(sMd) /\ (sPc = "done" \/ Sending)
    BY <1>5 DEF ApprovedInTime, Approved, Sending
  <2> QED
    BY <1>1, <1>2, <2>1, <2>2 DEF TrancheInFlight
<1> QED
  BY <1>3, <1>4, <1>5 DEF InTime, Opening, HashedInTime, Hashed, Complete

LEMMA InitInTime ==
  ASSUME Init
  PROVE  InTime /\ Copying!Init
<1>1. noBlocks \in Nat
  BY FileAssumption, LenProperties DEF noBlocks
<1> QED
  BY <1>1 DEF Init, InTime, Opening, Copying!Init

\* Without loss, delay or overtaking the secondary's socket holds at most a
\* tranche and the verdict before it, so a buffer of that size drops none of
\* the blocks sendFile sends in a burst (lines 147 to 163).
THEOREM NoneDropped ==
  ASSUME Lossless
  PROVE  Spec => []TrancheInFlight
<1>1. Init => DigestInv /\ InTime
  BY InitDigestInv, InitInTime
<1>2. DigestInv /\ InTime /\ [Next]_vars => (DigestInv /\ InTime)'
  BY NextDigestInv, InTimeNext
<1>3. DigestInv /\ InTime => TrancheInFlight
  BY InTimeInFlight
<1> QED
  BY <1>1, <1>2, <1>3, PTL DEF Spec

\* Without loss, delay or overtaking the hashes, datagrams, cache and retries
\* implement the plain copying of a file, tranche by approved tranche.
THEOREM LosslessCopies ==
  ASSUME Lossless
  PROVE  Spec => Copying!Init /\ [][Copying!Next]_(Copying!vars)
<1>1. Init => DigestInv /\ InTime /\ Copying!Init
  BY InitDigestInv, InitInTime
<1>2. DigestInv /\ InTime /\ [Next]_vars
        => (DigestInv /\ InTime)' /\ [Copying!Next]_(Copying!vars)
  BY NextDigestInv, InTimeNext DEF Copies
<1> QED
  BY <1>1, <1>2, PTL DEF Spec
=============================================================================
