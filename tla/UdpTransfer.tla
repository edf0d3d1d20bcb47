---------------------------- MODULE UdpTransfer ----------------------------
(***************************************************************************)
(* One replication of a file from the primary to the secondary server:     *)
(* the two ends of com.DataTransfer.threads.UDPTransfer (sendFile on the   *)
(* primary, receiveFile on the secondary), the FILE announcement taken by  *)
(* com.Server.udp.UDPAccept, and the two UDP sockets between them.         *)
(*                                                                         *)
(* A datagram carries neither a type nor a sequence number: blocks and     *)
(* control strings share a socket, and whoever reads next decides what a   *)
(* datagram means: a block of the file whose trimmed text is "OK" passes   *)
(* for an approval when it is read where an approval is expected.  A hash  *)
(* is modelled by the sequence of blocks that was hashed, so equal hashes  *)
(* mean equal inputs, and << >> is the hash of nothing                     *)
(* (MessageDigest.digest() resets the digest).                             *)
(***************************************************************************)
EXTENDS Integers, Sequences, FiniteSets

CONSTANTS
  File,               \* the file on the primary, a sequence of blocks
  Previous,           \* what the secondary stores under that name before
  NO_BLOCKS_TRANSFER, \* blocks per tranche
  OK, ErrorMd5,       \* the control strings "OK" and "ERROR MD5"
  ReadsOk,            \* datagrams whose trimmed text is "OK"
  NoAnswer,           \* the empty string receiveBytes yields on a timeout
  Empty,              \* a cache slot of length 0: writing it writes nothing
  BufferSize,         \* datagrams a socket buffer holds; more are dropped
  MaxLosses,          \* bound: datagrams the network loses
  MaxOvertakes,       \* bound: times a datagram overtakes the one before it
  MaxLate,            \* bound: timeouts that come before a datagram under way
  MayFailToOpen       \* whether opening the file can fail at either end

\* A block may be anything, the text of a control string included.
Blocks == {File[i] : i \in DOMAIN File}
Controls == {OK, ErrorMd5}
Datagrams == Blocks \cup Controls
Slots == Datagrams \cup {Empty} \cup {Previous[i] : i \in DOMAIN Previous}

ASSUME TrancheAssumption == NO_BLOCKS_TRANSFER \in Nat \ {0}
ASSUME FileAssumption == File \in Seq(Blocks) /\ Previous \in Seq(Slots)
ASSUME ControlAssumption == OK \in ReadsOk /\ ErrorMd5 \notin ReadsOk
ASSUME NoAnswerAssumption == NoAnswer \notin Seq(Datagrams) \cup ReadsOk
ASSUME BoundAssumption ==
  /\ BufferSize \in Nat /\ MaxLosses \in Nat /\ MaxOvertakes \in Nat
  /\ MaxLate \in Nat /\ MayFailToOpen \in BOOLEAN

VARIABLES
  sPc,        \* where sendFile is
  blocksSent, \* blocks of the tranches it has approved
  sIdx,       \* i of its sending loop
  newInfo,    \* whether it reads the tranche from the file or resends it
  sMd,        \* its message digest: what went in since the last digest()
  rPc,        \* where UDPAccept / receiveFile is
  blocksRead, \* blocks it has written
  rIdx,       \* i of its receiving loop
  cache,      \* the tranche's blocks, never cleared between tranches
  rMd, clone, \* its message digest and the copy taken at the loop's head
  copy,       \* the file on the secondary
  info,       \* the FILE announcement waits in UDPAccept's socket
  toRcv,      \* datagrams in receiveFile's socket
  toSnd,      \* datagrams in sendFile's socket
  losses, overtakes, late,
  hollow,     \* history: a tranche was approved on the hash of nothing
  mistaken    \* history: what passed for an approval is a block of the file

sVars == <<sPc, blocksSent, sIdx, newInfo, sMd, hollow>>
rVars == <<rPc, blocksRead, rIdx, cache, rMd, clone, copy, mistaken>>
netVars == <<info, toRcv, toSnd, losses, overtakes, late>>
vars == <<sVars, rVars, netVars>>

noBlocks == Len(File)

\* Blocks in the tranche that starts after the first done blocks.
Tranche(done) == IF noBlocks - done < NO_BLOCKS_TRANSFER
                 THEN noBlocks - done ELSE NO_BLOCKS_TRANSFER

Init ==
  /\ sPc = "start" /\ blocksSent = 0 /\ sIdx = 0 /\ newInfo = TRUE
  /\ sMd = << >> /\ hollow = FALSE
  /\ rPc = "idle" /\ blocksRead = 0 /\ rIdx = 0
  /\ cache = [i \in 0 .. NO_BLOCKS_TRANSFER - 1 |-> Empty]
  /\ rMd = << >> /\ clone = << >> /\ copy = Previous
  /\ mistaken = FALSE
  /\ info = FALSE /\ toRcv = << >> /\ toSnd = << >>
  /\ losses = 0 /\ overtakes = 0 /\ late = 0

-----------------------------------------------------------------------------
(* The network.  A datagram sent is queued, is dropped by a full buffer,   *)
(* or is lost on the way.                                                  *)

Enqueue(channel, m) ==
  IF Len(channel) < BufferSize THEN Append(channel, m) ELSE channel

Lose == losses < MaxLosses /\ losses' = losses + 1

ToSecondary(m) ==
  \/ toRcv' = Enqueue(toRcv, m) /\ UNCHANGED losses
  \/ Lose /\ UNCHANGED toRcv

ToPrimary(m) ==
  \/ toSnd' = Enqueue(toSnd, m) /\ UNCHANGED losses
  \/ Lose /\ UNCHANGED toSnd

Swap(channel, i) ==
  [channel EXCEPT ![i] = channel[i + 1], ![i + 1] = channel[i]]

\* A datagram overtakes the one sent before it.
Overtake ==
  /\ overtakes < MaxOvertakes
  /\ overtakes' = overtakes + 1
  /\ \/ /\ \E i \in 1 .. Len(toRcv) - 1 : toRcv' = Swap(toRcv, i)
        /\ UNCHANGED toSnd
     \/ /\ \E i \in 1 .. Len(toSnd) - 1 : toSnd' = Swap(toSnd, i)
        /\ UNCHANGED toRcv
  /\ UNCHANGED <<sVars, rVars, info, losses, late>>

\* A receive times out when nothing is under way towards it; under load or on
\* a slow network it also times out on a datagram that is still to come.
SenderQuiet == /\ toSnd = << >> /\ toRcv = << >> /\ ~info
               /\ rPc \notin {"open", "digest"}

ReceiverQuiet == toSnd = << >> /\ toRcv = << >> /\ sPc # "send"

\* Mutant: a timeout shorter than an exchange takes.
TimesOutEarly(quiet) == UNCHANGED late

TimesOut(quiet) ==
  \/ quiet /\ UNCHANGED late
  \/ ~quiet /\ late < MaxLate /\ late' = late + 1

-----------------------------------------------------------------------------
(* The primary: sendFile.                                                  *)

SenderLoop(sent) == IF sent < noBlocks THEN "send" ELSE "done"

SendFileInfo ==
  /\ sPc = "start"
  /\ sPc' = "handshake"
  /\ \/ info' = TRUE /\ UNCHANGED losses
     \/ Lose /\ UNCHANGED info
  /\ UNCHANGED <<blocksSent, sIdx, newInfo, sMd, hollow, rVars, toRcv, toSnd,
                 overtakes, late>>

\* Any datagram is the handshake; then the file is opened.
TakeHandshake ==
  /\ sPc = "handshake"
  /\ toSnd # << >>
  /\ toSnd' = Tail(toSnd)
  /\ \/ sPc' = SenderLoop(blocksSent)
     \/ MayFailToOpen /\ sPc' = "aborted"
  /\ UNCHANGED <<blocksSent, sIdx, newInfo, sMd, hollow, rVars, info, toRcv,
                 losses, overtakes, late>>

\* Mutant: no setSoTimeout on the sender's socket.
HandshakeWaits == FALSE /\ UNCHANGED vars

HandshakeTimeout ==
  /\ sPc = "handshake"
  /\ TimesOut(SenderQuiet)
  /\ sPc' = "aborted"
  /\ UNCHANGED <<blocksSent, sIdx, newInfo, sMd, hollow, rVars, info, toRcv,
                 toSnd, losses, overtakes>>

\* Only a tranche read anew goes through the DigestInputStream.
SendBlock ==
  /\ sPc = "send"
  /\ LET block == File[blocksSent + sIdx + 1] IN
       /\ ToSecondary(block)
       /\ sMd' = IF newInfo THEN Append(sMd, block) ELSE sMd
  /\ sIdx' = sIdx + 1
  /\ sPc' = IF sIdx + 1 < Tranche(blocksSent) THEN "send" ELSE "await"
  /\ UNCHANGED <<blocksSent, newInfo, hollow, rVars, info, toSnd, overtakes,
                 late>>

\* Mutant: any answer will do.
MatchesAny(md5Secondary) == md5Secondary # NoAnswer

Matches(md5Secondary) == md5Secondary = sMd

\* The secondary's hash is compared with the primary's, which is reset.
Judge(md5Secondary) ==
  /\ sPc = "await"
  /\ sMd' = << >>
  /\ sIdx' = 0
  /\ \/ /\ Matches(md5Secondary)
        /\ newInfo' = TRUE
        /\ ToSecondary(OK)
        /\ blocksSent' = blocksSent + NO_BLOCKS_TRANSFER
        /\ hollow' = (hollow \/ sMd = << >>)
     \/ /\ ~Matches(md5Secondary)
        /\ newInfo' = FALSE
        /\ ToSecondary(ErrorMd5)
        /\ UNCHANGED <<blocksSent, hollow>>
  /\ sPc' = SenderLoop(blocksSent')
  /\ UNCHANGED <<rVars, info, overtakes>>

CheckMd5 ==
  /\ toSnd # << >>
  /\ Judge(Head(toSnd))
  /\ toSnd' = Tail(toSnd)
  /\ UNCHANGED late

Md5Timeout ==
  /\ Judge(NoAnswer)
  /\ TimesOut(SenderQuiet)
  /\ UNCHANGED toSnd

Sender == \/ SendFileInfo \/ TakeHandshake \/ HandshakeTimeout
          \/ SendBlock \/ CheckMd5 \/ Md5Timeout

-----------------------------------------------------------------------------
(* The secondary: UDPAccept, then receiveFile in a thread of its pool.     *)

ReceiverLoop(read) == IF read < noBlocks THEN "recv" ELSE "done"

AcceptUdp ==
  /\ rPc = "idle" /\ info
  /\ rPc' = "open"
  /\ info' = FALSE
  /\ UNCHANGED <<sVars, blocksRead, rIdx, cache, rMd, clone, copy, mistaken,
                 toRcv, toSnd, losses, overtakes, late>>

\* The handshake is sent before the file is opened; opening truncates it.
OpenCopy ==
  /\ rPc = "open"
  /\ ToPrimary(OK)
  /\ \/ copy' = << >> /\ rPc' = ReceiverLoop(blocksRead)
     \/ MayFailToOpen /\ rPc' = "failed" /\ UNCHANGED copy
  /\ clone' = rMd
  /\ UNCHANGED <<sVars, blocksRead, rIdx, cache, rMd, mistaken, info, toRcv,
                 overtakes, late>>

\* Mutant: one block too many.
AfterBlocksOffByOne(i) ==
  IF i <= Tranche(blocksRead) THEN "recv" ELSE "digest"

AfterBlocks(i) == IF i < Tranche(blocksRead) THEN "recv" ELSE "digest"

\* Any datagram is a block.
ReceiveBlock ==
  /\ rPc = "recv"
  /\ toRcv # << >>
  /\ toRcv' = Tail(toRcv)
  /\ cache' = [cache EXCEPT ![rIdx] = Head(toRcv)]
  /\ rMd' = Append(rMd, Head(toRcv))
  /\ rIdx' = rIdx + 1
  /\ rPc' = AfterBlocks(rIdx + 1)
  /\ UNCHANGED <<sVars, blocksRead, clone, copy, mistaken, info, toSnd, losses,
                 overtakes, late>>

BlockTimeout ==
  /\ rPc = "recv"
  /\ TimesOut(ReceiverQuiet)
  /\ rPc' = "digest"
  /\ UNCHANGED <<sVars, blocksRead, rIdx, cache, rMd, clone, copy, mistaken,
                 info, toRcv, toSnd, losses, overtakes>>

\* Mutant: the digest is not reset by sending it.
SendRunningMd5 ==
  /\ rPc = "digest"
  /\ ToPrimary(rMd)
  /\ rPc' = "answer"
  /\ UNCHANGED <<sVars, blocksRead, rIdx, cache, rMd, clone, copy, mistaken,
                 info, toRcv, overtakes, late>>

SendMd5 ==
  /\ rPc = "digest"
  /\ ToPrimary(rMd)
  /\ rMd' = << >>
  /\ rPc' = "answer"
  /\ UNCHANGED <<sVars, blocksRead, rIdx, cache, clone, copy, mistaken, info,
                 toRcv, overtakes, late>>

\* Mutant: whatever is no complaint is an approval.
IsNotError(ans) == ans # ErrorMd5

IsOk(ans) == ans \in ReadsOk

\* "OK" writes the whole tranche from the cache, whatever its slots hold.  It
\* may be a block of the file that reads so, late or of a tranche resent.
Settle(ans) ==
  /\ rPc = "answer"
  /\ \/ /\ IsOk(ans)
        /\ copy' = copy \o [i \in 1 .. Tranche(blocksRead) |-> cache[i - 1]]
        /\ blocksRead' = blocksRead + Tranche(blocksRead)
        /\ mistaken' = (mistaken \/ ans \in Blocks)
        /\ UNCHANGED rMd
     \/ /\ ~IsOk(ans)
        /\ rMd' = clone
        /\ UNCHANGED <<copy, blocksRead, mistaken>>
  /\ rIdx' = 0
  /\ clone' = rMd'
  /\ rPc' = ReceiverLoop(blocksRead')
  /\ UNCHANGED <<sVars, cache, info, toSnd, losses, overtakes>>

ReceiveAnswer ==
  /\ toRcv # << >>
  /\ Settle(Head(toRcv))
  /\ toRcv' = Tail(toRcv)
  /\ UNCHANGED late

AnswerTimeout ==
  /\ Settle(NoAnswer)
  /\ TimesOut(ReceiverQuiet)
  /\ UNCHANGED toRcv

Receiver == \/ AcceptUdp \/ OpenCopy \/ ReceiveBlock \/ BlockTimeout
            \/ SendMd5 \/ ReceiveAnswer \/ AnswerTimeout

-----------------------------------------------------------------------------
Next == Sender \/ Receiver \/ Overtake

\* Each end is a thread of its own that runs or has a timeout running; the
\* network's faults happen or not.
Fairness == WF_vars(Sender) /\ WF_vars(Receiver)

Spec == Init /\ [][Next]_vars /\ Fairness

-----------------------------------------------------------------------------
TypeOK ==
  /\ sPc \in {"start", "handshake", "send", "await", "done", "aborted"}
  /\ blocksSent \in Nat
  /\ sIdx \in 0 .. NO_BLOCKS_TRANSFER
  /\ newInfo \in BOOLEAN /\ hollow \in BOOLEAN /\ mistaken \in BOOLEAN
  /\ sMd \in Seq(Blocks)
  /\ rPc \in {"idle", "open", "recv", "digest", "answer", "done", "failed"}
  /\ blocksRead \in 0 .. noBlocks
  /\ rIdx \in 0 .. NO_BLOCKS_TRANSFER
  /\ cache \in [0 .. NO_BLOCKS_TRANSFER - 1 -> Slots]
  /\ rMd \in Seq(Datagrams) /\ clone \in Seq(Datagrams)
  /\ copy \in Seq(Slots)
  /\ info \in BOOLEAN
  /\ toRcv \in Seq(Datagrams)
  /\ toSnd \in Seq({OK} \cup Seq(Datagrams))
  /\ losses \in 0 .. MaxLosses /\ overtakes \in 0 .. MaxOvertakes
  /\ late \in 0 .. MaxLate

\* The secondary never writes a tranche the primary has not approved, however
\* datagrams are lost, reordered or taken for one another (receiveFile moves
\* blocksRead at line 249 only on an "OK", sent by sendFile at line 175), but
\* for the one confusion line 239 cannot tell: a block that reads "OK".
SecondaryNeverAhead == ~mistaken => blocksRead <= blocksSent

\* A secondary that finishes has the primary's file, unless a tranche was
\* approved on the hash of nothing, a block of the file passed for an approval
\* or a datagram overtook another: losses, full buffers and untimely timeouts
\* never corrupt it in any other way.
CopyExactUnlessHollow ==
  rPc = "done" /\ ~hollow /\ ~mistaken /\ overtakes = 0 => copy = File

\* A primary that waits for the handshake gets one or gives up, so the pool's
\* thread does not wait for ever for a secondary that is not there (sendFile's
\* 10 s timeout at line 123 and the exception that ends it at line 182).
HandshakeSettles == sPc = "handshake" ~> sPc # "handshake"

\* When no datagram is lost, late or overtaken, the transfer is FileCopy: the
\* copy is emptied once, grows by the approved tranche and becomes the file.
Copying == INSTANCE FileCopy WITH
  Chunk <- NO_BLOCKS_TRANSFER,
  opened <- rPc \notin {"idle", "open"},
  approved <- IF blocksSent < noBlocks THEN blocksSent ELSE noBlocks

CopiesFile == Copying!Spec

\* When no datagram is lost or late, the secondary's socket never holds more
\* than a tranche and the verdict before it: a buffer of that size drops none.
TrancheInFlight == Len(toRcv) <= NO_BLOCKS_TRANSFER + 1

\* receiveFile answers a failed check with "Trying again:" (line 253) and
\* udp_transfer.puml:33 repeats tranches "until end of transfer": every
\* transfer ends, for the primary, in completion or in an abort.
TransferEnds == <>(sPc \in {"done", "aborted"})
=============================================================================
