--------------------------- MODULE MCUdpTransfer ---------------------------
(* The instances of UdpTransfer that TLC checks. *)
EXTENDS UdpTransfer

CONSTANTS b1, b2, b3, old

\* b2 is a block such as "OK" and a line break.
MCReadsOk == {OK, b2}
ThreeBlocks == <<b1, b2, b3>>
TwoBlocks == <<b1, b2>>

\* Three of the code's own tranches of 16 blocks, the last one short; blocks
\* repeat within and across tranches.
FortyBlocks == [i \in 1 .. 40 |-> <<b1, b2, b3>>[(i % 3) + 1]]
OldFile == <<old>>
=============================================================================
