------------------------------ MODULE FileCopy ------------------------------
(***************************************************************************)
(* What replicating a file promises, without hashes, datagrams or caches:  *)
(* the secondary empties its copy once, then the primary approves the file *)
(* tranche by tranche and the secondary appends each tranche before the    *)
(* next one is approved, until the copy is the file.                       *)
(***************************************************************************)
EXTENDS Integers, Sequences

CONSTANTS File, Previous, Chunk

VARIABLES opened, approved, copy

vars == <<opened, approved, copy>>

Upto(n) == IF n < Len(File) THEN n ELSE Len(File)

Init == opened = FALSE /\ approved = 0 /\ copy = Previous

Open ==
  /\ ~opened
  /\ opened' = TRUE
  /\ copy' = << >>
  /\ UNCHANGED approved

Approve ==
  /\ opened
  /\ copy = SubSeq(File, 1, approved)
  /\ approved < Len(File)
  /\ approved' = Upto(approved + Chunk)
  /\ UNCHANGED <<opened, copy>>

Write ==
  /\ opened
  /\ Len(copy) < approved
  /\ copy' = SubSeq(File, 1, approved)
  /\ UNCHANGED <<opened, approved>>

Next == Open \/ Approve \/ Write

Spec == Init /\ [][Next]_vars /\ WF_vars(Next)
=============================================================================
