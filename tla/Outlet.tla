------------------------------- MODULE Outlet -------------------------------
(***************************************************************************)
(* What the core may rely on when it hands media to the destination: the   *)
(* messages of a connection leave this computer in order and without a     *)
(* gap, and what is taken back leaves no more.                             *)
(***************************************************************************)
EXTENDS Naturals

VARIABLES
  made,     \* how many messages there have been, numbered from 1
  settled,  \* all up to this one has aired or was taken back
  tail      \* the last that left on the present connection, 0 if none has

vars == <<made, settled, tail>>

Init == made = 0 /\ settled = 0 /\ tail = 0

Make == made' = made + 1 /\ UNCHANGED <<settled, tail>>

(* A connection may start from any message, one that has aired included.   *)
Leave(m) ==
  /\ m > settled
  /\ tail # 0 => m = 1 + (IF tail > settled THEN tail ELSE settled)
  /\ tail' = m
  /\ UNCHANGED <<made, settled>>

TakeBack(m) == m >= settled /\ settled' = m /\ UNCHANGED <<made, tail>>

Reconnect == tail' = 0 /\ UNCHANGED <<made, settled>>

Next == Make \/ Reconnect \/ \E m \in 1..made : Leave(m) \/ TakeBack(m)

Spec == Init /\ [][Next]_vars
=============================================================================
