------------------------------ MODULE Channel -------------------------------
(***************************************************************************)
(* What the RTMP wire format promises: messages arrive as they were sent,  *)
(* in the order in which they were finished.                               *)
(***************************************************************************)
EXTENDS Naturals, Sequences

VARIABLES
  queue,  \* sent and not arrived
  last,   \* what arrived last
  count   \* how many have arrived

Init == queue = <<>> /\ count = 0

Send ==
  /\ Len(queue') = Len(queue) + 1 /\ SubSeq(queue', 1, Len(queue)) = queue
  /\ UNCHANGED <<last, count>>

Receive ==
  /\ queue # <<>>
  /\ last' = Head(queue) /\ queue' = Tail(queue)
  /\ count' = count + 1

vars == <<queue, last, count>>

(* What was sent arrives, if only because nothing else is left to do. *)
Spec == Init /\ [][Send \/ Receive]_vars /\ WF_vars(Receive)
=============================================================================
