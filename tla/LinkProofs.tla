----------------------------- MODULE LinkProofs -----------------------------
(***************************************************************************)
(* What the core may rely on, for every size of a batch, of the queue, of  *)
(* the write log and of what the operating system holds: nothing that is   *)
(* queued goes uncounted; what an answer to a dump says is so; the write   *)
(* log knows what it must; nothing that was handed over is skipped.        *)
(***************************************************************************)
EXTENDS OutletProofs

(* Only while a batch is written is something of it taken; the queue is a  *)
(* sequence of whatever was put there.                                     *)
TakenWhileWriting ==
  /\ {"phase", "taken"} \subseteq DOMAIN eg
  /\ eg.taken \in Nat
  /\ eg.phase # "Writing" => eg.taken = 0
IsQueue(q) == \E S : q \in Seq(S)

BacklogInv == BacklogIsQueued /\ TakenWhileWriting /\ IsQueue(media)

LEMMA Queues ==
  /\ IsQueue(<<>>) /\ Len(<<>>) = 0
  /\ \A q : IsQueue(q) => Len(q) \in Nat
  /\ \A q, x : IsQueue(q) => IsQueue(Append(q, x)) /\ Len(Append(q, x)) = Len(q) + 1
  /\ \A q : IsQueue(q) /\ q # <<>> => IsQueue(Tail(q)) /\ Len(Tail(q)) = Len(q) - 1
<1>1. IsQueue(<<>>) /\ Len(<<>>) = 0
  <2>1. <<>> \in Seq({}) OBVIOUS
  <2> QED BY <2>1 DEF IsQueue
<1>2. ASSUME NEW q, IsQueue(q) PROVE Len(q) \in Nat
  BY <1>2 DEF IsQueue
<1>3. ASSUME NEW q, NEW x, IsQueue(q)
      PROVE  IsQueue(Append(q, x)) /\ Len(Append(q, x)) = Len(q) + 1
  <2>1. PICK S : q \in Seq(S) BY <1>3 DEF IsQueue
  <2>2. q \in Seq(S \cup {x}) BY <2>1
  <2>3. Append(q, x) \in Seq(S \cup {x}) /\ Len(Append(q, x)) = Len(q) + 1 BY <2>2
  <2> QED BY <2>3 DEF IsQueue
<1>4. ASSUME NEW q, IsQueue(q), q # <<>>
      PROVE  IsQueue(Tail(q)) /\ Len(Tail(q)) = Len(q) - 1
  <2>1. PICK S : q \in Seq(S) BY <1>4 DEF IsQueue
  <2>2. Tail(q) \in Seq(S) /\ Len(Tail(q)) = Len(q) - 1 BY <1>4, <2>1
  <2> QED BY <2>2 DEF IsQueue
<1> QED BY <1>1, <1>2, <1>3, <1>4

(* What is left of a queue when the first n are taken. *)
LEMMA QueueRest ==
  ASSUME NEW q, IsQueue(q), NEW n \in Nat, n <= Len(q)
  PROVE  IsQueue(SubSeq(q, n + 1, Len(q))) /\ Len(SubSeq(q, n + 1, Len(q))) = Len(q) - n
<1>1. PICK S : q \in Seq(S) BY DEF IsQueue
<1>2. SubSeq(q, n + 1, Len(q)) \in Seq(S) BY <1>1
<1>3. Len(SubSeq(q, n + 1, Len(q))) = Len(q) - n BY <1>1
<1> QED BY <1>2, <1>3 DEF IsQueue

(* A connection that is not up has taken nothing. *)
LEMMA NoneTaken ==
  ASSUME NEW p
  PROVE  /\ In(p).phase = p /\ In(p).taken = 0
         /\ {"phase", "taken", "gen"} \subseteq DOMAIN In(p)
BY DEF In, NoConnection

LEMMA BacklogInit == Init => BacklogInv
<1> SUFFICES ASSUME Init PROVE BacklogInv OBVIOUS
<1>1. BacklogIsQueued BY Queues, NoneTaken DEF Init, BacklogIsQueued
<1>2. TakenWhileWriting BY NoneTaken DEF Init, TakenWhileWriting
<1>3. IsQueue(media) BY Queues DEF Init
<1> QED BY <1>1, <1>2, <1>3 DEF BacklogInv

(* A step that leaves the counter, the queue and what was taken alone. *)
LEMMA Apart ==
  ASSUME BacklogInv, UNCHANGED <<backlog, media>>,
         {"phase", "taken"} \subseteq DOMAIN eg', eg'.taken = eg.taken,
         eg'.phase # "Writing" => eg.phase # "Writing"
  PROVE  BacklogInv'
BY DEF BacklogInv, BacklogIsQueued, TakenWhileWriting

(* The connection ends, or none begins: what was taken is given up. *)
LEMMA GivenUp ==
  ASSUME BacklogInv, NEW p, p # "Writing", eg' = In(p), media' = media,
         backlog' = backlog - eg.taken
  PROVE  BacklogInv'
<1>1. Len(media) \in Nat BY Queues DEF BacklogInv
<1>2. backlog' = Len(media') + eg'.taken
  BY <1>1, NoneTaken DEF BacklogInv, BacklogIsQueued, TakenWhileWriting
<1>3. TakenWhileWriting' BY NoneTaken DEF TakenWhileWriting
<1> QED BY <1>2, <1>3 DEF BacklogInv, BacklogIsQueued

(* The broadcast ends: what is queued is given up, too. *)
LEMMA AllGivenUp ==
  ASSUME BacklogInv, NEW p, p # "Writing", eg' = In(p), media' = <<>>,
         backlog' = (backlog - eg.taken) - Len(media)
  PROVE  BacklogInv'
<1>1. Len(media) \in Nat BY Queues DEF BacklogInv
<1>2. backlog' = Len(media') + eg'.taken
  BY <1>1, NoneTaken, Queues DEF BacklogInv, BacklogIsQueued, TakenWhileWriting
<1>3. TakenWhileWriting' BY NoneTaken DEF TakenWhileWriting
<1>4. IsQueue(media') BY Queues
<1> QED BY <1>2, <1>3, <1>4 DEF BacklogInv, BacklogIsQueued

LEMMA BacklogNext == BacklogInv /\ [Next]_vars => BacklogInv'
<1> SUFFICES ASSUME BacklogInv, [Next]_vars PROVE BacklogInv' OBVIOUS
<1> USE DEF TakenWhileWriting
<1>i. /\ backlog = Len(media) + eg.taken
      /\ {"phase", "taken"} \subseteq DOMAIN eg /\ eg.taken \in Nat
      /\ eg.phase # "Writing" => eg.taken = 0
      /\ IsQueue(media) /\ Len(media) \in Nat
  BY Queues DEF BacklogInv, BacklogIsQueued
<1>1. CASE Core
  <2>1. CASE Emit
    <3>1. eg' = eg /\ IsQueue(media') /\ Len(media') = Len(media) + 1
      BY <2>1, <1>i, Queues DEF Emit
    <3>2. backlog' = backlog + 1 BY <2>1 DEF Emit
    <3> QED BY <1>i, <3>1, <3>2 DEF BacklogInv, BacklogIsQueued
  <2>2. CASE StartEgress BY <2>2, <1>i, Apart DEF StartEgress
  <2>3. CASE StopEgress BY <2>3, <1>i, Apart DEF StopEgress
  <2>4. CASE EndNow BY <2>4, <1>i, Apart DEF EndNow
  <2>5. CASE EndAfterAir BY <2>5, <1>i, Apart DEF EndAfterAir
  <2>6. CASE EndAtMark BY <2>6, <1>i, Apart DEF EndAtMark
  <2>7. CASE RaiseCut BY <2>7, <1>i, Apart DEF RaiseCut
  <2>8. CASE AskCut BY <2>8, <1>i, Apart DEF AskCut
  <2>9. CASE CheckDump BY <2>9, <1>i, Apart DEF CheckDump
  <2>10. CASE DumpUnlinked BY <2>10, <1>i, Apart DEF DumpUnlinked
  <2>11. CASE HandleEvent
    <3>1. UNCHANGED <<backlog, media>> BY <2>11 DEF HandleEvent
    <3>2. PICK e : HandleCutDone(e) \/ HandleConnected(e) \/ HandleDisconnected(e)
      BY <2>11 DEF HandleEvent
    <3>3. eg' = eg \/ eg' = [eg EXCEPT !.reply = core.gen + 1]
      BY <3>2 DEF HandleCutDone, HandleConnected, HandleDisconnected
    <3> QED BY <1>i, <3>1, <3>3, Apart
  <2> QED BY <1>1, <2>1, <2>2, <2>3, <2>4, <2>5, <2>6, <2>7, <2>8, <2>9, <2>10, <2>11 DEF Core
<1>2. CASE Egress
  <2>1. CASE TakeStart
    <3>1. eg' = In("Connecting") /\ eg.taken = 0 /\ UNCHANGED <<backlog, media>>
      BY <2>1, <1>i DEF TakeStart, Again
    <3> QED BY <1>i, <3>1, GivenUp DEF BacklogInv, BacklogIsQueued
  <2>2. CASE StopUnconnected
    <3>1. eg' = In("Idle") /\ eg.taken = 0 /\ media' = <<>> /\ backlog' = backlog - Len(media)
      BY <2>2, <1>i DEF StopUnconnected, Stopped
    <3> QED BY <1>i, <3>1, AllGivenUp DEF BacklogInv, BacklogIsQueued
  <2>3. CASE CutUnconnected BY <2>3, <1>i, Apart DEF CutUnconnected
  <2>4. CASE DropQueued
    <3>1. eg' = eg /\ IsQueue(media') /\ Len(media') = Len(media) - 1
      BY <2>4, <1>i, Queues DEF DropQueued
    <3>2. backlog' = backlog - 1 BY <2>4 DEF DropQueued
    <3> QED BY <1>i, <3>1, <3>2 DEF BacklogInv, BacklogIsQueued
  <2>5. CASE ConnectOk
    <3>1. eg' = In("Waiting") /\ eg.taken = 0 /\ UNCHANGED <<backlog, media>>
      BY <2>5, <1>i DEF ConnectOk
    <3> QED BY <1>i, <3>1, GivenUp
  <2>6. CASE ConnectFails
    <3>1. eg' = In("Backoff") /\ eg.taken = 0 /\ UNCHANGED <<backlog, media>>
      BY <2>6, <1>i DEF ConnectFails, Retry
    <3> QED BY <1>i, <3>1, GivenUp
  <2>7. CASE BackoffOver
    <3>1. eg' = In("Connecting") /\ eg.taken = 0 /\ UNCHANGED <<backlog, media>>
      BY <2>7, <1>i DEF BackoffOver, Again
    <3> QED BY <1>i, <3>1, GivenUp
  <2>8. CASE Publish
    <3>1. eg' = [In("Live") EXCEPT !.gen = eg.reply] /\ eg.phase = "Waiting"
          /\ UNCHANGED <<backlog, media>>
      BY <2>8 DEF Publish
    <3>2. /\ {"phase", "taken"} \subseteq DOMAIN eg' /\ eg'.taken = 0
      BY <3>1, NoneTaken
    <3> QED BY <1>i, <3>1, <3>2, Apart
  <2>9. CASE TakeBatch
    <3>1. PICK n \in 1 .. Lesser(Batch, Len(media)) :
            /\ eg' = [eg EXCEPT !.phase = "Writing", !.taken = n, !.put = 0,
                                !.batch = Wants(SubSeq(media, 1, n))]
            /\ media' = SubSeq(media, n + 1, Len(media))
      BY <2>9 DEF TakeBatch
    <3>2. n \in Nat /\ n <= Len(media) BY <1>i, LinkConstants DEF Lesser
    <3>3. IsQueue(media') /\ Len(media') = Len(media) - n BY <1>i, <3>1, <3>2, QueueRest
    <3>4. /\ {"phase", "taken"} \subseteq DOMAIN eg'
          /\ eg'.taken = n /\ eg'.phase = "Writing"
      BY <1>i, <3>1
    <3>5. eg.taken = 0 /\ backlog' = backlog BY <2>9, <1>i DEF TakeBatch
    <3> QED BY <1>i, <3>2, <3>3, <3>4, <3>5 DEF BacklogInv, BacklogIsQueued
  <2>10. CASE Accept BY <2>10, <1>i, Apart DEF Accept
  <2>11. CASE BatchDone
    <3>1. media' = media /\ backlog' = backlog - eg.taken
      BY <2>11 DEF BatchDone, Counted
    <3>2. {"phase", "taken"} \subseteq DOMAIN Done /\ Done.taken = 0 BY <1>i DEF Done
    <3>3. {"phase", "taken"} \subseteq DOMAIN eg' /\ eg'.taken = 0
      <4>1. CASE eg.batch = <<>> BY <4>1, <2>11, <3>2 DEF BatchDone
      <4>2. CASE eg.batch # <<>>
        <5> DEFINE total == eg.total + Len(eg.batch)
        <5>1. eg' = [Done EXCEPT !.total = total, !.last = Last(eg.batch),
                                 !.log = Logged(@, total)]
          BY <4>2, <2>11 DEF BatchDone
        <5> QED BY <5>1, <3>2
      <4> QED BY <4>1, <4>2
    <3> QED BY <1>i, <3>1, <3>3 DEF BacklogInv, BacklogIsQueued
  <2>12. CASE CutLive BY <2>12, <1>i, Apart DEF CutLive
  <2>13. CASE CutReset
    <3>1. eg' = In("Connecting") /\ media' = media /\ backlog' = backlog - eg.taken
      BY <2>13 DEF CutReset, Again, Counted
    <3> QED BY <3>1, GivenUp
  <2>14. CASE StopLive BY <2>14, <1>i, Apart DEF StopLive
  <2>15. CASE Fail
    <3>1. eg' = In("Backoff") /\ media' = media /\ backlog' = backlog - eg.taken
      BY <2>15 DEF Fail, Retry, Counted
    <3> QED BY <3>1, GivenUp
  <2>16. CASE Closed \/ StopWriting \/ AbortPublishing
    <3>1. /\ eg' = In("Idle") /\ media' = <<>>
          /\ backlog' = (backlog - eg.taken) - Len(media)
      BY <2>16 DEF Closed, StopWriting, AbortPublishing, Ended, Stopped, Counted
    <3> QED BY <3>1, AllGivenUp
  <2> QED
    BY <1>2, <2>1, <2>2, <2>3, <2>4, <2>5, <2>6, <2>7, <2>8, <2>9, <2>10, <2>11, <2>12, <2>13,
       <2>14, <2>15, <2>16 DEF Egress
<1>3. CASE Leave BY <1>3, <1>i, Apart DEF Leave
<1>4. CASE Acknowledge BY <1>4, <1>i, Apart DEF Acknowledge
<1>5. CASE Linger BY <1>5, <1>i, Apart DEF Linger
<1>6. CASE UNCHANGED vars BY <1>6, <1>i, Apart DEF vars
<1> QED BY <1>1, <1>2, <1>3, <1>4, <1>5, <1>6 DEF Next

(* The counter is what waits in the channel or is being written, on every  *)
(* way out of a connection (egress.rs, write_batches and run).             *)
THEOREM BacklogCounts == Spec => []BacklogIsQueued
<1>1. BacklogInv => BacklogIsQueued BY DEF BacklogInv
<1> QED BY BacklogInit, BacklogNext, <1>1, PTL DEF Spec


-----------------------------------------------------------------------------
(* What the answer to a dump may say.  The system holds of what was        *)
(* written on this connection the end: what has left and is not            *)
(* acknowledged, then what waits.  Oldest(i) is the i-th of it.            *)
HeldNow == Len(os.flight) + Len(os.wire)
Oldest(i) == IF i <= Len(os.flight) THEN os.flight[i] ELSE os.wire[i - Len(os.flight)]
Gone == (eg.total + eg.put) - HeldNow

(* The n-th byte written on this connection is message m.                  *)
Wrote(m, n) == IF n <= Gone THEN m \in hist.acked ELSE m = Oldest(n - Gone)
Accounted ==
  /\ HeldNow <= OsHolds /\ HeldNow <= eg.total + eg.put
  /\ \A i \in DOMAIN eg.log : eg.log[i][2] <= eg.total /\ Wrote(eg.log[i][1], eg.log[i][2])
  /\ \A i \in 1 .. eg.put : Wrote(eg.batch[i], eg.total + i)
HasLeft ==
  /\ hist.acked \subseteq hist.left
  /\ \A i \in DOMAIN os.flight : os.flight[i] \in hist.left
  /\ hist.tail # 0 => hist.tail \in hist.left

(* What was written last is last on the wire, or has left last, unless the *)
(* next batch has begun.                                                   *)
LastIs ==
  eg.last # None =>
    IF eg.put = 0
    THEN /\ os.wire # <<>> => eg.last = os.wire[Len(os.wire)]
         /\ os.wire = <<>> => eg.last = hist.tail
    ELSE eg.last < eg.batch[1]
Answered ==
  \A i \in DOMAIN events :
    IsAnswer(events[i]) /\ events[i].delivered # None
      => events[i].delivered \in IF events[i].reset THEN hist.acked ELSE hist.left

AnswerInv == Accounted /\ HasLeft /\ LastIs /\ Answered

LEMMA HeldTypes ==
  ASSUME Types
  PROVE  /\ Len(os.flight) \in Nat /\ Len(os.wire) \in Nat /\ HeldNow \in Nat
         /\ DOMAIN os.flight = 1 .. Len(os.flight) /\ DOMAIN os.wire = 1 .. Len(os.wire)
         /\ eg.total \in Nat /\ eg.put \in Nat /\ eg.total + eg.put \in Nat
         /\ Gone = (eg.total + eg.put) - HeldNow /\ Gone \in Int
         /\ eg.log \in Seq(Entry) /\ DOMAIN eg.log = 1 .. Len(eg.log) /\ Len(eg.log) \in Nat
         /\ \A i \in DOMAIN eg.log : eg.log[i][1] \in Nat /\ eg.log[i][2] \in Nat
<1>1. os.flight \in Seq(Nat) /\ os.wire \in Seq(Nat) BY DEF Types
<1>2. eg.total \in Nat /\ eg.put \in Nat /\ eg.log \in Seq(Entry) BY DEF Types, Egresses
<1>3. ASSUME NEW s \in Seq(Nat) PROVE Len(s) \in Nat /\ DOMAIN s = 1 .. Len(s) OBVIOUS
<1>4. Len(os.flight) \in Nat /\ Len(os.wire) \in Nat BY <1>1, <1>3
<1>5. HeldNow \in Nat
  <2>1. \A a, b \in Nat : a + b \in Nat OBVIOUS
  <2> QED BY <1>4, <2>1 DEF HeldNow
<1>6. Gone = (eg.total + eg.put) - HeldNow BY DEF Gone
<1>7. Gone \in Int BY <1>2, <1>5, <1>6
<1>8. DOMAIN eg.log = 1 .. Len(eg.log) /\ Len(eg.log) \in Nat BY <1>2
<1>9. \A e \in Entry : e[1] \in Nat /\ e[2] \in Nat BY DEF Entry
<1>10. \A i \in DOMAIN eg.log : eg.log[i] \in Entry BY <1>2
<1>11. eg.total + eg.put \in Nat BY <1>2
<1> QED BY <1>1, <1>2, <1>3, <1>4, <1>5, <1>6, <1>7, <1>8, <1>9, <1>10, <1>11

(* What was written stays so, while the a oldest are acknowledged.         *)
LEMMA StaysWritten ==
  ASSUME Types, Types', HeldNow <= eg.total + eg.put, NEW a \in {0, 1}, Gone' = Gone + a,
         \A i \in 1 .. HeldNow : i > a => Oldest(i - a)' = Oldest(i),
         hist.acked \subseteq hist'.acked, a = 1 => Oldest(1) \in hist'.acked
  PROVE  \A m, n \in Nat : n <= eg.total + eg.put /\ Wrote(m, n) => Wrote(m, n)'
<1> SUFFICES ASSUME NEW m \in Nat, NEW n \in Nat, n <= eg.total + eg.put, Wrote(m, n)
             PROVE  Wrote(m, n)'
  OBVIOUS
<1> DEFINE all == eg.total + eg.put
<1>1. HeldNow \in Nat /\ Gone = all - HeldNow /\ all \in Nat BY HeldTypes
<1>2. n <= all /\ HeldNow <= all OBVIOUS
<1>j. PICK j \in Int : j = n - Gone BY <1>1
<1>3. n <= Gone => m \in hist.acked BY DEF Wrote
<1>4. ~ (n <= Gone) => m = Oldest(j) BY <1>j DEF Wrote
<1>g. Gone' = Gone + a OBVIOUS
<1> HIDE DEF all
<1>7. /\ n <= Gone + a => m \in hist'.acked
      /\ ~ (n <= Gone + a) => m = Oldest(j - a)'
  <2>1. CASE n <= Gone
    <3>1. n <= Gone + a BY <1>1, <2>1
    <3> QED BY <1>3, <2>1, <3>1
  <2>2. CASE ~ (n <= Gone)
    <3>1. j \in 1 .. HeldNow BY <1>1, <1>2, <1>j, <2>2
    <3>2. CASE n <= Gone + a
      <4>1. a = 1 /\ j = 1 BY <1>1, <1>j, <2>2, <3>2
      <4> QED BY <1>4, <2>2, <3>2, <4>1
    <3>3. CASE ~ (n <= Gone + a)
      <4>1. j > a BY <1>1, <1>j, <3>3
      <4>2. Oldest(j - a)' = Oldest(j) BY <3>1, <4>1
      <4> QED BY <1>4, <2>2, <3>3, <4>2
    <3> QED BY <3>2, <3>3
  <2> QED BY <2>1, <2>2
<1>8. n - Gone' = j - a BY <1>1, <1>g, <1>j
<1>9. m = Oldest(j - a)' => m = Oldest(n - Gone)' BY <1>8 DEF Oldest
<1>10. Wrote(m, n)' = IF n <= Gone' THEN m \in hist'.acked ELSE m = Oldest(n - Gone)'
  BY DEF Wrote
<1> QED BY <1>7, <1>9, <1>10, <1>g

(* What the system holds is the same.                                      *)
LEMMA SameHeld ==
  ASSUME Types, Types', Accounted, os'.wire = os.wire, os'.flight = os.flight, hist'.acked = hist.acked,
         eg'.total + eg'.put = eg.total + eg.put
  PROVE  /\ HeldNow' = HeldNow /\ Gone' = Gone
         /\ \A m, n \in Nat : n <= eg.total + eg.put /\ Wrote(m, n) => Wrote(m, n)'
<1>1. HeldNow' = HeldNow BY DEF HeldNow
<1>2. Gone' = Gone /\ Gone \in Int
  <2>1. Gone = (eg.total + eg.put) - HeldNow /\ Gone \in Int BY HeldTypes
  <2>2. Gone' = (eg'.total + eg'.put) - HeldNow' BY DEF Gone
  <2>3. eg'.total + eg'.put = eg.total + eg.put OBVIOUS
  <2>4. Gone' = (eg.total + eg.put) - HeldNow BY ONLY <1>1, <2>2, <2>3
  <2> QED BY ONLY <2>1, <2>4
<1>3. \A i \in 1 .. HeldNow : i > 0 => Oldest(i - 0)' = Oldest(i) BY HeldTypes DEF Oldest
<1>4. Gone' = Gone + 0 BY <1>2
<1>5. HeldNow <= eg.total + eg.put BY DEF Accounted
<1> QED BY <1>1, <1>2, <1>3, <1>4, <1>5, StaysWritten

LEMMA NoneHeld ==
  ASSUME eg'.log = <<>>, eg'.total = 0, eg'.put = 0, os'.wire = <<>>, os'.flight = <<>>
  PROVE  Accounted'
<1>1. HeldNow' = 0 BY DEF HeldNow
<1>2. OsHolds \in Nat BY Constants
<1>3. DOMAIN eg'.log = {} /\ 1 .. eg'.put = {} OBVIOUS
<1> QED BY <1>1, <1>2, <1>3 DEF Accounted

LEMMA AcceptHolds ==
  ASSUME Types, Types', Accounted, Accept
  PROVE  Accounted'
<1>t. /\ Len(os.flight) \in Nat /\ Len(os.wire) \in Nat /\ HeldNow \in Nat
      /\ eg.total \in Nat /\ eg.put \in Nat
      /\ Gone = (eg.total + eg.put) - HeldNow
      /\ \A i \in DOMAIN eg.log : eg.log[i][1] \in Nat /\ eg.log[i][2] \in Nat
  BY HeldTypes
<1>b. Len(eg.batch) \in Nat /\ DOMAIN eg.batch = 1 .. Len(eg.batch) /\ \A i \in DOMAIN eg.batch : eg.batch[i] \in Nat
  BY WireIs
<1>1. /\ eg.put < Len(eg.batch) /\ eg'.put = eg.put + 1 /\ eg'.batch = eg.batch
      /\ Len(os.wire) + Len(os.flight) < OsHolds
      /\ eg'.log = eg.log /\ eg'.total = eg.total /\ hist'.acked = hist.acked
      /\ os'.wire = Append(os.wire, eg.batch[eg.put + 1]) /\ os'.flight = os.flight
  BY BatchDoes
<1>2. eg.put + 1 \in DOMAIN eg.batch BY <1>1, <1>b, <1>t, SMTT(30)
<1> DEFINE x == eg.batch[eg.put + 1]
<1>3. x \in Nat BY <1>b, <1>2
<1>4. /\ Len(os'.wire) = Len(os.wire) + 1 /\ os'.wire[Len(os.wire) + 1] = x
      /\ \A i \in 1 .. Len(os.wire) : os'.wire[i] = os.wire[i]
  <2>1. os.wire \in Seq(Nat) BY DEF Types
  <2> HIDE DEF x
  <2>2. os'.wire = Append(os.wire, x) BY <1>1 DEF x
  <2> QED BY <1>3, <2>1, <2>2, AppendIs
<1> DEFINE f == Len(os.flight)
           w == Len(os.wire)
           all == eg.total + eg.put
<1>n. f \in Nat /\ w \in Nat /\ all \in Nat /\ HeldNow \in Nat /\ Gone = all - HeldNow BY <1>t
<1>5. HeldNow = f + w /\ HeldNow' = f + (w + 1)
  <2>1. Len(os'.flight) = f /\ Len(os'.wire) = w + 1 BY <1>1, <1>4
  <2> QED BY ONLY <2>1 DEF HeldNow
<1>a. eg'.total + eg'.put = all + 1 BY <1>1, <1>t, SMTT(30)
<1>6. Gone' = Gone + 0
  <2>1. Gone' = (eg'.total + eg'.put) - HeldNow' BY DEF Gone
  <2> HIDE DEF f, w, all
  <2>2. Gone' = (all + 1) - (f + (w + 1)) BY ONLY <1>5, <1>a, <2>1
  <2>3. Gone = all - (f + w) BY ONLY <1>5, <1>n
  <2> QED BY ONLY <1>n, <2>2, <2>3
<1>h. HeldNow <= all /\ f + w < OsHolds /\ OsHolds \in Nat
  <2>1. HeldNow <= all BY DEF Accounted
  <2>2. w + f < OsHolds BY <1>1
  <2>3. OsHolds \in Nat BY Constants
  <2> HIDE DEF f, w, all
  <2> QED BY <1>n, <2>1, <2>2, <2>3
<1> HIDE DEF x
<1>7. ASSUME NEW i \in 1 .. HeldNow PROVE Oldest(i - 0)' = Oldest(i)
  <2>1. i \in Nat /\ i - 0 = i /\ (~ (i <= f) => i - f \in 1 .. w)
    <3> HIDE DEF f, w
    <3>1. i \in 1 .. f + w BY ONLY <1>5, i \in 1 .. HeldNow
    <3> QED BY ONLY <1>n, <3>1
  <2> QED BY <1>1, <1>4, <2>1 DEF Oldest
<1>8. \A m, n \in Nat : n <= eg.total + eg.put /\ Wrote(m, n) => Wrote(m, n)'
  BY <1>1, <1>6, <1>7, <1>h, StaysWritten
<1>9. ASSUME NEW m \in Nat, NEW k \in Nat, m = x, k = eg.total + eg.put + 1 PROVE Wrote(m, k)'
  <2>1. PICK j \in Int : j = HeldNow + 1 BY <1>t
  <2>2. j - f = w + 1 /\ ~ (j <= f)
    <3> HIDE DEF f, w
    <3> QED BY <1>5, <1>n, <2>1
  <2>3. Oldest(j)' = x BY <1>1, <1>4, <2>2 DEF Oldest
  <2>4. k - Gone' = j /\ ~ (k <= Gone') BY <1>6, <1>9, <1>t, <2>1
  <2>5. Oldest(k - Gone)' = Oldest(j)' BY <2>4 DEF Oldest
  <2> QED BY <1>9, <2>3, <2>4, <2>5 DEF Wrote
<1>10. HeldNow' <= OsHolds /\ HeldNow' <= eg'.total + eg'.put
  <2> HIDE DEF f, w, all
  <2> QED BY <1>5, <1>a, <1>h, <1>n
<1>11. ASSUME NEW i \in DOMAIN eg'.log
       PROVE  eg'.log[i][2] <= eg'.total /\ Wrote(eg.log[i][1], eg.log[i][2])'
  <2>1. i \in DOMAIN eg.log /\ eg'.log[i] = eg.log[i] BY <1>1, <1>11
  <2>2. PICK m \in Nat, n \in Nat : m = eg.log[i][1] /\ n = eg.log[i][2] BY <1>t, <2>1
  <2>3. n <= eg.total /\ Wrote(m, n) BY <2>1, <2>2 DEF Accounted
  <2>4. n <= eg.total + eg.put BY <1>t, <2>3
  <2>5. Wrote(m, n)' BY <1>8, <2>3, <2>4
  <2>6. m = eg'.log[i][1] /\ n = eg'.log[i][2] BY <2>1, <2>2
  <2> QED BY <1>1, <2>3, <2>5, <2>6
<1>12. ASSUME NEW i \in 1 .. eg'.put PROVE Wrote(eg.batch[i], eg.total + i)'
  <2>1. i \in DOMAIN eg.batch /\ i \in Nat BY <1>1, <1>b, <1>t, SMTT(30)
  <2>2. PICK m \in Nat, n \in Nat : m = eg.batch[i] /\ n = eg.total + i BY <1>b, <1>t, <2>1, SMTT(30)
  <2>3. Wrote(m, n)'
    <3>1. CASE i \in 1 .. eg.put
      <4>1. Wrote(m, n) BY <2>2, <3>1 DEF Accounted
      <4>2. n <= eg.total + eg.put BY <1>t, <2>2, <3>1
      <4> QED BY <1>8, <4>1, <4>2
    <3>2. CASE i = eg.put + 1
      <4>1. n = eg.total + eg.put + 1 /\ m = x BY <1>t, <2>2, <3>2, SMTT(30) DEF x
      <4> QED BY <1>9, <4>1
    <3>3. i \in 1 .. eg.put \/ i = eg.put + 1 BY <1>1, <1>t, SMTT(30)
    <3> QED BY <3>1, <3>2, <3>3
  <2>4. m = eg'.batch[i] /\ n = eg'.total + i BY <1>1, <2>2
  <2> QED BY <2>3, <2>4
<1> QED BY <1>10, <1>11, <1>12 DEF Accounted

(* What leaves is the oldest of what waits, and stays where it is among    *)
(* what is held; what is acknowledged is the oldest of all.                *)
LEMMA LeaveHolds ==
  ASSUME Types, Types', Accounted, Leave
  PROVE  HeldNow' = HeldNow /\ Gone' = Gone /\ \A i \in 1 .. HeldNow : Oldest(i)' = Oldest(i)
<1>1. /\ os.wire # <<>> /\ os'.wire = Tail(os.wire) /\ os'.flight = Append(os.flight, Head(os.wire))
      /\ eg' = eg
  BY BatchDoes
<1> DEFINE f == Len(os.flight)
           w == Len(os.wire)
<1>2. os.wire \in Seq(Nat) /\ os.flight \in Seq(Nat) BY DEF Types
<1>3. /\ Len(os'.wire) = w - 1 /\ w \in Nat \ {0} /\ Head(os.wire) = os.wire[1] /\ os.wire[1] \in Nat
      /\ \A i \in 1 .. w - 1 : os'.wire[i] = os.wire[i + 1]
  BY <1>1, <1>2, TailIs
<1>4. /\ Len(os'.flight) = f + 1 /\ f \in Nat /\ os'.flight[f + 1] = os.wire[1]
      /\ \A i \in 1 .. f : os'.flight[i] = os.flight[i]
  <2>1. os'.flight = Append(os.flight, os.wire[1]) BY <1>1, <1>3
  <2> QED BY <1>2, <1>3, <2>1, AppendIs
<1>5. HeldNow' = (f + 1) + (w - 1) /\ HeldNow = f + w BY <1>3, <1>4 DEF HeldNow
<1>6. HeldNow' = HeldNow
  <2> HIDE DEF f, w
  <2> QED BY <1>3, <1>4, <1>5
<1>7. Gone' = Gone BY <1>1, <1>6 DEF Gone
<1>8. ASSUME NEW i \in 1 .. HeldNow PROVE Oldest(i)' = Oldest(i)
  <2>1. Oldest(i) = IF i <= f THEN os.flight[i] ELSE os.wire[i - f] BY DEF Oldest
  <2>2. Oldest(i)' = IF i <= f + 1 THEN os'.flight[i] ELSE os'.wire[i - (f + 1)] BY <1>4 DEF Oldest
  <2> HIDE DEF f, w
  <2>3. i \in 1 .. f + w BY <1>5
  <2>4. CASE i <= f
    <3>1. i \in 1 .. f /\ i <= f + 1 BY <1>4, <2>3, <2>4
    <3> QED BY <1>4, <2>1, <2>2, <2>4, <3>1
  <2>5. CASE i = f + 1
    <3>1. i - f = 1 /\ i <= f + 1 /\ ~ (i <= f) BY <1>4, <2>5
    <3> QED BY <1>4, <2>1, <2>2, <2>5, <3>1
  <2>6. CASE i > f + 1
    <3>1. i - (f + 1) \in 1 .. w - 1 /\ (i - (f + 1)) + 1 = i - f /\ ~ (i <= f + 1) /\ ~ (i <= f)
      BY <1>3, <1>4, <2>3, <2>6
    <3> QED BY <1>3, <2>1, <2>2, <3>1
  <2> QED BY <1>4, <2>3, <2>4, <2>5, <2>6
<1> QED BY <1>6, <1>7, <1>8

LEMMA AcknowledgeHolds ==
  ASSUME Types, Types', Accounted, Acknowledge
  PROVE  /\ HeldNow' = HeldNow - 1 /\ Gone' = Gone + 1 /\ HeldNow > 0
         /\ \A i \in 2 .. HeldNow : Oldest(i - 1)' = Oldest(i)
         /\ Oldest(1) = os.flight[1] /\ hist'.acked = hist.acked \cup {Oldest(1)}
<1>1. /\ os.flight # <<>> /\ os'.flight = Tail(os.flight) /\ os'.wire = os.wire
      /\ hist'.acked = hist.acked \cup {Head(os.flight)} /\ eg' = eg
  BY DEF Acknowledge, Types
<1> DEFINE f == Len(os.flight)
           w == Len(os.wire)
           all == eg.total + eg.put
<1>2. os.flight \in Seq(Nat) /\ w \in Nat /\ all \in Nat BY HeldTypes DEF Types
<1>3. /\ Len(os'.flight) = f - 1 /\ f \in Nat \ {0} /\ Head(os.flight) = os.flight[1]
      /\ \A i \in 1 .. f - 1 : os'.flight[i] = os.flight[i + 1]
  BY <1>1, <1>2, TailIs
<1>4. HeldNow' = (f - 1) + w /\ HeldNow = f + w BY <1>1, <1>3 DEF HeldNow
<1>5. HeldNow' = HeldNow - 1 /\ HeldNow > 0
  <2> HIDE DEF f, w
  <2> QED BY <1>2, <1>3, <1>4
<1>6. Gone' = Gone + 1
  <2>1. Gone = all - HeldNow /\ Gone' = all - HeldNow' BY <1>1 DEF Gone
  <2> HIDE DEF f, w, all
  <2> QED BY <1>2, <1>3, <1>4, <2>1
<1>7. ASSUME NEW i \in 2 .. HeldNow PROVE Oldest(i - 1)' = Oldest(i)
  <2>1. Oldest(i) = IF i <= f THEN os.flight[i] ELSE os.wire[i - f] BY DEF Oldest
  <2>2. Oldest(i - 1)' = IF i - 1 <= f - 1 THEN os'.flight[i - 1] ELSE os'.wire[(i - 1) - (f - 1)]
    BY <1>3 DEF Oldest
  <2> HIDE DEF f, w
  <2>3. i \in 2 .. f + w BY <1>4
  <2>4. CASE i <= f
    <3>1. i - 1 \in 1 .. f - 1 /\ (i - 1) + 1 = i /\ i - 1 <= f - 1 BY <1>3, <2>3, <2>4
    <3> QED BY <1>3, <2>1, <2>2, <2>4, <3>1
  <2>5. CASE ~ (i <= f)
    <3>1. (i - 1) - (f - 1) = i - f /\ ~ (i - 1 <= f - 1) BY <1>3, <2>3, <2>5
    <3> QED BY <1>1, <2>1, <2>2, <2>5, <3>1
  <2> QED BY <2>4, <2>5
<1>8. Oldest(1) = os.flight[1]
  <2>1. 1 <= f BY <1>3
  <2> QED BY <2>1 DEF Oldest
<1> QED BY <1>1, <1>3, <1>5, <1>6, <1>7, <1>8

LEMMA Carried ==
  ASSUME Types, Types', Accounted, NothingYet, HeldNow' <= HeldNow,
         eg'.log = eg.log, eg'.total = eg.total, eg'.put = eg.put, eg'.batch = eg.batch \/ eg.put = 0,
         \A m, n \in Nat : n <= eg.total + eg.put /\ Wrote(m, n) => Wrote(m, n)'
  PROVE  Accounted'
<1>t. /\ HeldNow \in Nat /\ eg.total \in Nat /\ eg.put \in Nat /\ eg.total + eg.put \in Nat
      /\ \A i \in DOMAIN eg.log : eg.log[i][1] \in Nat /\ eg.log[i][2] \in Nat
  BY HeldTypes
<1>b. Len(eg.batch) \in Nat /\ DOMAIN eg.batch = 1 .. Len(eg.batch) /\ \A i \in DOMAIN eg.batch : eg.batch[i] \in Nat
  BY WireIs
<1>1. HeldNow' <= OsHolds /\ HeldNow' <= eg'.total + eg'.put
  <2>1. HeldNow' \in Nat /\ OsHolds \in Nat
    <3>1. \A k, l \in Nat : k + l \in Nat OBVIOUS
    <3>2. Len(os'.flight) \in Nat /\ Len(os'.wire) \in Nat BY SMTT(30) DEF Types
    <3> QED BY <3>1, <3>2, Constants DEF HeldNow
  <2>2. HeldNow <= OsHolds /\ HeldNow <= eg.total + eg.put /\ eg'.total + eg'.put = eg.total + eg.put
    BY DEF Accounted
  <2> QED BY <1>t, <2>1, <2>2
<1>2. ASSUME NEW i \in DOMAIN eg'.log
      PROVE  eg'.log[i][2] <= eg'.total /\ Wrote(eg.log[i][1], eg.log[i][2])'
  <2>1. PICK m \in Nat, n \in Nat : m = eg.log[i][1] /\ n = eg.log[i][2] BY <1>t, <1>2
  <2>2. n <= eg.total /\ Wrote(m, n) BY <1>2, <2>1 DEF Accounted
  <2>3. n <= eg.total + eg.put BY <1>t, <2>2
  <2>4. Wrote(m, n)' BY <2>2, <2>3
  <2> QED BY <2>1, <2>2, <2>4
<1>3. ASSUME NEW i \in 1 .. eg'.put PROVE Wrote(eg.batch[i], eg.total + i)'
  <2>1. eg.put <= Len(eg.batch) /\ i \in 1 .. eg.put /\ i \in Nat BY <1>t, <1>3 DEF NothingYet
  <2>2. eg'.batch = eg.batch /\ i \in DOMAIN eg.batch BY <1>b, <1>t, <2>1
  <2>3. PICK m \in Nat, n \in Nat : m = eg.batch[i] /\ n = eg.total + i BY <1>b, <1>t, <2>1, <2>2, SMTT(30)
  <2>4. Wrote(m, n) BY <2>1, <2>3 DEF Accounted
  <2>5. n <= eg.total + eg.put BY <1>t, <2>1, <2>3
  <2>6. Wrote(m, n)' BY <2>4, <2>5
  <2> QED BY <2>2, <2>3, <2>6
<1> QED BY <1>1, <1>2, <1>3 DEF Accounted

LEMMA DoneHolds ==
  ASSUME Types, Types', Accounted, NothingYet, BatchDone
  PROVE  Accounted'
<1>t. /\ HeldNow \in Nat /\ eg.total \in Nat /\ eg.put \in Nat /\ eg.total + eg.put \in Nat
      /\ eg.log \in Seq(Entry) /\ Len(eg.log) \in Nat /\ DOMAIN eg.log = 1 .. Len(eg.log)
      /\ \A i \in DOMAIN eg.log : eg.log[i][1] \in Nat /\ eg.log[i][2] \in Nat
  BY HeldTypes
<1>1. /\ eg.put = Len(eg.batch) /\ eg'.put = 0 /\ hist'.acked = hist.acked /\ os' = os
      /\ eg.batch = <<>> => eg'.log = eg.log /\ eg'.total = eg.total
      /\ eg.batch # <<>> => /\ eg'.total = eg.total + Len(eg.batch)
                            /\ eg'.log = Logged(eg.log, eg.total + Len(eg.batch))
  BY BatchDoes
<1>2. CASE eg.batch = <<>>
  <2>1. eg.put = 0
    <3>1. Len(<<>>) = 0 OBVIOUS
    <3> QED BY <1>1, <1>2, <3>1
  <2>2. /\ HeldNow' = HeldNow
        /\ \A m, n \in Nat : n <= eg.total + eg.put /\ Wrote(m, n) => Wrote(m, n)'
    <3>1. os'.wire = os.wire /\ os'.flight = os.flight /\ eg'.total + eg'.put = eg.total + eg.put
      BY <1>1, <1>2, <2>1
    <3> QED BY <1>1, <3>1, SameHeld
  <2>3. HeldNow' <= HeldNow BY <1>t, <2>2
  <2> QED BY <1>1, <1>2, <2>1, <2>2, <2>3, Carried
<1>3. CASE eg.batch # <<>>
  <2> DEFINE all == eg.total + eg.put
  <2>1. eg'.total = all /\ eg'.total + eg'.put = all /\ all \in Nat
    <3>1. eg'.total = all /\ all \in Nat BY <1>1, <1>3, <1>t
    <3> HIDE DEF all
    <3> QED BY <1>1, <3>1
  <2>2. /\ HeldNow' = HeldNow
        /\ \A m, n \in Nat : n <= all /\ Wrote(m, n) => Wrote(m, n)'
    <3>1. os'.wire = os.wire /\ os'.flight = os.flight BY <1>1
    <3> QED BY <1>1, <2>1, <3>1, SameHeld
  <2>3. HeldNow' <= OsHolds /\ HeldNow' <= eg'.total + eg'.put BY <2>1, <2>2 DEF Accounted
  <2>4. \A i \in 1 .. eg'.put : Wrote(eg.batch[i], eg.total + i)'
    <3>1. 1 .. eg'.put = {} BY <1>1
    <3> QED BY <3>1
  <2>5. /\ eg.put \in 1 .. Len(eg.batch) /\ Last(eg.batch) = eg.batch[eg.put] /\ Last(eg.batch) \in Nat
    <3>1. Len(eg.batch) \in Nat /\ DOMAIN eg.batch = 1 .. Len(eg.batch)
          /\ \A i \in DOMAIN eg.batch : eg.batch[i] \in Nat
      BY WireIs
    <3>2. (eg.batch = <<>>) = (Len(eg.batch) = 0) BY EmptyIs
    <3>3. eg.put \in 1 .. Len(eg.batch) BY <1>1, <1>3, <3>1, <3>2
    <3> QED BY <1>1, <3>1, <3>3 DEF Last
  <2>6. PICK x \in Nat, k \in Nat : x = Last(eg.batch) /\ k = all BY <2>1, <2>5
  <2>7. Wrote(x, k)'
    <3>1. Wrote(eg.batch[eg.put], eg.total + eg.put)
      <4>1. eg.put \in 1 .. eg.put BY <1>t, <2>5
      <4> QED BY <4>1 DEF Accounted
    <3>2. Wrote(x, k) BY <2>5, <2>6, <3>1
    <3>3. k <= all BY <2>1, <2>6
    <3> QED BY <2>2, <3>2, <3>3
  <2>8. \A i \in DOMAIN eg'.log : \/ \E j \in DOMAIN eg.log : eg'.log[i] = eg.log[j]
                                 \/ eg'.log[i] = <<x, k>>
    <3> DEFINE more == Append(eg.log, <<x, k>>)
    <3>1. PICK f \in 1 .. Len(eg.log) + 1 : eg'.log = SubSeq(more, f, Len(eg.log) + 1)
      <4>1. eg.batch \in Seq(Nat) /\ eg.total + Len(eg.batch) = k /\ k \in Nat
        BY <1>1, <2>6 DEF Types, Egresses
      <4>2. \E f \in 1 .. Len(eg.log) + 1 : Logged(eg.log, k) = SubSeq(more, f, Len(eg.log) + 1)
        BY <1>3, <1>t, <2>6, <4>1, LoggedIs
      <4>3. eg'.log = Logged(eg.log, k) BY <1>1, <1>3, <4>1
      <4> QED BY <4>2, <4>3
    <3>2. /\ more \in Seq(Entry) /\ Len(more) = Len(eg.log) + 1 /\ more[Len(eg.log) + 1] = <<x, k>>
          /\ \A i \in 1 .. Len(eg.log) : more[i] = eg.log[i]
      <4>1. <<x, k>> \in Entry BY DEF Entry
      <4> QED BY <1>t, <4>1, AppendIs
    <3> HIDE DEF more
    <3>3. ASSUME NEW i \in DOMAIN eg'.log PROVE \E j \in 1 .. Len(eg.log) + 1 : eg'.log[i] = more[j]
      <4>1. i \in 1 .. (Len(eg.log) + 1) - f + 1 /\ eg'.log[i] = more[f + i - 1] BY <1>t, <3>1, <3>2, SMTT(30)
      <4>2. f + i - 1 \in 1 .. Len(eg.log) + 1 BY <1>t, <4>1, SMTT(30)
      <4> QED BY <4>1, <4>2
    <3>4. \A j \in 1 .. Len(eg.log) + 1 : j \in 1 .. Len(eg.log) \/ j = Len(eg.log) + 1 BY <1>t
    <3> QED BY <1>t, <3>2, <3>3, <3>4
  <2>9. ASSUME NEW i \in DOMAIN eg'.log
        PROVE  eg'.log[i][2] <= eg'.total /\ Wrote(eg.log[i][1], eg.log[i][2])'
    <3>1. CASE \E j \in DOMAIN eg.log : eg'.log[i] = eg.log[j]
      <4>1. PICK j \in DOMAIN eg.log : eg'.log[i] = eg.log[j] BY <3>1
      <4>2. PICK m \in Nat, n \in Nat : m = eg.log[j][1] /\ n = eg.log[j][2] BY <1>t
      <4>3. n <= eg.total /\ Wrote(m, n) BY <4>2 DEF Accounted
      <4>4. n <= all BY <1>t, <4>3
      <4>5. Wrote(m, n)' BY <2>2, <4>3, <4>4
      <4>6. m = eg'.log[i][1] /\ n = eg'.log[i][2] BY <4>1, <4>2
      <4> QED BY <2>1, <4>4, <4>5, <4>6
    <3>2. CASE eg'.log[i] = <<x, k>>
      <4>1. x = eg'.log[i][1] /\ k = eg'.log[i][2] BY <3>2
      <4>2. k <= eg'.total BY <2>1, <2>6
      <4> QED BY <2>7, <4>1, <4>2
    <3> QED BY <2>8, <3>1, <3>2
  <2> QED BY <2>3, <2>4, <2>9 DEF Accounted
<1> QED BY <1>2, <1>3

(* Steps of the egress that begin, end or give up a connection.            *)
Turning == TakeStart \/ StopUnconnected \/ ConnectOk \/ ConnectFails \/ BackoffOver \/ Publish
             \/ CutReset \/ Fail \/ Ending
LEMMA TurningDoes ==
  ASSUME Types, NothingYet, Turning
  PROVE  /\ eg'.log = <<>> /\ eg'.total = 0 /\ eg'.put = 0 /\ eg'.last = None /\ eg'.batch = <<>>
         /\ os'.wire = <<>> /\ os'.flight = <<>>
         /\ hist'.acked = hist.acked /\ hist'.left = hist.left /\ hist'.wrote = hist.wrote
         /\ hist'.tail \in {0, hist.tail}
<1>h. LET h == [hist EXCEPT !.done = {}, !.back = core.base - 1]
          g == [hist EXCEPT !.done = {}]
      IN /\ h.acked = hist.acked /\ h.left = hist.left /\ h.wrote = hist.wrote /\ h.tail = hist.tail
         /\ g.acked = hist.acked /\ g.left = hist.left /\ g.wrote = hist.wrote /\ g.tail = hist.tail
  BY DEF Types
<1>1. CASE CutReset \/ Fail \/ Ending
  <2>1. \/ hist' = [hist EXCEPT !.done = {}, !.back = core.base - 1]
        \/ hist' = [hist EXCEPT !.done = {}]
    BY <1>1, OverDoes
  <2>2. /\ hist'.acked = hist.acked /\ hist'.left = hist.left /\ hist'.wrote = hist.wrote
        /\ hist'.tail = hist.tail
    BY <1>h, <2>1
  <2>3. /\ eg'.log = <<>> /\ eg'.total = 0 /\ eg'.put = 0 /\ eg'.last = None /\ eg'.batch = <<>>
        /\ os'.wire = <<>> /\ os'.flight = <<>>
    BY <1>1, OverIs
  <2> QED BY <2>2, <2>3
<1>2. CASE ~(CutReset \/ Fail \/ Ending)
  <2>1. eg.phase \in {"Idle", "Connecting", "Backoff", "Waiting"} /\ os' = os
    BY <1>2, EgressDoes DEF Turning
  <2>2. os'.wire = <<>> /\ os'.flight = <<>> BY <2>1 DEF NothingYet, OnConnection
  <2>3. eg'.log = <<>> /\ eg'.total = 0 /\ eg'.put = 0 /\ eg'.last = None /\ eg'.batch = <<>>
    <3>1. CASE Publish BY <3>1, EgressDoes
    <3>2. CASE ~Publish
      <4>1. \E p : eg' = In(p) BY <1>2, <3>2, EgressDoes DEF Turning
      <4> QED BY <4>1, InIs
    <3> QED BY <3>1, <3>2
  <2>4. hist' = hist \/ hist' = [hist EXCEPT !.back = core.base - 1] \/ Publish
    BY <1>2, EgressDoes DEF Turning
  <2>5. LET h == [hist EXCEPT !.back = core.base - 1]
        IN h.acked = hist.acked /\ h.left = hist.left /\ h.wrote = hist.wrote /\ h.tail = hist.tail
    BY DEF Types
  <2>6. /\ hist'.acked = hist.acked /\ hist'.left = hist.left /\ hist'.wrote = hist.wrote
        /\ hist'.tail \in {0, hist.tail}
    BY <2>4, <2>5, EgressDoes
  <2> QED BY <2>2, <2>3, <2>6
<1> QED BY <1>1, <1>2

(* The other steps of the egress that write nothing.                       *)
LEMMA QuietDoes ==
  ASSUME Types, CutUnconnected \/ CutLive \/ DropQueued \/ StopLive
  PROVE  /\ eg'.log = eg.log /\ eg'.total = eg.total /\ eg'.put = eg.put /\ eg'.last = eg.last
         /\ eg'.batch = eg.batch /\ os' = os
         /\ hist'.acked = hist.acked /\ hist'.left = hist.left /\ hist'.tail = hist.tail
         /\ hist'.wrote = hist.wrote
<1>1. hist' = hist \/ hist' = [hist EXCEPT !.back = core.base - 1] BY EgressDoes
<1>2. LET h == [hist EXCEPT !.back = core.base - 1]
      IN h.acked = hist.acked /\ h.left = hist.left /\ h.wrote = hist.wrote /\ h.tail = hist.tail
  BY DEF Types
<1>3. os' = os /\ (eg' = eg \/ eg' = [eg EXCEPT !.phase = "Closing"]) BY EgressDoes
<1> QED BY <1>1, <1>2, <1>3 DEF Types, Egresses

LEMMA LingerDoes ==
  ASSUME Types, Linger
  PROVE  /\ os'.wire = os.wire /\ os'.flight = os.flight /\ eg' = eg /\ core' = core
         /\ hist'.acked = hist.acked /\ hist.left \subseteq hist'.left /\ hist'.tail = hist.tail
BY DEF Linger, Types

LEMMA AccountedNext ==
  ASSUME OutletInv, Accounted, [Next]_vars
  PROVE  Accounted'
<1>i. Types /\ Types' /\ NothingYet BY TypesNext DEF OutletInv
<1>t. HeldNow \in Nat /\ eg.put \in Nat /\ eg.total \in Nat BY <1>i, HeldTypes
<1>s. ASSUME os'.wire = os.wire, os'.flight = os.flight, hist'.acked = hist.acked,
             eg'.log = eg.log, eg'.total = eg.total, eg'.put = eg.put, eg'.batch = eg.batch \/ eg.put = 0
      PROVE  Accounted'
  <2>1. /\ HeldNow' = HeldNow
        /\ \A m, n \in Nat : n <= eg.total + eg.put /\ Wrote(m, n) => Wrote(m, n)'
    BY <1>i, <1>s, SameHeld
  <2>2. HeldNow' <= HeldNow BY <1>t, <2>1
  <2> QED BY <1>i, <1>s, <2>1, <2>2, Carried
<1>1. CASE Core
  <2>1. /\ os' = os /\ hist'.acked = hist.acked /\ eg'.log = eg.log /\ eg'.total = eg.total
        /\ eg'.put = eg.put /\ eg'.batch = eg.batch
    BY <1>1, <1>i, CoreDoes
  <2> QED BY <1>s, <2>1
<1>2. CASE Turning BY <1>2, <1>i, TurningDoes, NoneHeld
<1>3. CASE CutUnconnected \/ CutLive \/ DropQueued \/ StopLive BY <1>3, <1>i, <1>s, QuietDoes
<1>4. CASE TakeBatch
  <2>1. /\ eg.phase = "Live" /\ os' = os /\ hist' = hist /\ eg'.log = eg.log /\ eg'.total = eg.total
        /\ eg'.put = 0
    BY <1>4, <1>i, BatchDoes
  <2>2. eg.put = 0 BY <1>i, <2>1 DEF NothingYet
  <2> QED BY <1>s, <2>1, <2>2
<1>5. CASE Accept BY <1>5, <1>i, AcceptHolds
<1>6. CASE BatchDone BY <1>6, <1>i, DoneHolds
<1>7. CASE Leave
  <2>1. HeldNow' = HeldNow /\ Gone' = Gone /\ \A i \in 1 .. HeldNow : Oldest(i)' = Oldest(i)
    BY <1>7, <1>i, LeaveHolds
  <2>2. eg' = eg /\ hist'.acked = hist.acked BY <1>7, <1>i, BatchDoes
  <2>3. \A m, n \in Nat : n <= eg.total + eg.put /\ Wrote(m, n) => Wrote(m, n)'
    <3>1. Gone' = Gone + 0
      <4>1. Gone \in Int BY <1>i, HeldTypes
      <4> QED BY <2>1, <4>1
    <3>2. \A i \in 1 .. HeldNow : i - 0 = i BY <1>t
    <3>3. ASSUME NEW i \in 1 .. HeldNow PROVE Oldest(i - 0)' = Oldest(i) BY <2>1, <3>2
    <3>4. HeldNow <= eg.total + eg.put BY DEF Accounted
    <3> QED BY <1>i, <2>2, <3>1, <3>3, <3>4, StaysWritten
  <2>4. HeldNow' <= HeldNow BY <1>t, <2>1
  <2> QED BY <1>i, <2>2, <2>3, <2>4, Carried
<1>8. CASE Acknowledge
  <2>1. /\ HeldNow' = HeldNow - 1 /\ Gone' = Gone + 1
        /\ \A i \in 2 .. HeldNow : Oldest(i - 1)' = Oldest(i)
        /\ hist'.acked = hist.acked \cup {Oldest(1)}
    BY <1>8, <1>i, AcknowledgeHolds
  <2>2. eg' = eg BY <1>8, <1>i, BatchDoes
  <2>3. \A m, n \in Nat : n <= eg.total + eg.put /\ Wrote(m, n) => Wrote(m, n)'
    <3>1. \A i \in 1 .. HeldNow : i > 1 => i \in 2 .. HeldNow BY <1>t
    <3>2. \A i \in 1 .. HeldNow : i > 1 => Oldest(i - 1)' = Oldest(i) BY <2>1, <3>1
    <3>3. HeldNow <= eg.total + eg.put BY DEF Accounted
    <3> QED BY <1>i, <2>1, <3>2, <3>3, StaysWritten
  <2>4. HeldNow' <= HeldNow BY <1>t, <2>1
  <2> QED BY <1>i, <2>2, <2>3, <2>4, Carried
<1>9. CASE Linger BY <1>9, <1>i, <1>s, LingerDoes
<1>10. CASE UNCHANGED vars BY <1>10, <1>s DEF vars
<1> QED BY <1>1, <1>2, <1>3, <1>4, <1>5, <1>6, <1>7, <1>8, <1>9, <1>10 DEF Next, Egress, Turning, Ending

LEMMA HasLeftNext ==
  ASSUME OutletInv, HasLeft, [Next]_vars
  PROVE  HasLeft'
<1>i. Types /\ Types' /\ NothingYet BY TypesNext DEF OutletInv
<1>l. /\ hist.acked \subseteq hist.left
      /\ \A i \in DOMAIN os.flight : os.flight[i] \in hist.left
      /\ hist.tail # 0 => hist.tail \in hist.left
  BY DEF HasLeft
<1>s. ASSUME os'.flight = os.flight \/ os'.flight = <<>>, hist'.acked = hist.acked,
             hist.left \subseteq hist'.left, hist'.tail \in {0, hist.tail}
      PROVE  HasLeft'
  <2>1. \A i \in DOMAIN os'.flight : i \in DOMAIN os.flight /\ os'.flight[i] = os.flight[i] BY <1>s
  <2> QED BY <1>l, <1>s, <2>1 DEF HasLeft
<1>1. CASE Core
  <2>1. os' = os /\ hist'.acked = hist.acked /\ hist'.left = hist.left /\ hist'.tail = hist.tail
    BY <1>1, <1>i, CoreDoes
  <2> QED BY <1>s, <2>1
<1>2. CASE Turning BY <1>2, <1>i, <1>s, TurningDoes
<1>3. CASE CutUnconnected \/ CutLive \/ DropQueued \/ StopLive BY <1>3, <1>i, <1>s, QuietDoes
<1>4. CASE TakeBatch \/ Accept \/ BatchDone
  <2>1. os'.flight = os.flight /\ hist'.acked = hist.acked /\ hist'.left = hist.left /\ hist'.tail = hist.tail
    BY <1>4, <1>i, BatchDoes
  <2> QED BY <1>s, <2>1
<1>5. CASE Leave
  <2>1. /\ os.wire # <<>> /\ os'.flight = Append(os.flight, Head(os.wire)) /\ hist'.acked = hist.acked
        /\ hist'.left = hist.left \cup {Head(os.wire)} /\ hist'.tail = Head(os.wire)
    BY <1>5, <1>i, BatchDoes DEF Leave, Types
  <2>2. os.flight \in Seq(Nat) /\ os.wire \in Seq(Nat) BY <1>i DEF Types
  <2>3. PICK x \in Nat : x = Head(os.wire) BY <2>1, <2>2
  <2>4. \A i \in DOMAIN os'.flight : (i \in DOMAIN os.flight /\ os'.flight[i] = os.flight[i]) \/ os'.flight[i] = x
    <3>1. os'.flight = Append(os.flight, x) BY <2>1, <2>3
    <3> QED BY <2>2, <3>1
  <2> QED BY <1>l, <2>1, <2>3, <2>4 DEF HasLeft
<1>6. CASE Acknowledge
  <2>1. /\ os.flight # <<>> /\ os'.flight = Tail(os.flight) /\ hist'.acked = hist.acked \cup {Head(os.flight)}
        /\ hist'.left = hist.left /\ hist'.tail = hist.tail
    BY <1>6, <1>i DEF Acknowledge, Types
  <2>2. os.flight \in Seq(Nat) BY <1>i DEF Types
  <2>3. Head(os.flight) = os.flight[1] /\ 1 \in DOMAIN os.flight BY <2>1, <2>2
  <2>4. \A i \in DOMAIN os'.flight : i + 1 \in DOMAIN os.flight /\ os'.flight[i] = os.flight[i + 1]
    BY <2>1, <2>2
  <2> QED BY <1>l, <2>1, <2>3, <2>4 DEF HasLeft
<1>7. CASE Linger BY <1>7, <1>i, <1>s, LingerDoes
<1>8. CASE UNCHANGED vars BY <1>8, <1>l DEF vars, HasLeft
<1> QED BY <1>1, <1>2, <1>3, <1>4, <1>5, <1>6, <1>7, <1>8 DEF Next, Egress, Turning, Ending

LEMMA LastIsNext ==
  ASSUME OutletInv, LastIs, [Next]_vars
  PROVE  LastIs'
<1>i. Types /\ Types' /\ NothingYet /\ Sending BY TypesNext DEF OutletInv
<1>t. /\ Len(os.wire) \in Nat /\ DOMAIN os.wire = 1 .. Len(os.wire)
      /\ \A i \in DOMAIN os.wire : os.wire[i] \in Nat
      /\ Len(eg.batch) \in Nat /\ DOMAIN eg.batch = 1 .. Len(eg.batch)
      /\ \A i \in DOMAIN eg.batch : eg.batch[i] \in Nat
      /\ eg.put \in Nat /\ hist.tail \in Nat /\ hist.back \in Nat /\ eg.last \in Nat
      /\ (os.wire = <<>>) = (Len(os.wire) = 0) /\ (eg.batch = <<>>) = (Len(eg.batch) = 0)
  BY <1>i, WireIs, EmptyIs DEF Types, Egresses
<1>n. ASSUME eg'.last = None PROVE LastIs' BY <1>n DEF LastIs
<1>s. ASSUME eg'.last = eg.last, eg'.put = eg.put, eg'.batch = eg.batch \/ eg.put = 0,
             os'.wire = os.wire, hist'.tail = hist.tail
      PROVE  LastIs'
  BY <1>s DEF LastIs
<1>w. os.wire # <<>> => os.wire[Len(os.wire)] = os.wire[1] + Len(os.wire) - 1
  <2>1. os.wire # <<>> => Len(os.wire) \in DOMAIN os.wire BY <1>t
  <2>2. InRow(os.wire) BY <1>i DEF Sending
  <2> QED BY <2>1, <2>2 DEF InRow
<1>b. eg.batch # <<>> => eg.batch[Len(eg.batch)] = eg.batch[1] + Len(eg.batch) - 1
  <2>1. eg.batch # <<>> => Len(eg.batch) \in DOMAIN eg.batch BY <1>t
  <2>2. InRow(eg.batch) BY <1>i DEF Sending
  <2> QED BY <2>1, <2>2 DEF InRow
<1>1. CASE Core
  <2>1. eg'.last = eg.last /\ eg'.put = eg.put /\ eg'.batch = eg.batch /\ os' = os /\ hist'.tail = hist.tail
    BY <1>1, <1>i, CoreDoes
  <2> QED BY <1>s, <2>1
<1>2. CASE Turning BY <1>2, <1>i, <1>n, TurningDoes
<1>3. CASE CutUnconnected \/ CutLive \/ DropQueued \/ StopLive BY <1>3, <1>i, <1>s, QuietDoes
<1>4. CASE TakeBatch
  <2>1. eg.phase = "Live" /\ os' = os /\ hist' = hist /\ eg'.last = eg.last /\ eg'.put = 0
    BY <1>4, <1>i, BatchDoes
  <2>2. eg.put = 0 BY <1>i, <2>1 DEF NothingYet
  <2> QED BY <1>s, <2>1, <2>2
<1>5. CASE Accept
  <2>1. /\ eg.put < Len(eg.batch) /\ eg'.put = eg.put + 1 /\ eg'.batch = eg.batch /\ eg'.last = eg.last
    BY <1>5, <1>i, BatchDoes
  <2>2. eg.batch # <<>> /\ eg'.put # 0 BY <1>t, <2>1
  <2>3. ASSUME eg.last # None PROVE eg.last < eg.batch[1]
    <3>1. CASE eg.put # 0 BY <2>3, <3>1 DEF LastIs
    <3>2. CASE eg.put = 0 /\ os.wire # <<>>
      <4>1. eg.last = os.wire[1] + Len(os.wire) - 1 BY <1>w, <2>3, <3>2 DEF LastIs
      <4>2. eg.batch[1] + eg.put = os.wire[1] + Len(os.wire) BY <1>i, <2>2, <3>2 DEF Sending
      <4>3. 1 \in DOMAIN os.wire /\ 1 \in DOMAIN eg.batch BY <1>t, <2>2, <3>2
      <4>4. os.wire[1] \in Nat /\ eg.batch[1] \in Nat BY <1>t, <4>3
      <4> QED BY <1>t, <3>2, <4>1, <4>2, <4>4, SMTT(30)
    <3>3. CASE eg.put = 0 /\ os.wire = <<>>
      <4>1. eg.last = hist.tail /\ hist.tail # 0 BY <2>3, <3>3 DEF LastIs, None
      <4>2. After(hist.tail) = eg.batch[1] + eg.put BY <1>i, <2>2, <3>3, <4>1 DEF Sending
      <4>3. After(hist.tail) > hist.tail BY <1>t DEF After, Greater
      <4>4. eg.batch[1] \in Nat
        <5>1. 1 \in DOMAIN eg.batch BY <1>t, <2>2
        <5> QED BY <1>t, <5>1
      <4> QED BY <1>t, <3>3, <4>1, <4>2, <4>3, <4>4
    <3> QED BY <3>1, <3>2, <3>3
  <2> QED BY <2>1, <2>2, <2>3 DEF LastIs
<1>6. CASE BatchDone
  <2>1. /\ eg.put = Len(eg.batch) /\ eg'.put = 0 /\ os' = os /\ hist'.tail = hist.tail
        /\ eg.batch = <<>> => eg'.last = eg.last
        /\ eg.batch # <<>> => eg'.last = Last(eg.batch)
    BY <1>6, <1>i, BatchDoes
  <2>2. CASE eg.batch = <<>>
    <3>1. eg.put = 0 BY <1>t, <2>1, <2>2
    <3> QED BY <2>1, <2>2, <3>1 DEF LastIs
  <2>3. CASE eg.batch # <<>>
    <3>1. eg'.last = eg.batch[1] + Len(eg.batch) - 1 /\ eg.put # 0 BY <1>b, <1>t, <2>1, <2>3 DEF Last
    <3>2. 1 \in DOMAIN eg.batch BY <1>t, <2>3
    <3>3. eg.batch[1] \in Nat BY <1>t, <3>2
    <3>4. ASSUME os.wire # <<>> PROVE eg'.last = os.wire[Len(os.wire)]
      <4>1. os.wire[1] + Len(os.wire) = eg.batch[1] + eg.put BY <1>i, <2>3, <3>4 DEF Sending
      <4>2. 1 \in DOMAIN os.wire BY <1>t, <3>4
      <4>3. os.wire[1] \in Nat BY <1>t, <4>2
      <4>4. os.wire[Len(os.wire)] = os.wire[1] + Len(os.wire) - 1 BY <1>w, <3>4
      <4>6. eg'.last \in Nat /\ eg'.last = eg.batch[1] + Len(eg.batch) - 1
            /\ os.wire[1] + Len(os.wire) = eg.batch[1] + Len(eg.batch)
        BY <1>i, <2>1, <3>1, <4>1 DEF Types, Egresses
      <4> DEFINE a == os.wire[1]
                 b == eg.batch[1]
                 l == Len(os.wire)
                 n == Len(eg.batch)
      <4>8. a \in Nat /\ b \in Nat /\ l \in Nat /\ n \in Nat BY <1>t, <3>3, <4>3
      <4>9. eg'.last = b + n - 1 /\ a + l = b + n BY <4>6
      <4>7. eg'.last = a + l - 1
        <5> HIDE DEF a, b, l, n
        <5> QED BY ONLY <4>8, <4>9
      <4> QED BY <4>4, <4>7
    <3>5. ASSUME os.wire = <<>> PROVE eg'.last = hist.tail
      <4>1. hist.tail # 0 BY <1>i, <2>3, <3>1, <3>5 DEF Sending
      <4>2. After(hist.tail) = eg.batch[1] + Len(eg.batch) BY <1>i, <2>1, <2>3, <3>5, <4>1 DEF Sending
      <4>3. After(hist.tail) = 1 + hist.tail \/ After(hist.tail) = 1 + hist.back BY DEF After, Greater
      <4>4. hist.back < eg.batch[Len(eg.batch)]
        <5>1. Len(eg.batch) \in DOMAIN eg.batch BY <1>t, <2>3
        <5> QED BY <1>i, <5>1 DEF Sending, Between
      <4>5. hist.back < eg.batch[1] + Len(eg.batch) - 1 BY <1>b, <2>3, <4>4
      <4>6. \A a, b, k, n, t \in Nat : /\ 1 + t = b + n \/ 1 + a = b + n
                                     /\ a < b + n - 1 /\ k = b + n - 1
                                     => k = t
        OBVIOUS
      <4>7. /\ 1 + hist.tail = eg.batch[1] + Len(eg.batch) \/ 1 + hist.back = eg.batch[1] + Len(eg.batch)
            /\ eg'.last \in Nat
        BY <1>i, <4>2, <4>3 DEF Types, Egresses
      <4> QED BY <1>t, <3>1, <3>3, <4>5, <4>6, <4>7, SMTT(30)
    <3> QED BY <2>1, <3>4, <3>5 DEF LastIs
  <2> QED BY <2>2, <2>3
<1>7. CASE Leave
  <2>1. os.wire # <<>> /\ os'.wire = Tail(os.wire) /\ hist'.tail = Head(os.wire) /\ eg' = eg
    BY <1>7, <1>i, BatchDoes
  <2>2. os.wire \in Seq(Nat) BY <1>i DEF Types
  <2>3. /\ Len(os'.wire) = Len(os.wire) - 1 /\ Head(os.wire) = os.wire[1]
        /\ \A i \in 1 .. Len(os.wire) - 1 : os'.wire[i] = os.wire[i + 1]
    BY <2>1, <2>2, TailIs
  <2>4. (os'.wire = <<>>) = (Len(os'.wire) = 0) BY <1>i, EmptyIs
  <2>5. ASSUME os'.wire = <<>> PROVE os.wire[Len(os.wire)] = hist'.tail
    <3>1. Len(os.wire) = 1 BY <1>t, <2>3, <2>4, <2>5
    <3> QED BY <2>1, <2>3, <3>1
  <2>6. ASSUME os'.wire # <<>> PROVE os'.wire[Len(os'.wire)] = os.wire[Len(os.wire)]
    <3>1. Len(os.wire) - 1 \in 1 .. Len(os.wire) - 1 /\ (Len(os.wire) - 1) + 1 = Len(os.wire)
      BY <1>t, <2>1, <2>3, <2>4, <2>6
    <3> QED BY <2>3, <3>1
  <2> QED BY <2>1, <2>5, <2>6 DEF LastIs
<1>8. CASE Acknowledge
  <2>1. os'.wire = os.wire /\ hist'.tail = hist.tail /\ eg' = eg BY <1>8, <1>i, BatchDoes
  <2> QED BY <1>s, <2>1
<1>9. CASE Linger BY <1>9, <1>i, <1>s, LingerDoes
<1>10. CASE UNCHANGED vars BY <1>10, <1>s DEF vars
<1> QED BY <1>1, <1>2, <1>3, <1>4, <1>5, <1>6, <1>7, <1>8, <1>9, <1>10 DEF Next, Egress, Turning, Ending

(* What is surely sent was acknowledged: the system holds no more than it  *)
(* is taken to hold.                                                       *)
LEMMA SurelyAcked ==
  ASSUME Types, Accounted, NEW blind \in Blind, SurelySent(Held(blind)) # None
  PROVE  SurelySent(Held(blind)) \in hist.acked
<1>t. /\ Len(os.flight) \in Nat /\ Len(os.wire) \in Nat /\ HeldNow \in Nat
      /\ eg.total \in Nat /\ eg.put \in Nat
      /\ Gone = (eg.total + eg.put) - HeldNow
      /\ eg.log \in Seq(Entry) /\ DOMAIN eg.log = 1 .. Len(eg.log) /\ Len(eg.log) \in Nat
      /\ \A i \in DOMAIN eg.log : eg.log[i][1] \in Nat /\ eg.log[i][2] \in Nat
  BY HeldTypes
<1>h. Held(blind) \in Nat /\ Held(blind) >= HeldNow
  <2>1. \A k, l \in Nat : k + l \in Nat /\ k + l = l + k OBVIOUS
  <2>2. HeldNow = Len(os.wire) + Len(os.flight) BY <1>t, <2>1 DEF HeldNow
  <2>3. HeldNow <= OsHolds BY DEF Accounted
  <2>4. Held(blind) \in {HeldAtMost, HeldNow} BY <2>2 DEF Held
  <2> QED BY <1>t, <2>3, <2>4, Constants
<1> DEFINE u == Held(blind)
           sent == {i \in DOMAIN eg.log : eg.log[i][2] + u <= eg.total}
<1>1. sent # {} /\ SurelySent(u) = eg.log[Max(sent)][1] BY DEF SurelySent
<1>2. Max(sent) \in sent
  <2>1. sent \subseteq 1 .. Len(eg.log) BY <1>t
  <2> HIDE DEF sent
  <2> QED BY <1>1, <1>t, <2>1, Ends1
<1>3. PICK i \in DOMAIN eg.log : i = Max(sent) /\ eg.log[i][2] + u <= eg.total BY <1>2
<1>4. eg.log[i][2] <= Gone
  <2> DEFINE n == eg.log[i][2]
  <2>1. n \in Nat /\ n + u <= eg.total BY <1>3, <1>t
  <2>2. u \in Nat /\ u >= HeldNow BY <1>h
  <2> HIDE DEF n, u
  <2> QED BY <1>t, <2>1, <2>2, SMTT(30) DEF n
<1>5. Wrote(eg.log[i][1], eg.log[i][2]) BY DEF Accounted
<1>6. eg.log[i][1] \in hist.acked BY <1>4, <1>5 DEF Wrote
<1> QED BY <1>1, <1>3, <1>6

LEMMA AnsweredNext ==
  ASSUME OutletInv, AnswerInv, [Next]_vars
  PROVE  Answered'
<1>i. Types /\ Types' /\ NothingYet /\ Accounted /\ HasLeft /\ LastIs BY TypesNext DEF OutletInv, AnswerInv
<1>a. \A i \in DOMAIN events : IsAnswer(events[i]) /\ events[i].delivered # None
        => events[i].delivered \in IF events[i].reset THEN hist.acked ELSE hist.left
  BY DEF AnswerInv, Answered
<1>s. ASSUME hist.acked \subseteq hist'.acked, hist.left \subseteq hist'.left,
             \A i \in DOMAIN events' : \/ \E j \in DOMAIN events : events'[i] = events[j]
                                       \/ IsAnswer(events'[i]) /\ events'[i].delivered # None
                                            => events'[i].delivered \in IF events'[i].reset THEN hist.acked ELSE hist.left
      PROVE  Answered'
  BY <1>a, <1>s DEF Answered
<1>1. CASE Core
  <2>1. hist'.acked = hist.acked /\ hist'.left = hist.left BY <1>1, <1>i, CoreDoes
  <2>2. CASE HandleEvent
    <3>1. \A i \in DOMAIN events' : events'[i] = events[i + 1] /\ i + 1 \in DOMAIN events
      BY <1>i, <2>2, EventsTail
    <3> QED BY <1>s, <2>1, <3>1
  <2>3. CASE ~HandleEvent
    <3>1. events' = events BY <1>1, <1>i, <2>3, EmitDoes, EndDoes, PlainDoes, CheckDoes, UnlinkedDoes DEF Core
    <3> QED BY <1>s, <2>1, <3>1
  <2> QED BY <2>2, <2>3
<1>2. CASE Egress \/ Leave \/ Acknowledge \/ Linger
  <2>1. hist.acked \subseteq hist'.acked /\ hist.left \subseteq hist'.left
    <3>1. CASE Turning BY <1>i, <3>1, TurningDoes
    <3>2. CASE CutUnconnected \/ CutLive \/ DropQueued \/ StopLive BY <1>i, <3>2, QuietDoes
    <3>3. CASE TakeBatch \/ Accept \/ BatchDone \/ Leave BY <1>i, <3>3, BatchDoes
    <3>4. CASE Acknowledge BY <1>i, <3>4 DEF Acknowledge, Types
    <3>5. CASE Linger BY <1>i, <3>5, LingerDoes
    <3> QED BY <1>2, <3>1, <3>2, <3>3, <3>4, <3>5 DEF Egress, Turning, Ending
  <2>2. ASSUME NEW i \in DOMAIN events', i \notin DOMAIN events, IsAnswer(events'[i]), events'[i].delivered # None
        PROVE  events'[i].delivered \in IF events'[i].reset THEN hist.acked ELSE hist.left
    <3>1. \/ CutUnconnected /\ events'[i].delivered = None
          \/ CutLive /\ ~events'[i].reset /\ events'[i].delivered = eg.last
          \/ CutReset /\ events'[i].reset
               /\ \E blind \in Blind : events'[i].delivered = SurelySent(Held(blind))
      BY <1>2, <1>i, <2>2, EventsMove DEF IsAnswer
    <3>2. CASE CutLive /\ ~events'[i].reset /\ events'[i].delivered = eg.last
      <4>1. eg.phase = "Live" /\ os.wire = <<>> BY <1>i, <3>2, EgressDoes
      <4>2. eg.put = 0 BY <1>i, <4>1 DEF NothingYet
      <4>3. eg.last = hist.tail /\ hist.tail # 0 BY <1>i, <2>2, <3>2, <4>1, <4>2 DEF LastIs, None
      <4> QED BY <1>i, <3>2, <4>3 DEF HasLeft
    <3>3. CASE CutReset /\ events'[i].reset
                 /\ \E blind \in Blind : events'[i].delivered = SurelySent(Held(blind))
      BY <1>i, <2>2, <3>3, SurelyAcked
    <3> QED BY <2>2, <3>1, <3>2, <3>3
  <2>3. \A i \in DOMAIN events : i \in DOMAIN events' /\ events'[i] = events[i] BY <1>2, <1>i, EventsMove
  <2>4. ASSUME NEW i \in DOMAIN events'
        PROVE  \/ \E j \in DOMAIN events : events'[i] = events[j]
               \/ IsAnswer(events'[i]) /\ events'[i].delivered # None
                    => events'[i].delivered \in IF events'[i].reset THEN hist.acked ELSE hist.left
    BY <2>2, <2>3
  <2> QED BY <1>s, <2>1, <2>4
<1>3. CASE UNCHANGED vars BY <1>3, <1>a DEF vars, Answered
<1> QED BY <1>1, <1>2, <1>3 DEF Next

LEMMA AnswerInvInit == Init => AnswerInv
<1> SUFFICES ASSUME Init PROVE AnswerInv OBVIOUS
<1>1. /\ os.wire = <<>> /\ os.flight = <<>> /\ events = <<>> /\ eg = In("Idle")
      /\ hist.acked = {} /\ hist.left = {} /\ hist.tail = 0
  BY DEF Init, HistInit
<1>2. eg.log = <<>> /\ eg.total = 0 /\ eg.put = 0 /\ eg.last = None BY <1>1, InIs
<1>3. HeldNow = 0 /\ OsHolds \in Nat BY <1>1, Constants DEF HeldNow
<1>4. DOMAIN eg.log = {} /\ 1 .. eg.put = {} /\ DOMAIN os.flight = {} /\ DOMAIN events = {} BY <1>1, <1>2
<1>5. Accounted BY <1>2, <1>3, <1>4 DEF Accounted
<1> QED BY <1>1, <1>2, <1>4, <1>5 DEF AnswerInv, HasLeft, LastIs, Answered

LEMMA AnswerInvNext == OutletInv /\ AnswerInv /\ [Next]_vars => AnswerInv'
<1> SUFFICES ASSUME OutletInv, AnswerInv, [Next]_vars PROVE AnswerInv' OBVIOUS
<1>1. Accounted' /\ HasLeft' /\ LastIs' BY AccountedNext, HasLeftNext, LastIsNext DEF AnswerInv
<1>2. Answered' BY AnsweredNext
<1> QED BY <1>1, <1>2 DEF AnswerInv

(* What an answer to the present dump says the destination has, it has as  *)
(* far as can be known: what was written last has left with nothing        *)
(* waiting, and after a reset what the log says was acknowledged, however  *)
(* much the system held (egress.rs, reset_for_cut and surely_sent).        *)
THEOREM AnswersAreTrue == Spec => []AnswerIsTrue
<1>1. Init => OutletInv /\ AnswerInv BY OutletInvInit, AnswerInvInit
<1>2. OutletInv /\ AnswerInv /\ [Next]_vars => OutletInv' /\ AnswerInv' BY OutletInvNext, AnswerInvNext
<1>3. AnswerInv => AnswerIsTrue BY DEF AnswerInv, Answered, AnswerIsTrue, IsAnswer
<1> QED BY <1>1, <1>2, <1>3, PTL DEF Spec

-----------------------------------------------------------------------------
(* How far back the write log reaches.  Its entries are in order, no       *)
(* further apart than a batch is long, and the last is of all that was     *)
(* written; an entry that was dropped is not needed.                       *)
Ordered(log, last, total) ==
  /\ \A i \in DOMAIN log : log[i][1] <= last
  /\ \A i, j \in DOMAIN log : i <= j => log[i][1] <= log[j][1]
  /\ \A i \in DOMAIN log : i + 1 \in DOMAIN log => log[i + 1][2] <= log[i][2] + Batch
  /\ \A i \in DOMAIN log : i = Len(log) => log[i][2] = total
Known(b, log, total) ==
  \/ \E i \in DOMAIN log : log[i] = b
  \/ 1 \in DOMAIN log /\ b[1] <= log[1][1] /\ log[1][2] + Kept <= total + Batch
Trimmed(new, log, x, t) ==
  \E f \in 1 .. Len(log) + 1 :
    /\ new = SubSeq(Append(log, <<x, t>>), f, Len(log) + 1)
    /\ \A i \in 1 .. f - 1 : ~ (t - Append(log, <<x, t>>)[i][2] <= Kept)

LogInv ==
  /\ Len(eg.batch) <= Batch
  /\ Ordered(eg.log, eg.last, eg.total)
  /\ \A b \in hist.done : Known(b, eg.log, eg.total)

LEMMA LogGrows ==
  ASSUME NEW log \in Seq(Entry), NEW last \in Nat, NEW total \in Nat, NEW x \in Nat, NEW t \in Nat,
         last <= x, total <= t, t <= total + Batch, Ordered(log, last, total),
         NEW new, Trimmed(new, log, x, t)
  PROVE  /\ Ordered(new, x, t) /\ Known(<<x, t>>, new, t)
         /\ \A b \in Entry : Known(b, log, total) => Known(b, new, t)
<1> DEFINE all == Append(log, <<x, t>>)
           n == Len(log) + 1
<1>f. PICK f \in 1 .. Len(log) + 1 : /\ new = SubSeq(all, f, n)
                                     /\ \A i \in 1 .. f - 1 : ~ (t - all[i][2] <= Kept)
  BY DEF Trimmed
<1>c. Batch \in Nat /\ Kept \in Nat BY Constants
<1>e. \A e \in Entry : e[1] \in Nat /\ e[2] \in Nat BY DEF Entry
<1>1. /\ all \in Seq(Entry) /\ Len(all) = n /\ n \in Nat \ {0} /\ all[n] = <<x, t>> /\ <<x, t>> \in Entry
      /\ \A i \in 1 .. n - 1 : all[i] = log[i]
  <2>1. <<x, t>> \in Entry BY DEF Entry
  <2>2. Len(log) \in Nat /\ n - 1 = Len(log) OBVIOUS
  <2> QED BY <2>1, <2>2, AppendIs
<1>2. DOMAIN log = 1 .. n - 1 /\ n - 1 = Len(log) OBVIOUS
<1>3. \A i \in 1 .. n : all[i][1] \in Nat /\ all[i][2] \in Nat
  <2>1. DOMAIN all = 1 .. n BY <1>1
  <2> HIDE DEF all, n
  <2>2. \A i \in 1 .. n : all[i] \in Entry BY <1>1, <2>1
  <2> QED BY <1>e, <2>2
<1>4. all[n][1] = x /\ all[n][2] = t BY <1>1
<1>g. \A i \in 1 .. f - 1 : ~ (t - all[i][2] <= Kept) BY <1>f
<1>m. new = SubSeq(all, f, n) /\ f \in 1 .. n BY <1>f
<1> HIDE DEF all, n
<1>o. /\ \A i \in 1 .. n - 1 : all[i][1] <= last
      /\ \A i, j \in 1 .. n - 1 : i <= j => all[i][1] <= all[j][1]
      /\ \A i \in 1 .. n - 1 : i + 1 \in 1 .. n - 1 => all[i + 1][2] <= all[i][2] + Batch
      /\ \A i \in 1 .. n - 1 : i = n - 1 => all[i][2] = total
  <2>1. \A i \in 1 .. n - 1 : i \in DOMAIN log /\ all[i] = log[i] BY <1>1, <1>2
  <2>2. \A i \in 1 .. n - 1 : all[i][1] <= last BY <2>1 DEF Ordered
  <2>3. \A i, j \in 1 .. n - 1 : i <= j => all[i][1] <= all[j][1] BY <2>1 DEF Ordered
  <2>4. \A i \in 1 .. n - 1 : i + 1 \in 1 .. n - 1 => all[i + 1][2] <= all[i][2] + Batch
    BY <2>1 DEF Ordered
  <2>5. \A i \in 1 .. n - 1 : i = n - 1 => all[i][2] = total BY <1>2, <2>1 DEF Ordered
  <2> QED BY <2>2, <2>3, <2>4, <2>5
<1>5. \A i \in 1 .. n : all[i][1] <= x
  <2>1. \A i \in 1 .. n : i \in 1 .. n - 1 \/ i = n BY <1>1
  <2> QED BY <1>3, <1>4, <1>o, <2>1, SMTT(30)
<1>6. \A i, j \in 1 .. n : i <= j => all[i][1] <= all[j][1]
  <2>1. \A i, j \in 1 .. n : i <= j => (i \in 1 .. n - 1 /\ j \in 1 .. n - 1) \/ j = n BY <1>1
  <2> QED BY <1>4, <1>5, <1>o, <2>1
<1>7. \A i \in 1 .. n : i + 1 \in 1 .. n => all[i + 1][2] <= all[i][2] + Batch
  <2> SUFFICES ASSUME NEW i \in 1 .. n, i + 1 \in 1 .. n PROVE all[i + 1][2] <= all[i][2] + Batch OBVIOUS
  <2>1. CASE i + 1 \in 1 .. n - 1
    <3>1. i \in 1 .. n - 1 BY <1>1, <2>1
    <3> QED BY <1>o, <2>1, <3>1
  <2>2. CASE i + 1 = n
    <3>1. i \in 1 .. n - 1 /\ i = n - 1 BY <1>1, <2>2
    <3>2. all[i][2] = total BY <1>o, <3>1
    <3> QED BY <1>4, <1>c, <2>2, <3>2
  <2> QED BY <1>1, <2>1, <2>2
<1> DEFINE m == n - f + 1
<1>8. /\ Len(new) = m /\ DOMAIN new = 1 .. m /\ \A i \in 1 .. m : new[i] = all[f + i - 1]
      /\ m \in Nat \ {0}
  <2>1. m \in Nat \ {0} BY <1>1, <1>m
  <2>2. all \in Seq(Entry) /\ f \in 1 .. n /\ n \in Nat /\ Len(all) = n BY <1>1, <1>m
  <2>3. Len(SubSeq(all, f, n)) = n - f + 1 BY ONLY <2>2
  <2>4. DOMAIN SubSeq(all, f, n) = 1 .. n - f + 1 BY ONLY <2>2
  <2>5. \A i \in 1 .. n - f + 1 : SubSeq(all, f, n)[i] = all[f + i - 1] BY ONLY <2>2
  <2> QED BY <1>m, <2>1, <2>3, <2>4, <2>5
<1>9. \A i \in 1 .. m : f + i - 1 \in 1 .. n BY <1>1, <1>m
<1> DEFINE at(i) == f + i - 1
<1>10. /\ \A i, j \in 1 .. m : i <= j => at(i) <= at(j)
       /\ \A i \in 1 .. m : at(i + 1) = at(i) + 1
       /\ at(m) = n /\ at(1) = f
  BY <1>1, <1>m
<1>11. \A i \in 1 .. m : new[i] = all[at(i)] /\ at(i) \in 1 .. n BY <1>8, <1>9
<1> HIDE DEF m, at
<1>12. Ordered(new, x, t)
  <2>1. \A i \in DOMAIN new : new[i][1] <= x BY <1>5, <1>8, <1>11
  <2>2. \A i, j \in DOMAIN new : i <= j => new[i][1] <= new[j][1] 
    <3> SUFFICES ASSUME NEW i \in 1 .. m, NEW j \in 1 .. m, i <= j PROVE new[i][1] <= new[j][1] BY <1>8
    <3>1. at(i) <= at(j) /\ at(i) \in 1 .. n /\ at(j) \in 1 .. n BY <1>10, <1>11
    <3>2. all[at(i)][1] <= all[at(j)][1] BY <1>6, <3>1
    <3> QED BY <1>11, <3>2
  <2>3. \A i \in DOMAIN new : i + 1 \in DOMAIN new => new[i + 1][2] <= new[i][2] + Batch
    <3> SUFFICES ASSUME NEW i \in 1 .. m, i + 1 \in 1 .. m PROVE new[i + 1][2] <= new[i][2] + Batch BY <1>8
    <3>1. at(i + 1) = at(i) + 1 /\ at(i) \in 1 .. n /\ at(i + 1) \in 1 .. n BY <1>10, <1>11
    <3>2. all[at(i) + 1][2] <= all[at(i)][2] + Batch BY <1>7, <3>1
    <3> QED BY <1>11, <3>1, <3>2
  <2>4. \A i \in DOMAIN new : i = Len(new) => new[i][2] = t BY <1>4, <1>8, <1>10, <1>11
  <2> QED BY <2>1, <2>2, <2>3, <2>4 DEF Ordered
<1>13. \A k \in f .. n : \E i \in DOMAIN new : new[i] = all[k]
  <2> SUFFICES ASSUME NEW k \in f .. n PROVE \E i \in DOMAIN new : new[i] = all[k] OBVIOUS
  <2>1. k \in Int /\ f \in Int /\ n \in Int /\ f <= k /\ k <= n BY <1>1, <1>m
  <2>2. k - f + 1 \in 1 .. m BY ONLY <2>1 DEF m
  <2>3. at(k - f + 1) = k BY ONLY <2>1 DEF at
  <2> QED BY <1>8, <1>11, <2>2, <2>3
<1>14. Known(<<x, t>>, new, t)
  <2>1. n \in f .. n BY <1>1, <1>m
  <2> QED BY <1>1, <1>13, <2>1 DEF Known
<1>15. 1 \in DOMAIN new /\ new[1] = all[f]
  <2>1. 1 \in 1 .. m BY <1>8
  <2> QED BY <1>8, <1>10, <1>11, <2>1
<1>16. f > 1 => all[f][2] + Kept <= t + Batch
  <2> SUFFICES ASSUME f > 1 PROVE all[f][2] + Kept <= t + Batch OBVIOUS
  <2>1. f - 1 \in 1 .. f - 1 /\ f - 1 \in 1 .. n /\ (f - 1) + 1 = f /\ f \in 1 .. n BY <1>1, <1>m
  <2>2. all[f][2] <= all[f - 1][2] + Batch BY <1>7, <2>1
  <2>3. ~ (t - all[f - 1][2] <= Kept) BY <1>g, <2>1
  <2>4. all[f][2] \in Nat /\ all[f - 1][2] \in Nat BY <1>3, <2>1
  <2> DEFINE a == all[f][2]
             p == all[f - 1][2]
  <2>5. a \in Nat /\ p \in Nat /\ a <= p + Batch /\ ~ (t - p <= Kept) BY <2>2, <2>3, <2>4
  <2>6. a + Kept <= t + Batch
    <3> HIDE DEF a, p
    <3> QED BY ONLY <1>c, <2>5, t \in Nat
  <2> QED BY <2>6
<1>17. ASSUME NEW b \in Entry, Known(b, log, total) PROVE Known(b, new, t)
  <2>1. CASE \E i \in DOMAIN log : log[i] = b
    <3>1. PICK i \in 1 .. n - 1 : log[i] = b BY <1>2, <2>1
    <3>2. all[i] = b /\ i \in 1 .. n BY <1>1, <3>1
    <3>3. CASE i >= f
      <4>1. i \in f .. n BY <1>m, <3>2, <3>3
      <4> QED BY <1>13, <3>2, <4>1 DEF Known
    <3>4. CASE ~ (i >= f)
      <4>1. i <= f /\ f > 1 /\ f \in 1 .. n BY <1>m, <3>2, <3>4
      <4>2. b[1] <= all[f][1] BY <1>6, <3>2, <4>1
      <4> QED BY <1>15, <1>16, <4>1, <4>2 DEF Known
    <3> QED BY <3>3, <3>4
  <2>2. CASE 1 \in DOMAIN log /\ b[1] <= log[1][1] /\ log[1][2] + Kept <= total + Batch
    <3>1. 1 \in 1 .. n - 1 /\ 1 \in 1 .. n /\ f \in 1 .. n /\ 1 <= f BY <1>1, <1>2, <1>m, <2>2
    <3>2. all[1] = log[1] BY <1>1, <3>1
    <3>3. all[1][1] <= all[f][1] BY <1>6, <3>1
    <3>4. b[1] <= all[f][1]
      <4>1. b[1] \in Nat /\ all[1][1] \in Nat /\ all[f][1] \in Nat BY <1>3, <1>e, <3>1
      <4> QED BY <2>2, <3>2, <3>3, <4>1, SMTT(30)
    <3>5. all[f][2] + Kept <= t + Batch
      <4>1. CASE f = 1
        <5>1. all[1][2] \in Nat BY <1>3, <3>1
        <5> QED BY <1>c, <2>2, <3>2, <4>1, <5>1
      <4>2. CASE f > 1 BY <1>16, <4>2
      <4> QED BY <1>m, <4>1, <4>2
    <3> QED BY <1>15, <3>4, <3>5 DEF Known
  <2> QED BY <1>17, <2>1, <2>2 DEF Known
<1> QED BY <1>12, <1>14, <1>17

LEMMA BatchIsShort ==
  ASSUME OutletInv, TakeBatch
  PROVE  Len(eg'.batch) <= Batch
<1>i. Types /\ InTouch /\ LastHere BY DEF OutletInv
<1>1. PICK n \in 1 .. Lesser(Batch, Len(media)) :
        eg' = [eg EXCEPT !.phase = "Writing", !.taken = n, !.put = 0, !.batch = Wants(SubSeq(media, 1, n))]
  BY DEF TakeBatch
<1>2. n \in 1 .. Len(media) /\ n <= Batch BY <1>i, MediaIs, Constants DEF Lesser
<1>3. eg'.batch = Wants(SubSeq(media, 1, n)) BY <1>1, <1>i DEF Types, Egresses
<1>4. PICK k \in 1 .. Len(media) + 1 : FromHere(k) BY <1>i DEF LastHere
<1>5. OnConnection BY DEF TakeBatch, OnConnection
<1>6. Len(eg'.batch) = n + 1 - FirstOf(k, n) BY <1>2, <1>3, <1>4, <1>5, <1>i, Taken
<1>7. FirstOf(k, n) \in 1 .. n + 1 BY <1>2 DEF FirstOf
<1>8. Batch \in Nat BY Constants
<1> HIDE DEF FirstOf
<1> QED BY <1>2, <1>6, <1>7, <1>8

LEMMA LogInvNext ==
  ASSUME OutletInv, LastIs, LogInv, [Next]_vars
  PROVE  LogInv'
<1>i. Types /\ Types' /\ NothingYet BY TypesNext DEF OutletInv
<1>l. /\ Len(eg.batch) <= Batch /\ Ordered(eg.log, eg.last, eg.total)
      /\ \A b \in hist.done : Known(b, eg.log, eg.total)
  BY DEF LogInv
<1>e. Len(<<>>) = 0 /\ DOMAIN <<>> = {} /\ Batch \in Nat \ {0} BY Constants
<1>o. \A l, t : Ordered(<<>>, l, t) BY <1>e DEF Ordered
<1>s. ASSUME eg'.log = eg.log, eg'.last = eg.last, eg'.total = eg.total, hist'.done = hist.done,
             Len(eg'.batch) <= Batch
      PROVE  LogInv'
  <2>1. Ordered(eg.log, eg.last, eg.total)' BY <1>l, <1>s DEF Ordered
  <2>2. \A b \in hist'.done : Known(b, eg'.log, eg'.total) BY <1>l, <1>s
  <2>3. \A b \in hist'.done : Known(b, eg.log, eg.total)' BY <1>l, <1>s DEF Known
  <2> QED BY <1>s, <2>1, <2>3 DEF LogInv
<1>h. LET h == [hist EXCEPT !.done = {}, !.back = core.base - 1]
          g == [hist EXCEPT !.done = {}]
          b == [hist EXCEPT !.back = core'.base - 1]
          c == [hist EXCEPT !.back = core.base - 1]
      IN h.done = {} /\ g.done = {} /\ b.done = hist.done /\ c.done = hist.done
  BY <1>i DEF Types
<1>1. CASE Core
  <2>1. eg'.log = eg.log /\ eg'.last = eg.last /\ eg'.total = eg.total /\ eg'.batch = eg.batch
    BY <1>1, <1>i, CoreDoes
  <2>2. hist' = hist \/ hist' = [hist EXCEPT !.back = core'.base - 1]
    BY <1>1, <1>i, EmitDoes, EndDoes, PlainDoes, CheckDoes, UnlinkedDoes, HandleDoes, CutDoneDoes,
       ConnectedDoes, DisconnectedDoes DEF Core
  <2> QED BY <1>h, <1>l, <1>s, <2>1, <2>2
<1>2. CASE Turning
  <2>1. eg'.log = <<>> /\ eg'.last = None /\ eg'.batch = <<>> BY <1>2, <1>i, TurningDoes
  <2>2. hist'.done = {}
    <3>1. CASE CutReset \/ Fail \/ Ending
      <4>1. \/ hist' = [hist EXCEPT !.done = {}, !.back = core.base - 1]
            \/ hist' = [hist EXCEPT !.done = {}]
        BY <1>i, <3>1, OverDoes
      <4> QED BY <1>h, <4>1
    <3>2. CASE ~(CutReset \/ Fail \/ Ending)
      <4>1. eg.phase \in {"Idle", "Connecting", "Backoff", "Waiting"}
        BY <1>2, <1>i, <3>2, EgressDoes DEF Turning
      <4>2. eg.log = <<>> BY <1>i, <4>1 DEF NothingYet, OnConnection
      <4>3. hist.done = {} BY <1>e, <1>l, <4>2 DEF Known
      <4>4. hist' = hist \/ hist' = [hist EXCEPT !.back = core.base - 1] \/ Publish
        BY <1>2, <1>i, <3>2, EgressDoes DEF Turning
      <4>5. Publish => hist'.done = hist.done BY <1>i DEF Publish, Types
      <4> QED BY <1>h, <4>3, <4>4, <4>5
    <3> QED BY <3>1, <3>2
  <2>3. Ordered(eg.log, eg.last, eg.total)'
    <3>1. DOMAIN eg'.log = {} BY <1>e, <2>1
    <3> QED BY <3>1 DEF Ordered
  <2>4. Len(eg'.batch) <= Batch BY <1>e, <2>1
  <2> QED BY <2>2, <2>3, <2>4 DEF LogInv
<1>3. CASE CutUnconnected \/ CutLive \/ DropQueued \/ StopLive
  <2>1. hist' = hist \/ hist' = [hist EXCEPT !.back = core.base - 1] BY <1>3, <1>i, EgressDoes
  <2> QED BY <1>3, <1>h, <1>i, <1>l, <1>s, <2>1, QuietDoes
<1>4. CASE TakeBatch
  <2>1. eg'.log = eg.log /\ eg'.last = eg.last /\ eg'.total = eg.total /\ hist' = hist
    BY <1>4, <1>i, BatchDoes
  <2> QED BY <1>4, <1>s, <2>1, BatchIsShort
<1>5. CASE Accept
  <2>1. eg'.log = eg.log /\ eg'.last = eg.last /\ eg'.total = eg.total /\ eg'.batch = eg.batch
    BY <1>5, <1>i, BatchDoes
  <2>2. hist'.done = hist.done BY <1>5, <1>i DEF Accept, Types
  <2> QED BY <1>l, <1>s, <2>1, <2>2
<1>6. CASE BatchDone
  <2>1. /\ eg.put = Len(eg.batch) /\ eg'.batch = <<>>
        /\ eg.batch = <<>> => eg'.log = eg.log /\ eg'.total = eg.total /\ eg'.last = eg.last
        /\ eg.batch # <<>> => /\ eg'.total = eg.total + Len(eg.batch) /\ eg'.last = Last(eg.batch)
                              /\ eg'.log = Logged(eg.log, eg.total + Len(eg.batch))
    BY <1>6, <1>i, BatchDoes
  <2>2. Len(eg'.batch) <= Batch BY <1>e, <2>1
  <2>3. CASE eg.batch = <<>>
    <3>1. hist'.done = hist.done BY <1>6, <2>3 DEF BatchDone
    <3> QED BY <1>s, <2>1, <2>2, <2>3, <3>1
  <2>4. CASE eg.batch # <<>>
    <3>1. /\ Len(eg.batch) \in Nat \ {0} /\ Last(eg.batch) \in Nat /\ Last(eg.batch) = eg.batch[Len(eg.batch)]
          /\ eg.batch[1] <= Last(eg.batch) /\ eg.batch[1] \in Nat
      <4>1. Len(eg.batch) \in Nat /\ DOMAIN eg.batch = 1 .. Len(eg.batch)
            /\ \A i \in DOMAIN eg.batch : eg.batch[i] \in Nat
        BY <1>i, WireIs
      <4>2. (eg.batch = <<>>) = (Len(eg.batch) = 0) BY <1>i, EmptyIs
      <4>3. Len(eg.batch) \in DOMAIN eg.batch /\ 1 \in DOMAIN eg.batch BY <2>4, <4>1, <4>2
      <4>4. InRow(eg.batch) BY DEF OutletInv, Sending
      <4>5. eg.batch[Len(eg.batch)] = eg.batch[1] + Len(eg.batch) - 1 BY <4>3, <4>4 DEF InRow
      <4>6. Last(eg.batch) = eg.batch[Len(eg.batch)] BY DEF Last
      <4>7. eg.batch[1] \in Nat /\ eg.batch[Len(eg.batch)] \in Nat BY <4>1, <4>3
      <4> DEFINE a == eg.batch[1]
                 z == eg.batch[Len(eg.batch)]
                 n == Len(eg.batch)
      <4>8. a \in Nat /\ z = a + n - 1 /\ n \in Nat \ {0} BY <2>4, <4>1, <4>2, <4>5, <4>7
      <4>9. a <= z
        <5> HIDE DEF a, z, n
        <5> QED BY ONLY <4>8
      <4> QED BY <4>6, <4>7, <4>8, <4>9
    <3>2. PICK x \in Nat, t \in Nat : x = Last(eg.batch) /\ t = eg.total + Len(eg.batch)
      <4>1. eg.total \in Nat BY <1>i, HeldTypes
      <4> QED BY <3>1, <4>1
    <3>3. eg.last \in Nat /\ eg.total \in Nat /\ eg.log \in Seq(Entry) BY <1>i DEF Types, Egresses
    <3>4. eg.last <= x
      <4>1. eg.put # 0 BY <2>1, <3>1
      <4>2. eg.last = 0 \/ eg.last < eg.batch[1] BY <4>1 DEF LastIs, None
      <4> QED BY <3>1, <3>2, <3>3, <4>2
    <3>5. eg.total <= t /\ t <= eg.total + Batch BY <1>e, <1>l, <3>1, <3>2, <3>3
    <3>6. eg.batch \in Seq(Nat) BY <1>i DEF Types, Egresses
    <3>7. Trimmed(eg'.log, eg.log, x, t)
      <4>1. eg'.log = Logged(eg.log, t) BY <2>1, <2>4, <3>2
      <4> QED BY <2>4, <3>2, <3>3, <3>6, <4>1, LoggedIs DEF Trimmed
    <3>8. /\ Ordered(eg'.log, x, t) /\ Known(<<x, t>>, eg'.log, t)
          /\ \A b \in Entry : Known(b, eg.log, eg.total) => Known(b, eg'.log, t)
      BY <1>l, <3>3, <3>4, <3>5, <3>7, LogGrows
    <3>9. hist'.done = hist.done \cup {<<x, t>>}
      <4>1. hist' = [hist EXCEPT !.done = @ \cup {<<Last(eg.batch), eg.total + Len(eg.batch)>>}]
        BY <1>6, <2>4 DEF BatchDone
      <4> QED BY <1>i, <3>2, <4>1 DEF Types
    <3>10. hist.done \subseteq Entry BY <1>i DEF Types
    <3>11. eg'.last = x /\ eg'.total = t BY <2>1, <2>4, <3>2
    <3>12. Ordered(eg.log, eg.last, eg.total)' BY <3>8, <3>11 DEF Ordered
    <3>13. \A b \in hist'.done : Known(b, eg'.log, t) BY <1>l, <3>8, <3>9, <3>10
    <3>14. \A b \in hist'.done : Known(b, eg.log, eg.total)' BY <3>11, <3>13 DEF Known
    <3> QED BY <2>2, <3>12, <3>14 DEF LogInv
  <2> QED BY <2>3, <2>4
<1>7. CASE Leave \/ Acknowledge \/ Linger
  <2>1. eg' = eg BY <1>7, <1>i, BatchDoes
  <2>2. hist'.done = hist.done BY <1>7, <1>i DEF Leave, Acknowledge, Linger, Types
  <2> QED BY <1>l, <1>s, <2>1, <2>2
<1>8. CASE UNCHANGED vars BY <1>8, <1>l, <1>s DEF vars
<1> QED BY <1>1, <1>2, <1>3, <1>4, <1>5, <1>6, <1>7, <1>8 DEF Next, Egress, Turning, Ending

LEMMA LogInvInit == Init => LogInv
<1> SUFFICES ASSUME Init PROVE LogInv OBVIOUS
<1>1. eg = In("Idle") /\ hist.done = {} BY DEF Init, HistInit
<1>2. eg.log = <<>> /\ eg.batch = <<>> BY <1>1, InIs
<1>3. DOMAIN eg.log = {} /\ Len(eg.batch) = 0 /\ Batch \in Nat BY <1>2, Constants
<1> QED BY <1>1, <1>3 DEF LogInv, Ordered

(* The last batch the log knows to be sent is no earlier than any that is. *)
LEMMA LogFinds ==
  ASSUME Types, Accounted, LogInv, Kept >= HeldAtMost + Batch, NEW blind \in Blind,
         NEW b \in hist.done, b[2] + Held(blind) <= eg.total
  PROVE  SurelySent(Held(blind)) >= b[1]
<1>t. /\ HeldNow \in Nat /\ eg.total \in Nat
      /\ eg.log \in Seq(Entry) /\ DOMAIN eg.log = 1 .. Len(eg.log) /\ Len(eg.log) \in Nat
      /\ \A i \in DOMAIN eg.log : eg.log[i][1] \in Nat /\ eg.log[i][2] \in Nat
  BY HeldTypes
<1>b. b[1] \in Nat /\ b[2] \in Nat BY DEF Types, Entry
<1>h. Held(blind) \in Nat /\ Held(blind) <= HeldAtMost
  <2>1. \A k, l \in Nat : k + l = l + k OBVIOUS
  <2>2. Len(os.flight) \in Nat /\ Len(os.wire) \in Nat BY HeldTypes
  <2>3. HeldNow = Len(os.wire) + Len(os.flight) BY <2>1, <2>2 DEF HeldNow
  <2>4. HeldNow <= OsHolds BY DEF Accounted
  <2>5. Held(blind) \in {HeldAtMost, HeldNow} BY <2>3 DEF Held
  <2> QED BY <1>t, <2>4, <2>5, Constants
<1> DEFINE u == Held(blind)
           sent == {i \in DOMAIN eg.log : eg.log[i][2] + u <= eg.total}
<1>1. PICK j \in sent : b[1] <= eg.log[j][1]
  <2>1. Known(b, eg.log, eg.total) BY DEF LogInv
  <2>2. CASE \E i \in DOMAIN eg.log : eg.log[i] = b
    <3>1. PICK i \in DOMAIN eg.log : eg.log[i] = b BY <2>2
    <3> QED BY <1>b, <3>1
  <2>3. CASE 1 \in DOMAIN eg.log /\ b[1] <= eg.log[1][1] /\ eg.log[1][2] + Kept <= eg.total + Batch
    <3> DEFINE n == eg.log[1][2]
    <3>1. n \in Nat /\ n + Kept <= eg.total + Batch BY <1>t, <2>3
    <3>2. n + u <= eg.total
      <4>1. u \in Nat /\ u <= HeldAtMost BY <1>h
      <4>2. Kept \in Nat /\ HeldAtMost \in Nat /\ Batch \in Nat /\ Kept >= HeldAtMost + Batch BY Constants
      <4>3. eg.total \in Nat BY <1>t
      <4> HIDE DEF n, u
      <4> QED BY ONLY <3>1, <4>1, <4>2, <4>3
    <3> QED BY <2>3, <3>2
  <2> QED BY <2>1, <2>2, <2>3 DEF Known
<1>2. SurelySent(u) = eg.log[Max(sent)][1] BY <1>1 DEF SurelySent
<1>3. Max(sent) \in sent /\ Max(sent) >= j
  <2>1. sent \subseteq 1 .. Len(eg.log) /\ sent # {} BY <1>1, <1>t
  <2> HIDE DEF sent
  <2> QED BY <1>1, <1>t, <2>1, Ends1
<1>4. PICK k \in DOMAIN eg.log : k = Max(sent) BY <1>3
<1>5. j \in DOMAIN eg.log /\ j <= k BY <1>1, <1>3, <1>4, <1>t
<1>6. eg.log[j][1] <= eg.log[k][1] BY <1>5 DEF LogInv, Ordered
<1>7. eg.log[j][1] \in Nat /\ eg.log[k][1] \in Nat BY <1>5, <1>t
<1> QED BY <1>1, <1>2, <1>4, <1>6, <1>7, <1>b

(* The write log reaches back past what the system may hold (egress.rs,    *)
(* WriteLog: written and surely_sent).  Where the system does not say what *)
(* it holds, it is taken to hold HeldAtMost: the log has to reach that     *)
(* far, and a batch further.  The code keeps 32 MiB, and takes the system  *)
(* to hold twice its send buffer, 8 MiB at least.                          *)
THEOREM LogReaches ==
  ASSUME Kept >= HeldAtMost + Batch
  PROVE  Spec => []LogReachesBack
<1> DEFINE I == OutletInv /\ AnswerInv /\ LogInv
<1>1. Init => I BY OutletInvInit, AnswerInvInit, LogInvInit
<1>2. I /\ [Next]_vars => I'
  <2> SUFFICES ASSUME OutletInv, AnswerInv, LogInv, [Next]_vars PROVE I' OBVIOUS
  <2>1. OutletInv' /\ AnswerInv' BY OutletInvNext, AnswerInvNext
  <2>2. LogInv' BY LogInvNext DEF AnswerInv
  <2> QED BY <2>1, <2>2
<1>3. I => LogReachesBack
  <2> SUFFICES ASSUME OutletInv, AnswerInv, LogInv, NEW b \in hist.done, NEW blind \in Blind,
                      b[2] + Held(blind) <= eg.total
               PROVE  SurelySent(Held(blind)) >= b[1]
    BY DEF LogReachesBack
  <2> QED BY LogFinds DEF OutletInv, AnswerInv
<1> HIDE DEF I
<1> QED BY <1>1, <1>2, <1>3, PTL DEF Spec

-----------------------------------------------------------------------------
(* Where what was handed over is.  All before n was written: UpTo(n).  To  *)
(* a loss that is not yet handled, or is yet to come, the core goes back   *)
(* to Safe(last).                                                          *)
UpTo(n) == \A m \in core.base .. n - 1 : m \in hist.wrote
Safe(last) == Lesser(core.cursor, Resume(last))
Present(m) ==
  \/ m \in hist.wrote
  \/ \E i \in DOMAIN eg.batch : eg.batch[i] = m
  \/ \E i \in DOMAIN media : media[i] = <<core.gen, core.cut, m>>
OneLoss == \A i, j \in DOMAIN events : Lost(events[i]) /\ Lost(events[j]) => i = j
Behind ==
  /\ core.up => core.first < core.cursor
  /\ \A i \in DOMAIN events : Lost(events[i]) => events[i].last < core.cursor
  /\ eg.last < core.cursor
  /\ \A i \in DOMAIN eg.batch : eg.batch[i] < core.cursor
  /\ \A i \in 1 .. eg.put : eg.batch[i] \in hist.wrote
Somewhere ==
  core.dump = "No" =>
    /\ Numbered => (\A m \in core.base .. core.cursor - 1 : Present(m)) /\ UpTo(Safe(eg.last))
    /\ \A i \in DOMAIN events : Lost(events[i]) => UpTo(Safe(events[i].last))
    /\ ~Numbered /\ ~LossTold => UpTo(core.cursor)
HandedInv == OneLoss /\ Behind /\ Somewhere

LEMMA OverTells ==
  ASSUME Types, CutReset \/ Fail \/ Ending
  PROVE  /\ LossTold'
         /\ \A i \in DOMAIN events' : Lost(events'[i]) /\ i \notin DOMAIN events => i = Len(events')
<1>1. \/ \E d \in Event : d.kind = "CutDone" /\ events' = events \o <<d, Disconnected(eg.last)>>
      \/ events' = events \o <<Disconnected(eg.last)>>
  <2>1. CASE CutReset
    <3>1. PICK blind \in Blind :
            Over("Connecting", <<CutDone(Head(ctl).cut, TRUE, SurelySent(Held(blind))), Disconnected(eg.last)>>)
      BY <2>1, OverDoes
    <3>2. Head(ctl).cut \in Nat
      <4>1. Told("Cut") BY <2>1, OverDoes
      <4> QED BY <4>1, ToldIs
    <3>3. SurelySent(Held(blind)) \in Nat BY HeldIs, SentIsNat
    <3>4. CutDone(Head(ctl).cut, TRUE, SurelySent(Held(blind))) \in Event BY <3>2, <3>3, Messages
    <3>5. CutDone(Head(ctl).cut, TRUE, SurelySent(Held(blind))).kind = "CutDone" BY DEF CutDone
    <3> QED BY <3>1, <3>4, <3>5 DEF Over
  <2>2. CASE Fail \/ Ending BY <2>2, OverDoes DEF Over
  <2> QED BY <2>1, <2>2
<1>2. LossTold' BY <1>1, LossIsTold
<1>3. events \in Seq(Event) /\ Disconnected(eg.last) \in Event BY Messages DEF Types, Egresses
<1>4. ASSUME NEW i \in DOMAIN events', Lost(events'[i]), i \notin DOMAIN events PROVE i = Len(events')
  <2>1. CASE \E d \in Event : d.kind = "CutDone" /\ events' = events \o <<d, Disconnected(eg.last)>>
    <3>1. PICK d \in Event : d.kind = "CutDone" /\ events' = events \o <<d, Disconnected(eg.last)>> BY <2>1
    <3>2. /\ Len(events') = Len(events) + 2 /\ DOMAIN events' = 1 .. Len(events) + 2
          /\ events'[Len(events) + 1] = d /\ DOMAIN events = 1 .. Len(events) /\ Len(events) \in Nat
      BY <1>3, <3>1
    <3>3. i = Len(events) + 1 \/ i = Len(events) + 2 BY <1>4, <3>2
    <3>4. i # Len(events) + 1 BY <1>4, <3>1, <3>2 DEF Lost
    <3> QED BY <3>2, <3>3, <3>4
  <2>2. CASE events' = events \o <<Disconnected(eg.last)>>
    <3>1. /\ Len(events') = Len(events) + 1 /\ DOMAIN events' = 1 .. Len(events) + 1
          /\ DOMAIN events = 1 .. Len(events) /\ Len(events) \in Nat
      BY <1>3, <2>2
    <3> QED BY <1>4, <3>1
  <2> QED BY <1>1, <2>1, <2>2
<1> QED BY <1>2, <1>4

LEMMA OneLossNext ==
  ASSUME OutletInv, OneLoss, [Next]_vars
  PROVE  OneLoss'
<1>i. Types /\ Types' /\ InTouch BY TypesNext DEF OutletInv
<1>1. CASE Core
  <2>1. CASE HandleEvent
    <3>1. /\ DOMAIN events = 1 .. Len(events) /\ Len(events) \in Nat
          /\ DOMAIN events' = 1 .. Len(events) - 1
          /\ \A i \in DOMAIN events' : events'[i] = events[i + 1] /\ i + 1 \in DOMAIN events
      BY <1>i, <2>1, EventsTail
    <3> SUFFICES ASSUME NEW i \in DOMAIN events', NEW j \in DOMAIN events', Lost(events'[i]), Lost(events'[j])
                 PROVE  i = j
      BY DEF OneLoss
    <3>2. i + 1 = j + 1 BY <3>1 DEF OneLoss
    <3> QED BY <3>1, <3>2
  <2>2. CASE ~HandleEvent
    <3>1. events' = events BY <1>1, <1>i, <2>2, EmitDoes, EndDoes, PlainDoes, CheckDoes, UnlinkedDoes DEF Core
    <3> QED BY <3>1 DEF OneLoss
  <2> QED BY <2>1, <2>2
<1>2. CASE Egress \/ Leave \/ Acknowledge \/ Linger
  <2>1. \A i \in DOMAIN events : i \in DOMAIN events' /\ events'[i] = events[i] BY <1>2, <1>i, EventsMove
  <2>2. CASE CutReset \/ Fail \/ Ending
    <3>1. Numbered BY <1>i, <2>2, OverIs DEF Numbered, OnConnection
    <3>2. \A i \in DOMAIN events : ~Lost(events[i]) BY <1>i, <3>1 DEF InTouch, IsAnswer, Lost
    <3>3. \A i \in DOMAIN events' : Lost(events'[i]) => i = Len(events') BY <1>i, <2>1, <2>2, <3>2, OverTells
    <3> QED BY <3>3 DEF OneLoss
  <2>3. CASE ~(CutReset \/ Fail \/ Ending)
    <3>1. \A i \in DOMAIN events' : Lost(events'[i]) => i \in DOMAIN events
      BY <1>2, <1>i, <2>3, EventsMove DEF Lost
    <3> QED BY <2>1, <3>1 DEF OneLoss
  <2> QED BY <2>2, <2>3
<1>3. CASE UNCHANGED vars BY <1>3 DEF vars, OneLoss
<1> QED BY <1>1, <1>2, <1>3 DEF Next

LEMMA CursorIs ==
  ASSUME Types
  PROVE  /\ core.cursor \in Nat \ {0} /\ core.base \in Nat \ {0} /\ core.first \in Nat /\ core.edge \in Nat
         /\ eg.last \in Nat
         /\ \A i \in DOMAIN events : Lost(events[i]) => events[i].last \in Nat
<1>1. \A e \in Event : Lost(e) => e.last \in Nat BY DEF Event, Lost
<1>2. \A i \in DOMAIN events : events[i] \in Event BY DEF Types
<1>3. /\ core.cursor \in Nat \ {0} /\ core.base \in Nat \ {0} /\ core.first \in Nat /\ core.edge \in Nat
      /\ eg.last \in Nat
  BY DEF Types, Cores, Egresses
<1> QED BY <1>1, <1>2, <1>3

(* A connection is told of while nothing else about one is.                *)
LEMMA ConnectedAlone ==
  ASSUME Types, InTouch, NothingYet, HandleEvent, HandleConnected(events[1])
  PROVE  /\ eg.phase = "Waiting" /\ eg.reply = None /\ ~Numbered /\ ~LossTold
         /\ DOMAIN events' = {} /\ eg.last = None /\ eg.batch = <<>> /\ eg.put = 0
<1>1. /\ DOMAIN events = 1 .. Len(events) /\ Len(events) \in Nat /\ 1 \in DOMAIN events
      /\ DOMAIN events' = 1 .. Len(events) - 1
  BY EventsTail
<1>2. events[1].kind = "Connected" BY DEF HandleConnected
<1>3. eg.phase = "Waiting" /\ eg.reply = None /\ Len(events) = 1 BY <1>1, <1>2 DEF InTouch
<1>4. ~Numbered BY <1>3 DEF Numbered, OnConnection
<1>5. DOMAIN events' = {} /\ DOMAIN events = {1} BY <1>1, <1>3
<1>6. ~LossTold BY <1>2, <1>5 DEF LossTold, Lost
<1>7. eg.last = None /\ eg.batch = <<>> /\ eg.put = 0 BY <1>3 DEF NothingYet, OnConnection
<1> QED BY <1>3, <1>4, <1>5, <1>6, <1>7

(* A loss is handled with nothing connected, and no other is told.         *)
LEMMA LossAlone ==
  ASSUME Types, InTouch, NothingYet, OneLoss, HandleEvent, HandleDisconnected(events[1])
  PROVE  /\ ~Numbered /\ 1 \in DOMAIN events /\ Lost(events[1]) /\ ~LossTold'
         /\ eg.last = None /\ eg.batch = <<>> /\ eg.put = 0
<1>1. /\ DOMAIN events = 1 .. Len(events) /\ Len(events) \in Nat /\ 1 \in DOMAIN events
      /\ DOMAIN events' = 1 .. Len(events) - 1
      /\ \A i \in DOMAIN events' : events'[i] = events[i + 1] /\ i + 1 \in DOMAIN events
  BY EventsTail
<1>2. Lost(events[1]) BY DEF HandleDisconnected, Lost
<1>3. ~Numbered BY <1>1, <1>2 DEF InTouch, IsAnswer, Lost
<1>4. ASSUME NEW i \in DOMAIN events' PROVE ~Lost(events'[i])
  <2>1. i + 1 # 1 BY <1>1
  <2> QED BY <1>1, <1>2, <2>1 DEF OneLoss
<1>5. ~LossTold' BY <1>4 DEF LossTold
<1>6. eg.last = None /\ eg.batch = <<>> /\ eg.put = 0 BY <1>3 DEF NothingYet, Numbered, OnConnection
<1> QED BY <1>1, <1>2, <1>3, <1>5, <1>6

LEMMA BehindNext ==
  ASSUME OutletInv, OneLoss, Behind, [Next]_vars
  PROVE  Behind'
<1>i. Types /\ Types' /\ InTouch /\ NothingYet /\ Ranges BY TypesNext DEF OutletInv
<1>b. /\ core.up => core.first < core.cursor
      /\ \A i \in DOMAIN events : Lost(events[i]) => events[i].last < core.cursor
      /\ eg.last < core.cursor
      /\ \A i \in DOMAIN eg.batch : eg.batch[i] < core.cursor
      /\ \A i \in 1 .. eg.put : eg.batch[i] \in hist.wrote
  BY DEF Behind
<1>c. /\ core.cursor \in Nat \ {0} /\ core.base \in Nat \ {0} /\ core.first \in Nat /\ core.edge \in Nat
      /\ eg.last \in Nat /\ \A i \in DOMAIN events : Lost(events[i]) => events[i].last \in Nat
  BY <1>i, CursorIs
<1>n. core'.cursor \in Nat \ {0} BY <1>i DEF Types, Cores
<1>g. \A i \in DOMAIN eg.batch : eg.batch[i] \in Nat BY <1>i, WireIs
<1>1. CASE Core
  <2>1. /\ eg'.last = eg.last /\ eg'.batch = eg.batch /\ eg'.put = eg.put /\ hist'.wrote = hist.wrote
    BY <1>1, <1>i, CoreDoes
  <2>2. CASE HandleEvent /\ HandleConnected(events[1])
    <3>1. DOMAIN events' = {} /\ eg.last = 0 /\ eg.batch = <<>> /\ eg.put = 0
      BY <1>i, <2>2, ConnectedAlone DEF None
    <3>2. core'.first = 0 BY <1>i, <2>2, ConnectedDoes DEF None
    <3>3. DOMAIN eg'.batch = {} /\ 1 .. eg'.put = {} BY <2>1, <3>1
    <3> QED BY <1>n, <2>1, <3>1, <3>2, <3>3 DEF Behind
  <2>3. CASE HandleEvent /\ HandleDisconnected(events[1])
    <3>1. ~LossTold' /\ eg.last = 0 /\ eg.batch = <<>> /\ eg.put = 0 BY <1>i, <2>3, LossAlone DEF None
    <3>2. core'.up = FALSE BY <1>i, <2>3, DisconnectedDoes
    <3>3. DOMAIN eg'.batch = {} /\ 1 .. eg'.put = {} BY <2>1, <3>1
    <3>4. \A i \in DOMAIN events' : ~Lost(events'[i]) BY <3>1 DEF LossTold
    <3> QED BY <1>n, <2>1, <3>1, <3>2, <3>3, <3>4 DEF Behind
  <2>4. CASE ~(HandleEvent /\ (HandleConnected(events[1]) \/ HandleDisconnected(events[1])))
    <3>1. core'.cursor >= core.cursor /\ (core'.up => core'.first < core'.cursor)
      <4>1. CASE Emit
        <5>1. /\ core'.cursor = core.cursor + 1 /\ core'.up = core.up
              /\ core'.first = IF core.first = None THEN core.cursor ELSE core.first
          BY <1>i, <4>1, EmitDoes
        <5> QED BY <1>b, <1>c, <5>1
      <4>2. CASE ~Emit
        <5>1. /\ core'.cursor = core.cursor \/ core'.cursor = core.edge + 1
              /\ core'.first = core.first /\ (core'.up => core.up)
          <6>1. CASE HandleEvent
            <7>1. HandleCutDone(events[1]) BY <1>i, <2>4, <6>1, HandleDoes
            <7> QED BY <1>i, <7>1, CutDoneDoes, FinishDoes
          <6>2. CASE ~HandleEvent
            BY <1>1, <1>i, <4>2, <6>2, EndDoes, PlainDoes, CheckDoes, UnlinkedDoes, FinishDoes DEF Core
          <6> QED BY <6>1, <6>2
        <5>2. core.cursor <= core.edge + 1 BY <1>i DEF Ranges
        <5> QED BY <1>b, <1>c, <5>1, <5>2
      <4> QED BY <4>1, <4>2
    <3>2. \A i \in DOMAIN events' : \E j \in DOMAIN events : events'[i] = events[j]
      <4>1. CASE HandleEvent BY <1>i, <4>1, EventsTail
      <4>2. CASE ~HandleEvent
        <5>1. events' = events
          BY <1>1, <1>i, <4>2, EmitDoes, EndDoes, PlainDoes, CheckDoes, UnlinkedDoes DEF Core
        <5> QED BY <5>1
      <4> QED BY <4>1, <4>2
    <3>3. \A i \in DOMAIN events' : Lost(events'[i]) => events'[i].last < core'.cursor
      <4> SUFFICES ASSUME NEW i \in DOMAIN events', Lost(events'[i]) PROVE events'[i].last < core'.cursor
        OBVIOUS
      <4>1. PICK j \in DOMAIN events : events'[i] = events[j] BY <3>2
      <4> QED BY <1>b, <1>c, <1>n, <3>1, <4>1
    <3>4. eg'.last < core'.cursor BY <1>b, <1>c, <1>n, <2>1, <3>1
    <3>5. \A i \in DOMAIN eg'.batch : eg'.batch[i] < core'.cursor BY <1>b, <1>c, <1>g, <1>n, <2>1, <3>1
    <3>6. \A i \in 1 .. eg'.put : eg'.batch[i] \in hist'.wrote BY <1>b, <2>1
    <3> QED BY <3>1, <3>3, <3>4, <3>5, <3>6 DEF Behind
  <2> QED BY <2>2, <2>3, <2>4
<1>2. CASE Egress \/ Leave \/ Acknowledge \/ Linger
  <2>1. core' = core BY <1>2, <1>i, Rest
  <2>2. \A i \in DOMAIN events' : Lost(events'[i]) => events'[i].last < core'.cursor
    BY <1>2, <1>b, <1>i, <2>1, EventsMove DEF Lost
  <2>s. ASSUME eg'.last < core.cursor, \A i \in DOMAIN eg'.batch : eg'.batch[i] < core.cursor,
               \A i \in 1 .. eg'.put : eg'.batch[i] \in hist'.wrote
        PROVE  Behind'
    BY <1>b, <2>1, <2>2, <2>s DEF Behind
  <2>3. CASE Turning
    <3>1. eg'.last = 0 /\ eg'.batch = <<>> /\ eg'.put = 0 BY <1>i, <2>3, TurningDoes DEF None
    <3>2. DOMAIN eg'.batch = {} /\ 1 .. eg'.put = {} BY <3>1
    <3> QED BY <1>c, <2>s, <3>1, <3>2
  <2>4. CASE CutUnconnected \/ CutLive \/ DropQueued \/ StopLive
    <3>1. eg'.last = eg.last /\ eg'.batch = eg.batch /\ eg'.put = eg.put /\ hist'.wrote = hist.wrote
      BY <1>i, <2>4, QuietDoes
    <3> QED BY <1>b, <2>s, <3>1
  <2>5. CASE TakeBatch
    <3>1. eg'.last = eg.last /\ eg'.put = 0 BY <1>i, <2>5, BatchDoes
    <3>2. PICK n \in 1 .. Len(media), k \in 1 .. Len(media) + 1 :
            /\ k > n => eg'.batch = <<>>
            /\ k <= n => /\ Going
                         /\ DOMAIN eg'.batch = 1 .. n + 1 - k
                         /\ \A i \in 1 .. n + 1 - k : eg'.batch[i] = media[k + i - 1][3]
                         /\ \A i \in k .. Len(media) : Here(media[i])
      BY <2>5, TakeDoes
    <3>3. \A i \in DOMAIN eg'.batch : eg'.batch[i] < core.cursor
      <4>1. CASE k > n
        <5>1. DOMAIN eg'.batch = {} BY <3>2, <4>1
        <5> QED BY <5>1
      <4>2. CASE k <= n
        <5> SUFFICES ASSUME NEW i \in 1 .. n + 1 - k PROVE media[k + i - 1][3] < core.cursor BY <3>2, <4>2
        <5>1. Len(media) \in Nat /\ DOMAIN media = 1 .. Len(media) BY <1>i, MediaIs
        <5>2. PICK j \in DOMAIN media : j = k + i - 1 /\ j \in k .. Len(media) BY <3>2, <4>2, <5>1
        <5>3. media[j][3] + (Len(media) - j) + 1 = core.cursor BY <3>2, <4>2, <5>2 DEF OutletInv, Queue
        <5>4. media[j][3] \in Nat BY <1>i, MediaIs
        <5>5. media[j][3] < core.cursor BY <1>c, <5>1, <5>2, <5>3, <5>4, SMTT(30)
        <5> QED BY <5>2, <5>5
      <4> QED BY <4>1, <4>2, <3>2
    <3>4. 1 .. eg'.put = {} BY <3>1
    <3> QED BY <1>b, <2>s, <3>1, <3>3, <3>4
  <2>6. CASE Accept
    <3>1. /\ eg'.put = eg.put + 1 /\ eg'.batch = eg.batch /\ eg'.last = eg.last
          /\ hist'.wrote = hist.wrote \cup {eg.batch[eg.put + 1]}
      BY <1>i, <2>6, BatchDoes
    <3>2. eg.put \in Nat BY <1>i, WireIs
    <3>3. \A i \in 1 .. eg'.put : i \in 1 .. eg.put \/ i = eg.put + 1 BY <3>1, <3>2
    <3>4. \A i \in 1 .. eg'.put : eg'.batch[i] \in hist'.wrote BY <1>b, <3>1, <3>3
    <3> QED BY <1>b, <2>s, <3>1, <3>4
  <2>7. CASE BatchDone
    <3>1. /\ eg'.batch = <<>> /\ eg'.put = 0
          /\ eg.batch = <<>> => eg'.last = eg.last
          /\ eg.batch # <<>> => eg'.last = Last(eg.batch)
      BY <1>i, <2>7, BatchDoes
    <3>2. eg.batch # <<>> => Last(eg.batch) < core.cursor
      <4>1. Last(eg.batch) = eg.batch[Len(eg.batch)] BY DEF Last
      <4>2. eg.batch # <<>> => Len(eg.batch) \in DOMAIN eg.batch BY <1>i, WireIs, EmptyIs
      <4> QED BY <1>b, <4>1, <4>2
    <3>3. DOMAIN eg'.batch = {} /\ 1 .. eg'.put = {} BY <3>1
    <3> QED BY <1>b, <2>s, <3>1, <3>2, <3>3
  <2>8. CASE Leave \/ Acknowledge \/ Linger
    <3>1. eg' = eg /\ hist'.wrote = hist.wrote BY <1>i, <2>8, BatchDoes
    <3> QED BY <1>b, <2>s, <3>1
  <2> QED BY <1>2, <2>3, <2>4, <2>5, <2>6, <2>7, <2>8 DEF Egress, Turning, Ending
<1>3. CASE UNCHANGED vars BY <1>3, <1>b DEF vars, Behind
<1> QED BY <1>1, <1>2, <1>3 DEF Next

(* Where all is taken back there is nothing to lose. *)
LEMMA NothingToLose ==
  ASSUME Types', core'.base = core'.cursor
  PROVE  Somewhere'
<1>1. /\ core'.cursor \in Nat /\ core'.base \in Nat /\ core'.first \in Nat /\ eg'.last \in Nat
  BY DEF Types, Cores, Egresses
<1>2. \A i \in DOMAIN events' : Lost(events'[i]) => events'[i].last \in Nat
  <2>1. \A e \in Event : Lost(e) => e.last \in Nat BY DEF Event, Lost
  <2>2. \A i \in DOMAIN events' : events'[i] \in Event BY DEF Types
  <2> QED BY <2>1, <2>2
<1>3. \A l \in Nat : Safe(l)' \in Nat /\ Safe(l)' <= core'.cursor BY <1>1 DEF Safe, Resume, Lesser
<1>4. \A n \in Nat : n <= core'.cursor => core'.base .. n - 1 = {} BY <1>1
<1>5. ASSUME NEW l \in Nat PROVE UpTo(Safe(l))'
  <2>1. core'.base .. Safe(l)' - 1 = {} BY <1>3, <1>4
  <2> QED BY <2>1 DEF UpTo
<1>6. core'.base .. core'.cursor - 1 = {} BY <1>1
<1>7. UpTo(Safe(eg.last))'
  <2>1. PICK l \in Nat : l = eg'.last BY <1>1
  <2>2. UpTo(Safe(l))' BY <1>5
  <2> QED BY <2>1, <2>2 DEF UpTo, Safe, Resume
<1>8. ASSUME NEW i \in DOMAIN events', Lost(events'[i]) PROVE UpTo(Safe(events[i].last))'
  <2>1. PICK l \in Nat : l = events'[i].last BY <1>2, <1>8
  <2>2. UpTo(Safe(l))' BY <1>5
  <2> QED BY <2>1, <2>2 DEF UpTo, Safe, Resume
<1>9. UpTo(core.cursor)' BY <1>6 DEF UpTo
<1>10. \A i \in DOMAIN events' : Lost(events'[i]) => UpTo(Safe(events[i].last))' BY <1>8
<1>11. (\A m \in core.base .. core.cursor - 1 : Present(m))' BY <1>6
<1> QED BY <1>7, <1>9, <1>10, <1>11 DEF Somewhere

(* What is written stays so, and where the core would go back to. *)
LEMMA StaysSomewhere ==
  ASSUME Types, Types', core'.base = core.base, hist.wrote \subseteq hist'.wrote,
         \A l \in Nat : l < core.cursor => Safe(l)' = Safe(l),
         \A i \in DOMAIN events' : Lost(events'[i]) =>
           events'[i].last \in Nat /\ events'[i].last < core.cursor /\ UpTo(Safe(events'[i].last)),
         Numbered' => /\ \A m \in core'.base .. core'.cursor - 1 : Present(m)'
                      /\ eg'.last < core.cursor /\ UpTo(Safe(eg'.last)),
         ~Numbered' /\ ~LossTold' => core'.cursor = core.cursor /\ UpTo(core.cursor)
  PROVE  Somewhere'
<1>1. ASSUME NEW l \in Nat, l < core.cursor, UpTo(Safe(l)) PROVE UpTo(Safe(l))'
  <2>1. Safe(l)' = Safe(l) BY <1>1
  <2> QED BY <1>1, <2>1 DEF UpTo
<1>2. Numbered' => UpTo(Safe(eg.last))'
  <2> SUFFICES ASSUME Numbered' PROVE UpTo(Safe(eg.last))' OBVIOUS
  <2>1. PICK l \in Nat : l = eg'.last BY DEF Types, Egresses
  <2>2. UpTo(Safe(l))' BY <1>1, <2>1
  <2> QED BY <2>1, <2>2 DEF UpTo, Safe, Resume
<1>3. ASSUME NEW i \in DOMAIN events', Lost(events'[i]) PROVE UpTo(Safe(events[i].last))'
  <2>1. PICK l \in Nat : l = events'[i].last BY <1>3
  <2>2. UpTo(Safe(l))' BY <1>1, <1>3, <2>1
  <2> QED BY <2>1, <2>2 DEF UpTo, Safe, Resume
<1>4. ~Numbered' /\ ~LossTold' => UpTo(core.cursor)' BY DEF UpTo
<1>5. Numbered' => (\A m \in core.base .. core.cursor - 1 : Present(m))' OBVIOUS
<1>6. \A i \in DOMAIN events' : Lost(events'[i]) => UpTo(Safe(events[i].last))' BY <1>3
<1> QED BY <1>2, <1>4, <1>5, <1>6 DEF Somewhere

LEMMA SomewhereCore ==
  ASSUME OutletInv, OneLoss, Behind, Somewhere, Types', Core
  PROVE  Somewhere'
<1>i. Types /\ InTouch /\ NothingYet /\ Ranges /\ Reported BY DEF OutletInv
<1>c. /\ core.cursor \in Nat \ {0} /\ core.base \in Nat \ {0} /\ core.first \in Nat /\ core.edge \in Nat
      /\ eg.last \in Nat /\ \A i \in DOMAIN events : Lost(events[i]) => events[i].last \in Nat
  BY <1>i, CursorIs
<1>b. /\ core.up => core.first < core.cursor
      /\ \A i \in DOMAIN events : Lost(events[i]) => events[i].last < core.cursor
      /\ eg.last < core.cursor
  BY DEF Behind
<1>g. /\ eg'.last = eg.last /\ eg'.batch = eg.batch /\ hist'.wrote = hist.wrote
  BY <1>i, CoreDoes
<1> SUFFICES ASSUME core'.dump = "No", core'.base # core'.cursor PROVE Somewhere'
  BY NothingToLose DEF Somewhere
<1>f. ~FinishDump /\ ~EndNow /\ ~EndAtMark BY <1>i, FinishDoes, EndDoes
<1>1. CASE Emit
  <2>1. /\ core.up /\ core.dump = "No" /\ core'.cursor = core.cursor + 1
        /\ core'.first = IF core.first = None THEN core.cursor ELSE core.first
        /\ core'.gen = core.gen /\ core'.cut = core.cut /\ core'.base = core.base
        /\ Len(media') = Len(media) + 1
        /\ \A i \in 1 .. Len(media) : media'[i] = media[i]
        /\ media'[Len(media) + 1] = <<core.gen, core.cut, core.cursor>>
        /\ UNCHANGED <<events, eg>>
    BY <1>1, <1>i, EmitDoes
  <2>2. Numbered \/ LossTold BY <1>i, <2>1 DEF Reported
  <2>3. (Numbered' <=> Numbered) /\ (LossTold' <=> LossTold)
    BY <2>1 DEF Numbered, OnConnection, LossTold
  <2>4. \A l \in Nat : l < core.cursor => Safe(l)' = Safe(l)
    <3> SUFFICES ASSUME NEW l \in Nat, l < core.cursor PROVE Safe(l)' = Safe(l) OBVIOUS
    <3>1. Safe(l)' = Lesser(core.cursor + 1, IF l # None THEN l + 1 ELSE IF core'.first # None THEN core'.first ELSE core.cursor + 1)
      BY <2>1 DEF Safe, Resume
    <3>2. Safe(l) = Lesser(core.cursor, IF l # None THEN l + 1 ELSE IF core.first # None THEN core.first ELSE core.cursor)
      BY DEF Safe, Resume
    <3>3. CASE l # None BY <1>c, <3>1, <3>2, <3>3 DEF Lesser
    <3>4. CASE l = None BY <1>b, <1>c, <2>1, <3>1, <3>2, <3>4 DEF Lesser, None
    <3> QED BY <3>3, <3>4
  <2>5. ASSUME Numbered, NEW m \in core'.base .. core'.cursor - 1 PROVE Present(m)'
    <3>1. Len(media) \in Nat /\ DOMAIN media = 1 .. Len(media) BY <1>i, MediaIs
    <3>2. DOMAIN media' = 1 .. Len(media) + 1
      <4>1. media' \in Seq(Quad) BY DEF Types
      <4> QED BY <2>1, <4>1
    <3>3. CASE m = core.cursor
      <4>1. Len(media) + 1 \in DOMAIN media' BY <3>1, <3>2
      <4> QED BY <2>1, <3>3, <4>1 DEF Present
    <3>4. CASE m # core.cursor
      <4>1. m \in core.base .. core.cursor - 1 BY <1>c, <2>1, <2>5, <3>4
      <4>2. Present(m) BY <2>1, <2>5, <4>1 DEF Somewhere
      <4>3. CASE \E i \in DOMAIN media : media[i] = <<core.gen, core.cut, m>>
        <5>1. PICK i \in DOMAIN media : media[i] = <<core.gen, core.cut, m>> BY <4>3
        <5>2. i \in DOMAIN media' /\ media'[i] = <<core'.gen, core'.cut, m>> BY <2>1, <3>1, <3>2, <5>1
        <5> QED BY <5>2 DEF Present
      <4>4. CASE m \in hist.wrote \/ \E i \in DOMAIN eg.batch : eg.batch[i] = m
        BY <1>g, <4>4 DEF Present
      <4> QED BY <4>2, <4>3, <4>4 DEF Present
    <3> QED BY <3>3, <3>4
  <2>6. Numbered' => UpTo(Safe(eg'.last)) BY <2>1, <2>3 DEF Somewhere
  <2>7. \A i \in DOMAIN events' : Lost(events'[i]) => UpTo(Safe(events'[i].last)) BY <2>1 DEF Somewhere
  <2> QED BY <1>b, <1>c, <1>g, <1>i, <2>1, <2>2, <2>3, <2>4, <2>5, <2>6, <2>7, StaysSomewhere
<1>2. CASE StartEgress \/ StopEgress \/ EndAfterAir \/ (HandleEvent /\ HandleCutDone(events[1]))
  <2>1. /\ core.dump = "No" /\ core'.cursor = core.cursor /\ core'.first = core.first
        /\ core'.gen = core.gen /\ core'.cut = core.cut /\ core'.base = core.base
        /\ media' = media /\ eg' = eg
    <3>1. CASE StartEgress \/ StopEgress \/ EndAfterAir BY <1>i, <3>1, PlainDoes
    <3>2. CASE HandleEvent /\ HandleCutDone(events[1])
      BY <1>f, <1>i, <3>2, CutDoneDoes, HandleDoes
    <3> QED BY <1>2, <3>1, <3>2
  <2>2. \A i \in DOMAIN events' : \E j \in DOMAIN events : events'[i] = events[j]
    <3>1. CASE HandleEvent BY <1>i, <3>1, EventsTail
    <3>2. CASE ~HandleEvent BY <1>2, <1>i, <3>2, PlainDoes
    <3> QED BY <3>1, <3>2
  <2>3. LossTold => LossTold'
    <3>1. CASE HandleEvent /\ HandleCutDone(events[1])
      <4>1. ~Lost(events[1]) BY <1>i, <3>1, CutDoneDoes DEF Lost
      <4>2. /\ DOMAIN events = 1 .. Len(events) /\ Len(events) \in Nat
            /\ DOMAIN events' = 1 .. Len(events) - 1
            /\ \A i \in DOMAIN events' : events'[i] = events[i + 1] /\ i + 1 \in DOMAIN events
        BY <1>i, <3>1, EventsTail
      <4> SUFFICES ASSUME NEW j \in DOMAIN events, Lost(events[j]) PROVE LossTold' BY DEF LossTold
      <4>3. j # 1 BY <4>1
      <4>4. j - 1 \in DOMAIN events' /\ (j - 1) + 1 = j BY <4>2, <4>3
      <4>5. events'[j - 1] = events[j] BY <4>2, <4>4
      <4> QED BY <4>4, <4>5 DEF LossTold
    <3>2. CASE StartEgress \/ StopEgress \/ EndAfterAir BY <1>i, <3>2, PlainDoes DEF LossTold
    <3> QED BY <1>2, <3>1, <3>2
  <2>4. Numbered' <=> Numbered BY <2>1 DEF Numbered, OnConnection
  <2>5. \A l \in Nat : Safe(l)' = Safe(l) BY <2>1 DEF Safe, Resume
  <2>6. ASSUME Numbered, NEW m \in core'.base .. core'.cursor - 1 PROVE Present(m)'
    <3>1. Present(m) BY <2>1, <2>6 DEF Somewhere
    <3> QED BY <1>g, <2>1, <3>1 DEF Present
  <2>7. Numbered' => UpTo(Safe(eg'.last)) BY <2>1, <2>4 DEF Somewhere
  <2>8. \A i \in DOMAIN events : Lost(events[i]) => UpTo(Safe(events[i].last)) BY <2>1 DEF Somewhere
  <2>9. \A i \in DOMAIN events' : Lost(events'[i]) =>
          events'[i].last \in Nat /\ events'[i].last < core.cursor /\ UpTo(Safe(events'[i].last))
    <3> SUFFICES ASSUME NEW i \in DOMAIN events', Lost(events'[i])
                 PROVE  events'[i].last \in Nat /\ events'[i].last < core.cursor /\ UpTo(Safe(events'[i].last))
      OBVIOUS
    <3>1. PICK j \in DOMAIN events : events'[i] = events[j] BY <2>2
    <3> QED BY <1>b, <1>c, <2>8, <3>1
  <2>10. ~Numbered' /\ ~LossTold' => UpTo(core.cursor) BY <2>1, <2>3, <2>4 DEF Somewhere
  <2> QED BY <1>b, <1>g, <1>i, <2>1, <2>4, <2>5, <2>6, <2>7, <2>9, <2>10, StaysSomewhere
<1>3. CASE HandleEvent /\ HandleConnected(events[1])
  <2>1. ~Numbered /\ ~LossTold /\ DOMAIN events' = {} /\ eg.last = None BY <1>3, <1>i, ConnectedAlone
  <2>2. /\ core'.cursor \in {core.cursor, core.cursor - 1} /\ core'.first = None
        /\ core'.dump = core.dump /\ core'.base = core.base
        /\ eg' = [eg EXCEPT !.reply = core.gen + 1] /\ eg.phase = "Waiting"
    BY <1>3, <1>i, ConnectedDoes, ConnectedAlone
  <2>3. UpTo(core.cursor) BY <2>1, <2>2 DEF Somewhere
  <2>4. core'.cursor \in Nat /\ core'.cursor <= core.cursor BY <1>c, <2>2
  <2>5. \A m \in core'.base .. core'.cursor - 1 : m \in hist'.wrote
    <3>1. \A m \in core'.base .. core'.cursor - 1 : m \in core.base .. core.cursor - 1 BY <1>c, <2>2, <2>4
    <3> QED BY <1>g, <2>3, <3>1 DEF UpTo
  <2>6. UpTo(core.cursor)' BY <2>5 DEF UpTo
  <2>7. Safe(eg.last)' = core'.cursor BY <1>g, <2>1, <2>2 DEF Safe, Resume, Lesser
  <2>8. UpTo(Safe(eg.last))' BY <2>5, <2>7 DEF UpTo
  <2>9. (\A m \in core.base .. core.cursor - 1 : Present(m))' BY <2>5 DEF Present
  <2> QED BY <2>1, <2>6, <2>8, <2>9 DEF Somewhere
<1>4. CASE HandleEvent /\ HandleDisconnected(events[1])
  <2>1. ~Numbered /\ 1 \in DOMAIN events /\ Lost(events[1]) /\ ~LossTold'
    BY <1>4, <1>i, LossAlone
  <2>2. /\ core'.cursor = Greater(core.base, Safe(events[1].last))
        /\ core'.dump = core.dump /\ core'.base = core.base /\ eg' = eg
    BY <1>4, <1>i, DisconnectedDoes DEF Safe
  <2>3. UpTo(Safe(events[1].last)) BY <2>1, <2>2 DEF Somewhere
  <2>4. ~Numbered' BY <2>1, <2>2 DEF Numbered, OnConnection
  <2>5. core'.cursor = Safe(events[1].last) BY <2>2 DEF Greater
  <2>6. UpTo(core.cursor)' BY <1>g, <2>2, <2>3, <2>5 DEF UpTo
  <2>7. \A i \in DOMAIN events' : ~Lost(events'[i]) BY <2>1 DEF LossTold
  <2> QED BY <2>4, <2>6, <2>7 DEF Somewhere
<1>5. CASE ~HandleEvent /\ ~Emit /\ ~(StartEgress \/ StopEgress \/ EndAfterAir)
  <2>1. RaiseCut \/ AskCut BY <1>5, <1>f, <1>i, CheckDoes, UnlinkedDoes DEF Core
  <2> QED BY <1>i, <2>1, PlainDoes
<1>6. HandleEvent => HandleCutDone(events[1]) \/ HandleConnected(events[1]) \/ HandleDisconnected(events[1])
  BY <1>i, HandleDoes
<1> QED BY <1>1, <1>2, <1>3, <1>4, <1>5, <1>6

(* Of what was taken from the queue and is wanted nothing is dropped.      *)
LEMMA TakenIsThere ==
  ASSUME OutletInv, Types', TakeBatch, NEW m \in Nat, NEW i \in DOMAIN media,
         media[i] = <<core.gen, core.cut, m>>
  PROVE  Present(m)'
<1>i. Types BY DEF OutletInv
<1>m. Len(media) \in Nat /\ DOMAIN media = 1 .. Len(media) BY <1>i, MediaIs
<1>1. PICK n \in 1 .. Len(media), k \in 1 .. Len(media) + 1 :
        /\ FromHere(k) /\ Dropped(n)
        /\ k <= n => /\ DOMAIN eg'.batch = 1 .. n + 1 - k
                     /\ \A j \in 1 .. n + 1 - k : eg'.batch[j] = media[k + j - 1][3]
  BY TakeDoes
<1>2. Here(media[i]) /\ media[i][3] = m BY DEF Here
<1>3. i >= k BY <1>1, <1>2 DEF FromHere
<1>4. CASE i <= n
  <2>1. PICK j \in 1 .. n + 1 - k : k + j - 1 = i /\ k <= n
    <3>1. i - k + 1 \in 1 .. n + 1 - k /\ k + (i - k + 1) - 1 = i /\ k <= n BY <1>3, <1>4, <1>m
    <3> QED BY <3>1
  <2>2. j \in DOMAIN eg'.batch /\ eg'.batch[j] = m BY <1>1, <1>2, <2>1
  <2> QED BY <2>2 DEF Present
<1>5. CASE ~ (i <= n)
  <2>1. /\ DOMAIN media' = 1 .. Len(media) - n
        /\ \A j \in 1 .. Len(media) - n : media'[j] = media[j + n]
    <3>1. n \in 0 .. Len(media) BY <1>m
    <3> QED BY <1>1, <1>i, <3>1, DroppedIs
  <2>2. i - n \in 1 .. Len(media) - n /\ (i - n) + n = i BY <1>5, <1>m
  <2>3. media'[i - n] = <<core.gen, core.cut, m>> BY <2>1, <2>2
  <2>4. core' = core BY <1>i, Rest DEF Egress
  <2> QED BY <2>1, <2>2, <2>3, <2>4 DEF Present
<1> QED BY <1>4, <1>5

(* What is still queued comes after the batch.                             *)
LEMMA QueuedComesAfter ==
  ASSUME OutletInv, BatchDone, core.dump = "No", Numbered, eg.batch # <<>>,
         NEW m \in Nat, NEW i \in DOMAIN media, media[i] = <<core.gen, core.cut, m>>
  PROVE  m > Last(eg.batch)
<1>i. Types BY DEF OutletInv
<1>m. Len(media) \in Nat /\ DOMAIN media = 1 .. Len(media) BY <1>i, MediaIs
<1>1. eg.phase = "Writing" /\ ctl = <<>> BY <1>i, BatchDoes
<1>2. Going /\ ~Asking
  <2>1. DOMAIN ctl = {} BY <1>1
  <2> QED BY <1>1, <2>1 DEF Going, ToldToEnd, Asking
<1>3. Follows BY <1>2 DEF OutletInv, NextUp
<1>4. PICK k \in 1 .. Len(media) + 1 :
        FromHere(k) /\ core.cursor = (eg.batch[1] + Len(eg.batch)) + (Len(media) + 1 - k)
  BY <1>3 DEF Follows, Comes
<1>5. Here(media[i]) /\ media[i][3] = m BY DEF Here
<1>6. i >= k BY <1>4, <1>5 DEF FromHere
<1>7. m + (Len(media) - i) + 1 = core.cursor BY <1>2, <1>5 DEF OutletInv, Queue
<1>8. Last(eg.batch) = eg.batch[1] + Len(eg.batch) - 1 /\ eg.batch[1] \in Nat /\ Len(eg.batch) \in Nat
  <2>1. Len(eg.batch) \in Nat /\ DOMAIN eg.batch = 1 .. Len(eg.batch) BY <1>i, WireIs
  <2>2. Len(eg.batch) # 0 BY <1>i, EmptyIs
  <2>3. Len(eg.batch) \in DOMAIN eg.batch BY <2>1, <2>2
  <2>4. InRow(eg.batch) BY DEF OutletInv, Sending
  <2>5. eg.batch[Len(eg.batch)] = eg.batch[1] + Len(eg.batch) - 1 BY <2>3, <2>4 DEF InRow
  <2>6. Last(eg.batch) = eg.batch[Len(eg.batch)] BY DEF Last
  <2>7. eg.batch[1] \in Nat BY <1>i, FirstIs
  <2> QED BY <2>1, <2>5, <2>6, <2>7
<1>9. core.cursor \in Nat BY <1>i, CursorIs
<1> DEFINE a == eg.batch[1]
           l == Len(eg.batch)
           q == Len(media)
<1>10. /\ a \in Nat /\ l \in Nat /\ q \in Nat /\ i \in Nat /\ k \in Nat /\ i >= k
       /\ core.cursor = (a + l) + (q + 1 - k) /\ m + (q - i) + 1 = core.cursor
       /\ Last(eg.batch) = a + l - 1
  BY <1>4, <1>6, <1>7, <1>8, <1>m
<1> HIDE DEF a, l, q
<1>11. m > a + l - 1
  <2>1. m + (q - i) + 1 = (a + l) + (q + 1 - k) BY <1>10
  <2> QED BY ONLY <1>10, <2>1, m \in Nat
<1> QED BY <1>10, <1>11

LEMMA SomewhereEgress ==
  ASSUME OutletInv, OneLoss, Behind, Somewhere, Types', Egress \/ Leave \/ Acknowledge \/ Linger
  PROVE  Somewhere'
<1>i. Types /\ InTouch /\ NothingYet BY DEF OutletInv
<1>c. /\ core.cursor \in Nat \ {0} /\ core.base \in Nat \ {0}
      /\ eg.last \in Nat /\ \A i \in DOMAIN events : Lost(events[i]) => events[i].last \in Nat
  BY <1>i, CursorIs
<1>b. /\ \A i \in DOMAIN events : Lost(events[i]) => events[i].last < core.cursor
      /\ eg.last < core.cursor
      /\ \A i \in DOMAIN eg.batch : eg.batch[i] < core.cursor
      /\ \A i \in 1 .. eg.put : eg.batch[i] \in hist.wrote
  BY DEF Behind
<1>k. core' = core BY <1>i, Rest
<1> SUFFICES ASSUME core.dump = "No" PROVE Somewhere' BY <1>k DEF Somewhere
<1>h. /\ Numbered => (\A m \in core.base .. core.cursor - 1 : Present(m)) /\ UpTo(Safe(eg.last))
      /\ \A i \in DOMAIN events : Lost(events[i]) => UpTo(Safe(events[i].last))
      /\ ~Numbered /\ ~LossTold => UpTo(core.cursor)
  BY DEF Somewhere
<1>e. \A i \in DOMAIN events : i \in DOMAIN events' /\ events'[i] = events[i] BY <1>i, EventsMove
<1>t. (Numbered' => Numbered) /\ (Numbered /\ ~Numbered' => CutReset \/ Fail \/ Ending) BY <1>i, Turns
<1>l. \A l \in Nat : Safe(l)' = Safe(l) BY <1>k DEF Safe, Resume
<1>1. \A i \in DOMAIN events' : Lost(events'[i]) =>
        events'[i].last \in Nat /\ events'[i].last < core.cursor /\ UpTo(Safe(events'[i].last))
  <2> SUFFICES ASSUME NEW i \in DOMAIN events', Lost(events'[i])
               PROVE  events'[i].last \in Nat /\ events'[i].last < core.cursor /\ UpTo(Safe(events'[i].last))
    OBVIOUS
  <2>1. CASE i \in DOMAIN events BY <1>b, <1>c, <1>e, <1>h, <2>1
  <2>2. CASE i \notin DOMAIN events
    <3>1. events'[i].last = eg.last /\ (CutReset \/ Fail \/ Ending) BY <1>i, <2>2, EventsMove DEF Lost
    <3>2. Numbered BY <1>i, <3>1, OverIs DEF Numbered, OnConnection
    <3> QED BY <1>b, <1>c, <1>h, <3>1, <3>2
  <2> QED BY <2>1, <2>2
<1>2. ~Numbered' /\ ~LossTold' => UpTo(core.cursor)
  <2>1. LossTold => LossTold' BY <1>e DEF LossTold
  <2>2. CutReset \/ Fail \/ Ending => LossTold' BY <1>i, OverTells
  <2> QED BY <1>h, <1>t, <2>1, <2>2
<1>s. ASSUME hist.wrote \subseteq hist'.wrote,
             Numbered' => /\ \A m \in core.base .. core.cursor - 1 : Present(m)'
                          /\ eg'.last < core.cursor /\ UpTo(Safe(eg'.last))
      PROVE  Somewhere'
  BY <1>1, <1>2, <1>i, <1>k, <1>l, <1>s, StaysSomewhere
<1>n. \A m \in core.base .. core.cursor - 1 : m \in Nat BY <1>c
<1>3. CASE Turning
  <2>1. /\ eg'.last = None /\ eg'.batch = <<>> /\ hist'.wrote = hist.wrote BY <1>3, <1>i, TurningDoes
  <2>2. Numbered' => Publish /\ Numbered /\ eg.phase = "Waiting"
    <3>1. CutReset \/ Fail \/ Ending => ~Numbered'
      <4>1. CutReset \/ Fail \/ Ending => eg'.phase \in {"Connecting", "Idle", "Backoff"} BY <1>i, OverIs
      <4> QED BY <4>1 DEF Numbered, OnConnection
    <3>2. Numbered => OnConnection \/ eg.phase = "Waiting" BY DEF Numbered
    <3> QED BY <1>3, <1>i, <1>t, <3>1, <3>2, EgressDoes DEF Turning, OnConnection
  <2>3. Publish /\ eg.phase = "Waiting" => eg.last = None /\ eg.batch = <<>> /\ media' = media
    BY <1>i, EgressDoes DEF NothingYet, OnConnection
  <2>4. Numbered' => /\ \A m \in core.base .. core.cursor - 1 : Present(m)'
                     /\ eg'.last < core.cursor /\ UpTo(Safe(eg'.last))
    <3> SUFFICES ASSUME Numbered' PROVE /\ \A m \in core.base .. core.cursor - 1 : Present(m)'
                                        /\ eg'.last < core.cursor /\ UpTo(Safe(eg'.last))
      OBVIOUS
    <3>1. eg'.last = eg.last /\ eg'.batch = eg.batch /\ media' = media /\ Numbered BY <2>1, <2>2, <2>3
    <3>2. \A m \in core.base .. core.cursor - 1 : Present(m)' BY <1>h, <1>k, <2>1, <3>1 DEF Present
    <3> QED BY <1>b, <1>h, <3>1, <3>2
  <2> QED BY <1>s, <2>1, <2>4
<1>4. CASE CutUnconnected \/ CutLive \/ DropQueued \/ StopLive \/ Leave \/ Acknowledge \/ Linger \/ Accept
  <2>1. /\ eg'.last = eg.last /\ eg'.batch = eg.batch /\ hist.wrote \subseteq hist'.wrote
    <3>1. CASE CutUnconnected \/ CutLive \/ DropQueued \/ StopLive BY <1>i, <3>1, QuietDoes
    <3>2. CASE Leave \/ Acknowledge \/ Linger \/ Accept BY <1>i, <3>2, BatchDoes
    <3> QED BY <1>4, <3>1, <3>2
  <2>2. Numbered => media' = media
    <3>1. DropQueued => ~Numbered BY <1>i, EgressDoes DEF Numbered, OnConnection
    <3> QED BY <1>4, <1>i, <3>1, EgressDoes, BatchDoes
  <2>3. Numbered => \A m \in core.base .. core.cursor - 1 : Present(m)'
    <3> SUFFICES ASSUME Numbered, NEW m \in core.base .. core.cursor - 1 PROVE Present(m)' OBVIOUS
    <3>1. Present(m) BY <1>h
    <3> QED BY <1>k, <2>1, <2>2, <3>1 DEF Present
  <2> QED BY <1>b, <1>h, <1>s, <1>t, <2>1, <2>3
<1>5. CASE TakeBatch
  <2>1. eg'.last = eg.last /\ hist' = hist /\ eg.phase = "Live" BY <1>5, <1>i, BatchDoes
  <2>2. DOMAIN eg.batch = {} BY <1>i, <2>1 DEF NothingYet
  <2>3. Numbered => \A m \in core.base .. core.cursor - 1 : Present(m)'
    <3> SUFFICES ASSUME Numbered, NEW m \in core.base .. core.cursor - 1 PROVE Present(m)' OBVIOUS
    <3>1. Present(m) BY <1>h
    <3>2. CASE m \in hist.wrote BY <2>1, <3>2 DEF Present
    <3>3. CASE \E i \in DOMAIN media : media[i] = <<core.gen, core.cut, m>>
      BY <1>5, <1>n, <3>3, TakenIsThere
    <3> QED BY <2>2, <3>1, <3>2, <3>3 DEF Present
  <2> QED BY <1>b, <1>h, <1>s, <1>t, <2>1, <2>3
<1>6. CASE BatchDone
  <2>1. /\ eg.put = Len(eg.batch) /\ eg'.batch = <<>> /\ media' = media /\ hist'.wrote = hist.wrote
        /\ eg.batch = <<>> => eg'.last = eg.last
        /\ eg.batch # <<>> => eg'.last = Last(eg.batch)
    BY <1>6, <1>i, BatchDoes
  <2>2. \A i \in DOMAIN eg.batch : eg.batch[i] \in hist.wrote BY <1>b, <1>i, <2>1, WireIs
  <2>3. Numbered => \A m \in core.base .. core.cursor - 1 :
          m \in hist.wrote \/ \E i \in DOMAIN media : media[i] = <<core.gen, core.cut, m>>
    BY <1>h, <2>2 DEF Present
  <2>4. Numbered => \A m \in core.base .. core.cursor - 1 : Present(m)' BY <1>k, <2>1, <2>3 DEF Present
  <2>5. CASE eg.batch = <<>> BY <1>b, <1>h, <1>s, <1>t, <2>1, <2>4, <2>5
  <2>6. CASE eg.batch # <<>>
    <3>1. Last(eg.batch) < core.cursor /\ Last(eg.batch) \in Nat
      <4>1. Last(eg.batch) = eg.batch[Len(eg.batch)] BY DEF Last
      <4>2. Len(eg.batch) \in DOMAIN eg.batch BY <1>i, <2>6, WireIs, EmptyIs
      <4> QED BY <1>b, <1>i, <4>1, <4>2, WireIs
    <3>2. PICK x \in Nat : x = Last(eg.batch) BY <3>1
    <3>3. Numbered => UpTo(Safe(x))
      <4> SUFFICES ASSUME Numbered, NEW m \in core.base .. Safe(x) - 1 PROVE m \in hist.wrote BY DEF UpTo
      <4>1. Safe(x) \in Nat /\ Safe(x) <= core.cursor /\ (x # 0 => Safe(x) <= x + 1)
        <5>1. core.first \in Nat BY <1>i, CursorIs
        <5> QED BY <1>c, <5>1 DEF Safe, Resume, Lesser, None
      <4>2. x # 0
        <5>1. x = eg.batch[Len(eg.batch)] /\ Len(eg.batch) \in DOMAIN eg.batch
          BY <1>i, <2>6, <3>2, WireIs, EmptyIs DEF Last
        <5>2. hist.back < x BY <5>1 DEF OutletInv, Sending, Between
        <5>3. hist.back \in Nat BY <1>i DEF Types
        <5> QED BY <5>2, <5>3
      <4>3. m \in core.base .. core.cursor - 1 /\ m \in Nat /\ m <= x BY <1>c, <4>1, <4>2
      <4>4. ~ \E i \in DOMAIN media : media[i] = <<core.gen, core.cut, m>>
        <5>1. ASSUME NEW i \in DOMAIN media, media[i] = <<core.gen, core.cut, m>> PROVE FALSE
          <6>1. m > x BY <1>6, <2>6, <3>2, <4>3, <5>1, QueuedComesAfter
          <6> QED BY <4>3, <6>1
        <5> QED BY <5>1
      <4> QED BY <2>3, <4>3, <4>4
    <3>4. eg'.last = x BY <2>1, <2>6, <3>2
    <3> QED BY <1>s, <1>t, <2>1, <2>4, <3>1, <3>2, <3>3, <3>4
  <2> QED BY <2>5, <2>6
<1> QED BY <1>3, <1>4, <1>5, <1>6 DEF Egress, Turning, Ending

LEMMA HandedInvInit == Init => HandedInv
<1> SUFFICES ASSUME Init PROVE HandedInv OBVIOUS
<1>1. /\ core.cursor = 1 /\ core.base = 1 /\ ~core.up /\ events = <<>> /\ eg = In("Idle")
  BY DEF Init
<1>2. eg.batch = <<>> /\ eg.put = 0 /\ eg.last = None /\ eg.phase = "Idle" BY <1>1, InIs
<1>3. DOMAIN events = {} /\ DOMAIN eg.batch = {} /\ 1 .. eg.put = {} BY <1>1, <1>2
<1>4. OneLoss BY <1>3 DEF OneLoss
<1>5. Behind BY <1>1, <1>2, <1>3 DEF Behind, None
<1>6. ~Numbered BY <1>2 DEF Numbered, OnConnection
<1>7. core.base .. core.cursor - 1 = {} BY <1>1
<1>8. Somewhere BY <1>3, <1>6, <1>7 DEF Somewhere, UpTo
<1> QED BY <1>4, <1>5, <1>8 DEF HandedInv

LEMMA HandedInvNext == OutletInv /\ HandedInv /\ [Next]_vars => HandedInv'
<1> SUFFICES ASSUME OutletInv, HandedInv, [Next]_vars PROVE HandedInv' OBVIOUS
<1>1. Types' BY TypesNext
<1>2. OneLoss' /\ Behind' BY OneLossNext, BehindNext DEF HandedInv
<1>3. Somewhere'
  <2>1. CASE Core BY <1>1, <2>1, SomewhereCore DEF HandedInv
  <2>2. CASE Egress \/ Leave \/ Acknowledge \/ Linger BY <1>1, <2>2, SomewhereEgress DEF HandedInv
  <2>3. CASE UNCHANGED vars
    <3>1. Somewhere BY DEF HandedInv
    <3> QED BY <2>3, <3>1 DEF vars, Somewhere, Numbered, OnConnection, LossTold, UpTo, Safe, Resume, Present
  <2> QED BY <2>1, <2>2, <2>3 DEF Next
<1> QED BY <1>2, <1>3 DEF HandedInv

(* Nothing is skipped, over lost connections, timeouts and dumps: what the *)
(* core has handed over was taken by the system, is being written, or is   *)
(* queued for the present connection; at a loss the core goes back far     *)
(* enough, with what the egress says was written last (core.rs,            *)
(* EgressDisconnected).                                                    *)
THEOREM HandedOver == Spec => []HandedOverIsQueued
<1>1. Init => OutletInv /\ HandedInv BY OutletInvInit, HandedInvInit
<1>2. OutletInv /\ HandedInv /\ [Next]_vars => OutletInv' /\ HandedInv' BY OutletInvNext, HandedInvNext
<1>3. HandedInv => HandedOverIsQueued
  <2> SUFFICES ASSUME HandedInv, core.dump = "No", events = <<>>, NEW m \in core.base .. core.cursor - 1
               PROVE  Present(m)
    BY DEF HandedOverIsQueued, Present
  <2>1. ~LossTold BY DEF LossTold
  <2>2. CASE Numbered BY <2>2 DEF HandedInv, Somewhere
  <2>3. CASE ~Numbered
    <3>1. UpTo(core.cursor) BY <2>1, <2>3 DEF HandedInv, Somewhere
    <3> QED BY <3>1 DEF UpTo, Present
  <2> QED BY <2>2, <2>3
<1> QED BY <1>1, <1>2, <1>3, PTL DEF Spec
=============================================================================
