-------------------------------- MODULE Link --------------------------------
(***************************************************************************)
(* The core (relay/src/core.rs) and the destination connection             *)
(* (relay/src/egress.rs), two tasks that exchange messages: control and    *)
(* media one way, events the other, with two counters they share.  The     *)
(* operating system holds what was written and has not left, or has left   *)
(* and is not acknowledged (relay/src/sendq.rs).                           *)
(*                                                                         *)
(* A message is a number, and counts as one byte.  The engine is reduced   *)
(* to its cursor: the next message to hand over; base, before which all is *)
(* thrown away; edge, the last message ever handed over; and first, the    *)
(* first that this connection was handed.                                  *)
(***************************************************************************)
EXTENDS Naturals, Sequences, FiniteSets, SequencesExt

CONSTANTS
  Acts,        \* what may happen in a run: "Lose", "Blind", "Stop", "Abort", "Timeout", "End"
  Batch,       \* the most messages taken from the queue at once
  OsHolds,     \* the most the operating system holds
  HeldAtMost,  \* the most it is taken to hold where it cannot say
  Kept,        \* how far back the write log reaches
  MaxBacklog,  \* the most that may be queued
  MaxMade, MaxGen, MaxCut, MaxStarts
               \* bounds of the check: messages, connections, dumps, broadcasts

ASSUME LinkConstants ==
  /\ {Batch, OsHolds, HeldAtMost, Kept, MaxBacklog, MaxMade, MaxGen, MaxCut, MaxStarts}
       \subseteq Nat \ {0}
  /\ HeldAtMost >= OsHolds
  /\ Kept >= OsHolds + Batch

VARIABLES
  core,     \* the core: [on, starts, up, gen, cut, dump, cursor, base, edge, first, mark]
  backlog,  \* counters.backlog
  ctl,      \* control messages to the egress
  media,    \* media to the egress: <<generation, cut, message>>
  events,   \* events to the core
  eg,       \* the egress: [phase, reply, gen, last, log, total, taken, batch, put]
  os,       \* the socket: [wire, flight], and linger: what closed sockets still send
  hist      \* history: see HistInit

vars == <<core, backlog, ctl, media, events, eg, os, hist>>

None == 0

NoConnection == [phase |-> "Idle", reply |-> None, gen |-> None, last |-> None, log |-> <<>>,
                 total |-> 0, taken |-> 0, batch |-> <<>>, put |-> 0]
In(phase) == [NoConnection EXCEPT !.phase = phase]

(* History, which no step reads:                                           *)
(*   left     what has left this computer, acked what was acknowledged     *)
(*   wrote    what the operating system took                               *)
(*   done     the batches of this connection: <<last message, bytes so far>> *)
(*   tail     what left last on this connection                            *)
(*   back     all up to this was taken back, and the egress was told       *)
HistInit == [left |-> {}, acked |-> {}, wrote |-> {}, done |-> {}, tail |-> 0, back |-> 0]
TakenBack == hist' = [hist EXCEPT !.back = core'.base - 1]

Init ==
  /\ core = [on |-> FALSE, starts |-> 0, up |-> FALSE, gen |-> 0, cut |-> 0, dump |-> "No",
             cursor |-> 1, base |-> 1, edge |-> 0, first |-> None, mark |-> None]
  /\ backlog = 0
  /\ ctl = <<>> /\ media = <<>> /\ events = <<>>
  /\ eg = In("Idle")
  /\ os = [wire |-> <<>>, flight |-> <<>>, linger |-> <<>>]
  /\ hist = HistInit

Start == [kind |-> "Start"]
Stop == [kind |-> "Stop"]
Abort == [kind |-> "Abort"]
Cut(n) == [kind |-> "Cut", cut |-> n]

Connected == [kind |-> "Connected"]
CutDone(n, reset, delivered) == [kind |-> "CutDone", cut |-> n, reset |-> reset, delivered |-> delivered]
Disconnected(last) == [kind |-> "Disconnected", last |-> last]

Told(c) == ctl # <<>> /\ Head(ctl).kind = c /\ ctl' = Tail(ctl)
Greater(a, b) == IF a > b THEN a ELSE b
Lesser(a, b) == IF a < b THEN a ELSE b

-----------------------------------------------------------------------------
(* The core.  Between storing the number of a dump in the shared counter   *)
(* and asking the egress it does nothing else.                             *)
Free == core.dump # "Raised"

(* pump(): nothing is queued while a dump waits, nor past the mark. *)
Emit ==
  /\ core.up /\ core.dump = "No" /\ backlog < MaxBacklog
  /\ core.cursor <= MaxMade
  /\ core.mark # None => core.cursor <= core.mark
  /\ media' = Append(media, <<core.gen, core.cut, core.cursor>>)
  /\ backlog' = backlog + 1
  /\ core' = [core EXCEPT !.cursor = @ + 1, !.edge = Greater(@, core.cursor),
                          !.first = IF @ = None THEN core.cursor ELSE @]
  /\ UNCHANGED <<ctl, events, eg, os, hist>>

StartEgress ==
  /\ Free /\ ~core.on /\ core.starts < MaxStarts
  /\ core' = [core EXCEPT !.on = TRUE, !.starts = @ + 1]
  /\ ctl' = Append(ctl, Start)
  /\ UNCHANGED <<backlog, media, events, eg, os, hist>>

(* What the engine has not aired is thrown away. *)
Discarded(c) == [c EXCEPT !.up = FALSE, !.base = c.edge + 1, !.cursor = c.edge + 1, !.mark = None]

(* The destination was changed. *)
StopEgress ==
  /\ "Stop" \in Acts
  /\ Free /\ core.on
  /\ core' = [core EXCEPT !.on = FALSE]
  /\ ctl' = Append(ctl, Stop)
  /\ UNCHANGED <<backlog, media, events, eg, os, hist>>

EndNow ==
  /\ "Abort" \in Acts
  /\ Free /\ core.on
  /\ core' = [Discarded(core) EXCEPT !.on = FALSE]
  /\ ctl' = Append(ctl, Abort)
  /\ UNCHANGED <<backlog, media, events, eg, os, hist>>

EndAfterAir ==
  /\ "End" \in Acts
  /\ Free /\ core.on /\ core.mark = None /\ core.edge > 0
  /\ core' = [core EXCEPT !.mark = core.edge]
  /\ UNCHANGED <<backlog, ctl, media, events, eg, os, hist>>

(* Everything up to the mark is handed over, and nothing of it queued. *)
EndAtMark ==
  /\ Free /\ core.on
  /\ core.mark # None /\ core.cursor > core.mark /\ backlog = 0
  /\ core' = [Discarded(core) EXCEPT !.on = FALSE]
  /\ ctl' = Append(ctl, Stop)
  /\ UNCHANGED <<backlog, media, events, eg, os, hist>>

(* start_dump() in its two steps *)
RaiseCut ==
  /\ core.dump = "No" /\ core.on /\ core.cut < MaxCut
  /\ core' = [core EXCEPT !.cut = @ + 1, !.dump = "Raised"]
  /\ UNCHANGED <<backlog, ctl, media, events, eg, os, hist>>

AskCut ==
  /\ core.dump = "Raised"
  /\ core' = [core EXCEPT !.dump = "Asked"]
  /\ ctl' = Append(ctl, Cut(core.cut))
  /\ UNCHANGED <<backlog, media, events, eg, os, hist>>

(* finish_dump(): what was emitted after `delivered` has not aired, and it *)
(* and all that has been recorded is thrown away.                          *)
FinishDump ==
  core' = [core EXCEPT !.dump = "No", !.base = core.edge + 1, !.cursor = core.edge + 1]

CheckDump ==
  /\ "Timeout" \in Acts
  /\ core.dump = "Asked"
  /\ FinishDump
  /\ IF Cut(core.cut) \in ToSet(ctl) THEN UNCHANGED hist ELSE TakenBack
  /\ UNCHANGED <<backlog, ctl, media, events, eg, os>>

(* With no broadcast on, a dump asks nobody. *)
DumpUnlinked ==
  /\ "Stop" \in Acts
  /\ core.dump = "No" /\ ~core.on /\ core.edge >= core.base
  /\ FinishDump
  /\ UNCHANGED <<backlog, ctl, media, events, eg, os, hist>>

(* An answer to another dump than the present one is dropped. *)
Answers(e) == e.cut = core.cut /\ core.dump = "Asked"

HandleCutDone(e) ==
  /\ e.kind = "CutDone"
  /\ IF Answers(e) THEN FinishDump /\ TakenBack ELSE UNCHANGED <<core, hist>>
  /\ UNCHANGED eg

(* A new connection starts from the keyframe at or before the cursor. *)
HandleConnected(e) ==
  /\ e.kind = "Connected"
  /\ \E k \in {core.cursor, core.cursor - 1} :
       /\ k >= core.base
       /\ core' = [core EXCEPT !.up = TRUE, !.gen = @ + 1, !.cursor = k, !.first = None]
  /\ eg' = [eg EXCEPT !.reply = core.gen + 1]
  /\ UNCHANGED hist

(* Sending goes on after what was written last, or from the first message  *)
(* this connection was given.                                              *)
ResumeAfter(last) == IF last # None THEN last + 1 ELSE core.cursor
Resume(last) == IF last # None THEN last + 1 ELSE IF core.first # None THEN core.first ELSE core.cursor

HandleDisconnected(e) ==
  /\ e.kind = "Disconnected"
  /\ core' = [core EXCEPT !.up = FALSE, !.cursor = Greater(core.base, Lesser(@, Resume(e.last)))]
  /\ UNCHANGED <<eg, hist>>

HandleEvent ==
  /\ Free /\ events # <<>>
  /\ events' = Tail(events)
  /\ LET e == Head(events)
     IN HandleCutDone(e) \/ HandleConnected(e) \/ HandleDisconnected(e)
  /\ UNCHANGED <<backlog, ctl, media, os>>

-----------------------------------------------------------------------------
(* The egress.  Control messages come before anything else (its selects    *)
(* are biased), so all but the backoff looks at its other inputs only with *)
(* none waiting.  A Start reaches it only when idle, a Stop or an Abort    *)
(* only when not: the core sends them in turns.                            *)

(* Media of an ended connection is dropped before the stop is reported. *)

Stopped(reports) ==
  /\ eg' = In("Idle")
  /\ media' = <<>>
  /\ events' = events \o reports

Retry(reports) ==
  /\ eg' = In("Backoff")
  /\ events' = events \o reports

Again(reports) ==
  /\ eg' = In("Connecting")
  /\ events' = events \o reports

(* Resetting the connection drops what the system holds; closing it does   *)
(* not: the system goes on sending.                                        *)
Reset == os' = [os EXCEPT !.wire = <<>>, !.flight = <<>>]
Close == os' = [os EXCEPT !.wire = <<>>, !.flight = <<>>, !.linger = @ \o os.wire]

UnconnectedNow == eg.phase \in {"Idle", "Connecting"}
Unconnected == eg.phase \in {"Idle", "Connecting", "Backoff"}
Publishing == eg.phase \in {"Live", "Writing"}

TakeStart ==
  /\ eg.phase = "Idle" /\ Told("Start")
  /\ Again(<<>>)
  /\ UNCHANGED <<core, backlog, media, os, hist>>

StopUnconnected ==
  /\ eg.phase \in {"Connecting", "Backoff"}
  /\ Told("Stop") \/ Told("Abort")
  /\ Stopped(<<>>)
  /\ backlog' = backlog - Len(media)
  /\ UNCHANGED <<core, os>> /\ TakenBack

(* Nothing is sent yet, and what is queued was made for another connection.*)
CutUnconnected ==
  /\ Unconnected /\ Told("Cut")
  /\ events' = Append(events, CutDone(Head(ctl).cut, FALSE, None))
  /\ UNCHANGED <<core, backlog, media, eg, os>> /\ TakenBack

DropQueued ==
  /\ eg.phase \in {"Idle", "Backoff"} /\ media # <<>>
  /\ media' = Tail(media) /\ backlog' = backlog - 1
  /\ UNCHANGED <<core, ctl, events, eg, os, hist>>

ConnectOk ==
  /\ eg.phase = "Connecting" /\ ctl = <<>> /\ core.gen < MaxGen
  /\ eg' = In("Waiting")
  /\ events' = Append(events, Connected)
  /\ UNCHANGED <<core, backlog, ctl, media, os, hist>>

ConnectFails ==
  /\ "Lose" \in Acts
  /\ eg.phase = "Connecting" /\ ctl = <<>>
  /\ Retry(<<>>)
  /\ UNCHANGED <<core, backlog, ctl, media, os, hist>>

BackoffOver ==
  /\ eg.phase = "Backoff"
  /\ Again(<<>>)
  /\ UNCHANGED <<core, backlog, ctl, media, os, hist>>

(* The core has given the connection its number. *)
Publish ==
  /\ eg.phase = "Waiting" /\ eg.reply # None
  /\ eg' = [In("Live") EXCEPT !.gen = eg.reply]
  /\ hist' = [hist EXCEPT !.tail = 0]
  /\ UNCHANGED <<core, backlog, ctl, media, events, os>>

(* One batch: of what is taken from the queue, what was made for this      *)
(* connection and not taken back since.  The shared counter is read once.  *)
WantedHere(q) == q[1] = eg.gen
Wanted(q) == q[1] = eg.gen /\ q[2] = core.cut
Nth(S, n) == CHOOSE i \in S : Cardinality({j \in S : j < i}) = n - 1
Wants(queued) ==
  LET here == {i \in DOMAIN queued : Wanted(queued[i])}
  IN [n \in 1 .. Cardinality(here) |-> queued[Nth(here, n)][3]]

TakeBatch ==
  /\ eg.phase = "Live" /\ ctl = <<>>
  /\ \E n \in 1 .. Lesser(Batch, Len(media)) :
       /\ eg' = [eg EXCEPT !.phase = "Writing", !.taken = n, !.put = 0,
                           !.batch = Wants(SubSeq(media, 1, n))]
       /\ media' = SubSeq(media, n + 1, Len(media))
  /\ UNCHANGED <<core, backlog, ctl, events, os, hist>>

(* The system takes a message. *)
Accept ==
  /\ eg.phase = "Writing" /\ ctl = <<>> /\ eg.put < Len(eg.batch)
  /\ Len(os.wire) + Len(os.flight) < OsHolds
  /\ eg' = [eg EXCEPT !.put = @ + 1]
  /\ os' = [os EXCEPT !.wire = Append(@, eg.batch[eg.put + 1])]
  /\ hist' = [hist EXCEPT !.wrote = @ \cup {eg.batch[eg.put + 1]}]
  /\ UNCHANGED <<core, backlog, ctl, media, events>>

(* What was taken for this batch counts as queued until it is written or  *)
(* the connection ends, what was not wanted included.                      *)
CountedWanted == Len(eg.batch)
Counted == eg.taken

(* The write log has the last message of each batch, with how many bytes   *)
(* had been written once it was; old ones are dropped from its front.      *)
LoggedLast(log, total) == <<<<Last(eg.batch), total>>>>
Logged(log, total) ==
  LET all == Append(log, <<Last(eg.batch), total>>)
  IN SubSeq(all, Min({i \in DOMAIN all : total - all[i][2] <= Kept}), Len(all))

SurelySent(unsent) ==
  LET sent == {i \in DOMAIN eg.log : eg.log[i][2] + unsent <= eg.total}
  IN IF sent = {} THEN None ELSE eg.log[Max(sent)][1]

Done == [eg EXCEPT !.phase = "Live", !.taken = 0, !.batch = <<>>, !.put = 0]
BatchDone ==
  /\ eg.phase = "Writing" /\ ctl = <<>> /\ eg.put = Len(eg.batch)
  /\ IF eg.batch = <<>>
     THEN eg' = Done /\ UNCHANGED hist
     ELSE LET total == eg.total + Len(eg.batch)
          IN /\ eg' = [Done EXCEPT !.total = total, !.last = Last(eg.batch),
                                   !.log = Logged(@, total)]
             /\ hist' = [hist EXCEPT !.done = @ \cup {<<Last(eg.batch), total>>}]
  /\ backlog' = backlog - Counted
  /\ UNCHANGED <<core, ctl, media, events, os>>

(* What the system holds; where it cannot say, it is taken to be much.     *)
Unsent == Len(os.wire)
HeldUnsent(blind) == IF blind THEN HeldAtMost ELSE Len(os.wire)
Held(blind) == IF blind THEN HeldAtMost ELSE Len(os.wire) + Len(os.flight)
Blind == IF "Blind" \in Acts THEN BOOLEAN ELSE {FALSE}

(* Nothing from before the dump waits here: what was written is on its     *)
(* way, and what is queued is dropped when it is taken.                    *)
CutLive ==
  /\ eg.phase = "Live" /\ Unsent = 0 /\ Told("Cut")
  /\ events' = Append(events, CutDone(Head(ctl).cut, FALSE, eg.last))
  /\ UNCHANGED <<core, backlog, media, eg, os>> /\ TakenBack

(* Else the connection is reset.  Of what was written, the destination     *)
(* surely has only what it acknowledged.                                   *)
CutReset ==
  /\ Publishing /\ Told("Cut")
  /\ \E blind \in Blind :
       /\ eg.phase = "Writing" \/ Unsent # 0 \/ blind
       /\ Again(<<CutDone(Head(ctl).cut, TRUE, SurelySent(Held(blind))), Disconnected(eg.last)>>)
  /\ Reset
  /\ hist' = [hist EXCEPT !.done = {}, !.back = core.base - 1]
  /\ backlog' = backlog - Counted
  /\ UNCHANGED <<core, media>>

(* A clean close may take a while, in which the egress hears nothing. *)
StopLive ==
  /\ eg.phase = "Live" /\ Told("Stop")
  /\ eg' = [eg EXCEPT !.phase = "Closing"]
  /\ UNCHANGED <<core, backlog, media, events, os, hist>>

Ended(drop) ==
  /\ Stopped(<<Disconnected(eg.last)>>)
  /\ drop
  /\ hist' = [hist EXCEPT !.done = {}, !.back = core.base - 1]
  /\ backlog' = backlog - Counted - Len(media)
  /\ UNCHANGED core

Closed == eg.phase = "Closing" /\ Ended(Close) /\ UNCHANGED ctl
StopWriting == eg.phase = "Writing" /\ Told("Stop") /\ Ended(Close)
AbortPublishing == Publishing /\ Told("Abort") /\ Ended(Reset)

(* The destination closes the connection, refuses the stream, takes no     *)
(* data for too long, or the network reports that it is gone.              *)
Fail ==
  /\ "Lose" \in Acts
  /\ Publishing /\ ctl = <<>>
  /\ Retry(<<Disconnected(eg.last)>>)
  /\ Reset
  /\ hist' = [hist EXCEPT !.done = {}]
  /\ backlog' = backlog - Counted
  /\ UNCHANGED <<core, ctl, media>>

Egress ==
  \/ TakeStart \/ StopUnconnected \/ CutUnconnected
  \/ DropQueued \/ ConnectOk \/ ConnectFails \/ BackoffOver \/ Publish
  \/ TakeBatch \/ Accept \/ BatchDone
  \/ CutLive \/ CutReset \/ StopLive \/ Closed \/ StopWriting \/ AbortPublishing \/ Fail

-----------------------------------------------------------------------------
(* The operating system sends what it holds, and hears that it arrived. *)

Leave ==
  /\ os.wire # <<>>
  /\ os' = [os EXCEPT !.wire = Tail(@), !.flight = Append(@, Head(os.wire))]
  /\ hist' = [hist EXCEPT !.left = @ \cup {Head(os.wire)}, !.tail = Head(os.wire)]
  /\ UNCHANGED <<core, backlog, ctl, media, events, eg>>

Acknowledge ==
  /\ os.flight # <<>>
  /\ os' = [os EXCEPT !.flight = Tail(@)]
  /\ hist' = [hist EXCEPT !.acked = @ \cup {Head(os.flight)}]
  /\ UNCHANGED <<core, backlog, ctl, media, events, eg>>

Linger ==
  /\ os.linger # <<>>
  /\ os' = [os EXCEPT !.linger = Tail(@)]
  /\ hist' = [hist EXCEPT !.left = @ \cup {Head(os.linger)}]
  /\ UNCHANGED <<core, backlog, ctl, media, events, eg>>

Core ==
  \/ Emit \/ StartEgress \/ StopEgress \/ EndNow \/ EndAfterAir \/ EndAtMark
  \/ RaiseCut \/ AskCut \/ CheckDump \/ DumpUnlinked \/ HandleEvent

Next == Core \/ Egress \/ Leave \/ Acknowledge \/ Linger

Spec == Init /\ [][Next]_vars

(* The core and the egress do what they have been told; the streamer, the  *)
(* network and the destination need not do anything.                       *)
Obliging ==
  \/ AskCut \/ HandleEvent \/ TakeStart \/ StopUnconnected \/ CutUnconnected \/ Publish
  \/ CutLive \/ CutReset \/ StopLive \/ Closed \/ StopWriting \/ AbortPublishing
FairSpec == Spec /\ WF_vars(AskCut) /\ WF_vars(HandleEvent) /\ WF_vars(Obliging)

-----------------------------------------------------------------------------
(* The core stops queueing on backlog and ends a broadcast on it: it is    *)
(* what waits in the channel or is being written, on every path on which a *)
(* connection ends, and nothing leaks.                                     *)
BacklogIsQueued == backlog = Len(media) + eg.taken

(* What an answer to the present dump says the destination has, has left   *)
(* this computer, and with the connection reset has been acknowledged.     *)
AnswerIsTrue ==
  \A i \in DOMAIN events :
    LET e == events[i]
    IN e.kind = "CutDone" /\ Answers(e) /\ e.delivered # None
         => e.delivered \in IF e.reset THEN hist.acked ELSE hist.left

(* Nothing is skipped, over lost connections and dumps: what the core has  *)
(* handed over was taken by the system, or is being written, or is queued  *)
(* for the present connection.                                             *)
HandedOverIsQueued ==
  core.dump = "No" /\ events = <<>>
    => \A m \in core.base .. core.cursor - 1 :
         \/ m \in hist.wrote
         \/ \E i \in DOMAIN eg.batch : eg.batch[i] = m
         \/ \E i \in DOMAIN media : media[i] = <<core.gen, core.cut, m>>

(* The write log reaches back past what the system may hold, so that all   *)
(* the destination has of whole batches is known.                          *)
LogReachesBack ==
  Publishing => \A b \in hist.done, blind \in Blind :
                  b[2] + Held(blind) <= eg.total => SurelySent(Held(blind)) >= b[1]

(* The link is the outlet: in order, without gaps, and nothing that was    *)
(* taken back leaves once the egress was told, or has answered.            *)
Out == INSTANCE Outlet WITH made <- core.edge, settled <- hist.back, tail <- hist.tail
ImplementsOutlet == Out!Spec

(* A dump is always answered, in whatever state it finds the connection.   *)
DumpAnswered == core.dump = "Asked" ~> core.dump = "No"
=============================================================================
