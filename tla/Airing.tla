------------------------------- MODULE Airing -------------------------------
(***************************************************************************)
(* What viewers get: the delay engine between the encoder, the streamer's  *)
(* commands, the overlay, the clock and the destination connection, as     *)
(* the core (crates/relay/src/core.rs) puts them together.                 *)
(*                                                                         *)
(* queue holds what the engine handed over and the connection has not      *)
(* written yet; log what it has written, in order.  A dump takes the queue *)
(* back, asks the connection what it has written, and waits.  The core     *)
(* pumps the engine after every event, so nothing else happens, and no     *)
(* time passes, while the engine has something to do.                      *)
(***************************************************************************)
EXTENDS DelayEngine, SequencesExt

CONSTANTS
  Initial,     \* the delay set before the stream
  Keep,        \* the values of keep_history the streamer may choose
  SetDelays,   \* the delays the streamer may ask for
  Modes,       \* the delay modes they may use: "Rewind", "Mask"
  Acts,        \* what else happens in a run: see Next
  Kinds,       \* the kinds of message the encoder sends
  Backlog,     \* how many messages may wait in the queue
  Rate,        \* how many messages the encoder sends in a moment of the clock
  MaxNow, MaxCount, MaxSessions, MaxOps   \* bounds of the check

ASSUME AiringConstants ==
  /\ Initial \in 0..MaxDelay /\ SetDelays \subseteq 0..MaxDelay
  /\ Keep \subseteq BOOLEAN /\ Keep # {}
  /\ Backlog \in Nat \ {0}

VARIABLES
  eng,    \* the engine
  now,    \* the clock
  queue,  \* handed to the connection: a sequence of items
  log,    \* written on this connection
  late,   \* a disconnect the core has not heard of yet: <<>> or <<last written>>
  cut,    \* a dump waiting for the connection's answer
  seen,   \* history: see SeenInit
  ops     \* how many commands and outages there have been

vars == <<eng, now, queue, log, late, cut, seen, ops>>

Item(s) == [seq |-> s, uid |-> eng.ring[s].uid, kind |-> eng.ring[s].kind, ref |-> eng.ring[s].ref]
Held(uid) == [seq |-> None, uid |-> uid, kind |-> "key", ref |-> None]
NoCut == [on |-> FALSE]
Connected == eng.up /\ late = <<>>

Uids(items) == {items[i].uid : i \in DOMAIN items}
Videos(items) == SelectSeq(items, LAMBDA m : m.kind # "audio")
LastWritten(items) ==
  LET numbered == {i \in DOMAIN items : items[i].seq # None}
  IN IF numbered = {} THEN None ELSE items[Max(numbered)].seq

(* History variables, of which no action of the system reads any but the   *)
(* first two, which number the messages:                                   *)
(*   count    messages the encoder has sent                                *)
(*   video    its last video frame in this session                         *)
(*   aired    what was written on earlier connections                      *)
(*   promise  the delay viewers are promised: what the streamer asked for, *)
(*            once in effect, until they lower it                          *)
(*   painted  when an overlay painted the slate for the change under way   *)
(*   skipped  what a jump forward passed over                              *)
(*   doomed   what a dump or the end of a broadcast threw away             *)
(*   settled  the last message there was when something was thrown away    *)
(*   back     what a dump took back from the queue                         *)
SeenInit == [count |-> 0, video |-> None, aired |-> {}, promise |-> Initial,
             painted |-> None, skipped |-> {}, doomed |-> {}, settled |-> 0, back |-> {}]

Init ==
  /\ \E keep \in Keep : eng = NewEngine(keep, Initial)
  /\ now = 0 /\ ops = 0
  /\ queue = <<>> /\ log = <<>> /\ late = <<>> /\ cut = NoCut
  /\ seen = SeenInit

(* The promise after a step that leaves the engine in state e, when it was *)
(* q or the streamer has just lowered it to q.  Going live once all has    *)
(* aired lowers it then, and want of memory lowers it at once.             *)
Promised(q, e) ==
  LET aired == eng.pend.to = "AfterAir" /\ e.pend.to # "AfterAir" /\ e.cursor > eng.pend.mark
      p == IF aired THEN 0 ELSE q
  IN CASE ~e.started -> IF "memory" \in e.warn THEN e.delay ELSE e.target
       [] e.started /\ e.pend = NoChange -> Greater(p, Lesser(e.target, e.delay))
       [] e.started /\ e.pend.to = "Reduce" /\ "memory" \in e.warn -> Lesser(p, e.pend.delay)
       [] OTHER -> p

(* What the streamer skips when the engine goes from eng to e by lowering  *)
(* the delay: what lies between the cursors and did not air.               *)
Passed(e) ==
  IF e.started /\ e.spliced /\ e.delay < eng.delay /\ e.playing = eng.playing /\ ~AfterDump(eng.pend)
  THEN {eng.ring[s].uid : s \in {s \in Buffered(eng) : eng.cursor <= s /\ s < e.cursor}}
         \ (seen.aired \cup Uids(log) \cup Uids(queue'))
  ELSE {}

(* A step takes the engine to e; the promise was p, `gone` is thrown away  *)
(* and `aired` has aired on connections before this one.                   *)
Step(e, p, gone, aired) ==
  /\ eng' = e
  /\ seen' = [seen EXCEPT !.promise = Promised(p, e),
                          !.painted = IF e.change # eng.change THEN None ELSE @,
                          !.skipped = @ \cup Passed(e),
                          !.doomed = @ \cup gone,
                          !.settled = IF gone = {} THEN @ ELSE seen.count,
                          !.aired = aired]

Waiting(from) == {eng.ring[s].uid : s \in {s \in Buffered(eng) : s >= from}}

Counted == ops < MaxOps /\ ops' = ops + 1

-----------------------------------------------------------------------------
(* pump(): room is left while the queue is short and no dump waits.  Where *)
(* "Slow" is not in Acts the connection writes all it gets at once.        *)

Room == ~cut.on /\ Len(queue) < Backlog
Sends(r, x) == Room /\ Finds(r, x, now)
Ready ==
  LET r == Refreshed(eng, now)
      x == Looked(r, now)
  IN /\ x = eng /\ ~Sends(r, x)
     /\ queue = <<>> \/ "Slow" \in Acts

(* The engine does all it can short of handing a message over. *)
Prepare(x) ==
  /\ x # eng
  /\ queue' = queue
  /\ Step(x, seen.promise, {}, seen.aired)
  /\ UNCHANGED <<now, log, late, cut, ops>>

(* A message for a connection that is gone already goes nowhere. *)
Send(x) ==
  /\ ~Muted(x)
  /\ queue' = IF late = <<>> THEN Append(queue, Item(x.cursor)) ELSE queue
  /\ Step(HandedOver(x, now), seen.promise, {}, seen.aired)
  /\ UNCHANGED <<now, log, late, cut, ops>>

Drop(x) ==
  /\ Muted(x)
  /\ queue' = queue
  /\ Step(Dropped(x, now), seen.promise, {}, seen.aired)
  /\ UNCHANGED <<now, log, late, cut, ops>>

Pump ==
  LET r == Refreshed(eng, now)
      x == Looked(r, now)
  IN \/ ~Sends(r, x) /\ Prepare(x)
     \/ Sends(r, x) /\ (Send(x) \/ Drop(x))

(* During a hold the held frame is sent again and again, whatever is       *)
(* queued; a repeat that follows itself changes nothing here.              *)
SendHeld ==
  /\ Connected /\ eng.pend.to = "Hold" /\ eng.hold # None
  /\ \A i \in DOMAIN queue : queue[i].seq # None
  /\ queue = <<>> /\ log # <<>> => Last(log).seq # None
  /\ queue' = Append(queue, Held(eng.hold))
  /\ UNCHANGED <<eng, now, log, late, cut, seen, ops>>

Tick ==
  /\ now < MaxNow
  /\ now' = now + 1
  /\ UNCHANGED <<eng, queue, log, late, cut, seen, ops>>

-----------------------------------------------------------------------------
(* The encoder *)

EncoderStarts ==
  /\ ~eng.active /\ eng.session < MaxSessions
  /\ eng' = IngestStart(eng)
  /\ seen' = [seen EXCEPT !.video = None, !.promise = Promised(@, eng')]
  /\ UNCHANGED <<now, queue, log, late, cut, ops>>

EncoderStops ==
  /\ "Stop" \in Acts /\ eng.active
  /\ eng' = IngestEnd(eng)
  /\ UNCHANGED <<now, queue, log, late, cut, seen, ops>>

Receive(kind) ==
  /\ eng.active /\ seen.count < MaxCount
  /\ Cardinality({s \in Buffered(eng) : eng.ring[s].at = now}) < Rate
  /\ kind = "delta" => seen.video # None
  /\ LET uid == seen.count + 1
         m == [uid |-> uid, kind |-> kind, ref |-> IF kind = "delta" THEN seen.video ELSE None]
     IN /\ eng' = Ingest(eng, m, now)
        /\ seen' = [seen EXCEPT !.count = uid,
                                !.video = IF kind = "audio" THEN @ ELSE uid,
                                !.promise = Promised(@, eng')]
  /\ UNCHANGED <<now, queue, log, late, cut, ops>>

-----------------------------------------------------------------------------
(* Commands.  Each runs the change it asks for at once. *)

Commanded(e, p) ==
  /\ Counted
  /\ queue' = queue
  /\ Step(e, p, {}, seen.aired)
  /\ UNCHANGED <<now, log, late, cut>>

ASetDelay(d, mode) ==
  /\ "SetDelay" \in Acts
  /\ Commanded(SetDelay(eng, d, mode, now), Lesser(seen.promise, d))

AGoLive(when) ==
  /\ when \in Acts
  /\ LET e == GoLiveCommand(eng, when, now)
     IN Commanded(e, IF e.pend.to = "AfterAir" THEN seen.promise ELSE 0)

ACancel == "Cancel" \in Acts /\ Commanded(Cancel(eng, now), seen.promise)

(* An overlay paints the slate, for this change or late for an earlier one.*)
ASlateShown(change) ==
  /\ "Slate" \in Acts
  /\ seen.painted = None
  /\ eng' = SlateShown(eng, change, now)
  /\ seen' = [seen EXCEPT !.painted = IF change = eng.change THEN now ELSE @,
                          !.promise = Promised(@, eng')]
  /\ UNCHANGED <<now, queue, log, late, cut, ops>>

ASetKeepHistory ==
  /\ "Keep" \in Acts /\ Counted
  /\ eng' = [eng EXCEPT !.keep = ~@]
  /\ UNCHANGED <<now, queue, log, late, cut, seen>>

-----------------------------------------------------------------------------
(* Dumping what waits to air *)

(* The dump leaves the engine in e.  What viewers got is `got`; what was   *)
(* taken back, or is lost with the connection, is `lost`.  All that was    *)
(* recorded before an earlier dump was settled by that one: a replay of it *)
(* that is cut short may be shown again.                                   *)
Dumping(e, got, lost) ==
  LET gone == (Waiting(eng.cursor) \cup lost) \ got
  IN Step(e, IF AfterDump(e.pend) THEN DumpDelay(eng) ELSE seen.promise,
          IF CanDump(eng) THEN {uid \in gone : uid > seen.settled} ELSE {}, got)

(* With the connection off, there is nothing to ask and no replay. *)
ADump(cover) ==
  /\ "Dump" \in Acts /\ ~eng.up /\ CanDump(eng) /\ ~cut.on /\ Counted
  /\ queue' = queue
  /\ Dumping(DumpCommand(eng, "Mask", cover, now), seen.aired, {})
  /\ UNCHANGED <<now, log, late, cut>>

(* start_dump(): what is queued is taken back at once, all but what is     *)
(* being written.                                                          *)
StartDump(mode, cover) ==
  /\ "Dump" \in Acts /\ CanDump(eng) /\ ~cut.on /\ Counted
  /\ cut' = [on |-> TRUE, mode |-> mode, cover |-> cover, up |-> eng.up]
  /\ \E k \in {0, 1} : k <= Len(queue) /\ queue' = SubSeq(queue, 1, k)
  /\ seen' = [seen EXCEPT !.back = Uids(queue)]
  /\ UNCHANGED <<eng, now, log, late>>

(* finish_dump(), once the connection has said that the destination surely *)
(* has the first n messages.  It is reset if it has written more or is     *)
(* writing.  (A system that cannot say what was sent resets it in any      *)
(* case: that is a dump, and then a lost connection.)                      *)
FinishDump(n) ==
  /\ cut.on /\ Connected
  /\ cut' = NoCut /\ queue' = <<>>
  /\ LET got  == seen.aired \cup Uids(SubSeq(log, 1, n))
         lost == seen.back \cup Uids(SubSeq(log, n + 1, Len(log)))
         e    == DumpAfter(eng, LastWritten(SubSeq(log, 1, n)), cut.mode, cut.cover, now)
     IN Dumping(e, got, lost)
  /\ IF n < Len(log) \/ queue # <<>>
     THEN late' = <<LastWritten(log)>> /\ log' = <<>>
     ELSE UNCHANGED <<log, late>>
  /\ UNCHANGED <<now, ops>>

(* The connection was lost meanwhile. *)
FinishDumpUnconnected ==
  /\ cut.on /\ ~eng.up /\ late = <<>>
  /\ queue' = queue
  /\ Dumping(DumpAfter(eng, None, "Mask", cut.cover, now), seen.aired, {})
  /\ cut' = NoCut
  /\ UNCHANGED <<now, log, late, ops>>

-----------------------------------------------------------------------------
(* The destination connection *)

(* The lifecycle connects the destination when there is something to send, *)
(* and again after an outage.  A connection that is lost during a dump     *)
(* answers it before it connects again.                                    *)
Connect ==
  /\ ~eng.up /\ late = <<>>
  /\ eng.started \/ OutputWanted(eng, now)
  /\ cut.on => ~cut.up
  /\ queue' = <<>> /\ log' = <<>>
  /\ Step(OutputConnected(eng, now), seen.promise, {}, seen.aired)
  /\ UNCHANGED <<now, late, cut, ops>>

Write ==
  /\ Connected /\ queue # <<>>
  /\ log' = Append(log, Head(queue)) /\ queue' = Tail(queue)
  /\ UNCHANGED <<eng, now, late, cut, seen, ops>>

(* The connection is lost; the core hears of it later. *)
Closes == late' = <<LastWritten(log)>> /\ queue' = <<>> /\ log' = <<>>

ConnectionLost ==
  /\ "Lose" \in Acts /\ Connected /\ Counted
  /\ Closes
  /\ seen' = [seen EXCEPT !.aired = @ \cup Uids(log)]
  /\ UNCHANGED <<eng, now, cut>>

Disconnected ==
  /\ late # <<>>
  /\ late' = <<>>
  /\ eng' = OutputDisconnected(eng, late[1])
  /\ UNCHANGED <<now, queue, log, cut, seen, ops>>

-----------------------------------------------------------------------------
(* The end of a broadcast, as the lifecycle asks for it *)

EndAfterAir ==
  /\ "End" \in Acts /\ eng.mark = None /\ eng.next > 0 /\ Counted
  /\ eng' = [eng EXCEPT !.mark = eng.next - 1]
  /\ UNCHANGED <<now, queue, log, late, cut, seen>>

CancelEnd ==
  /\ "End" \in Acts /\ eng.mark # None /\ Counted
  /\ eng' = [eng EXCEPT !.mark = None]
  /\ UNCHANGED <<now, queue, log, late, cut, seen>>

(* All of it has aired: the connection is stopped. *)
RestartedAfterEnd ==
  /\ EndReached(eng) /\ Connected /\ queue = <<>> /\ ~cut.on
  /\ Closes
  /\ eng' = RestartAfterEnd(eng)
  /\ seen' = [seen EXCEPT !.aired = @ \cup Uids(log), !.promise = Promised(@, eng'),
                          !.painted = None]
  /\ UNCHANGED <<now, cut, ops>>

EndNow ==
  /\ "End" \in Acts /\ ~cut.on /\ Counted
  /\ IF Connected THEN Closes ELSE UNCHANGED <<queue, log, late>>
  /\ eng' = Discard(eng)
  /\ LET aired == seen.aired \cup Uids(log)
     IN seen' = [seen EXCEPT !.aired = aired, !.promise = Promised(@, eng'), !.painted = None,
                             !.doomed = @ \cup ((Waiting(eng.base) \cup Uids(queue)) \ aired),
                             !.settled = seen.count]
  /\ UNCHANGED <<now, cut>>

Happens ==
  \/ SendHeld \/ Tick
  \/ EncoderStarts \/ EncoderStops
  \/ \E kind \in Kinds : Receive(kind)
  \/ \E d \in SetDelays, mode \in Modes : ASetDelay(d, mode)
  \/ \E when \in {"Now", "AfterAir"} : AGoLive(when)
  \/ ACancel \/ ASetKeepHistory
  \/ \E change \in 1 .. eng.change : ASlateShown(change)
  \/ \E cover \in BOOLEAN : ADump(cover)
  \/ \E mode \in Modes, cover \in BOOLEAN : StartDump(mode, cover)
  \/ \E n \in 0 .. Len(log) : FinishDump(n)
  \/ FinishDumpUnconnected
  \/ Connect \/ Disconnected
  \/ EndAfterAir \/ CancelEnd \/ RestartedAfterEnd \/ EndNow

Next == Pump \/ Write \/ ConnectionLost \/ (Ready /\ Happens)

Spec == Init /\ [][Next]_vars

-----------------------------------------------------------------------------
(* The engine's state is well formed: what it refers to is in the buffer   *)
(* or was, and only a broadcast that airs has a change under way.          *)
TypeOK ==
  /\ 0 <= eng.base /\ eng.base <= eng.next /\ DOMAIN eng.ring = Buffered(eng)
  /\ eng.syncs \subseteq Buffered(eng)
  /\ \A s \in Buffered(eng) : eng.ring[s].at \in 0..now /\ eng.ring[s].uid \in 1..seen.count
  /\ \A s, r \in Buffered(eng) :
       s < r => eng.ring[s].at <= eng.ring[r].at /\ eng.ring[s].ses <= eng.ring[r].ses
  /\ eng.cursor <= eng.next
  /\ eng.pend # NoChange => eng.started
  /\ eng.needSync \/ eng.started
  /\ eng.delay \in Nat /\ eng.target \in 0..MaxDelay

(* The overlays are told to show the slate exactly while a change needs it *)
(* (set_pending, a dump and the SetDelay command each set mask_visible     *)
(* apart from the change): a slate that stays up hides the stream, one     *)
(* that is missing shows viewers the jump.                                 *)
SlateWhileCovered == eng.slate <=> Covers(eng.pend)

(* What reaches the destination can be decoded: each frame follows the one *)
(* it was encoded from, whatever jumps, dumps, reconnects and sessions     *)
(* there were.                                                             *)
Decodable ==
  late = <<>> =>
    LET frames == Videos(log \o queue)
    IN \A i \in DOMAIN frames :
         frames[i].kind = "delta" => i > 1 /\ frames[i - 1].uid = frames[i].ref

(* Once the delay a streamer asked for is in effect, nothing airs sooner,  *)
(* until they lower it: not after a dump, a reconnect, a rewind or a new   *)
(* session.  Only what is recorded under a slate that surely shows may air *)
(* sooner, after a dump.                                                   *)
Sent == Len(queue') = Len(queue) + 1 /\ Last(queue').seq # None
SentEntry == eng.ring[Last(queue').seq]
UnderDumpSlate ==
  /\ \E p \in {eng.pend, eng'.pend} : Covers(p) /\ AfterDump(p)
  /\ seen.painted # None /\ SentEntry.at >= seen.painted + Margin
NeverEarly ==
  [][Sent => UnderDumpSlate \/ now - SentEntry.at >= Lesser(seen.promise, seen'.promise)]_vars

(* Sound is never early, not even under a slate, where it would be heard.  *)
SoundNeverEarly ==
  [][Sent /\ SentEntry.kind = "audio"
       => now - SentEntry.at >= Lesser(seen.promise, seen'.promise)]_vars

(* What a dump or the end of a broadcast threw away is never handed to a   *)
(* connection again, though part of it was queued or written when the dump *)
(* came.                                                                   *)
NothingDoomedAirs == [][Sent => SentEntry.uid \notin seen.doomed]_vars

(* A delay raised under the slate is reached by going back to a keyframe   *)
(* recorded with the slate surely showing, unless the engine warns, when   *)
(* it picks the keyframe, that it could not tell.  After the jump back the *)
(* output is at the keyframe, or has just handed it over.                  *)
Picked ==
  /\ eng.pend.to = "Mask" /\ eng.pend.anchor = None /\ ops' = ops /\ eng'.started
  /\ \/ eng'.pend.to = "Mask" /\ eng'.pend.anchor # None
     \/ eng'.pend = NoChange /\ eng'.delay > eng.delay
Anchor == eng.ring[IF eng'.pend.to = "Mask" THEN eng'.pend.anchor
                   ELSE IF eng'.spliced THEN eng'.cursor ELSE eng'.cursor - 1]
MaskHidesJump ==
  [][Picked => \/ "unconfirmed" \in eng'.warn
               \/ seen'.painted # None /\ Anchor.at >= seen'.painted + Margin]_vars

(* With no change under way, viewers are as far behind as the streamer     *)
(* wants, or the state says why not.                                       *)
DelayReached ==
  eng.started /\ eng.pend = NoChange /\ eng.warn \cap {"history", "memory"} = {}
    => eng.delay >= eng.target

(* Once a lower delay is in effect it is the one asked for, but for the    *)
(* rounding back to a keyframe, of up to a keyframe interval.              *)
LoweredInFull ==
  eng.started /\ eng.pend = NoChange /\ "grew" \notin eng.warn
    => eng.delay <= eng.target + KeyInterval

(* Nothing recorded after the point where the streamer ended the broadcast *)
(* is sent in it.                                                          *)
NothingAfterTheEnd ==
  late = <<>> /\ eng.mark # None => \A i \in DOMAIN queue : queue[i].seq <= eng.mark

(* While the output holds after a dump, viewers who had a picture have one.*)
HoldHasFrame ==
  eng.pend.to = "Hold" /\ Connected /\ Videos(log) # <<>> => eng.hold # None

(* What the streamer skipped by lowering the delay is never shown.         *)
SkippedNeverShown == [][Sent => SentEntry.uid \notin seen.skipped]_vars

=============================================================================
