------------------------------- MODULE Output -------------------------------
(***************************************************************************)
(* What goes out on the destination connection: the output stage of the    *)
(* delay engine (crates/engine/src/lib.rs), which gives every message its  *)
(* output timestamp and sends decoder configuration where the destination  *)
(* needs it, the egress, which renumbers HEVC pictures (Pictures), and the *)
(* destination.  When the output jumps, and where to, is decided in        *)
(* DelayEngine; here it may jump to any keyframe, at any time at which the *)
(* engine does, and messages fall due at any time.                         *)
(*                                                                         *)
(* The encoder's streams are constants, and a message is named by its      *)
(* place, <<stream, index>>.  A message is a record of                     *)
(*   kind     "video", "audio" or "meta" (stream metadata)                 *)
(*   body     of video and audio: see Tags                                 *)
(*   version  which decoder configuration or metadata it is, numbered      *)
(*            through all the streams; None for a picture or sound         *)
(*   ts       its timestamp                                                *)
(*   pic      of video: see Pictures; its type is read from body           *)
(* There is one class of configuration of each kind, and the limits on how *)
(* much configuration a session keeps are not reached.                     *)
(***************************************************************************)
EXTENDS Pictures, Tags

CONSTANTS
  Streams,    \* what the encoder sends, a sequence per encoder session
  Frame,      \* how long a frame lasts (frame_ms)
  Pauses,     \* how much later a held frame may be sent than the one before
  Backlog,    \* how many messages may wait in the queue
  Bursts,     \* for each stream, the places after which the encoder may pause
  MaxJumps, MaxHeld, MaxBreaks    \* bounds of the check

ASSUME OutputConstants ==
  /\ Frame \in Nat \ {0} /\ Pauses \subseteq Nat \ {0} /\ Backlog \in Nat \ {0}
  /\ \A s \in DOMAIN Streams : \A i \in DOMAIN Streams[s] :
       LET m == Streams[s][i]
       IN m.version = None /\ m.kind = "video" =>
            /\ m.pic.src = <<s, i>>
            /\ \A r \in m.pic.refs : r.src[1] = s /\ r.src[2] \in 1 .. i - 1

VARIABLES
  buf,     \* the engine's buffer and encoder sessions
  out,     \* the engine's output
  queue,   \* handed to the egress, and not written yet
  dest,    \* the destination, and what the egress follows of it
  count    \* jumps, held frames and broken connections so far

vars == <<buf, out, queue, dest, count>>

(* What ingest() finds out about a message: whether it is configuration (or*)
(* metadata), and then which, and of a picture whether the output can start*)
(* there, its type, and how long after ts it is presented.                 *)
Inspected(m) ==
  CASE m.kind = "video" ->
         LET info == InspectVideo(m.body)
         IN [kind |-> m.kind, ts |-> m.ts, config |-> IF info.config THEN m.version ELSE None,
             sync |-> info.keyframe, cts |-> info.cts, pic |-> [m.pic EXCEPT !.nal = info.nal]]
    [] m.kind = "audio" ->
         [kind |-> m.kind, ts |-> m.ts, sync |-> FALSE,
          config |-> IF InspectAudio(m.body).config THEN m.version ELSE None]
    [] m.kind = "meta" -> [kind |-> m.kind, ts |-> m.ts, sync |-> FALSE, config |-> m.version]
Messages ==
  [s \in DOMAIN Streams |-> [i \in DOMAIN Streams[s] |-> Inspected(Streams[s][i])]]
Msg(src) == Messages[src[1]][src[2]]
Kinds == {"video", "audio", "meta"}
Greater(a, b) == IF a >= b THEN a ELSE b
Lesser(a, b) == IF a <= b THEN a ELSE b

(* The configuration of a kind which the encoder sent last before src.     *)
Under(src, kind) ==
  LET sent == {i \in 1 .. src[2] : Msg(<<src[1], i>>).kind = kind /\ Msg(<<src[1], i>>).config # None}
  IN IF sent = {} THEN None ELSE Msg(<<src[1], Max(sent)>>).config

-----------------------------------------------------------------------------
(* The buffer: entries numbered from base on, each the source of a message *)
(* and the session it belongs to.                                          *)

Entry(b, seq) == b.ring[seq - b.base + 1]
NextSeq(b) == b.base + Len(b.ring)
Buffered(b) == b.base .. NextSeq(b) - 1
Syncs(b) == {s \in Buffered(b) : Msg(Entry(b, s).src).sync}
NewestOf(S) == IF S = {} THEN None ELSE Max(S)

(* Configuration kept by session s is in s.headers, as records of where it *)
(* applies from, seq, and its src.                                         *)
Kept(s, kind) == {h \in s.headers : Msg(h.src).kind = kind}
Latest(H) == CHOOSE h \in H : \A n \in H : n.src[2] <= h.src[2]

(* A configuration that changes nothing: the one kept applies from where   *)
(* it first came.                                                          *)
Repeated(s, m) ==
  Kept(s, m.kind) # {} /\ Msg(Latest(Kept(s, m.kind)).src).config = m.config

(* ingest() and ingest_metadata() *)
Ingested(b, src) ==
  LET n == Len(b.sessions)
      m == Msg(src)
      x == [b EXCEPT !.feed = src]
      recorded == [x EXCEPT !.ring = Append(@, [src |-> src, ses |-> b.sessions[n].id])]
  IN CASE m.kind = "meta" -> [x EXCEPT !.sessions[n].meta = m.config]
       [] m.kind # "meta" /\ m.config # None /\ ~Repeated(b.sessions[n], m) ->
            [recorded EXCEPT !.sessions[n].headers = @ \cup {[seq |-> NextSeq(b), src |-> src]}]
       [] OTHER -> recorded

(* forget_headers() keeps the configuration which no newer one replaces    *)
(* for all that is buffered.                                               *)
Needed(s, base) ==
  {h \in s.headers : ~\E n \in Kept(s, Msg(h.src).kind) : n.src[2] > h.src[2] /\ n.seq < base}

ForgetHeaders(b) ==
  [b EXCEPT !.sessions = [i \in DOMAIN @ |-> [@[i] EXCEPT !.headers = Needed(b.sessions[i], b.base)]]]

(* evict() drops what is before k, and forget_sessions() the sessions of   *)
(* which nothing is left, but for the current one.                         *)
Evicted(b, k) ==
  LET x == ForgetHeaders([b EXCEPT !.base = k, !.ring = SubSeq(@, k - b.base + 1, Len(@))])
  IN IF x.ring = <<>> THEN x
     ELSE [x EXCEPT !.sessions =
             SelectSeq(@, LAMBDA s : s.id >= x.ring[1].ses \/ s.id = Last(x.sessions).id)]

(* drop_buffer(), while the encoder is connected.                          *)
Emptied(b) ==
  ForgetHeaders([b EXCEPT !.base = NextSeq(b), !.ring = <<>>, !.sessions = <<Last(@)>>])

(* mutant of CutOff: configuration keeps the number it had                 *)
CutOffOnly(b, seq) ==
  [b EXCEPT !.ring = SubSeq(@, 1, seq - b.base), !.ids = @ + 1,
            !.sessions = Append(@, [Last(@) EXCEPT !.id = b.ids + 1])]

(* What is buffered from seq on is cut off, and split_session() records    *)
(* what comes next as a session of its own.                                *)
CutOff(b, seq) ==
  LET s == Last(b.sessions)
      H == {[h EXCEPT !.seq = Lesser(@, Greater(seq - 1, 0))] : h \in s.headers}
  IN [b EXCEPT !.ring = SubSeq(@, 1, seq - b.base), !.ids = @ + 1,
               !.sessions = Append(@, [s EXCEPT !.id = b.ids + 1, !.headers = H])]

(* headers_at(): the metadata, and the configuration in effect at seq.     *)
HeadersAt(b, id, seq) ==
  UNION {LET before(kind) == {h \in Kept(s, kind) : h.seq < seq}
         IN {<<kind, Msg(Latest(before(kind)).src).config>> :
               kind \in {kind \in {"video", "audio"} : before(kind) # {}}}
            \cup (IF s.meta = None THEN {} ELSE {<<"meta", s.meta>>})
         : s \in {s \in ToSet(b.sessions) : s.id = id}}

-----------------------------------------------------------------------------
(* The output.  last is the last timestamp sent of each kind, lastPts the  *)
(* latest time at which a picture is presented; sent the configuration the *)
(* destination has.  pend is the change under way: "None", "Replay", or    *)
(* "Hold", also while a dump waits for its slate.                          *)

NoFrame == [src |-> NoPicture]
NewOutput ==
  [up |-> FALSE, next |-> 0, offset |-> 0, fresh |-> TRUE, needSync |-> TRUE, started |-> FALSE,
   playing |-> None, lastOut |-> 0, last |-> [k \in Kinds |-> None], lastPts |-> 0, skip |-> None,
   gate |-> <<None, 0>>, headers |-> FALSE, sent |-> {}, first |-> None,
   pend |-> "None", from |-> None, hold |-> NoFrame, splices |-> 0]

(* mutant of AfterSent: by decoding time only *)
AfterDecoded(o, cts) == o.lastOut + Frame

(* The earliest timestamp for a keyframe to come a frame after all that    *)
(* was sent, in decoding and in presentation order.                        *)
AfterSent(o, cts) == Greater(o.lastOut + Frame, o.lastPts + Frame - cts)

(* mutant of SpliceTo: the sound before the keyframe is not held back *)
SpliceUngated(b, o, k) ==
  LET e == Entry(b, k)
      m == Msg(e.src)
  IN [o EXCEPT !.offset = (IF o.fresh THEN 0 ELSE AfterSent(o, m.cts)) - m.ts,
               !.fresh = FALSE, !.started = TRUE, !.next = k, !.needSync = FALSE,
               !.playing = e.ses, !.headers = TRUE, !.splices = @ + 1,
               !.skip = IF m.pic.nal = "CRA" THEN k ELSE None]

SpliceTo(b, o, k) ==
  LET e == Entry(b, k)
      m == Msg(e.src)
  IN [o EXCEPT !.offset = (IF o.fresh THEN 0 ELSE AfterSent(o, m.cts)) - m.ts,
               !.fresh = FALSE, !.started = TRUE, !.next = k, !.needSync = FALSE,
               !.playing = e.ses, !.gate = <<e.ses, m.ts>>, !.headers = TRUE, !.splices = @ + 1,
               !.skip = IF m.pic.nal = "CRA" THEN k ELSE None]

OutTs(o, kind, ts) == Greater(Greater(ts + o.offset, 0), o.last[kind])
Stamped(o, kind, t) == [o EXCEPT !.last[kind] = t, !.lastOut = Greater(@, t)]

Configs(H, seq, o) ==
  IF H = {} THEN <<>> ELSE <<[seq |-> seq, configs |-> H, splice |-> o.splices]>>

(* mark_header_sent(), for what the destination does not have. *)
Marked(o, H) == [o EXCEPT !.sent = {c \in @ : \A h \in H : h[1] # c[1]} \cup H]

(* emit_headers(): all of it at the time of the keyframe.                  *)
New(b, o) == IF o.headers THEN HeadersAt(b, Entry(b, o.next).ses, o.next) \ o.sent ELSE {}
WithHeaders(b, o) ==
  LET H == New(b, o)
      t == [kind \in Kinds |-> IF \E h \in H : h[1] = kind
                               THEN OutTs(o, kind, Msg(Entry(b, o.next).src).ts) ELSE o.last[kind]]
  IN [Marked(o, H) EXCEPT !.headers = FALSE, !.last = t,
                          !.lastOut = Max({@} \cup {t[kind] : kind \in Kinds})]

(* emit_entry(): what becomes of the entry at o.next.  A change of         *)
(* configuration goes out unless the destination has it; the pictures that *)
(* lead a keyframe spliced to, and sound from before it, do not.           *)
Left(b, o) ==
  LET e == Entry(b, o.next)
      m == Msg(e.src)
  IN CASE m.config # None -> <<m.kind, m.config>> \in o.sent
       [] m.config = None /\ m.kind = "video" -> o.skip # None /\ Leading(m.pic.nal)
       [] m.config = None /\ m.kind # "video" -> o.gate[1] = e.ses /\ m.ts < o.gate[2]

(* A CRA that was spliced to is marked as a broken link.                   *)
Broken(o) == o.skip = o.next

Item(b, o, t) ==
  LET e == Entry(b, o.next)
      m == Msg(e.src)
  IN [seq |-> o.next, configs |-> IF m.config = None THEN {} ELSE {<<m.kind, m.config>>},
      src |-> e.src, t |-> t, held |-> FALSE, splice |-> o.splices,
      broken |-> m.kind = "video" /\ Broken(o)]

Sent(b, o, t) ==
  LET m == Msg(Entry(b, o.next).src)
      x == Stamped(o, m.kind, t)
  IN CASE m.config # None -> Marked(x, {<<m.kind, m.config>>})
       [] m.config = None /\ m.kind = "audio" -> x
       [] m.config = None /\ m.kind = "video" ->
            [x EXCEPT !.lastPts = Greater(@, t + m.cts),
                      !.skip = IF o.next > @ THEN None ELSE @]

-----------------------------------------------------------------------------
(* The encoder *)

Init ==
  /\ buf = [ring |-> <<>>, base |-> 0, sessions |-> <<>>, ids |-> 0, feed |-> NoPicture]
  /\ out = NewOutput
  /\ queue = <<>>
  /\ dest = [guard |-> NewGuard, decoder |-> NewDecoder, config |-> [k \in Kinds |-> None],
             last |-> None, splice |-> None, before |-> None, top |-> None]
  /\ count = [jumps |-> 0, held |-> 0, breaks |-> 0]

(* ingest_start(): what is left of an earlier stream goes, unless it airs  *)
(* still, and so does a session that recorded nothing.                     *)
EncoderStarts ==
  /\ buf.feed[1] < Len(Streams)
  /\ LET b == IF out.started \/ buf.sessions = <<>> THEN buf
              ELSE [Emptied(buf) EXCEPT !.sessions = <<>>]
         idle == b.sessions # <<>> /\ (b.ring = <<>> \/ Last(b.ring).ses # Last(b.sessions).id)
         kept == IF idle THEN Front(b.sessions) ELSE b.sessions
     IN buf' = [b EXCEPT !.ids = @ + 1, !.feed = <<@[1] + 1, 0>>,
                         !.sessions = Append(kept, [id |-> b.ids + 1, headers |-> {}, meta |-> None])]
  /\ out' = IF out.started THEN out ELSE [out EXCEPT !.next = NextSeq(buf), !.needSync = TRUE]
  /\ UNCHANGED <<queue, dest, count>>

(* What comes before the encoder pauses is received at once.               *)
Receive ==
  /\ buf.feed[1] > 0
  /\ LET s == buf.feed[1]
         to == {k \in Bursts[s] : k > buf.feed[2]}
     IN /\ to # {}
        /\ buf' = FoldLeft(Ingested, buf,
                           [i \in 1 .. Min(to) - buf.feed[2] |-> <<s, buf.feed[2] + i>>])
  /\ UNCHANGED <<out, queue, dest, count>>

(* A group of pictures is evicted: it is too old, or memory is short.      *)
Evict ==
  /\ \E k \in Syncs(buf) :
       /\ k > buf.base /\ \A s \in Syncs(buf) : s > buf.base => k <= s
       /\ buf' = Evicted(buf, k)
  /\ UNCHANGED <<out, queue, dest, count>>

-----------------------------------------------------------------------------
(* poll() *)

Polled ==
  /\ out.up /\ out.pend # "Hold" /\ Len(queue) < Backlog
  /\ out.pend = "Replay" => out.next < out.from

AtSession(b, seq) == IF seq \in Buffered(b) THEN Entry(b, seq).ses ELSE None
LostSync(b, o) ==
  \/ o.needSync
  \/ o.next < b.base
  \/ o.playing # None /\ AtSession(b, o.next) \notin {None, o.playing}

(* Where the output starts, or starts again: at the next keyframe in the   *)
(* session, or at first at the newest that is old enough.                  *)
StartsFrom(b, o) ==
  LET n == Greater(o.next, b.base)
      K == {k \in Syncs(b) : k >= n /\ Entry(b, k).ses = AtSession(b, n)}
  IN {k \in K : o.started => k = Min(K)}

(* An old session without a keyframe left is passed over.                  *)
PassOver ==
  /\ Polled /\ LostSync(buf, out) /\ StartsFrom(buf, out) = {}
  /\ LET ses == AtSession(buf, Greater(out.next, buf.base))
         later == {s \in Buffered(buf) : Entry(buf, s).ses > ses}
     IN /\ ses # None /\ ses # Last(buf.sessions).id
        /\ out' = [out EXCEPT !.next = IF later = {} THEN NextSeq(buf) ELSE Min(later),
                              !.needSync = TRUE]
  /\ UNCHANGED <<buf, queue, dest, count>>

(* It starts again, with no room left in the queue for now.                *)
Restart ==
  /\ Polled /\ LostSync(buf, out)
  /\ \E k \in StartsFrom(buf, out) : out' = SpliceTo(buf, out, k)
  /\ UNCHANGED <<buf, queue, dest, count>>

(* The entry at o.next is due: it goes out, with the configuration it      *)
(* needs after a splice, or is left out.                                   *)
Hand(o) ==
  LET x == [WithHeaders(buf, o) EXCEPT !.first = IF @ = None THEN o.next ELSE @]
      m == Msg(Entry(buf, o.next).src)
      t == OutTs(x, m.kind, m.ts)
      left == Left(buf, x)
  IN /\ queue' = queue \o Configs(New(buf, o), None, o)
                      \o (IF left THEN <<>> ELSE <<Item(buf, x, t)>>)
     /\ out' = [(IF left THEN x ELSE Sent(buf, x, t)) EXCEPT !.next = @ + 1]

Emit ==
  /\ Polled
  /\ \/ ~LostSync(buf, out) /\ out.next \in Buffered(buf) /\ Hand(out)
     \/ LostSync(buf, out) /\ \E k \in StartsFrom(buf, out) : Hand(SpliceTo(buf, out, k))
  /\ UNCHANGED <<buf, dest, count>>

(* The output jumps to a keyframe: a delay is set, or reduced, or live.    *)
Jump ==
  /\ out.started /\ out.pend = "None" /\ count.jumps < MaxJumps
  /\ \E k \in Syncs(buf) : out' = SpliceTo(buf, out, k)
  /\ count' = [count EXCEPT !.jumps = @ + 1]
  /\ UNCHANGED <<buf, queue, dest>>

-----------------------------------------------------------------------------
(* Dumps and held frames *)

Resume(o, taken) == IF taken = None THEN o.first ELSE taken + 1
BackTo(o, taken) ==
  [o EXCEPT !.next = IF Resume(o, taken) = None THEN @ ELSE Lesser(@, Resume(o, taken))]

Unsend(o, taken) == IF o.up THEN [BackTo(o, taken) EXCEPT !.sent = {}] ELSE o

(* aired_keyframe() *)
AiredKeyframe(b, o) ==
  LET k == NewestOf({k \in Syncs(b) : k < o.next})
  IN IF k = None THEN NoFrame
     ELSE [src |-> Entry(b, k).src, headers |-> HeadersAt(b, Entry(b, k).ses, k), needed |-> FALSE,
           on |-> IF o.up THEN count.breaks ELSE None]

(* A dump, which takes back what is queued and throws away what has not    *)
(* aired: by a replay from a keyframe that aired, or a hold.               *)
DumpToReplay ==
  /\ out.started /\ count.jumps < MaxJumps
  /\ LET o   == Unsend(out, dest.last)
         cut == Greater(o.next, buf.base)
         b   == CutOff(buf, cut)
     IN \E k \in Syncs(b) :
          /\ buf' = b
          /\ out' = SpliceTo(b, [o EXCEPT !.pend = "Replay", !.from = cut, !.hold = NoFrame], k)
  /\ queue' = <<>>
  /\ count' = [count EXCEPT !.jumps = @ + 1]
  /\ UNCHANGED dest

DumpToHold ==
  /\ out.started /\ count.jumps < MaxJumps
  /\ LET o == Unsend(out, dest.last)
         b == Emptied(buf)
     IN /\ buf' = b
        /\ out' = [o EXCEPT !.pend = "Hold", !.from = b.base, !.hold = AiredKeyframe(buf, o),
                            !.next = b.base, !.needSync = TRUE]
  /\ queue' = <<>>
  /\ count' = [count EXCEPT !.jumps = @ + 1]
  /\ UNCHANGED dest

(* The stream went live while a dump took the queue back: it is refused,   *)
(* and the output goes on from a keyframe.  (Left out: the refusal of a    *)
(* dump that took back all that was sent since a jump back.)               *)
DumpRefused ==
  /\ out.up /\ out.started /\ out.pend = "None" /\ queue # <<>>
  /\ out.headers \/ dest.splice = out.splices
  /\ count.jumps < MaxJumps
  /\ LET lost == IF dest.last = None THEN out.first # None ELSE dest.last + 1 < out.next
     IN out' = [out EXCEPT !.needSync = @ \/ (lost /\ ~out.headers), !.sent = {}]
  /\ queue' = <<>>
  /\ count' = [count EXCEPT !.jumps = @ + 1]
  /\ UNCHANGED <<buf, dest>>

ReplayEnds ==
  /\ out.pend = "Replay"
  /\ LET K == {k \in Syncs(buf) : k >= out.from}
     IN K # {} /\ out' = SpliceTo(buf, [out EXCEPT !.pend = "None"], Min(K))
  /\ UNCHANGED <<buf, queue, dest, count>>

(* The replay is over well before what comes next is due.                  *)
ReplayRunsOut ==
  /\ out.up /\ out.pend = "Replay" /\ out.next >= out.from
  /\ out' = [out EXCEPT !.pend = "Hold", !.hold = AiredKeyframe(buf, out), !.needSync = TRUE]
  /\ UNCHANGED <<buf, queue, dest, count>>

(* emit_hold_frame(): the frame that is held goes out again, later than    *)
(* all that was sent.                                                      *)
EmitHeld(pause) ==
  /\ out.up /\ out.pend = "Hold" /\ out.hold # NoFrame
  /\ Len(queue) < Backlog /\ count.held < MaxHeld
  /\ LET h == out.hold
         m == Msg(h.src)
         t == Greater(Greater(out.lastOut, out.last["video"]) + pause, AfterSent(out, m.cts))
         H == IF h.needed THEN h.headers \ out.sent ELSE {}
         kinds == {c[1] : c \in H} \cup {"video"}
     IN /\ queue' = queue \o Configs(H, None, out) \o
                    <<[seq |-> None, configs |-> {}, src |-> h.src, t |-> t, held |-> TRUE,
                       anew |-> h.on # count.breaks, splice |-> out.splices,
                       broken |-> m.pic.nal = "CRA"]>>
        /\ out' = [Marked(out, H) EXCEPT
                     !.hold.needed = FALSE, !.fresh = FALSE, !.lastOut = Greater(@, t),
                     !.last = [kind \in Kinds |-> IF kind \in kinds THEN t ELSE @[kind]],
                     !.lastPts = Greater(@, t + m.cts)]
  /\ count' = [count EXCEPT !.held = @ + 1]
  /\ UNCHANGED <<buf, dest>>

(* What ends a hold starts at a keyframe recorded after the dump, and the  *)
(* time since the frame was last sent has gone by.                         *)
EndHold(pause) ==
  /\ out.pend = "Hold"
  /\ \E k \in Syncs(buf) :
       /\ k >= out.from
       /\ LET o == [out EXCEPT !.pend = "None", !.hold = NoFrame,
                               !.lastOut = IF out.hold = NoFrame THEN @ ELSE @ + pause]
          IN out' = SpliceTo(buf, o, k)
  /\ UNCHANGED <<buf, queue, dest, count>>

(* Going live ends what a dump left under way.                             *)
GoLive ==
  /\ out.pend # "None"
  /\ out' = [out EXCEPT !.pend = "None", !.hold = NoFrame]
  /\ UNCHANGED <<buf, queue, dest, count>>

-----------------------------------------------------------------------------
(* The egress and the destination *)

(* output_connected(), before it looks for a keyframe *)
Restored(o) ==
  [o EXCEPT !.up = TRUE, !.fresh = TRUE, !.lastOut = 0, !.last = [k \in Kinds |-> None],
            !.lastPts = 0, !.sent = {}, !.first = None,
            !.hold = IF @ = NoFrame THEN @ ELSE [@ EXCEPT !.needed = TRUE]]

(* The picture as the engine sends it, and the guard after a message.      *)
AsSent(q) == IF q.broken THEN [Msg(q.src).pic EXCEPT !.nal = "BLA"] ELSE Msg(q.src).pic
VideoConfig(q) == {c[2] : c \in {c \in q.configs : c[1] = "video"}}
Passed(g, q) ==
  CASE VideoConfig(q) # {} -> Configured(g, Max(VideoConfig(q)))
    [] q.configs = {} /\ Msg(q.src).kind = "video" -> Pictured(g, AsSent(q))
    [] OTHER -> g

(* A new connection. *)
Connect ==
  /\ ~out.up
  /\ LET o == Restored(out)
         k == NewestOf({k \in Syncs(buf) : k <= o.next})
     IN out' = CASE ~o.started -> o
                 [] o.started /\ (o.pend = "Hold" \/ k = None) -> [o EXCEPT !.needSync = TRUE]
                 [] o.started /\ o.pend # "Hold" /\ k # None -> SpliceTo(buf, o, k)
  /\ dest' = [dest EXCEPT !.config = [k \in Kinds |-> None], !.last = None,
                          !.splice = None, !.before = None, !.top = None]
  /\ UNCHANGED <<buf, queue, count>>

(* The connection is lost, and maybe a batch that was being written: the   *)
(* guard, which is kept, has taken that.  The decoder starts again, or goes*)
(* on, if it has had all that was written.                                 *)
ConnectionLost ==
  /\ out.up /\ count.breaks < MaxBreaks
  /\ out' = [BackTo(out, dest.last) EXCEPT !.up = FALSE]
  /\ queue' = <<>>
  /\ count' = [count EXCEPT !.breaks = @ + 1]
  /\ \E n \in 0 .. Len(queue) :
       LET again == [NewDecoder EXCEPT !.wrong = dest.decoder.wrong]
       IN \E d \in IF n = 0 THEN {dest.decoder, again} ELSE {again} :
            dest' = [dest EXCEPT !.guard = FoldLeft(Passed, @, SubSeq(queue, 1, n)), !.decoder = d]
  /\ UNCHANGED buf

Configure(d, q) ==
  LET given(kind) == {c[2] : c \in {c \in q.configs : c[1] = kind}}
      x == [d EXCEPT !.config = [k \in Kinds |-> IF given(k) = {} THEN @[k] ELSE Max(given(k))]]
  IN IF VideoConfig(q) = {} THEN x
     ELSE [x EXCEPT !.decoder = Configured(@, Max(VideoConfig(q)))]

(* A picture is renumbered, written and decoded.  before is the latest     *)
(* time of presentation before the last jump, or before the last frame     *)
(* that was held; top is the latest.                                       *)
Show(d, q) ==
  [d EXCEPT !.decoder = Decoded(@, Renumbered(d.guard, AsSent(q))),
            !.splice = q.splice,
            !.before = IF q.splice # d.splice \/ q.held THEN d.top ELSE @,
            !.top = Greater(@, q.t + Msg(q.src).cts)]

Write ==
  /\ queue # <<>> /\ out.up
  /\ queue' = Tail(queue)
  /\ LET q == Head(queue)
         d == [dest EXCEPT !.last = IF q.seq = None THEN @ ELSE q.seq, !.guard = Passed(@, q)]
     IN dest' = CASE q.configs # {} -> Configure(d, q)
                  [] q.configs = {} /\ Msg(q.src).kind = "video" -> Show(d, q)
                  [] q.configs = {} /\ Msg(q.src).kind # "video" -> d
  /\ UNCHANGED <<buf, out, count>>

Next ==
  \/ EncoderStarts \/ Receive \/ Evict
  \/ PassOver \/ Restart \/ Emit \/ Jump
  \/ DumpToReplay \/ DumpToHold \/ DumpRefused \/ ReplayEnds \/ ReplayRunsOut
  \/ \E pause \in Pauses : EmitHeld(pause) \/ EndHold(pause)
  \/ GoLive \/ Connect \/ ConnectionLost \/ Write

Spec == Init /\ [][Next]_vars

-----------------------------------------------------------------------------
Written == queue # <<>> /\ queue' = Tail(queue) /\ dest' # dest
Media == Head(queue).configs = {}
Frames == Media /\ Msg(Head(queue).src).kind = "video"

(* Whatever the destination gets, it has the decoder configuration and the *)
(* metadata it was recorded with (emit_headers, forget_headers, unsend);   *)
(* a frame that is held, whenever it goes on over a new connection.        *)
ConfigInEffect ==
  [][Written /\ Media /\ (Head(queue).held => Head(queue).anew) =>
       LET q == Head(queue)
       IN \A kind \in {Msg(q.src).kind, "meta"} : dest.config[kind] = Under(q.src, kind)]_vars

(* Sound and picture are sent as far apart as they were recorded, from one *)
(* jump to the next.                                                       *)
InStep ==
  [][Len(queue') > Len(queue) /\ Last(queue').configs = {} /\ ~Last(queue').held
       => Last(queue').t = Msg(Last(queue').src).ts + out'.offset]_vars

(* A picture sent after a jump, or a held frame, is presented after all    *)
(* that was sent before it on the connection.                              *)
NeverBack ==
  [][Written /\ Frames => Head(queue).t + Msg(Head(queue).src).cts > dest'.before]_vars

(* The decoder drops no picture for its number, and decodes each from the  *)
(* pictures it was encoded from, over jumps, held frames sent again and    *)
(* new connections (PocGuard::picture, cra_to_bla, emit_entry).            *)
DecodedRight == ~dest.decoder.wrong

=============================================================================
