-------------------------------- MODULE Rtmp --------------------------------
(***************************************************************************)
(* A publisher and the relay, from the handshake to the end of the stream  *)
(* (rtmp/src/session, handshake.rs, chunk.rs, ts.rs; ingest.rs for what is *)
(* done with a session's events).                                          *)
(*                                                                         *)
(* The publisher goes through the exchange of ClientSession.  How it       *)
(* writes its media is left as free as encoders are: it interleaves        *)
(* messages, shortens headers, changes the chunk size in the middle of a   *)
(* message, gives one up, and repeats extended timestamps or does not.     *)
(***************************************************************************)
EXTENDS Chunk, Integers

CONSTANTS
  Sizes,      \* chunk sizes it changes to
  Starts,     \* timestamps its media starts at
  Steps,      \* from one message of a kind to the next
  MaxMedia,   \* messages of media
  MaxOdd,     \* changes of the chunk size and messages given up
  MaxWire,    \* what is on the wire when more media is written
  SmallMessage  \* longest message that is no media of an accepted publisher

ASSUME RtmpConstants ==
  /\ {2, 3, 4, 6} \subseteq Csids /\ MaxStreams >= 4
  /\ Sizes \subseteq Nat \ {0}
  /\ Starts \subseteq 0 .. TsMod - 1 /\ Steps \subseteq Int
  /\ SmallMessage \in Nat \ {0}
  /\ MaxPending >= 4  \* two messages of media

ASSUME Half == \A s \in Steps : 2 * s < TsMod /\ -TsMod <= 2 * s

Control == 2
Command == 3
Media == {"audio", "video"}
CsidOf(type) == IF type = "audio" THEN 4 ELSE 6

VARIABLES
  pub,   \* the publisher's session
  enc,   \* what it writes with, per chunk stream
  wire, back,  \* to the relay and from it
  srv,   \* the relay's session, its decoder, and its events and answers not dealt with
  app,   \* the connection's task: what it has told the core
  hist   \* what was sent and not told, the true time of each kind

vars == <<pub, enc, wire, back, srv, app, hist>>

Nothing == [kind |-> "none", ts |-> 0, body |-> <<>>]
Fresh == [seen |-> FALSE, last |-> 0, current |-> 0]
Idle == [delta |-> 0, ext |-> NoExt, known |-> FALSE, t |-> 0,
         body |-> <<>>, left |-> <<>>]

Init ==
  /\ pub = [state |-> "Start", made |-> 0, odd |-> 0]
  /\ \E r \in BOOLEAN : enc = [size |-> 1, repeats |-> r, shown |-> FALSE,
                               streams |-> [k \in Media |-> Idle]]
  /\ wire = <<>> /\ back = <<>>
  /\ srv = [shake |-> "WaitC0C1", state |-> "AwaitConnect", dec |-> Decoder, full |-> FALSE,
            reading |-> FALSE, events |-> <<>>, out |-> <<>>, refused |-> FALSE]
  /\ app = [publishing |-> FALSE, done |-> FALSE,
            unwrap |-> [k \in Media |-> Fresh]]
  /\ hist = [time |-> [k \in Media |-> <<>>], due |-> <<>>, last |-> Nothing, count |-> 0]

-----------------------------------------------------------------------------
(* The publisher *)

Packet(name) == FirstChunk(0, 0, 0, name, <<>>, 1)
Say(csid, type, word) == FirstChunk(0, csid, 0, type, <<word>>, enc.size)
Told(name) == Say(Command, "command", <<name, 0>>)
Write(chunks) == wire' = wire \o chunks

Hello ==
  /\ pub.state = "Start"
  /\ pub' = [pub EXCEPT !.state = "Greeting"]
  /\ Write(<<Packet("C0C1")>>)
  /\ UNCHANGED <<enc, back, srv, app, hist>>

(* What it does with an answer.  Only the one it waits for moves it on. *)
Answer(a) ==
  CASE a = "S0S1S2" /\ pub.state = "Greeting" ->
         [state |-> "Connecting", say |-> <<Packet("C2"), Told("connect")>>]
    [] a = "bandwidth" -> [state |-> pub.state, say |-> <<Say(Control, "window", <<"window", 0>>)>>]
    [] a = "result connect" /\ pub.state = "Connecting" ->
         [state |-> "CreatingStream",
          say |-> <<Told("releaseStream"), Told("FCPublish"), Told("createStream")>>]
    [] a = "result createStream" /\ pub.state = "CreatingStream" ->
         [state |-> "PublishPending", say |-> <<Told("publish")>>]
    [] a = "Publish.Start" /\ pub.state = "PublishPending" ->
         [state |-> "Publishing", say |-> <<>>]
    [] a = "error" -> [state |-> "Failed", say |-> <<>>]
    [] OTHER -> [state |-> pub.state, say |-> <<>>]

Receive ==
  /\ back # <<>>
  /\ back' = Tail(back)
  /\ pub' = [pub EXCEPT !.state = Answer(Head(back)).state]
  /\ Write(Answer(Head(back)).say)
  /\ UNCHANGED <<enc, srv, app, hist>>

(* Closing says so only of a stream the server has given an id. *)
Close ==
  /\ pub.state \in {"Connecting", "CreatingStream", "PublishPending", "Publishing"}
  /\ pub' = [pub EXCEPT !.state = "Closed"]
  /\ Write(IF pub.state \in {"PublishPending", "Publishing"}
           THEN <<Told("FCUnpublish"), Told("deleteStream")>> ELSE <<>>)
  /\ UNCHANGED <<enc, back, srv, app, hist>>

-----------------------------------------------------------------------------
(* Its media *)

(* What a stream still has to write leaves with its last chunk; then the   *)
(* message is on its way.                                                  *)
Writes(k, st, chunk, shows) ==
  /\ enc' = [enc EXCEPT !.streams[k] = st, !.shown = @ \/ shows]
  /\ Write(<<chunk>>)
  /\ hist' = IF st.left # <<>> THEN hist
             ELSE [hist EXCEPT !.time[k] = <<st.t>>,
                               !.due = Append(@, [kind |-> k, ts |-> st.t, body |-> st.body])]

(* A header may leave out what has not changed. *)
MayWrite(fmt, st, body, delta) ==
  /\ fmt # 0 => st.known /\ delta >= 0
  /\ fmt \in {2, 3} => Len(body) = Len(st.body)
  /\ fmt = 3 => delta = st.delta

(* An encoder that does not repeat extended timestamps is told from one    *)
(* that does only if its payload does not look like one.                   *)
Looks(ext, body) == \E i \in 2 .. Len(body) : body[i] = TsWord(ext)

Bodies(value) == {<<TsWord(value)>>} \cup {<<<<"w", 0>>, w>> : w \in {TsWord(value), <<"w", 1>>}}

Writing == pub.state = "Publishing" /\ Len(wire) < MaxWire

Begin(k) ==
  LET st == enc.streams[k] IN
  /\ Writing /\ pub.made < MaxMedia
  /\ st.left = <<>>
  /\ pub' = [pub EXCEPT !.made = @ + 1]
  /\ \E fmt \in 0 .. 3,
        t \in IF hist.time[k] = <<>> THEN Starts ELSE {Head(hist.time[k]) + s : s \in Steps} :
       LET delta == t - st.t
           value == IF fmt = 0 THEN t % TsMod ELSE delta
       IN \E body \in Bodies(value) :
            /\ MayWrite(fmt, st, body, delta)
            /\ ~enc.repeats /\ ~enc.shown /\ value >= Extended => ~Looks(value, body)
            /\ Writes(k, [delta |-> value, ext |-> ExtOf(value), known |-> TRUE, t |-> t,
                          body |-> body, left |-> Rest(body, enc.size)],
                      FirstChunk(fmt, CsidOf(k), value, k, body, enc.size), FALSE)
  /\ UNCHANGED <<back, srv, app>>

GoOn(k) ==
  LET st == enc.streams[k] IN
  /\ Writing /\ st.left # <<>>
  /\ Writes(k, [st EXCEPT !.left = Rest(@, enc.size)],
            NextChunk(CsidOf(k), st.ext, enc.repeats, st.left, enc.size), st.ext # NoExt)
  /\ UNCHANGED <<pub, back, srv, app>>

Resize ==
  /\ Writing /\ pub.odd < MaxOdd
  /\ pub' = [pub EXCEPT !.odd = @ + 1]
  /\ \E n \in Sizes \ {enc.size} :
       Write(<<Say(Control, "size", <<"size", n>>)>>) /\ enc' = [enc EXCEPT !.size = n]
  /\ UNCHANGED <<back, srv, app, hist>>

GiveUp(k) ==
  /\ Writing /\ pub.odd < MaxOdd
  /\ enc.streams[k].left # <<>>
  /\ pub' = [pub EXCEPT !.odd = @ + 1]
  /\ Write(<<Say(Control, "abort", <<"abort", CsidOf(k)>>)>>)
  /\ enc' = [enc EXCEPT !.streams[k].left = <<>>]
  /\ UNCHANGED <<back, srv, app, hist>>

-----------------------------------------------------------------------------
(* The relay's session.  A read brings some of what is on the wire; all of *)
(* it is decoded before any of its events is dealt with.                   *)

Fails(s) == [s EXCEPT !.refused = TRUE, !.events = <<>>]
Replies(s, names) == [s EXCEPT !.out = @ \o names]
Event(s, e) == [s EXCEPT !.events = Append(@, e)]
Named(name) == [kind |-> name, ts |-> 0, body |-> <<>>]

Connected(s) ==
  IF s.state # "AwaitConnect" THEN Fails(s)
  ELSE [Event(Replies(s, <<"bandwidth", "size", "result connect">>), Named("connect"))
          EXCEPT !.state = "Connected"]

PublishAsked(s) ==
  IF s.state # "Connected" THEN Fails(s)
  ELSE [Event(s, Named("publish")) EXCEPT !.state = "PublishPending"]

Unpublished(s) ==
  IF s.state \in {"PublishPending", "Publishing"}
  THEN [Event(s, Named("unpublish")) EXCEPT !.state = "Closed"] ELSE s

Commanded(s, name) ==
  CASE name = "connect" -> Connected(s)
    [] name = "releaseStream" -> Replies(s, <<"result releaseStream">>)
    [] name = "FCPublish" -> Replies(s, <<"onFCPublish", "result FCPublish">>)
    [] name = "createStream" -> Replies(s, <<"result createStream">>)
    [] name = "publish" -> PublishAsked(s)
    [] OTHER -> Unpublished(s)

(* Media before the publisher is accepted, or after it ended, is let go.   *)
MediaCame(s, m) ==
  IF s.state = "Publishing" THEN Event(s, [kind |-> m.type, ts |-> m.ts, body |-> m.body]) ELSE s

Handled(s, m) ==
  CASE m.type = "size" -> [s EXCEPT !.dec = Resized(@, m.body[1][2])]
    [] m.type = "abort" -> [s EXCEPT !.dec = Aborted(@, m.body[1][2])]
    [] m.type = "window" -> s
    [] m.type = "command" -> Commanded(s, m.body[1][1])
    [] OTHER -> MediaCame(s, m)

Limit(s, type) == IF s.full /\ type \in Media THEN MaxPending ELSE SmallMessage

Fed(s, ch) ==
  IF Refuses(s.dec, ch, Limit(s, Headed(s.dec, ch).type)) THEN Fails(s)
  ELSE LET d == [s EXCEPT !.dec = Decoded(@, ch)]
       IN IF Completes(s.dec, ch) THEN Handled(d, Message(s.dec, ch)) ELSE d

Shaken(s) ==
  IF s.shake = "WaitC0C1" THEN [Replies(s, <<"S0S1S2">>) EXCEPT !.shake = "WaitC2"]
  ELSE [s EXCEPT !.shake = "Done"]

Waiting == ~srv.refused /\ ~app.done

(* What follows the handshake in the same read is the session's.           *)
Read ==
  /\ Waiting /\ wire # <<>>
  /\ srv.reading \/ (srv.events = <<>> /\ srv.out = <<>>)
  /\ wire' = Tail(wire)
  /\ srv' = [(IF srv.shake # "Done" THEN Shaken(srv) ELSE Fed(srv, Head(wire)))
               EXCEPT !.reading = TRUE]
  /\ UNCHANGED <<pub, enc, back, app, hist>>

EndOfRead ==
  /\ Waiting /\ srv.reading
  /\ srv' = [srv EXCEPT !.reading = FALSE]
  /\ UNCHANGED <<pub, enc, wire, back, app, hist>>

-----------------------------------------------------------------------------
(* The connection's task takes the events one by one. *)

(* The nearer of the two ways from the timestamp before. *)
Signed(v) == IF 2 * v >= TsMod THEN v - TsMod ELSE v
UnwrappedForward(u, ts) ==
  [seen |-> TRUE, last |-> ts,
   current |-> IF u.seen THEN u.current + ((ts - u.last) % TsMod) ELSE ts]
Unwrapped(u, ts) ==
  [seen |-> TRUE, last |-> ts,
   current |-> IF u.seen THEN u.current + Signed((ts - u.last) % TsMod) ELSE ts]

AcceptedAnyway(s) == [Replies(s, <<"Publish.Start">>) EXCEPT !.state = "Publishing", !.full = TRUE]
Accepted(s) == IF s.state = "PublishPending" THEN AcceptedAnyway(s) ELSE s

(* The core is given no time before the start. *)
NotNegative(t) == IF t < 0 THEN 0 ELSE t

Taking(e) == Waiting /\ ~srv.reading /\ srv.events # <<>> /\ Head(srv.events).kind \in e
Rested == [srv EXCEPT !.events = Tail(@)]

Accept ==
  /\ Taking({"publish"})
  /\ srv' = Accepted(Rested)
  /\ app' = [app EXCEPT !.publishing = TRUE]
  /\ UNCHANGED <<pub, enc, wire, back, hist>>

(* The answer leaves at once and the connection ends. *)
Reject ==
  /\ Taking({"publish"})
  /\ srv' = [srv EXCEPT !.state = "Closed", !.events = <<>>, !.out = <<>>]
  /\ back' = back \o srv.out \o <<"error">>
  /\ app' = [app EXCEPT !.done = TRUE]
  /\ UNCHANGED <<pub, enc, wire, hist>>

HandOver ==
  /\ Taking(Media)
  /\ LET e == Head(srv.events)
         u == Unwrapped(app.unwrap[e.kind], e.ts)
     IN /\ app' = [app EXCEPT !.unwrap[e.kind] = u]
        /\ hist' = [hist EXCEPT !.due = IF @ = <<>> THEN @ ELSE Tail(@), !.count = @ + 1,
                       !.last = [e EXCEPT !.ts = NotNegative(u.current)]]
  /\ srv' = Rested
  /\ UNCHANGED <<pub, enc, wire, back>>

EndStream ==
  /\ Taking({"connect", "unpublish"})
  /\ srv' = Rested
  /\ app' = [app EXCEPT !.publishing = @ /\ Head(srv.events).kind # "unpublish"]
  /\ UNCHANGED <<pub, enc, wire, back, hist>>

(* The answers leave when all events of the read are dealt with. *)
Flush ==
  /\ Waiting /\ ~srv.reading /\ srv.events = <<>> /\ srv.out # <<>>
  /\ back' = back \o srv.out
  /\ srv' = [srv EXCEPT !.out = <<>>]
  /\ UNCHANGED <<pub, enc, wire, app, hist>>

Relay == Read \/ EndOfRead \/ Accept \/ Reject \/ HandOver \/ EndStream \/ Flush
Encoder == Close \/ Resize \/ \E k \in Media : Begin(k) \/ GoOn(k) \/ GiveUp(k)
Next == Hello \/ Receive \/ Encoder \/ Relay

(* Both tasks run whenever there is something for them.  A publisher need  *)
(* not publish, nor ever stop.                                             *)
Spec == Init /\ [][Next]_vars /\ WF_vars(Relay) /\ WF_vars(Hello \/ Receive)

-----------------------------------------------------------------------------
(* From an encoder, however it writes, to the core: every message of media *)
(* that was finished arrives once, in order, whole, and at its true time,  *)
(* over interleaving, shortened headers, changes of the chunk size,        *)
(* messages given up, extended timestamps and the wrap (next_chunk,        *)
(* TsUnwrapper::unwrap).                                                   *)
ToCore == INSTANCE Channel WITH
  queue <- [i \in DOMAIN hist.due |-> [hist.due[i] EXCEPT !.ts = NotNegative(@)]],
  last <- hist.last, count <- hist.count
ImplementsChannel == ToCore!Spec

(* A publisher that keeps to the protocol is never turned away for what it *)
(* wrote: not for a length it may only use once it is accepted, nor for a  *)
(* chunk that was taken to end somewhere else (next_chunk, feed).          *)
NeverRefused == ~srv.refused

(* A stream its publisher ended is not held open, also when it was ended   *)
(* before the core had answered (accept_publish, ServerEvent::Unpublish).  *)
EndIsTold ==
  pub.state = "Closed" /\ wire = <<>> /\ srv.events = <<>> /\ ~srv.reading
    => ~app.publishing /\ srv.state # "Publishing"
=============================================================================
