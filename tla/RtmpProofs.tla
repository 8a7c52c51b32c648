----------------------------- MODULE RtmpProofs -----------------------------
(***************************************************************************)
(* For every modulus of the timestamps, every limit of the decoder and     *)
(* whatever a publisher writes: it is never refused, its end is told, and  *)
(* each message of media it finishes comes to the core once, in order,     *)
(* whole and at its true time.                                             *)
(*                                                                         *)
(* The invariant (RtmpInv) says that the relay is in step with the         *)
(* publisher.  A place is where the publisher stood, and what it had       *)
(* written, before one of the chunks on the wire; the way along the wire   *)
(* leads from the place the relay has reached to the one the publisher is  *)
(* at.  A chunk that is read takes the first place away, one that is       *)
(* written adds one at the end.                                            *)
(***************************************************************************)
EXTENDS Rtmp, SequenceTheorems, FiniteSetTheorems, TLAPS

(* What is left of a difference, and how often the modulus was taken away. *)
LEMMA Division ==
  ASSUME NEW n \in Nat \ {0}, NEW a \in Int
  PROVE  /\ (a % n) \in 0 .. (n - 1)
         /\ (a \div n) \in Int
         /\ a = (n * (a \div n)) + (a % n)
<1>1. (a % n) \in 0 .. (n - 1) OBVIOUS
<1>2. (a \div n) \in Int OBVIOUS
<1>3. a = (n * (a \div n)) + (a % n) OBVIOUS
<1> QED BY <1>1, <1>2, <1>3

(* No multiple of the modulus is smaller than it but 0. *)
LEMMA Multiple ==
  ASSUME NEW n \in Nat \ {0}, NEW k \in Int, -n < n * k, n * k < n
  PROVE  k = 0
<1>1. CASE k >= 1
  <2>1. n * k >= n * 1 BY <1>1
  <2> QED BY <2>1
<1>2. CASE k <= -1
  <2>1. n * k <= n * (-1) BY <1>2
  <2> QED BY <2>1
<1> QED BY <1>1, <1>2

(* The signed difference of two times on the wire is that of the times,    *)
(* less than half of the modulus apart (Unwrap::next).                     *)
LEMMA SignedDifference ==
  ASSUME TsMod \in Nat \ {0}, NEW t \in Int, NEW next \in Int,
         -TsMod <= 2 * (next - t), 2 * (next - t) < TsMod
  PROVE  Signed(((next % TsMod) - (t % TsMod)) % TsMod) = next - t
<1> DEFINE a == next % TsMod
           b == t % TsMod
           r == (a - b) % TsMod
           s == Signed(r)
           qa == next \div TsMod
           qb == t \div TsMod
           qr == (a - b) \div TsMod
           k == (qa - qb) + qr
           m == IF 2 * r >= TsMod THEN k + 1 ELSE k
<1>1. a \in 0 .. (TsMod - 1) /\ qa \in Int /\ next = (TsMod * qa) + a
  BY Division
<1>2. b \in 0 .. (TsMod - 1) /\ qb \in Int /\ t = (TsMod * qb) + b
  BY Division
<1>3. a - b \in Int BY <1>1, <1>2
<1>4. r \in 0 .. (TsMod - 1) /\ qr \in Int /\ a - b = (TsMod * qr) + r
  BY <1>3, Division
<1> HIDE DEF a, b, r, qa, qb, qr
<1>5. next - t = (TsMod * k) + r
  <2>1. TsMod * k = ((TsMod * qa) - (TsMod * qb)) + (TsMod * qr)
    BY <1>1, <1>2, <1>4 DEF k
  <2> QED BY <1>1, <1>2, <1>4, <2>1
<1>6. k \in Int /\ m \in Int BY <1>1, <1>2, <1>4
<1>7. s \in Int /\ -TsMod <= 2 * s /\ 2 * s < TsMod /\ next - t = (TsMod * m) + s
  <2>1. TsMod * (k + 1) = (TsMod * k) + TsMod BY <1>6
  <2> HIDE DEF k
  <2>2. CASE 2 * r >= TsMod BY <1>4, <1>5, <1>6, <2>1, <2>2 DEF Signed
  <2>3. CASE ~(2 * r >= TsMod) BY <1>4, <1>5, <1>6, <2>3 DEF Signed
  <2> QED BY <2>2, <2>3
<1>8. m = 0
  <2> HIDE DEF m, s
  <2>1. TsMod * m \in Int BY <1>6
  <2>2. -TsMod < TsMod * m /\ TsMod * m < TsMod BY <1>7, <2>1
  <2> QED BY <1>6, <2>2, Multiple
<1> HIDE DEF m, s
<1>9. s = next - t BY <1>7, <1>8
<1> QED BY <1>9 DEF s, r, a, b

(* A time right about one message is right about the next, over a wrap of  *)
(* the wire's timestamps and for a message a little out of order           *)
(* (Unwrap::next).                                                         *)
THEOREM UnwrapsRight ==
  ASSUME NEW t \in Int, NEW next \in Int,
         -TsMod <= 2 * (next - t), 2 * (next - t) < TsMod
  PROVE  LET u == [seen |-> TRUE, last |-> t % TsMod, current |-> t]
         IN Unwrapped(u, next % TsMod)
              = [seen |-> TRUE, last |-> next % TsMod, current |-> next]
<1>1. TsMod \in Nat \ {0} BY ChunkConstants
<1>2. Signed(((next % TsMod) - (t % TsMod)) % TsMod) = next - t
  BY <1>1, SignedDifference
<1>3. t + (next - t) = next OBVIOUS
<1> QED BY <1>2, <1>3 DEF Unwrapped
-----------------------------------------------------------------------------
(* What an encoder has written of its media and what it may write next.    *)
Names == {"connect", "releaseStream", "FCPublish", "createStream", "publish", "FCUnpublish",
          "deleteStream"}
Tags == {"ts", "w", "window", "size", "abort"} \cup Names
Words == Tags \X Int
Bits == 0 .. TsMod - 1

Near(t, next) == -TsMod <= 2 * (next - t) /\ 2 * (next - t) < TsMod

EncStreams == [delta : Bits, ext : 0 .. TsMod, known : BOOLEAN, t : Int,
               body : Seq(Words), left : Seq(Words)]
Encoders == [size : Nat \ {0}, repeats : BOOLEAN, shown : BOOLEAN,
             streams : [Media -> EncStreams]]
Sent == [kind : Media, ts : Int, body : Seq(Words)]

(* What is left of a message is the end of its body, and no encoder that   *)
(* leaves the extended timestamp out has a word there that looks like it   *)
(* until the decoder knows.                                                *)
Unfinished(e, st) ==
  /\ st.ext = ExtOf(st.delta)
  /\ Len(st.body) <= 2
  /\ st.left # <<>> => st.known /\ Len(st.left) < Len(st.body)
  /\ \A i \in 1 .. Len(st.left) : st.left[i] = st.body[i + (Len(st.body) - Len(st.left))]
  /\ ~e.repeats /\ ~e.shown /\ st.ext # NoExt
       => \A i \in 1 .. Len(st.left) : st.left[i] # TsWord(st.ext)
TellsApart(e, value, body) == ~e.repeats /\ ~e.shown /\ value >= Extended => ~Looks(value, body)
WellWritten(e) == e \in Encoders /\ \A k \in Media : Unfinished(e, e.streams[k])

(* The encoder with one of its streams changed (Writes). *)
Amended(e, k, st, shows) == [e EXCEPT !.streams[k] = st, !.shown = @ \/ shows]

(* The message begun last is not far from the one finished last.           *)
Timed(st, time) ==
  /\ time # <<>> => time = <<Head(time)>> /\ Head(time) \in Int /\ Near(Head(time), st.t) /\ st.known
  /\ time = <<>> /\ st.known => st.t \in Bits

EncInv ==
  /\ WellWritten(enc)
  /\ hist.due \in Seq(Sent) /\ hist.count \in Nat
  /\ hist = [time |-> hist.time, due |-> hist.due, last |-> hist.last, count |-> hist.count]
  /\ DOMAIN hist.time = Media
  /\ \A k \in Media : Timed(enc.streams[k], hist.time[k])

-----------------------------------------------------------------------------
(* The decoder has read what the encoder had written.                      *)
Types == Media \cup {"none", "command", "window", "size", "abort"}
StreamStates == [ts : Bits, delta : Bits, len : Nat, type : Types, ext : 0 .. TsMod,
                 part : Seq(Words), busy : BOOLEAN, known : BOOLEAN]
Decoders == [size : Nat \ {0}, streams : [Csids -> StreamStates],
             repeats : {"Unknown", "Yes", "No"}]

SameStream(ds, st, k) ==
  /\ ds.known = st.known /\ ds.busy = (st.left # <<>>)
  /\ st.known => /\ ds.ts = st.t % TsMod /\ ds.delta = st.delta /\ ds.ext = st.ext
                 /\ ds.len = Len(st.body) /\ ds.type = k
  /\ Len(ds.part) = IF st.left = <<>> THEN 0 ELSE Len(st.body) - Len(st.left)
  /\ \A i \in 1 .. Len(ds.part) : ds.part[i] = st.body[i]

Unused(d) ==
  /\ \A c \in Csids \ {4, 6} : d.streams[c].part = <<>> /\ ~d.streams[c].busy
  /\ \A c \in Csids \ {Control, Command, 4, 6} : ~d.streams[c].known

Matches(d, e) ==
  /\ d \in Decoders /\ d.size = e.size
  /\ d.repeats = IF ~e.shown THEN "Unknown" ELSE IF e.repeats THEN "Yes" ELSE "No"
  /\ Unused(d)
  /\ \A k \in Media : SameStream(d.streams[CsidOf(k)], e.streams[k], k)

-----------------------------------------------------------------------------
(* What is on the wire leads from the state the relay is in to the state   *)
(* the publisher is in.  A place on the wire is what the relay will be in  *)
(* there: its session, the encoder it follows, and how much of the media   *)
(* it has had.                                                             *)
Shakes == {"WaitC0C1", "WaitC2"}
Stages == Shakes \cup {"AwaitConnect", "Connected", "PublishPending", "Publishing", "Closed"}
Ending == {"PublishPending", "Publishing", "Closed"}
Stage(s) == IF s.shake # "Done" THEN s.shake ELSE s.state

Leads(at, name, to) ==
  CASE name = "connect" -> at = "AwaitConnect" /\ to = "Connected"
    [] name = "publish" -> at = "Connected" /\ to = "PublishPending"
    [] name \in {"FCUnpublish", "deleteStream"} -> at \in Ending /\ to = "Closed"
    [] OTHER -> at \notin Shakes /\ to = at

InControl(e, type, word) == FirstChunk(0, Control, 0, type, <<word>>, e.size)

Shook(a, b) ==
  /\ \/ a.at = "WaitC0C1" /\ b.at = "WaitC2"
     \/ a.at = "WaitC2" /\ b.at = "AwaitConnect"
  /\ b.enc = a.enc /\ b.had = a.had

Said(a, ch, b) ==
  /\ \E name \in Names :
       /\ ch = FirstChunk(0, Command, 0, "command", <<<<name, 0>>>>, a.enc.size)
       /\ Leads(a.at, name, b.at)
  /\ b.enc = a.enc /\ b.had = a.had

Controlled(a, ch, b) ==
  /\ a.at \notin Shakes /\ b.at = a.at /\ b.had = a.had
  /\ \/ ch = InControl(a.enc, "window", <<"window", 0>>) /\ b.enc = a.enc
     \/ \E n \in Nat \ {0} :
          ch = InControl(a.enc, "size", <<"size", n>>) /\ b.enc = [a.enc EXCEPT !.size = n]
     \/ \E k \in Media : /\ ch = InControl(a.enc, "abort", <<"abort", CsidOf(k)>>)
                         /\ b.enc = [a.enc EXCEPT !.streams[k].left = <<>>]

(* A message is due as soon as nothing is left of it.                      *)
Finishes(k, a, b, due) ==
  LET st == b.enc.streams[k] IN
  IF st.left # <<>> THEN b.had = a.had
  ELSE /\ b.had = a.had + 1
       /\ due[b.had] = [kind |-> k, ts |-> st.t, body |-> st.body]

Begun(value, t, body, size) ==
  [delta |-> value, ext |-> ExtOf(value), known |-> TRUE, t |-> t,
   body |-> body, left |-> Rest(body, size)]

Began(k, a, ch, b, due) ==
  LET st == a.enc.streams[k] IN
  /\ st.left = <<>>
  /\ \E fmt \in 0 .. 3, t \in Int, body \in Seq(Words) :
       LET delta == t - st.t
           value == IF fmt = 0 THEN t % TsMod ELSE delta
       IN /\ value \in Bits /\ 1 <= Len(body) /\ Len(body) <= 2
          /\ MayWrite(fmt, st, body, delta)
          /\ ch = FirstChunk(fmt, CsidOf(k), value, k, body, a.enc.size)
          /\ b.enc = Amended(a.enc, k, Begun(value, t, body, a.enc.size), FALSE)
  /\ Finishes(k, a, b, due)

WentOn(k, a, ch, b, due) ==
  LET st == a.enc.streams[k] IN
  /\ st.left # <<>>
  /\ ch = NextChunk(CsidOf(k), st.ext, a.enc.repeats, st.left, a.enc.size)
  /\ b.enc = Amended(a.enc, k, [st EXCEPT !.left = Rest(@, a.enc.size)], st.ext # NoExt)
  /\ Finishes(k, a, b, due)

Wrote(a, ch, b, due) ==
  \/ Shook(a, b)
  \/ Said(a, ch, b)
  \/ Controlled(a, ch, b)
  \/ /\ a.at = "Publishing" /\ b.at = "Publishing"
     /\ \E k \in Media : Began(k, a, ch, b, due) \/ WentOn(k, a, ch, b, due)

Place(a, due) == 
  /\ a = [at |-> a.at, enc |-> a.enc, had |-> a.had]
  /\ a.at \in Stages /\ WellWritten(a.enc) /\ a.had \in 0 .. Len(due)

(* From one place to a later one nothing is taken back. *)
Forward(a, b) ==
  /\ a.at \notin Shakes => b.at \notin Shakes
  /\ a.at \in Ending => b.at \in Ending
  /\ a.had <= b.had

Along(path, chunks, due) ==
  /\ DOMAIN path = 1 .. Len(chunks) + 1
  /\ \A i \in 1 .. Len(chunks) + 1 : Place(path[i], due)
  /\ \A i \in 1 .. Len(chunks) : Wrote(path[i], chunks[i], path[i + 1], due)
  /\ \A i, j \in 1 .. Len(chunks) + 1 : i <= j => Forward(path[i], path[j])

(* Where the publisher takes the relay to be, and the answers that move it *)
(* on.                                                                     *)
Among(x, s) == \E i \in 1 .. Len(s) : s[i] = x
Answered(x) == Among(x, srv.out) \/ Among(x, back)

Expects(at) ==
  /\ pub.state = "Start" => at = "WaitC0C1"
  /\ pub.state = "Greeting" => at = "WaitC2"
  /\ pub.state \in {"Connecting", "CreatingStream"} => at = "Connected"
  /\ pub.state = "PublishPending" =>
       at \in {"PublishPending", "Publishing"} /\ (Answered("Publish.Start") => at = "Publishing")
  /\ pub.state = "Publishing" => at = "Publishing"
  /\ pub.state = "Closed" => at \in {"Connected", "Closed"}

(* What has come in and is not dealt with: the first of the media that is  *)
(* due, and what asks for the stream to begin and to end.                  *)
Came(m) == [kind |-> m.kind, ts |-> m.ts % TsMod, body |-> m.body]
Pending(had) ==
  /\ had <= Len(srv.events)
  /\ \A i \in 1 .. had : srv.events[i] = Came(hist.due[i])
  /\ \A i \in had + 1 .. Len(srv.events) : srv.events[i].kind \in {"connect", "publish", "unpublish"}

LastKind == srv.events[Len(srv.events)].kind
Ordered ==
  /\ srv.state = "AwaitConnect" => srv.events = <<>>
  /\ srv.state = "Connected" => \A i \in 1 .. Len(srv.events) : srv.events[i].kind = "connect"
  /\ srv.state = "PublishPending" =>
       /\ srv.events # <<>> /\ LastKind = "publish"
       /\ \A i \in 1 .. Len(srv.events) - 1 : srv.events[i].kind = "connect"
  /\ srv.state = "Publishing" =>
       srv.full /\ \A i \in 1 .. Len(srv.events) : srv.events[i].kind \in Media
  /\ srv.state = "Closed" =>
       \A i \in 1 .. Len(srv.events) :
         /\ srv.events[i].kind = "unpublish" => i = Len(srv.events)
         /\ srv.events[i].kind = "publish" => i = Len(srv.events) - 1 /\ LastKind = "unpublish"
  /\ srv.shake # "Done" => srv.state = "AwaitConnect"

Publishes ==
  app.publishing =>
    /\ srv.state \in {"Publishing", "Closed"}
    /\ srv.state = "Closed" => srv.events # <<>> /\ LastKind = "unpublish"
    /\ \A i \in 1 .. Len(srv.events) : srv.events[i].kind # "publish"

(* The relay's time for each kind of media is right, and every message     *)
(* that is due is near the one of its kind before, the first in the range  *)
(* of the wire.                                                            *)
Other(k, a, b) == \A i \in a .. b : hist.due[i].kind # k
Follow(u, t) == IF u.seen THEN Near(u.current, t) ELSE t \in Bits

TimeOf(k) ==
  LET u == app.unwrap[k]
      due == hist.due
      n == Len(due)
  IN /\ u = IF u.seen THEN [seen |-> TRUE, last |-> u.current % TsMod, current |-> u.current] ELSE Fresh
     /\ u.current \in Int
     /\ \A j \in 1 .. n : due[j].kind = k /\ Other(k, 1, j - 1) => Follow(u, due[j].ts)
     /\ \A i, j \in 1 .. n :
          i < j /\ due[i].kind = k /\ due[j].kind = k /\ Other(k, i + 1, j - 1)
            => Near(due[i].ts, due[j].ts)
     /\ \A i \in 1 .. n : due[i].kind = k /\ Other(k, i + 1, n) => hist.time[k] = <<due[i].ts>>
     /\ Other(k, 1, n) => hist.time[k] = IF u.seen THEN <<u.current>> ELSE <<>>
TimeInv ==
  /\ DOMAIN app.unwrap = Media
  /\ \A k \in Media : TimeOf(k)

Follows(path) ==
  /\ Along(path, wire, hist.due)
  /\ path[Len(wire) + 1].enc = enc /\ path[Len(wire) + 1].had = Len(hist.due)
  /\ Expects(path[Len(wire) + 1].at)
  /\ path[1].at = Stage(srv) /\ Matches(srv.dec, path[1].enc) /\ Pending(path[1].had)
  /\ Answered("bandwidth") => srv.shake = "Done"
  /\ Answered("Publish.Start") => srv.state \in {"Publishing", "Closed"}

Server(shake, state, dec, full, reading, events, out, refused) ==
  [shake |-> shake, state |-> state, dec |-> dec, full |-> full, reading |-> reading,
   events |-> events, out |-> out, refused |-> refused]

States == {"AwaitConnect", "Connected", "PublishPending", "Publishing", "Closed"}
Events == [kind : Media \cup {"connect", "publish", "unpublish"}, ts : Bits, body : Seq(Words)]
Answers == {"S0S1S2", "bandwidth", "size", "result connect", "result releaseStream", "onFCPublish",
            "result FCPublish", "result createStream", "Publish.Start", "error"}
Chunks == [fmt : 0 .. 3, csid : Nat, field : Nat, len : Nat, type : Types \cup {"C0C1", "C2"},
           words : Seq(Words)]

Shape ==
  /\ wire \in Seq(Chunks) /\ back \in Seq(Answers)
  /\ pub = [state |-> pub.state, made |-> pub.made, odd |-> pub.odd]
  /\ srv = Server(srv.shake, srv.state, srv.dec, srv.full, srv.reading, srv.events, srv.out, srv.refused)
  /\ srv.shake \in Shakes \cup {"Done"} /\ srv.state \in States
  /\ srv.events \in Seq(Events) /\ srv.out \in Seq(Answers)
  /\ app = [publishing |-> app.publishing, done |-> app.done, unwrap |-> app.unwrap]

(* A connection is at its end without having told the core of a stream, or *)
(* what is on its wire is what it has yet to read.                         *)
Ended == app.done => srv.state = "Closed" /\ ~app.publishing
InStep == app.done \/ \E path : Follows(path)
RtmpInv == EncInv /\ Shape /\ Ordered /\ Publishes /\ TimeInv /\ NeverRefused /\ Ended /\ InStep

-----------------------------------------------------------------------------
(* What cutting a sequence leaves of it. *)
LEMMA Cuts ==
  ASSUME NEW S, NEW s \in Seq(S), NEW n \in Nat \ {0}
  PROVE  /\ Cut(s, n) \in Seq(S) /\ Rest(s, n) \in Seq(S)
         /\ Len(Cut(s, n)) = IF Len(s) <= n THEN Len(s) ELSE n
         /\ Len(Rest(s, n)) = Len(s) - Len(Cut(s, n))
         /\ \A i \in 1 .. Len(Cut(s, n)) : Cut(s, n)[i] = s[i]
         /\ \A i \in 1 .. Len(Rest(s, n)) : Rest(s, n)[i] = s[i + Len(Cut(s, n))]
<1>1. CASE Len(s) <= n
  <2>1. Cut(s, n) = s /\ Rest(s, n) = <<>> BY <1>1 DEF Cut, Rest
  <2> QED BY <1>1, <2>1
<1>2. CASE ~(Len(s) <= n)
  <2>0. Len(s) \in Nat /\ n + 1 \in 1 .. Len(s) + 1 /\ n \in 0 .. Len(s) BY <1>2
  <2>1. Cut(s, n) = SubSeq(s, 1, n) /\ Rest(s, n) = SubSeq(s, n + 1, Len(s))
    BY <1>2 DEF Cut, Rest
  <2>2. /\ Cut(s, n) \in Seq(S) /\ Len(Cut(s, n)) = n
        /\ \A i \in 1 .. n : Cut(s, n)[i] = s[i] BY <2>0, <2>1
  <2>3. /\ Rest(s, n) \in Seq(S) /\ Len(Rest(s, n)) = Len(s) - n
        /\ \A i \in 1 .. Len(s) - n : Rest(s, n)[i] = s[i + n] BY <2>0, <2>1
  <2> QED BY <1>2, <2>0, <2>2, <2>3
<1> QED BY <1>1, <1>2

(* A time too big for the field goes into the extended one                 *)
(* (ChunkEncoder::write).                                                  *)
LEMMA Extension ==
  ASSUME NEW v \in Bits
  PROVE  /\ Field(v) = Extended <=> v >= Extended
         /\ ExtOf(v) = NoExt <=> ~(v >= Extended)
         /\ ExtOf(v) # NoExt => ExtOf(v) = v
         /\ ExtOf(v) \in 0 .. TsMod
BY ChunkConstants DEF Field, ExtOf, NoExt, Bits

(* One stream of what the encoder writes is changed. *)
IsAmended(x, e, k, st, w) ==
  /\ x \in Encoders /\ x.size = e.size /\ x.repeats = e.repeats
  /\ x.shown = (e.shown \/ w) /\ x.streams = [e.streams EXCEPT ![k] = st]
  /\ x.streams[k] = st /\ \A l \in Media : l # k => x.streams[l] = e.streams[l]

(* What the encoder is once one stream of it is changed. *)
LEMMA AmendedIs ==
  ASSUME NEW e \in Encoders, NEW k \in Media, NEW st \in EncStreams, NEW w \in BOOLEAN
  PROVE  IsAmended(Amended(e, k, st, w), e, k, st, w)
<1> DEFINE x == Amended(e, k, st, w)
<1>1. /\ x \in Encoders /\ x.size = e.size /\ x.repeats = e.repeats
      /\ x.shown = (e.shown \/ w) /\ x.streams = [e.streams EXCEPT ![k] = st]
  BY DEF Amended, Encoders
<1> HIDE DEF x
<1>2. x.streams[k] = st /\ \A l \in Media : l # k => x.streams[l] = e.streams[l]
  BY <1>1 DEF Encoders
<1>3. IsAmended(x, e, k, st, w) BY <1>1, <1>2 DEF IsAmended
<1> QED BY <1>3 DEF x

(* One stream of what the encoder writes is changed. *)
LEMMA Rewritten ==
  ASSUME NEW e, WellWritten(e), NEW k \in Media, NEW st \in EncStreams, NEW w \in BOOLEAN,
         Unfinished(Amended(e, k, st, w), st)
  PROVE  WellWritten(Amended(e, k, st, w))
<1> DEFINE x == Amended(e, k, st, w)
<1>0. x = Amended(e, k, st, w) OBVIOUS
<1> HIDE DEF x
<1>1. e \in Encoders BY DEF WellWritten
<1>2. /\ x \in Encoders /\ x.repeats = e.repeats /\ x.shown = (e.shown \/ w) /\ x.streams[k] = st
      /\ \A l \in Media : l # k => x.streams[l] = e.streams[l]
  <2>1. IsAmended(x, e, k, st, w) BY <1>0, <1>1, AmendedIs
  <2> QED BY <2>1 DEF IsAmended
<1>3. Unfinished(x, st) BY <1>0
<1>5. ASSUME NEW l \in Media, l # k PROVE Unfinished(x, x.streams[l])
  <2>1. Unfinished(e, e.streams[l]) BY DEF WellWritten
  <2>2. x.repeats = e.repeats /\ (e.shown => x.shown) /\ x.streams[l] = e.streams[l]
    BY <1>2, <1>5
  <2> QED BY <2>1, <2>2, ZenonT(30) DEF Unfinished
<1>6. Unfinished(x, x.streams[k]) BY <1>2, <1>3
<1>7. WellWritten(x) BY <1>2, <1>5, <1>6 DEF WellWritten
<1> QED BY <1>7 DEF x

IsBegun(st, value, t, body, n) ==
  /\ st \in EncStreams /\ st.known /\ st.delta = value /\ st.ext = ExtOf(value)
  /\ st.t = t /\ st.body = body /\ Len(st.left) < Len(body) /\ st.left = Rest(body, n)
  /\ Len(Cut(body, n)) = Len(body) - Len(st.left)
  /\ \A i \in 1 .. Len(st.left) : st.left[i] = body[i + (Len(body) - Len(st.left))]

(* What a stream is once a message was begun on it. *)
LEMMA BegunIs ==
  ASSUME NEW n \in Nat \ {0}, NEW value \in Bits, NEW t \in Int,
         NEW body \in Seq(Words), 1 <= Len(body) /\ Len(body) <= 2
  PROVE  IsBegun(Begun(value, t, body, n), value, t, body, n)
<1> DEFINE st == Begun(value, t, body, n)
           cut == Cut(body, n)
           rest == Rest(body, n)
<1>1. /\ cut \in Seq(Words) /\ rest \in Seq(Words)
      /\ Len(cut) = IF Len(body) <= n THEN Len(body) ELSE n
      /\ Len(rest) = Len(body) - Len(cut)
      /\ \A i \in 1 .. Len(rest) : rest[i] = body[i + Len(cut)]
  BY Cuts
<1>2. st.known /\ st.delta = value /\ st.ext = ExtOf(value) /\ st.t = t /\ st.body = body
      /\ st.left = rest
  BY DEF Begun
<1>3. st \in EncStreams
  <2> HIDE DEF rest
  <2>1. st = [delta |-> value, ext |-> ExtOf(value), known |-> TRUE, t |-> t, body |-> body,
              left |-> rest] BY DEF Begun, rest
  <2> QED BY <1>1, <2>1, Extension DEF EncStreams
<1> HIDE DEF st, cut, rest
<1>4. Len(cut) \in 1 .. Len(body) BY <1>1
<1>5. Len(rest) < Len(body) /\ Len(cut) = Len(body) - Len(rest) BY <1>1, <1>4
<1>6. \A i \in 1 .. Len(rest) : rest[i] = body[i + (Len(body) - Len(rest))] BY <1>1, <1>5
<1>7. st.left = Rest(body, n) /\ Len(Cut(body, n)) = Len(body) - Len(st.left) BY <1>2, <1>5 DEF rest, cut
<1>8. IsBegun(st, value, t, body, n)
  BY <1>2, <1>3, <1>5, <1>6, <1>7 DEF IsBegun
<1> QED BY <1>8 DEF st

(* An encoder that began a message is one that wrote well. *)
LEMMA BegunWell ==
  ASSUME NEW e, WellWritten(e), NEW k \in Media, NEW value \in Bits, NEW t \in Int,
         NEW body \in Seq(Words), 1 <= Len(body) /\ Len(body) <= 2, TellsApart(e, value, body)
  PROVE  WellWritten(Amended(e, k, Begun(value, t, body, e.size), FALSE))
<1> DEFINE st == Begun(value, t, body, e.size)
           x == Amended(e, k, st, FALSE)
<1>0. FALSE \in BOOLEAN OBVIOUS
<1>7. st = Begun(value, t, body, e.size) /\ x = Amended(e, k, st, FALSE) OBVIOUS
<1> HIDE DEF st, x
<1>1. e \in Encoders /\ e.size \in Nat \ {0} BY DEF WellWritten, Encoders
<1>8. IsBegun(st, value, t, body, e.size) BY <1>1, <1>7, BegunIs
<1>2. /\ st \in EncStreams /\ st.delta = value /\ st.ext = ExtOf(value) /\ st.body = body
      /\ Len(st.left) < Len(body)
      /\ \A i \in 1 .. Len(st.left) : st.left[i] = body[i + (Len(body) - Len(st.left))]
  BY <1>8 DEF IsBegun
<1>3. st.known BY <1>8 DEF IsBegun
<1>4. x.repeats = e.repeats /\ x.shown = (e.shown \/ FALSE)
  <2>1. IsAmended(x, e, k, st, FALSE) BY <1>0, <1>1, <1>2, <1>7, AmendedIs
  <2> QED BY <2>1 DEF IsAmended
<1>5. ASSUME ~x.repeats, ~x.shown, st.ext # NoExt, NEW i \in 1 .. Len(st.left)
      PROVE  st.left[i] # TsWord(st.ext)
  <2>1. value >= Extended /\ st.ext = value BY <1>2, <1>5, Extension
  <2>2. ~e.repeats /\ ~e.shown BY <1>4, <1>5
  <2>3. ~Looks(value, body) BY <2>1, <2>2 DEF TellsApart
  <2>4. i + (Len(body) - Len(st.left)) \in 2 .. Len(body)
    <3>1. Len(st.left) \in Nat BY <1>2 DEF EncStreams
    <3> QED BY <1>2, <3>1
  <2> QED BY <1>2, <2>1, <2>3, <2>4 DEF Looks
<1>6. Unfinished(x, st)
  <2>1. Len(st.body) <= 2 BY <1>2
  <2>2. st.ext = ExtOf(st.delta) BY <1>2
  <2>3. Len(st.left) < Len(st.body) BY <1>2
  <2>4. \A i \in 1 .. Len(st.left) : st.left[i] = st.body[i + (Len(st.body) - Len(st.left))] BY <1>2
  <2> QED BY <1>3, <1>5, <2>1, <2>2, <2>3, <2>4 DEF Unfinished
<1> QED BY <1>0, <1>2, <1>6, <1>7, Rewritten

(* What goes on with a message takes the front off what is left of it. *)
IsGoneOn(new, st, n) ==
  /\ new \in EncStreams /\ new.known = st.known /\ new.delta = st.delta /\ new.ext = st.ext
  /\ new.t = st.t /\ new.body = st.body /\ new.left = Rest(st.left, n)
  /\ Len(Cut(st.left, n)) \in 1 .. Len(st.left)
  /\ Len(new.left) = Len(st.left) - Len(Cut(st.left, n))
  /\ \A i \in 1 .. Len(new.left) : new.left[i] = st.left[i + Len(Cut(st.left, n))]

(* What a stream is once the next chunk of its message was written. *)
LEMMA GoneOnIs ==
  ASSUME NEW st \in EncStreams, NEW n \in Nat \ {0}, st.left # <<>>
  PROVE  IsGoneOn([st EXCEPT !.left = Rest(@, n)], st, n)
<1> DEFINE new == [st EXCEPT !.left = Rest(@, n)]
           cut == Cut(st.left, n)
           rest == Rest(st.left, n)
<1>1. st.left \in Seq(Words) /\ Len(st.left) \in Nat /\ Len(st.left) # 0 BY DEF EncStreams
<1>2. /\ cut \in Seq(Words) /\ rest \in Seq(Words)
      /\ Len(cut) = IF Len(st.left) <= n THEN Len(st.left) ELSE n
      /\ Len(rest) = Len(st.left) - Len(cut)
      /\ \A i \in 1 .. Len(rest) : rest[i] = st.left[i + Len(cut)]
  BY <1>1, Cuts, ZenonT(30)
<1>3. new = [st EXCEPT !.left = rest] OBVIOUS
<1> HIDE DEF new, cut, rest
<1>4. /\ new.delta = st.delta /\ new.ext = st.ext
      /\ new.t = st.t /\ new.body = st.body /\ new.left = rest
  BY <1>2, <1>3 DEF EncStreams
<1>5. new \in EncStreams BY <1>2, <1>3 DEF EncStreams
<1>6. new.known = st.known BY <1>3 DEF EncStreams
<1>7. Len(cut) \in 1 .. Len(st.left) BY <1>1, <1>2
<1>8. IsGoneOn(new, st, n) BY <1>2, <1>4, <1>5, <1>6, <1>7 DEF IsGoneOn, rest, cut
<1> QED BY <1>8 DEF new

(* So is one that went on with a message. *)
LEMMA GoneOnWell ==
  ASSUME NEW e, WellWritten(e), NEW k \in Media, e.streams[k].left # <<>>
  PROVE  WellWritten(Amended(e, k, [e.streams[k] EXCEPT !.left = Rest(@, e.size)],
                             e.streams[k].ext # NoExt))
<1> DEFINE st == e.streams[k]
           new == [st EXCEPT !.left = Rest(@, e.size)]
           shows == st.ext # NoExt
           x == Amended(e, k, new, shows)
           c == Len(Cut(st.left, e.size))
<1>1. e \in Encoders /\ e.size \in Nat \ {0} /\ st \in EncStreams /\ shows \in BOOLEAN
  BY DEF WellWritten, Encoders
<1>2. Unfinished(e, st) BY DEF WellWritten
<1>3. IsGoneOn(new, st, e.size) BY <1>1, GoneOnIs
<1>4. x = Amended(e, k, new, shows) OBVIOUS
<1> HIDE DEF new, x
<1>5. new \in EncStreams BY <1>3 DEF IsGoneOn
<1>6. IsAmended(x, e, k, new, shows) BY <1>1, <1>4, <1>5, AmendedIs
<1>7. x.shown = (e.shown \/ shows) BY <1>6 DEF IsAmended
<1>8. /\ st.ext = ExtOf(st.delta) /\ Len(st.body) <= 2 /\ Len(st.left) < Len(st.body)
      /\ \A i \in 1 .. Len(st.left) : st.left[i] = st.body[i + (Len(st.body) - Len(st.left))]
  BY <1>2 DEF Unfinished
<1>9. st.known BY <1>2 DEF Unfinished
<1>10. /\ new.delta = st.delta /\ new.ext = st.ext /\ new.body = st.body
       /\ c \in 1 .. Len(st.left) /\ Len(new.left) = Len(st.left) - c
       /\ \A i \in 1 .. Len(new.left) : new.left[i] = st.left[i + c]
  BY <1>3 DEF IsGoneOn
<1>11. new.known BY <1>3, <1>9 DEF IsGoneOn
<1>12. Len(st.left) \in Nat /\ Len(st.body) \in Nat /\ Len(new.left) \in Nat BY <1>1, <1>5, SMTT(30) DEF EncStreams
<1> HIDE DEF c, st
<1>13. Len(new.left) < Len(new.body) BY <1>8, <1>10, <1>12
<1>14. ASSUME NEW i \in 1 .. Len(new.left)
       PROVE  new.left[i] = new.body[i + (Len(new.body) - Len(new.left))]
  <2>1. i + c \in 1 .. Len(st.left) /\ new.left[i] = st.left[i + c] BY <1>10, <1>12
  <2>2. st.left[i + c] = st.body[(i + c) + (Len(st.body) - Len(st.left))] BY <1>8, <2>1
  <2>3. (i + c) + (Len(st.body) - Len(st.left)) = i + (Len(st.body) - Len(new.left))
    <3> DEFINE l == Len(st.left)
               b == Len(st.body)
               n == Len(new.left)
    <3>1. c \in Nat /\ n = l - c BY <1>10, <1>12
    <3>2. l \in Nat /\ b \in Nat /\ i \in Nat BY <1>12
    <3> HIDE DEF l, b, n
    <3>3. (i + c) + (b - l) = i + (b - n) BY <3>1, <3>2
    <3> QED BY <3>3 DEF l, b, n
  <2> QED BY <1>10, <2>1, <2>2, <2>3
<1>15. ~x.shown => ~(new.ext # NoExt) BY <1>7, <1>10
<1>16. new.ext = ExtOf(new.delta) /\ Len(new.body) <= 2 BY <1>8, <1>10
<1>17. Unfinished(x, new) BY <1>11, <1>13, <1>14, <1>15, <1>16 DEF Unfinished
<1>18. WellWritten(Amended(e, k, new, shows)) BY <1>1, <1>4, <1>5, <1>17, Rewritten
<1> QED BY <1>18 DEF new, st

(* So is one that gave a message up (Link::handle_control). *)
LEMMA GivenUpIs ==
  ASSUME NEW e, WellWritten(e), NEW k \in Media
  PROVE  LET new == [e.streams[k] EXCEPT !.left = <<>>]
             x == [e EXCEPT !.streams[k].left = <<>>]
         IN /\ WellWritten(x) /\ x = Amended(e, k, new, FALSE) /\ new \in EncStreams
<1> DEFINE st == e.streams[k]
           new == [st EXCEPT !.left = <<>>]
           x == Amended(e, k, new, FALSE)
<1>1. e \in Encoders /\ st \in EncStreams BY DEF WellWritten, Encoders
<1>2. Unfinished(e, st) BY DEF WellWritten
<1>3. FALSE \in BOOLEAN /\ x = Amended(e, k, new, FALSE) OBVIOUS
<1>4. new \in EncStreams /\ new.delta = st.delta /\ new.ext = st.ext /\ new.body = st.body
      /\ new.left = <<>>
  <2> DEFINE none == <<>>
  <2>1. none \in Seq(Words) OBVIOUS
  <2>2. new = [st EXCEPT !.left = none] OBVIOUS
  <2> HIDE DEF none, new, st
  <2>3. new \in EncStreams BY <1>1, <2>1, <2>2 DEF EncStreams
  <2>4. /\ new.delta = st.delta /\ new.ext = st.ext /\ new.body = st.body /\ new.left = none
    BY <1>1, <2>2 DEF EncStreams
  <2> QED BY <2>3, <2>4 DEF none
<1>5. [e EXCEPT !.streams[k].left = <<>>] = x BY <1>1 DEF Amended, Encoders
<1> HIDE DEF new, x
<1>6. Unfinished(x, new)
  <2>1. st.ext = ExtOf(st.delta) /\ Len(st.body) <= 2 BY <1>2 DEF Unfinished
  <2>2. new.ext = ExtOf(new.delta) /\ Len(new.body) <= 2 BY <1>4, <2>1
  <2>3. \A i \in 1 .. Len(new.left) : FALSE BY <1>4
  <2> QED BY <1>4, <2>2, <2>3 DEF Unfinished
<1>7. WellWritten(x) BY <1>1, <1>3, <1>4, <1>6, Rewritten
<1> QED BY <1>3, <1>4, <1>5, <1>7 DEF new

(* So is one that changed its chunk size (set_out_chunk_size). *)
LEMMA ResizedWell ==
  ASSUME NEW e, WellWritten(e), NEW n \in Nat \ {0}
  PROVE  LET x == [e EXCEPT !.size = n]
         IN /\ WellWritten(x) /\ x.size = n /\ x.streams = e.streams /\ x.repeats = e.repeats
            /\ x.shown = e.shown
<1> DEFINE x == [e EXCEPT !.size = n]
<1>1. e \in Encoders BY DEF WellWritten
<1>2. x \in Encoders /\ x.size = n /\ x.streams = e.streams BY <1>1 DEF Encoders
<1>3. x.repeats = e.repeats BY <1>1 DEF Encoders
<1>4. x.shown = e.shown BY <1>1 DEF Encoders
<1> HIDE DEF x
<1>5. ASSUME NEW k \in Media PROVE Unfinished(x, x.streams[k])
  <2>1. Unfinished(e, e.streams[k]) BY DEF WellWritten
  <2> QED BY <1>2, <1>3, <1>4, <2>1, ZenonT(30) DEF Unfinished
<1>6. WellWritten(x) BY <1>2, <1>5 DEF WellWritten
<1> QED BY <1>2, <1>3, <1>4, <1>6 DEF x

-----------------------------------------------------------------------------
(* The encoder's invariant *)

(* What Writes does with what was sent. *)
Records(k, st) ==
  hist' = IF st.left # <<>> THEN hist
          ELSE [hist EXCEPT !.time[k] = <<st.t>>,
                            !.due = Append(@, [kind |-> k, ts |-> st.t, body |-> st.body])]

NearEnough(k, t) ==
  IF hist.time[k] = <<>> THEN t \in Bits ELSE Near(Head(hist.time[k]), t)

Chosen(k, fmt, t, body, value) ==
  LET st == enc.streams[k]
      new == Begun(value, t, body, enc.size)
  IN /\ st.left = <<>>
     /\ value = IF fmt = 0 THEN t % TsMod ELSE t - st.t
     /\ 1 <= Len(body) /\ Len(body) <= 2
     /\ TellsApart(enc, value, body)
     /\ MayWrite(fmt, st, body, t - st.t)
     /\ NearEnough(k, t)
     /\ enc' = Amended(enc, k, new, FALSE)
     /\ wire' = wire \o <<FirstChunk(fmt, CsidOf(k), value, k, body, enc.size)>>
     /\ Records(k, new)

(* What goes into the header fits a time on the wire                       *)
(* (ChunkEncoder::write).                                                  *)
LEMMA ValueIs ==
  ASSUME EncInv, NEW k \in Media, NEW fmt \in 0 .. 3, NEW t \in Int, NearEnough(k, t),
         NEW body, MayWrite(fmt, enc.streams[k], body, t - enc.streams[k].t)
  PROVE  (IF fmt = 0 THEN t % TsMod ELSE t - enc.streams[k].t) \in Bits
<1> DEFINE st == enc.streams[k]
           s == st.t
<1>0. TsMod \in Nat \ {0} BY ChunkConstants
<1>1. s \in Int BY DEF EncInv, WellWritten, Encoders, EncStreams
<1>2. Timed(st, hist.time[k]) BY DEF EncInv
<1>3. CASE fmt = 0
  <2>1. t % TsMod \in 0 .. TsMod - 1 BY <1>0, Division
  <2> QED BY <1>3, <2>1 DEF Bits
<1>4. CASE fmt # 0
  <2>1. st.known /\ t - s >= 0 BY <1>4 DEF MayWrite
  <2>2. t - s < TsMod
    <3>1. CASE hist.time[k] = <<>>
      <4>1. s \in Bits /\ t \in Bits BY <1>2, <2>1, <3>1 DEF Timed, NearEnough
      <4> HIDE DEF s
      <4> QED BY <1>0, <4>1 DEF Bits
    <3>2. CASE hist.time[k] # <<>>
      <4> DEFINE x == Head(hist.time[k])
      <4>1. x \in Int /\ Near(x, s) /\ Near(x, t) BY <1>2, <3>2 DEF Timed, NearEnough
      <4> HIDE DEF s, x
      <4> QED BY <1>0, <1>1, <4>1 DEF Near
    <3> QED BY <3>1, <3>2
  <2> HIDE DEF s
  <2>3. t - s \in 0 .. TsMod - 1 BY <1>0, <1>1, <2>1, <2>2
  <2> QED BY <1>4, <2>3 DEF Bits, s
<1> QED BY <1>3, <1>4

(* A message of media is one or two words. *)
LEMMA BodyIs ==
  ASSUME NEW value \in Bits, NEW body \in Bodies(value)
  PROVE  body \in Seq(Words) /\ 1 <= Len(body) /\ Len(body) <= 2
<1>1. TsWord(value) \in Words /\ <<"w", 0>> \in Words /\ <<"w", 1>> \in Words
  <2>1. value \in Int BY ChunkConstants DEF Bits
  <2>2. \A c \in Tags, v \in Int : <<c, v>> \in Words BY DEF Words
  <2>3. "ts" \in Tags /\ "w" \in Tags BY DEF Tags
  <2>4. TsWord(value) \in Words BY <2>1, <2>2, <2>3 DEF TsWord
  <2>5. 0 \in Int /\ 1 \in Int OBVIOUS
  <2>6. <<"w", 0>> \in Words /\ <<"w", 1>> \in Words BY <2>2, <2>3, <2>5
  <2> QED BY <2>4, <2>6
<1>2. ASSUME body = <<TsWord(value)>> PROVE body \in Seq(Words) /\ 1 <= Len(body) /\ Len(body) <= 2
  <2>1. body \in Seq(Words) BY <1>1, <1>2
  <2>2. Len(body) = 1 BY <1>2
  <2> QED BY <2>1, <2>2
<1>3. ASSUME NEW w \in {TsWord(value), <<"w", 1>>}, body = <<<<"w", 0>>, w>>
      PROVE  body \in Seq(Words) /\ Len(body) = 2
  <2> DEFINE v == <<"w", 0>>
  <2>1. v \in Words /\ w \in Words /\ body = <<v, w>> BY <1>1, <1>3
  <2> HIDE DEF v
  <2> QED BY <2>1
<1>4. body = <<TsWord(value)>> \/ \E w \in {TsWord(value), <<"w", 1>>} : body = <<<<"w", 0>>, w>>
  BY DEF Bodies
<1>5. CASE body = <<TsWord(value)>> BY <1>2, <1>5
<1>6. CASE \E w \in {TsWord(value), <<"w", 1>>} : body = <<<<"w", 0>>, w>>
  <2>1. body \in Seq(Words) /\ Len(body) = 2 BY <1>3, <1>6
  <2> QED BY <2>1
<1> QED BY <1>4, <1>5, <1>6

(* The time of the next message of a kind is near the one before it. *)
LEMMA TimeIs ==
  ASSUME EncInv, NEW k \in Media,
         NEW t \in IF hist.time[k] = <<>> THEN Starts ELSE {Head(hist.time[k]) + s : s \in Steps}
  PROVE  t \in Int /\ NearEnough(k, t)
<1>0. Timed(enc.streams[k], hist.time[k]) BY DEF EncInv
<1>1. CASE hist.time[k] = <<>>
  <2>1. t \in Starts BY <1>1
  <2>2. t \in 0 .. TsMod - 1 BY <2>1, RtmpConstants
  <2> QED BY <1>1, <2>2, ChunkConstants DEF NearEnough, Bits
<1>2. CASE hist.time[k] # <<>>
  <2> DEFINE x == Head(hist.time[k])
  <2>1. x \in Int BY <1>0, <1>2 DEF Timed
  <2>2. PICK s \in Steps : t = x + s BY <1>2
  <2>3. s \in Int /\ 2 * s < TsMod /\ -TsMod <= 2 * s BY RtmpConstants, Half
  <2> HIDE DEF x
  <2>4. t \in Int /\ t - x = s BY <2>1, <2>2, <2>3
  <2>5. Near(x, t) BY <2>3, <2>4 DEF Near
  <2> QED BY <1>2, <2>4, <2>5 DEF NearEnough, x
<1> QED BY <1>1, <1>2

(* What send_media begins: a header, a time, a body, and what stands for   *)
(* the time.                                                               *)
LEMMA BeginIs ==
  ASSUME EncInv, NEW k \in Media, Begin(k)
  PROVE  \E fmt \in 0 .. 3, t \in Int, body \in Seq(Words), value \in Bits :
           Chosen(k, fmt, t, body, value)
<1> DEFINE st == enc.streams[k]
<1>1. PICK fmt \in 0 .. 3,
           t \in IF hist.time[k] = <<>> THEN Starts ELSE {Head(hist.time[k]) + s : s \in Steps} :
        LET delta == t - st.t
            value == IF fmt = 0 THEN t % TsMod ELSE delta
        IN \E body \in Bodies(value) :
             /\ MayWrite(fmt, st, body, delta)
             /\ ~enc.repeats /\ ~enc.shown /\ value >= Extended => ~Looks(value, body)
             /\ Writes(k, [delta |-> value, ext |-> ExtOf(value), known |-> TRUE, t |-> t,
                           body |-> body, left |-> Rest(body, enc.size)],
                       FirstChunk(fmt, CsidOf(k), value, k, body, enc.size), FALSE)
  BY DEF Begin
<1> DEFINE value == IF fmt = 0 THEN t % TsMod ELSE t - st.t
<1>2. PICK body \in Bodies(value) :
        /\ MayWrite(fmt, st, body, t - st.t)
        /\ TellsApart(enc, value, body)
        /\ Writes(k, Begun(value, t, body, enc.size),
                  FirstChunk(fmt, CsidOf(k), value, k, body, enc.size), FALSE)
  BY <1>1 DEF Begun, TellsApart
<1>3. t \in Int /\ NearEnough(k, t) BY TimeIs
<1>4. value \in Bits BY <1>2, <1>3, ValueIs
<1>5. st.left = <<>> BY DEF Begin
<1>6. value = IF fmt = 0 THEN t % TsMod ELSE t - st.t OBVIOUS
<1> HIDE DEF value
<1>7. body \in Seq(Words) /\ 1 <= Len(body) /\ Len(body) <= 2 BY <1>4, BodyIs
<1> DEFINE new == Begun(value, t, body, enc.size)
<1>8. /\ enc' = Amended(enc, k, new, FALSE)
      /\ wire' = wire \o <<FirstChunk(fmt, CsidOf(k), value, k, body, enc.size)>>
      /\ Records(k, new)
  <2> HIDE DEF new
  <2>1. Writes(k, new, FirstChunk(fmt, CsidOf(k), value, k, body, enc.size), FALSE)
    BY <1>2 DEF new
  <2> QED BY <2>1 DEF Writes, Write, Amended, Records
<1> HIDE DEF st
<1>9. Chosen(k, fmt, t, body, value) BY <1>2, <1>3, <1>5, <1>6, <1>7, <1>8 DEF Chosen, st
<1> QED BY <1>3, <1>4, <1>7, <1>9

(* A time is near itself. *)
LEMMA NearItself == ASSUME NEW t \in Int PROVE Near(t, t)
BY ChunkConstants DEF Near

(* What is recorded of a message that is finished, and of one that is not. *)
LEMMA RecordsKeep ==
  ASSUME EncInv, NEW k \in Media, NEW st \in EncStreams, st.known, NEW w \in BOOLEAN,
         enc' = Amended(enc, k, st, w), WellWritten(enc'),
         Timed(st, hist.time[k]), Records(k, st)
  PROVE  EncInv'
<1>0. enc \in Encoders BY DEF EncInv, WellWritten
<1>1. IsAmended(enc', enc, k, st, w) BY <1>0, AmendedIs
<1>2. enc'.streams[k] = st /\ \A l \in Media : l # k => enc'.streams[l] = enc.streams[l]
  BY <1>1 DEF IsAmended
<1>3. CASE st.left # <<>>
  <2>1. hist' = hist BY <1>3 DEF Records
  <2>2. \A l \in Media : Timed(enc'.streams[l], hist'.time[l]) BY <1>2, <2>1 DEF EncInv
  <2> QED BY <2>1, <2>2 DEF EncInv
<1>4. CASE st.left = <<>>
  <2> DEFINE m == [kind |-> k, ts |-> st.t, body |-> st.body]
             now == <<st.t>>
  <2>1. hist' = [hist EXCEPT !.time[k] = now, !.due = Append(@, m)] BY <1>4 DEF Records
  <2>2. st.t \in Int /\ st.body \in Seq(Words) BY DEF EncStreams
  <2>3. m \in Sent BY <2>2 DEF Sent
  <2>4. now # <<>> /\ now = <<Head(now)>> /\ Head(now) = st.t BY <2>2
  <2> HIDE DEF m, now
  <2>5. hist = [time |-> hist.time, due |-> hist.due, last |-> hist.last, count |-> hist.count]
    BY DEF EncInv
  <2>6. /\ hist'.time = [hist.time EXCEPT ![k] = now] /\ hist'.due = Append(hist.due, m)
        /\ hist'.last = hist.last /\ hist'.count = hist.count
    BY <2>1, <2>5
  <2>7. hist' = [time |-> hist'.time, due |-> hist'.due, last |-> hist'.last, count |-> hist'.count]
    BY <2>1, <2>5
  <2>8. hist'.due \in Seq(Sent) /\ hist'.count \in Nat BY <2>3, <2>6 DEF EncInv
  <2>9. DOMAIN hist'.time = Media /\ hist'.time[k] = now
        /\ \A l \in Media : l # k => hist'.time[l] = hist.time[l] BY <2>6 DEF EncInv
  <2>10. Timed(st, now) BY <2>2, <2>4, NearItself DEF Timed
  <2>11. \A l \in Media : Timed(enc'.streams[l], hist'.time[l]) BY <1>2, <2>9, <2>10 DEF EncInv
  <2> QED BY <2>7, <2>8, <2>9, <2>11 DEF EncInv
<1> QED BY <1>3, <1>4

(* To begin a message keeps the encoder's invariant                        *)
(* (ClientSession::send_media).                                            *)
LEMMA BeginKeeps ==
  ASSUME EncInv, NEW k \in Media, Begin(k)
  PROVE  EncInv'
<1>1. PICK fmt \in 0 .. 3, t \in Int, body \in Seq(Words), value \in Bits :
        Chosen(k, fmt, t, body, value)
  BY BeginIs
<1> DEFINE st == Begun(value, t, body, enc.size)
<1>2. /\ 1 <= Len(body) /\ Len(body) <= 2 /\ TellsApart(enc, value, body)
      /\ NearEnough(k, t) /\ enc' = Amended(enc, k, st, FALSE) /\ Records(k, st)
  BY <1>1 DEF Chosen
<1>3. WellWritten(enc) /\ enc.size \in Nat \ {0} BY DEF EncInv, WellWritten, Encoders
<1>4. IsBegun(st, value, t, body, enc.size) BY <1>2, <1>3, BegunIs
<1>5. WellWritten(enc') BY <1>2, <1>3, BegunWell
<1> HIDE DEF st
<1>6. st \in EncStreams /\ st.t = t BY <1>4 DEF IsBegun
<1>7. st.known BY <1>4 DEF IsBegun
<1>8. Timed(enc.streams[k], hist.time[k]) BY DEF EncInv
<1>9. Timed(st, hist.time[k]) BY <1>2, <1>6, <1>7, <1>8 DEF Timed, NearEnough
<1>10. FALSE \in BOOLEAN OBVIOUS
<1> QED BY <1>2, <1>5, <1>6, <1>7, <1>9, <1>10, RecordsKeep

GoesOn(k) ==
  LET st == enc.streams[k]
      new == [st EXCEPT !.left = Rest(@, enc.size)]
  IN /\ enc' = Amended(enc, k, new, st.ext # NoExt)
     /\ wire' = wire \o <<NextChunk(CsidOf(k), st.ext, enc.repeats, st.left, enc.size)>>
     /\ Records(k, new)

(* What going on with a message comes to. *)
LEMMA GoOnIs ==
  ASSUME NEW k \in Media, GoOn(k)
  PROVE  GoesOn(k)
<1> DEFINE st == enc.streams[k]
           new == [st EXCEPT !.left = Rest(@, enc.size)]
           chunk == NextChunk(CsidOf(k), st.ext, enc.repeats, st.left, enc.size)
<1>1. Writes(k, new, chunk, st.ext # NoExt) BY DEF GoOn
<1> HIDE DEF st, new, chunk
<1>2. enc' = Amended(enc, k, new, st.ext # NoExt) /\ wire' = wire \o <<chunk>> /\ Records(k, new)
  BY <1>1 DEF Writes, Write, Amended, Records
<1> QED BY <1>2 DEF GoesOn, st, new, chunk

(* To go on with a message keeps the encoder's invariant. *)
LEMMA GoOnKeeps ==
  ASSUME EncInv, NEW k \in Media, GoOn(k)
  PROVE  EncInv'
<1> DEFINE st == enc.streams[k]
           new == [st EXCEPT !.left = Rest(@, enc.size)]
           w == st.ext # NoExt
<1>1. enc' = Amended(enc, k, new, w) /\ Records(k, new) BY GoOnIs DEF GoesOn
<1>2. st.left # <<>> BY DEF GoOn
<1>3. WellWritten(enc) /\ enc.size \in Nat \ {0} /\ st \in EncStreams BY DEF EncInv, WellWritten, Encoders
<1>4. WellWritten(enc') BY <1>1, <1>2, <1>3, GoneOnWell
<1>5. IsGoneOn(new, st, enc.size) BY <1>2, <1>3, GoneOnIs
<1>6. Unfinished(enc, st) BY DEF EncInv, WellWritten
<1>7. w \in BOOLEAN OBVIOUS
<1> HIDE DEF new, w
<1>8. new \in EncStreams /\ new.t = st.t BY <1>5 DEF IsGoneOn
<1>9. st.known BY <1>2, <1>6 DEF Unfinished
<1>10. new.known BY <1>5, <1>9 DEF IsGoneOn
<1>11. Timed(st, hist.time[k]) BY DEF EncInv
<1>12. Timed(new, hist.time[k]) BY <1>8, <1>9, <1>10, <1>11 DEF Timed
<1> QED BY <1>1, <1>4, <1>7, <1>8, <1>10, <1>12, RecordsKeep

(* To give a message up keeps it. *)
LEMMA GiveUpKeeps ==
  ASSUME EncInv, NEW k \in Media, GiveUp(k)
  PROVE  EncInv'
<1> DEFINE new == [enc.streams[k] EXCEPT !.left = <<>>]
<1>1. enc' = [enc EXCEPT !.streams[k].left = <<>>] /\ hist' = hist BY DEF GiveUp
<1>2. WellWritten(enc) BY DEF EncInv
<1>3. WellWritten(enc') /\ enc' = Amended(enc, k, new, FALSE) /\ new \in EncStreams
  BY <1>1, <1>2, GivenUpIs
<1>4. enc \in Encoders /\ FALSE \in BOOLEAN BY <1>2 DEF WellWritten
<1>5. IsAmended(enc', enc, k, new, FALSE) BY <1>3, <1>4, AmendedIs
<1>6. new.t = enc.streams[k].t BY <1>4 DEF Encoders, EncStreams
<1>7. new.known = enc.streams[k].known BY <1>4 DEF Encoders, EncStreams
<1> HIDE DEF new
<1>8. \A l \in Media : Timed(enc'.streams[l], hist.time[l])
  <2> SUFFICES ASSUME NEW l \in Media PROVE Timed(enc'.streams[l], hist.time[l]) OBVIOUS
  <2>1. Timed(enc.streams[l], hist.time[l]) BY DEF EncInv
  <2>2. CASE l = k
    <3>1. enc'.streams[l] = new BY <1>5, <2>2 DEF IsAmended
    <3> QED BY <1>6, <1>7, <2>1, <2>2, <3>1 DEF Timed
  <2>3. CASE l # k BY <1>5, <2>1, <2>3 DEF IsAmended
  <2> QED BY <2>2, <2>3
<1> QED BY <1>1, <1>3, <1>8 DEF EncInv

(* To change the chunk size keeps it. *)
LEMMA ResizeKeeps ==
  ASSUME EncInv, Resize
  PROVE  EncInv'
<1>1. PICK n \in Sizes : enc' = [enc EXCEPT !.size = n] BY DEF Resize
<1>2. n \in Nat \ {0} BY RtmpConstants
<1>3. WellWritten(enc) BY DEF EncInv
<1>4. WellWritten(enc') /\ enc'.streams = enc.streams BY <1>1, <1>2, <1>3, ResizedWell
<1>5. hist' = hist BY DEF Resize
<1> QED BY <1>4, <1>5 DEF EncInv

(* Of what the encoder's invariant is about the core takes only the oldest *)
(* message.                                                                *)
LEMMA HandOverRecords ==
  ASSUME EncInv, HandOver
  PROVE  /\ EncInv' /\ enc' = enc /\ hist'.time = hist.time
         /\ hist'.due = IF hist.due = <<>> THEN <<>> ELSE Tail(hist.due)
         /\ hist'.count = hist.count + 1
<1>1. hist = [time |-> hist.time, due |-> hist.due, last |-> hist.last, count |-> hist.count]
      /\ hist.due \in Seq(Sent) /\ hist.count \in Nat
  BY DEF EncInv
<1> DEFINE e == Head(srv.events)
           u == Unwrapped(app.unwrap[e.kind], e.ts)
           given == [e EXCEPT !.ts = NotNegative(u.current)]
<1>2. /\ hist' = [hist EXCEPT !.due = IF @ = <<>> THEN @ ELSE Tail(@), !.count = @ + 1,
                              !.last = given]
      /\ enc' = enc
  BY DEF HandOver
<1> HIDE DEF given
<1>3. /\ hist'.time = hist.time /\ hist'.count = hist.count + 1
      /\ hist'.due = IF hist.due = <<>> THEN <<>> ELSE Tail(hist.due)
  BY <1>1, <1>2
<1>4. hist' = [time |-> hist'.time, due |-> hist'.due, last |-> hist'.last, count |-> hist'.count]
  BY <1>1, <1>2
<1>5. hist'.due \in Seq(Sent) /\ hist'.count \in Nat BY <1>1, <1>3
<1>6. EncInv' BY <1>2, <1>3, <1>4, <1>5 DEF EncInv
<1> QED BY <1>2, <1>3, <1>6

(* The encoder's invariant holds at first. *)
LEMMA EncInit == Init => EncInv
<1> SUFFICES ASSUME Init PROVE EncInv OBVIOUS
<1>0. 0 \in Bits /\ ExtOf(0) = NoExt /\ NoExt \in 0 .. TsMod BY ChunkConstants DEF Bits, ExtOf, NoExt
<1>1. PICK r \in BOOLEAN : enc = [size |-> 1, repeats |-> r, shown |-> FALSE,
                                  streams |-> [k \in Media |-> Idle]]
  BY DEF Init
<1>2. hist = [time |-> [k \in Media |-> <<>>], due |-> <<>>, last |-> Nothing, count |-> 0] BY DEF Init
<1>3. Idle \in EncStreams BY <1>0 DEF Idle, EncStreams
<1>4. enc \in Encoders /\ \A k \in Media : enc.streams[k] = Idle BY <1>1, <1>3 DEF Encoders
<1>5. Idle.left = <<>> /\ Idle.body = <<>> /\ Idle.delta = 0 /\ Idle.ext = NoExt BY DEF Idle
<1>6. ~Idle.known BY DEF Idle
<1>7. Unfinished(enc, Idle) BY <1>0, <1>5 DEF Unfinished
<1>8. WellWritten(enc) BY <1>4, <1>7 DEF WellWritten
<1>9. Timed(Idle, <<>>) BY <1>6 DEF Timed
<1>10. hist.time = [k \in Media |-> <<>>] /\ hist.due = <<>> /\ hist.count = 0 BY <1>2
<1>11. hist = [time |-> hist.time, due |-> hist.due, last |-> hist.last, count |-> hist.count] BY <1>2
<1> QED BY <1>4, <1>8, <1>9, <1>10, <1>11 DEF EncInv

(* And every step keeps it. *)
LEMMA EncStep ==
  ASSUME EncInv, [Next]_vars
  PROVE  EncInv'
<1>1. CASE Hello \/ Receive \/ Close \/ Read \/ EndOfRead \/ Accept \/ Reject \/ EndStream \/ Flush
  <2>1. UNCHANGED <<enc, hist>>
    BY <1>1 DEF Hello, Receive, Close, Read, EndOfRead, Accept, Reject, EndStream, Flush
  <2> QED BY <2>1 DEF EncInv
<1>2. CASE HandOver BY <1>2, HandOverRecords
<1>3. CASE Resize BY <1>3, ResizeKeeps
<1>4. ASSUME NEW k \in Media, Begin(k) \/ GoOn(k) \/ GiveUp(k) PROVE EncInv'
  BY <1>4, BeginKeeps, GoOnKeeps, GiveUpKeeps
<1>5. CASE UNCHANGED vars BY <1>5 DEF vars, EncInv
<1> QED BY <1>1, <1>2, <1>3, <1>4, <1>5 DEF Next, Encoder, Relay

-----------------------------------------------------------------------------
(* What the decoder makes of a chunk *)

(* A difference added to a time on the wire gives the next one. *)
LEMMA AddedUp ==
  ASSUME NEW n \in Nat \ {0}, NEW s \in Int, NEW t \in Int
  PROVE  ((s % n) + (t - s)) % n = t % n
<1> DEFINE a == s % n
           b == t % n
           v == a + (t - s)
           r == v % n
           q == s \div n
           p == t \div n
           m == v \div n
<1>1. a \in 0 .. n - 1 /\ q \in Int /\ s = (n * q) + a BY Division
<1>2. b \in 0 .. n - 1 /\ p \in Int /\ t = (n * p) + b BY Division
<1>3. v \in Int BY <1>1
<1>4. r \in 0 .. n - 1 /\ m \in Int /\ v = (n * m) + r BY <1>3, Division
<1>5. v = a + (t - s) OBVIOUS
<1> HIDE DEF a, b, v, r, q, p, m
<1>6. v = ((n * p) - (n * q)) + b BY <1>1, <1>2, <1>5
<1>7. n * ((p - q) - m) = r - b
  <2>1. n * ((p - q) - m) = ((n * p) - (n * q)) - (n * m) BY <1>1, <1>2, <1>4
  <2>2. n * p \in Int /\ n * q \in Int /\ n * m \in Int BY <1>1, <1>2, <1>4
  <2> QED BY <1>1, <1>2, <1>4, <1>6, <2>1, <2>2
<1>8. (p - q) - m \in Int BY <1>1, <1>2, <1>4
<1>9. -n < r - b /\ r - b < n BY <1>2, <1>4
<1>10. (p - q) - m = 0
  <2> DEFINE k == (p - q) - m
  <2>1. k \in Int /\ n * k = r - b BY <1>7, <1>8
  <2> HIDE DEF k
  <2>2. -n < n * k /\ n * k < n BY <1>9, <2>1
  <2> QED BY <2>1, <2>2, Multiple DEF k
<1>11. n * 0 = 0 OBVIOUS
<1>12. r = b BY <1>2, <1>4, <1>7, <1>10, <1>11
<1> QED BY <1>12 DEF r, b, v, a

(* There is room in the decoder for what follows. *)
LEMMA Two ==
  ASSUME NEW a, NEW b
  PROVE  IsFiniteSet({a, b}) /\ Cardinality({a, b}) \in Nat /\ Cardinality({a, b}) <= 2
<1>1. IsFiniteSet({a}) /\ Cardinality({a}) = 1 BY FS_Singleton
<1>2. IsFiniteSet({a} \cup {b})
      /\ Cardinality({a} \cup {b}) = IF b \in {a} THEN Cardinality({a}) ELSE Cardinality({a}) + 1
  BY <1>1, FS_AddElement
<1>3. {a} \cup {b} = {a, b} OBVIOUS
<1> QED BY <1>1, <1>2, <1>3

(* A set of at most three. *)
LEMMA Three ==
  ASSUME NEW a, NEW b, NEW c, NEW S, S \subseteq {a, b, c}
  PROVE  Cardinality(S) \in Nat /\ Cardinality(S) <= 3
<1>1. IsFiniteSet({a, b}) /\ Cardinality({a, b}) \in Nat /\ Cardinality({a, b}) <= 2 BY Two
<1>2. IsFiniteSet({a, b} \cup {c})
      /\ Cardinality({a, b} \cup {c}) = IF c \in {a, b} THEN Cardinality({a, b}) ELSE Cardinality({a, b}) + 1
  BY <1>1, FS_AddElement
<1>3. {a, b} \cup {c} = {a, b, c} OBVIOUS
<1> DEFINE two == Cardinality({a, b})
           three == Cardinality({a, b, c})
<1>7. two \in Nat /\ two <= 2 /\ (three = two \/ three = two + 1) BY <1>1, <1>2, <1>3
<1>8. IsFiniteSet({a, b, c}) BY <1>2, <1>3
<1> HIDE DEF two, three
<1>9. three \in Nat /\ three <= 3 BY <1>7
<1>4. IsFiniteSet({a, b, c}) /\ Cardinality({a, b, c}) \in Nat /\ Cardinality({a, b, c}) <= 3
  BY <1>8, <1>9 DEF three
<1>5. IsFiniteSet(S) /\ Cardinality(S) <= Cardinality({a, b, c}) BY <1>4, FS_Subset
<1>6. Cardinality(S) \in Nat BY <1>5, FS_CardinalityType
<1> QED BY <1>4, <1>5, <1>6

(* Audio and video each have a chunk stream. *)
LEMMA Csid == \A k \in Media : CsidOf(k) \in {4, 6} /\ CsidOf(k) \in Csids
BY RtmpConstants DEF Media, CsidOf

(* Of each unfinished message the decoder has one word at most. *)
LEMMA HasLittle ==
  ASSUME NEW d, NEW e, Matches(d, e), WellWritten(e), NEW c \in Csids, NEW i \in DOMAIN d.streams[c].part
  PROVE  c \in {4, 6} /\ i = 1
<1>1. d.streams[c] \in StreamStates BY DEF Matches, Decoders
<1>2. d.streams[c].part \in Seq(Words) BY <1>1 DEF StreamStates
<1>3. i \in 1 .. Len(d.streams[c].part) BY <1>2
<1>4. c \in {4, 6} BY <1>3 DEF Matches, Unused
<1>5. PICK k \in Media : c = CsidOf(k) BY <1>4 DEF Media, CsidOf
<1> DEFINE st == e.streams[k]
           part == d.streams[c].part
<1>6. Len(part) = IF st.left = <<>> THEN 0 ELSE Len(st.body) - Len(st.left)
  BY <1>5 DEF Matches, SameStream
<1>7. st \in EncStreams BY DEF WellWritten, Encoders
<1>8. Len(st.body) \in Nat /\ Len(st.left) \in Nat /\ (Len(st.left) = 0 => st.left = <<>>)
  BY <1>7, SMTT(30) DEF EncStreams
<1>9. Len(st.body) <= 2 BY DEF WellWritten, Unfinished
<1> HIDE DEF st
<1>10. Len(part) <= 1
  <2> DEFINE l == Len(st.left)
             b == Len(st.body)
             n == Len(part)
  <2>1. n = (IF st.left = <<>> THEN 0 ELSE b - l) /\ b \in Nat /\ l \in Nat /\ b <= 2
        /\ (l = 0 => st.left = <<>>) BY <1>6, <1>8, <1>9
  <2> HIDE DEF l, b, n
  <2>2. n <= 1 BY <2>1
  <2> QED BY <2>2 DEF n
<1>11. i = 1 BY <1>2, <1>3, <1>10
<1> QED BY <1>4, <1>11

(* The decoder keeps little of the messages of other streams: less than a  *)
(* message each.                                                           *)
LEMMA HoldsLittle ==
  ASSUME NEW d, NEW e, Matches(d, e), WellWritten(e), NEW csid
  PROVE  PendingBut(d, csid) \in Nat /\ PendingBut(d, csid) <= 2
<1> DEFINE U == UNION {{c} \X DOMAIN d.streams[c].part : c \in Csids \ {csid}}
           a == <<4, 1>>
           b == <<6, 1>>
<1>1. U \subseteq {a, b}
  <2> SUFFICES ASSUME NEW x \in U PROVE x \in {a, b} OBVIOUS
  <2>1. PICK c \in Csids : x \in {c} \X DOMAIN d.streams[c].part OBVIOUS
  <2>2. PICK i \in DOMAIN d.streams[c].part : x = <<c, i>> BY <2>1
  <2>3. c \in {4, 6} /\ i = 1 BY HasLittle
  <2> QED BY <2>2, <2>3
<1> HIDE DEF U, a, b
<1>2. IsFiniteSet({a, b}) /\ Cardinality({a, b}) \in Nat /\ Cardinality({a, b}) <= 2 BY Two
<1>3. IsFiniteSet(U) /\ Cardinality(U) <= Cardinality({a, b}) BY <1>1, <1>2, FS_Subset
<1>4. Cardinality(U) \in Nat BY <1>3, FS_CardinalityType
<1>5. Cardinality(U) <= 2 BY <1>2, <1>3, <1>4
<1> QED BY <1>4, <1>5 DEF PendingBut, U

(* And few chunk streams are in use, so that one more is never too many    *)
(* (MAX_STREAMS).                                                          *)
LEMMA NotCrowded ==
  ASSUME NEW d, NEW e, Matches(d, e), NEW csid \in {Control, Command, 4, 6}, csid \notin InUse(d)
  PROVE  ~(Cardinality(InUse(d)) >= MaxStreams)
<1>1. InUse(d) \subseteq {2, 3, 4, 6} BY DEF Matches, Unused, InUse, Control, Command
<1>2. csid \in {2, 3, 4, 6} BY DEF Control, Command
<1>3. Cardinality(InUse(d)) \in Nat /\ Cardinality(InUse(d)) <= 3
  <2>1. CASE csid = 2
    <3>1. InUse(d) \subseteq {3, 4, 6} BY <1>1, <2>1
    <3> QED BY <3>1, Three
  <2>2. CASE csid = 3
    <3>1. InUse(d) \subseteq {2, 4, 6} BY <1>1, <2>2
    <3> QED BY <3>1, Three
  <2>3. CASE csid = 4
    <3>1. InUse(d) \subseteq {2, 3, 6} BY <1>1, <2>3
    <3> QED BY <3>1, Three
  <2>4. CASE csid = 6
    <3>1. InUse(d) \subseteq {2, 3, 4} BY <1>1, <2>4
    <3> QED BY <3>1, Three
  <2> QED BY <1>2, <2>1, <2>2, <2>3, <2>4
<1> QED BY <1>3, RtmpConstants, ChunkConstants

-----------------------------------------------------------------------------
(* Payload that goes on with a body is added to what there is of it. *)
IsTaken(d, ch, h, p, body) ==
  LET whole == Len(h.part) + Len(p) = Len(body)
      x == Decoded(d, ch)
      ds == x.streams[ch.csid]
  IN /\ Completes(d, ch) <=> whole
     /\ whole => Message(d, ch) = [type |-> h.type, ts |-> h.ts, body |-> body]
     /\ x \in Decoders /\ x.size = d.size /\ x.repeats = Learned(d, ch)
     /\ \A c \in Csids : c # ch.csid => x.streams[c] = d.streams[c]
     /\ ds.ts = h.ts /\ ds.delta = h.delta /\ ds.len = h.len /\ ds.type = h.type /\ ds.ext = h.ext
     /\ ds.known = h.known
     /\ whole => ds.busy = FALSE /\ ds.part = <<>>
     /\ ~whole => /\ ds.busy = h.busy /\ Len(ds.part) = Len(h.part) + Len(p)
                  /\ \A i \in 1 .. Len(ds.part) : ds.part[i] = body[i]

IsJoined(s, a, p, body) ==
  /\ s \in Seq(Words) /\ Len(s) = Len(a) + Len(p)
  /\ \A i \in 1 .. Len(s) : s[i] = body[i]
  /\ Len(a) + Len(p) = Len(body) => s = body

(* Two consecutive parts of a message, put together, are what the message  *)
(* starts with.                                                            *)
LEMMA Joined ==
  ASSUME NEW a \in Seq(Words), NEW p \in Seq(Words), NEW body \in Seq(Words),
         Len(a) + Len(p) <= Len(body), \A i \in 1 .. Len(a) : a[i] = body[i],
         \A i \in 1 .. Len(p) : p[i] = body[Len(a) + i]
  PROVE  IsJoined(a \o p, a, p, body)
<1> DEFINE s == a \o p
<1>1. s \in Seq(Words) /\ Len(s) = Len(a) + Len(p) OBVIOUS
<1>2. ASSUME NEW i \in 1 .. Len(s) PROVE s[i] = body[i]
  <2>1. CASE i <= Len(a)
    <3>1. i \in 1 .. Len(a) BY <1>1, <1>2, <2>1
    <3>2. s[i] = a[i] BY <3>1
    <3> QED BY <3>1, <3>2
  <2>2. CASE ~(i <= Len(a))
    <3>1. i - Len(a) \in 1 .. Len(p) /\ Len(a) + (i - Len(a)) = i BY <1>1, <1>2, <2>2
    <3>2. s[i] = p[i - Len(a)] BY <1>1, <1>2, <2>2
    <3> QED BY <3>1, <3>2
  <2> QED BY <2>1, <2>2
<1> HIDE DEF s
<1>3. ASSUME Len(a) + Len(p) = Len(body) PROVE s = body
  <2>1. Len(s) = Len(body) BY <1>1, <1>3
  <2>2. \A i \in 1 .. Len(s) : s[i] = body[i] BY <1>2
  <2> QED BY <1>1, <2>1, <2>2, SeqEqual
<1>4. IsJoined(s, a, p, body) BY <1>1, <1>2, <1>3 DEF IsJoined
<1> QED BY <1>4 DEF s

(* A chunk with the next part of a message is taken in, and completes it   *)
(* at its length.                                                          *)
LEMMA TakesIn ==
  ASSUME NEW d \in Decoders, NEW ch, ch.csid \in Csids,
         NEW h \in StreamStates, Headed(d, ch) = h, NEW p \in Seq(Words), Payload(d, ch) = p,
         NEW body \in Seq(Words), h.len = Len(body), Len(h.part) + Len(p) <= Len(body),
         \A i \in 1 .. Len(h.part) : h.part[i] = body[i],
         \A i \in 1 .. Len(p) : p[i] = body[Len(h.part) + i]
  PROVE  IsTaken(d, ch, h, p, body)
<1> DEFINE whole == Len(h.part) + Len(p) = Len(body)
           all == h.part \o p
           x == Decoded(d, ch)
           ds == x.streams[ch.csid]
           t == Taken(d, ch)
           st == IF Completes(d, ch) THEN [t EXCEPT !.busy = FALSE, !.part = <<>>] ELSE t
<1>17. IsJoined(all, h.part, p, body)
  <2>1. h.part \in Seq(Words) BY DEF StreamStates
  <2> QED BY <2>1, Joined
<1> HIDE DEF all
<1>1. /\ all \in Seq(Words) /\ Len(all) = Len(h.part) + Len(p)
      /\ \A i \in 1 .. Len(all) : all[i] = body[i]
  BY <1>17 DEF IsJoined
<1>9. whole => all = body BY <1>17 DEF IsJoined
<1> USE DEF all
<1>2. t = [h EXCEPT !.part = all] BY DEF Taken
<1> HIDE DEF all, t
<1>3. /\ t \in StreamStates /\ t.part = all /\ t.ts = h.ts /\ t.delta = h.delta
      /\ t.len = h.len /\ t.type = h.type /\ t.ext = h.ext
  BY <1>1, <1>2 DEF StreamStates
<1>4. t.busy = h.busy /\ t.known = h.known BY <1>2 DEF StreamStates
<1>5. Completes(d, ch) <=> whole
  <2>1. Completes(d, ch) <=> Len(t.part) >= t.len BY DEF Completes, t
  <2> DEFINE n == Len(h.part) + Len(p)
             l == Len(body)
  <2>2. Len(t.part) = n /\ t.len = l BY <1>1, <1>3
  <2>3. n \in Nat /\ l \in Nat /\ n <= l BY DEF StreamStates
  <2>4. whole <=> n = l OBVIOUS
  <2> HIDE DEF n, l, whole
  <2> QED BY <2>1, <2>2, <2>3, <2>4
<1>6. x = [d EXCEPT !.streams[ch.csid] = st, !.repeats = Learned(d, ch)] BY DEF Decoded, t
<1>7. Learned(d, ch) \in {"Unknown", "Yes", "No"} BY DEF Learned, Decoders
<1>8. st \in StreamStates /\ (Completes(d, ch) => st.part = <<>>)
      /\ (~Completes(d, ch) => st = t)
      /\ st.ts = t.ts /\ st.delta = t.delta /\ st.len = t.len /\ st.type = t.type /\ st.ext = t.ext
  <2> DEFINE none == <<>>
             done == [t EXCEPT !.busy = FALSE, !.part = none]
  <2>1. none \in Seq(Words) OBVIOUS
  <2> HIDE DEF none
  <2>2. /\ done \in StreamStates /\ done.part = none /\ done.ts = t.ts /\ done.delta = t.delta
        /\ done.len = t.len /\ done.type = t.type /\ done.ext = t.ext
    BY <1>3, <2>1 DEF StreamStates
  <2>3. st = IF Completes(d, ch) THEN done ELSE t BY DEF none
  <2> HIDE DEF done, st
  <2> QED BY <1>3, <2>2, <2>3 DEF none
<1>10. (Completes(d, ch) => st.busy = FALSE) /\ st.known = t.known
  <2> DEFINE done == [t EXCEPT !.busy = FALSE, !.part = <<>>]
  <2>1. done.busy = FALSE BY <1>3 DEF StreamStates
  <2>2. done.known = t.known BY <1>3 DEF StreamStates
  <2>3. st = IF Completes(d, ch) THEN done ELSE t OBVIOUS
  <2> HIDE DEF done, st
  <2> QED BY <2>1, <2>2, <2>3
<1>11. whole => Message(d, ch) = [type |-> h.type, ts |-> h.ts, body |-> body]
  BY <1>3, <1>9 DEF Message, t
<1> HIDE DEF st
<1>12. x \in Decoders /\ x.size = d.size /\ x.repeats = Learned(d, ch)
       /\ x.streams = [d.streams EXCEPT ![ch.csid] = st]
  <2> DEFINE r == Learned(d, ch)
             c == ch.csid
  <2>1. x = [d EXCEPT !.streams[c] = st, !.repeats = r] BY <1>6
  <2>2. r \in {"Unknown", "Yes", "No"} /\ c \in Csids /\ st \in StreamStates BY <1>7, <1>8
  <2> HIDE DEF r, c, x
  <2>3. x \in Decoders /\ x.size = d.size /\ x.repeats = r /\ x.streams = [d.streams EXCEPT ![c] = st]
    BY <2>1, <2>2 DEF Decoders
  <2> QED BY <2>3 DEF r, c
<1> HIDE DEF x
<1>13. x.streams[ch.csid] = st /\ \A c \in Csids : c # ch.csid => x.streams[c] = d.streams[c]
  BY <1>12 DEF Decoders
<1> HIDE DEF whole
<1>14. /\ st.ts = h.ts /\ st.delta = h.delta /\ st.len = h.len /\ st.type = h.type /\ st.ext = h.ext
       /\ st.known = h.known
  BY <1>3, <1>4, <1>8, <1>10
<1>15. whole => st.busy = FALSE /\ st.part = <<>> BY <1>5, <1>8, <1>10
<1>16. ~whole => /\ st.busy = h.busy /\ Len(st.part) = Len(h.part) + Len(p)
                 /\ \A i \in 1 .. Len(st.part) : st.part[i] = body[i]
  BY <1>1, <1>3, <1>4, <1>5, <1>8, ZenonT(30)
<1> QED BY <1>5, <1>11, <1>12, <1>13, <1>14, <1>15, <1>16 DEF IsTaken, x, whole

(* What a stream has of a message after the header that starts it. *)
IsHeaded(h, ts, delta, len, type) ==
  /\ h \in StreamStates /\ h.ts = ts /\ h.delta = delta /\ h.len = len /\ h.type = type
  /\ h.ext = ExtOf(delta) /\ h.part = <<>> /\ h.busy = TRUE /\ h.known = TRUE

(* The header of a message that begins, in any of the four forms           *)
(* (next_chunk).                                                           *)
LEMMA HeadedAnew ==
  ASSUME NEW d \in Decoders, NEW ch, ch.csid \in Csids, ~Continues(d, ch), ch.fmt \in 0 .. 3,
         NEW v \in Bits, HasExt(d, ch) <=> v >= Extended,
         HasExt(d, ch) \/ ch.fmt # 3 => Value(d, ch) = v,
         ch.fmt = 3 /\ ~HasExt(d, ch) => d.streams[ch.csid].delta = v,
         NEW len \in Nat, len = IF ch.fmt <= 1 THEN ch.len ELSE d.streams[ch.csid].len,
         NEW type \in Types, type = IF ch.fmt <= 1 THEN ch.type ELSE d.streams[ch.csid].type,
         NEW ts \in Bits, ts = IF ch.fmt = 0 THEN v ELSE (d.streams[ch.csid].ts + v) % TsMod
  PROVE  IsHeaded(Headed(d, ch), ts, v, len, type)
<1> DEFINE st == d.streams[ch.csid]
           t == Timestamp(st, ch, HasExt(d, ch), Value(d, ch))
           ext == IF HasExt(d, ch) THEN Value(d, ch) ELSE NoExt
           none == <<>>
           h == [st EXCEPT !.ts = t.ts, !.delta = t.delta, !.len = len, !.type = type,
                           !.ext = ext, !.part = none, !.busy = TRUE, !.known = TRUE]
<1>1. t.ts = ts /\ t.delta = v
  <2> HIDE DEF st
  <2>1. CASE ch.fmt = 0 BY <2>1 DEF Timestamp
  <2>2. CASE ch.fmt \in {1, 2} BY <2>2 DEF Timestamp, st
  <2>3. CASE ch.fmt = 3 /\ HasExt(d, ch) BY <2>3 DEF Timestamp, st
  <2>4. CASE ch.fmt = 3 /\ ~HasExt(d, ch) BY <2>4 DEF Timestamp, st
  <2> QED BY <2>1, <2>2, <2>3, <2>4
<1>2. ext = ExtOf(v) /\ ext \in 0 .. TsMod
  <2>1. CASE HasExt(d, ch) BY <2>1, Extension
  <2>2. CASE ~HasExt(d, ch) BY <2>2, Extension
  <2> QED BY <2>1, <2>2
<1>3. Headed(d, ch) = h
  <2>1. len = (IF ch.fmt <= 1 THEN ch.len ELSE st.len) /\ type = (IF ch.fmt <= 1 THEN ch.type ELSE st.type)
    OBVIOUS
  <2> HIDE DEF t, ext
  <2> QED BY <2>1 DEF Headed, t, ext
<1>4. st \in StreamStates /\ none \in Seq(Words) /\ none = <<>> BY SMTT(30) DEF Decoders
<1> HIDE DEF st, t, ext, none
<1>5. h \in StreamStates BY <1>1, <1>2, <1>4, ZenonT(30) DEF StreamStates
<1>6. h.ts = ts /\ h.delta = v /\ h.len = len /\ h.type = type /\ h.ext = ext /\ h.part = none
  BY <1>1, <1>4 DEF StreamStates
<1>7. h.busy = TRUE BY <1>4 DEF StreamStates
<1>8. h.known = TRUE BY <1>4 DEF StreamStates
<1> HIDE DEF h
<1> QED BY <1>2, <1>3, <1>4, <1>5, <1>6, <1>7, <1>8 DEF IsHeaded

(* Nothing is refused that ends where its header says. *)
LEMMA NotRefused ==
  ASSUME NEW d, NEW e, Matches(d, e), WellWritten(e), NEW ch, NEW limit \in Nat,
         ch.csid \in {Control, Command, 4, 6},
         ch.fmt # 0 => d.streams[ch.csid].known,
         Continues(d, ch) \/ Headed(d, ch).len <= limit,
         Headed(d, ch).len \in Nat, NEW n \in Nat, Len(Headed(d, ch).part) = n, NEW m \in Nat,
         Takes(d, ch) = m, Len(Payload(d, ch)) = m, n + m <= 2
  PROVE  ~Refuses(d, ch, limit)
<1>1. PendingBut(d, ch.csid) \in Nat /\ PendingBut(d, ch.csid) <= 2 BY HoldsLittle
<1>2. PendingBut(d, ch.csid) + Len(Headed(d, ch).part) + Takes(d, ch) <= 4 BY <1>1
<1>3. ~(ch.csid \notin InUse(d) /\ Cardinality(InUse(d)) >= MaxStreams) BY NotCrowded
<1>4. ~(PendingBut(d, ch.csid) + Len(Headed(d, ch).part) + Takes(d, ch) > MaxPending)
  BY <1>1, <1>2, RtmpConstants, ChunkConstants
<1>5. ~(~Continues(d, ch) /\ Headed(d, ch).len > limit) OBVIOUS
<1> QED BY <1>3, <1>4, <1>5 DEF Refuses

(* A decoder with what one stream of the encoder has now. *)
LEMMA MatchesOn ==
  ASSUME NEW d, NEW e, Matches(d, e), e \in Encoders, NEW k \in Media, NEW new \in EncStreams,
         NEW w \in BOOLEAN, NEW x \in Decoders, x.size = d.size,
         \A c \in Csids : c # CsidOf(k) => x.streams[c] = d.streams[c],
         SameStream(x.streams[CsidOf(k)], new, k),
         x.repeats = IF ~(e.shown \/ w) THEN "Unknown" ELSE IF e.repeats THEN "Yes" ELSE "No"
  PROVE  Matches(x, Amended(e, k, new, w))
<1> DEFINE y == Amended(e, k, new, w)
<1>1. IsAmended(y, e, k, new, w) BY AmendedIs
<1> HIDE DEF y
<1>2. y.size = e.size /\ y.streams[k] = new /\ \A l \in Media : l # k => y.streams[l] = e.streams[l]
  BY <1>1 DEF IsAmended
<1>3. y.repeats = e.repeats /\ y.shown = (e.shown \/ w) BY <1>1 DEF IsAmended
<1>4. x.size = y.size BY <1>2 DEF Matches
<1>5. x.repeats = IF ~y.shown THEN "Unknown" ELSE IF y.repeats THEN "Yes" ELSE "No" BY <1>3
<1>6. Unused(x)
  <2>1. Unused(d) BY DEF Matches
  <2> QED BY <2>1, Csid DEF Unused
<1>7. ASSUME NEW l \in Media PROVE SameStream(x.streams[CsidOf(l)], y.streams[l], l)
  <2>1. CASE l = k BY <1>2, <2>1
  <2>2. CASE l # k
    <3>1. CsidOf(l) # CsidOf(k) /\ CsidOf(l) \in Csids BY <2>2, Csid DEF CsidOf, Media
    <3> QED BY <1>2, <2>2, <3>1 DEF Matches
  <2> QED BY <2>1, <2>2
<1>8. Matches(x, y) BY <1>4, <1>5, <1>6, <1>7 DEF Matches
<1> QED BY <1>8 DEF y

(* A message of the session is one chunk and is read whole. *)
IsSaid(d, ch, e, type, word) ==
  /\ \A limit \in Nat \ {0} : ~Refuses(d, ch, limit)
  /\ Completes(d, ch) /\ Message(d, ch) = [type |-> type, ts |-> 0, body |-> <<word>>]
  /\ Matches(Decoded(d, ch), e) /\ Headed(d, ch).type = type

(* A command or a window of one word is read as it was said. *)
LEMMA SaidRead ==
  ASSUME NEW d, NEW e, Matches(d, e), WellWritten(e), NEW csid \in {Control, Command},
         NEW type \in Types, NEW word \in Words, NEW ch,
         ch = FirstChunk(0, csid, 0, type, <<word>>, e.size)
  PROVE  IsSaid(d, ch, e, type, word)
<1> DEFINE body == <<word>>
           h == Headed(d, ch)
           x == Decoded(d, ch)
<1>1. d \in Decoders /\ d.size = e.size /\ e.size \in Nat \ {0} BY DEF Matches, WellWritten, Encoders
<1>2. 0 \in Bits /\ ~(0 >= Extended) /\ Field(0) = 0 /\ ExtOf(0) = NoExt
  BY ChunkConstants DEF Bits, Field, ExtOf
<1>3. body \in Seq(Words) /\ Len(body) = 1 OBVIOUS
<1>4. Cut(body, e.size) = body BY <1>1, <1>3 DEF Cut
<1>5. /\ ch.fmt = 0 /\ ch.csid = csid /\ ch.field = 0 /\ ch.len = 1 /\ ch.type = type
      /\ ch.words = <<>> \o body
  BY <1>2, <1>3, <1>4 DEF FirstChunk, ExtWords
<1>6. <<>> \o body = body BY <1>3
<1> HIDE DEF body
<1>7. csid \in Csids /\ csid \in {2, 3} BY RtmpConstants DEF Control, Command
<1>8. ~Continues(d, ch) BY <1>5 DEF Continues
<1>9. ~HasExt(d, ch)
  <2>1. 0 # Extended BY ChunkConstants
  <2> QED BY <1>5, <2>1 DEF HasExt
<1>10. Value(d, ch) = 0 BY <1>5, <1>9 DEF Value
<1>11. IsHeaded(h, 0, 0, 1, type)
  <2>1. ch.fmt \in 0 .. 3 /\ ch.fmt # 3 /\ 1 \in Nat BY <1>5
  <2>2. 1 = IF ch.fmt <= 1 THEN ch.len ELSE d.streams[ch.csid].len BY <1>5
  <2>3. type = IF ch.fmt <= 1 THEN ch.type ELSE d.streams[ch.csid].type BY <1>5
  <2>4. 0 = IF ch.fmt = 0 THEN 0 ELSE (d.streams[ch.csid].ts + 0) % TsMod BY <1>5
  <2> QED BY <1>1, <1>2, <1>5, <1>7, <1>8, <1>9, <1>10, <2>1, <2>2, <2>3, <2>4, HeadedAnew
<1>12. Payload(d, ch) = body BY <1>5, <1>6, <1>9 DEF Payload, ReadsExt
<1>13. h.len = 1 /\ h.part = <<>> /\ Len(h.part) = 0 /\ h \in StreamStates /\ h.type = type /\ h.ts = 0
  BY <1>11 DEF IsHeaded
<1>14. Takes(d, ch) = 1 BY <1>1, <1>13 DEF Takes
<1>15. IsTaken(d, ch, h, body, body)
  <2>1. \A i \in 1 .. Len(body) : body[i] = body[Len(h.part) + i] BY <1>3, <1>13
  <2>2. \A i \in 1 .. Len(h.part) : h.part[i] = body[i] BY <1>13
  <2>3. h.len = Len(body) /\ Len(h.part) + Len(body) <= Len(body) /\ ch.csid \in Csids
    BY <1>3, <1>5, <1>7, <1>13
  <2> HIDE DEF h
  <2>4. Headed(d, ch) = h BY DEF h
  <2> QED BY <1>1, <1>3, <1>12, <1>13, <2>1, <2>2, <2>3, <2>4, TakesIn, ZenonT(30)
<1> HIDE DEF h, x
<1>16. Len(h.part) + Len(body) = Len(body) BY <1>3, <1>13, SMTT(30)
<1>17. Completes(d, ch) BY <1>15, <1>16, SMTT(30) DEF IsTaken
<1>18. Message(d, ch) = [type |-> type, ts |-> 0, body |-> body] BY <1>13, <1>15, <1>16, SMTT(30) DEF IsTaken
<1>19. /\ x \in Decoders /\ x.size = d.size /\ x.repeats = Learned(d, ch)
       /\ \A c \in Csids : c # csid => x.streams[c] = d.streams[c]
       /\ x.streams[csid].part = <<>>
  BY <1>5, <1>15, <1>16 DEF IsTaken, x
<1>20. ~x.streams[csid].busy
  <2>1. x.streams[csid].busy = FALSE BY <1>5, <1>15, <1>16 DEF IsTaken, x
  <2> QED BY <2>1, SMTT(30)
<1>21. Learned(d, ch) = d.repeats BY <1>9 DEF Learned
<1>22. Unused(x)
  <2>1. Unused(d) BY DEF Matches
  <2>2. csid \notin {4, 6} /\ csid \in {Control, Command} BY <1>7
  <2> QED BY <1>19, <1>20, <2>1, <2>2 DEF Unused
<1>23. \A k \in Media : x.streams[CsidOf(k)] = d.streams[CsidOf(k)] BY <1>7, <1>19, Csid
<1>24. x.size = e.size BY <1>19 DEF Matches
<1>25. Matches(x, e) BY <1>19, <1>21, <1>22, <1>23, <1>24 DEF Matches
<1>26. ASSUME NEW limit \in Nat \ {0} PROVE ~Refuses(d, ch, limit)
  <2>1. limit \in Nat /\ 1 <= limit BY <1>26
  <2>2. Headed(d, ch) = h BY DEF h
  <2>3. ch.csid \in {Control, Command, 4, 6} BY <1>5
  <2>4. Headed(d, ch).len <= limit /\ Headed(d, ch).len \in Nat BY <1>13, <2>1, <2>2
  <2>5. Len(Headed(d, ch).part) = 0 BY <1>13, <2>2
  <2>6. Len(Payload(d, ch)) = 1 BY <1>3, <1>12
  <2>7. ch.fmt # 0 => d.streams[ch.csid].known BY <1>5
  <2>8. 0 \in Nat /\ 1 \in Nat /\ 0 + 1 <= 2 OBVIOUS
  <2> QED BY <1>14, <2>1, <2>3, <2>4, <2>5, <2>6, <2>7, <2>8, NotRefused
<1> QED BY <1>13, <1>17, <1>18, <1>25, <1>26 DEF IsSaid, h, x, body

-----------------------------------------------------------------------------
(* A chunk of media is read as what it was written as. *)
IsMediaRead(d, ch, k, new, y) ==
  /\ \A limit \in Nat : limit >= 2 => ~Refuses(d, ch, limit)
  /\ Headed(d, ch).type = k
  /\ Completes(d, ch) <=> new.left = <<>>
  /\ Completes(d, ch) => Message(d, ch) = [type |-> k, ts |-> new.t % TsMod, body |-> new.body]
  /\ Matches(Decoded(d, ch), y)

(* The payload p of a chunk goes on with the message that h is of. *)
GoesOnWith(d, ch, k, new, h, p) ==
  /\ Headed(d, ch) = h /\ h.known = TRUE /\ h.busy = TRUE
  /\ h.ts = new.t % TsMod /\ h.delta = new.delta /\ h.ext = new.ext /\ h.len = Len(new.body)
  /\ h.type = k /\ Payload(d, ch) = p /\ Takes(d, ch) = Len(p)
  /\ Len(h.part) + Len(p) = Len(new.body) - Len(new.left)
  /\ \A i \in 1 .. Len(h.part) : h.part[i] = new.body[i]
  /\ \A i \in 1 .. Len(p) : p[i] = new.body[Len(h.part) + i]

(* A chunk of media is read as it was written: the decoder then knows what *)
(* the encoder wrote.                                                      *)
LEMMA ReadOn ==
  ASSUME NEW d, NEW e, Matches(d, e), WellWritten(e), NEW k \in Media, NEW new \in EncStreams,
         new.known, Len(new.body) <= 2, NEW w \in BOOLEAN, NEW ch, ch.csid = CsidOf(k),
         NEW h \in StreamStates, NEW p \in Seq(Words), GoesOnWith(d, ch, k, new, h, p),
         ch.fmt # 0 => d.streams[ch.csid].known,
         Learned(d, ch) = IF ~(e.shown \/ w) THEN "Unknown" ELSE IF e.repeats THEN "Yes" ELSE "No"
  PROVE  IsMediaRead(d, ch, k, new, Amended(e, k, new, w))
<1>0. /\ Headed(d, ch) = h
      /\ h.ts = new.t % TsMod /\ h.delta = new.delta /\ h.ext = new.ext /\ h.len = Len(new.body)
      /\ h.type = k /\ Payload(d, ch) = p /\ Takes(d, ch) = Len(p)
      /\ Len(h.part) + Len(p) = Len(new.body) - Len(new.left)
      /\ \A i \in 1 .. Len(h.part) : h.part[i] = new.body[i]
      /\ \A i \in 1 .. Len(p) : p[i] = new.body[Len(h.part) + i]
  BY DEF GoesOnWith
<1>23. h.known = TRUE /\ h.busy = TRUE BY DEF GoesOnWith
<1> DEFINE c == CsidOf(k)
           body == new.body
           x == Decoded(d, ch)
           ds == x.streams[c]
           a == Len(h.part)
           b == Len(p)
           l == Len(new.left)
           n == Len(body)
<1>1. d \in Decoders BY DEF Matches
<1>2. c \in Csids /\ c \in {4, 6} BY Csid
<1>3. body \in Seq(Words) /\ new.left \in Seq(Words) /\ new.t \in Int BY DEF EncStreams
<1>4. h.part \in Seq(Words) BY DEF StreamStates
<1>5. /\ a \in Nat /\ b \in Nat /\ l \in Nat /\ n \in Nat /\ a + b = n - l /\ n <= 2
      /\ (l = 0 <=> new.left = <<>>)
  <2>1. a \in Nat /\ b \in Nat BY <1>4
  <2>2. l \in Nat /\ n \in Nat BY <1>3
  <2>3. l = 0 <=> new.left = <<>> BY <1>3
  <2>4. a + b = n - l /\ n <= 2 BY <1>0
  <2> HIDE DEF a, b, l, n
  <2> QED BY <2>1, <2>2, <2>3, <2>4
<1> HIDE DEF a, b, l, n
<1>6. a + b <= n /\ (a + b = n <=> l = 0) /\ a + b <= 2 BY <1>5
<1>7. IsTaken(d, ch, h, p, body)
  <2>1. a + b <= n /\ h.len = n BY <1>0, <1>6 DEF n
  <2>2. Len(h.part) + Len(p) <= Len(body) BY <2>1 DEF a, b, n
  <2>3. ch.csid \in Csids BY <1>2
  <2> HIDE DEF c
  <2> QED BY <1>0, <1>1, <1>3, <2>2, <2>3, TakesIn, ZenonT(30)
<1> DEFINE whole == Len(h.part) + Len(p) = Len(body)
<1>8. whole <=> new.left = <<>>
  <2>1. whole <=> a + b = n BY DEF a, b, n
  <2> HIDE DEF whole
  <2> QED BY <1>5, <1>6, <2>1
<1>9. ch.csid = c OBVIOUS
<1> HIDE DEF whole, c
<1>10. Completes(d, ch) <=> whole BY <1>7 DEF IsTaken, whole
<1>11. whole => Message(d, ch) = [type |-> k, ts |-> new.t % TsMod, body |-> body]
  BY <1>0, <1>7 DEF IsTaken, whole
<1>12. /\ x \in Decoders /\ x.size = d.size /\ x.repeats = Learned(d, ch)
       /\ \A f \in Csids : f # c => x.streams[f] = d.streams[f]
  BY <1>7, <1>9 DEF IsTaken
<1>13. ds.ts = h.ts /\ ds.delta = h.delta /\ ds.len = h.len /\ ds.type = h.type /\ ds.ext = h.ext
  BY <1>7, <1>9 DEF IsTaken
<1>14. ds.known BY <1>7, <1>9, <1>23 DEF IsTaken
<1>15. whole => ds.busy = FALSE BY <1>7, <1>9 DEF IsTaken, whole
<1>16. ~whole => ds.busy = TRUE
  <2>1. h.busy = TRUE BY <1>23
  <2> QED BY <1>7, <1>9, <2>1 DEF IsTaken, whole
<1>17. whole => ds.part = <<>> BY <1>7, <1>9 DEF IsTaken, whole
<1>18. ~whole => Len(ds.part) = a + b /\ \A i \in 1 .. Len(ds.part) : ds.part[i] = body[i]
  BY <1>7, <1>9 DEF IsTaken, whole, a, b
<1> HIDE DEF x, ds
<1>19. SameStream(ds, new, k)
  <2>1. ds.known = new.known
    <3>1. new.known \in BOOLEAN BY DEF EncStreams
    <3>2. ds.known \in BOOLEAN BY <1>2, <1>12 DEF ds, Decoders, StreamStates
    <3> QED BY <1>14, <3>1, <3>2
  <2>2. ds.busy = (new.left # <<>>) BY <1>8, <1>15, <1>16
  <2>3. /\ ds.ts = new.t % TsMod /\ ds.delta = new.delta /\ ds.ext = new.ext
        /\ ds.len = Len(new.body) /\ ds.type = k
    BY <1>0, <1>13
  <2>4. Len(ds.part) = IF new.left = <<>> THEN 0 ELSE Len(new.body) - Len(new.left)
    <3>1. Len(ds.part) = IF new.left = <<>> THEN 0 ELSE n - l BY <1>5, <1>8, <1>17, <1>18
    <3> QED BY <3>1 DEF n, l
  <2>5. \A i \in 1 .. Len(ds.part) : ds.part[i] = new.body[i] BY <1>17, <1>18
  <2> QED BY <2>1, <2>2, <2>3, <2>4, <2>5 DEF SameStream
<1>20. Matches(x, Amended(e, k, new, w))
  <2>1. e \in Encoders BY DEF WellWritten
  <2>2. SameStream(x.streams[CsidOf(k)], new, k) BY <1>19 DEF ds, c
  <2>3. \A f \in Csids : f # CsidOf(k) => x.streams[f] = d.streams[f] BY <1>12 DEF c
  <2> QED BY <1>12, <2>1, <2>2, <2>3, MatchesOn
<1>21. ASSUME NEW limit \in Nat, limit >= 2 PROVE ~Refuses(d, ch, limit)
  <2>1. ch.csid \in {Control, Command, 4, 6} BY <1>2, <1>9
  <2>2. Headed(d, ch).len <= limit /\ Headed(d, ch).len \in Nat
    <3>1. n <= limit BY <1>5, <1>21
    <3>2. Headed(d, ch).len = n BY <1>0 DEF n
    <3> QED BY <1>5, <3>1, <3>2
  <2>3. Len(Headed(d, ch).part) = a BY <1>0 DEF a
  <2>4. Takes(d, ch) = b /\ Len(Payload(d, ch)) = b BY <1>0 DEF b
  <2> QED BY <1>5, <1>6, <1>21, <2>1, <2>2, <2>3, <2>4, NotRefused
<1>22. Headed(d, ch).type = k BY <1>0
<1> QED BY <1>8, <1>10, <1>11, <1>20, <1>21, <1>22 DEF IsMediaRead, x

(* The words of an extended timestamp and of payload. *)
LEMMA WordsRead ==
  ASSUME NEW v \in Bits, NEW p \in Seq(Words)
  PROVE  LET words == <<TsWord(v)>> \o p
         IN Head(words) = TsWord(v) /\ Head(words)[2] = v /\ Tail(words) = p
<1>1. TsWord(v) \in Words
  <2>1. v \in Int BY ChunkConstants DEF Bits
  <2> QED BY <2>1 DEF Words, Tags, TsWord
<1> DEFINE words == <<TsWord(v)>> \o p
           tail == Tail(words)
<1>2. <<TsWord(v)>> \in Seq(Words) BY <1>1
<1>3. Head(words) = TsWord(v) /\ tail \in Seq(Words) /\ Len(tail) = Len(p) BY <1>1
<1>4. \A i \in 1 .. Len(p) : tail[i] = p[i] BY <1>1
<1>5. TsWord(v)[2] = v BY DEF TsWord
<1> HIDE DEF words, tail
<1>6. tail = p BY <1>3, <1>4, SeqEqual
<1> QED BY <1>3, <1>5, <1>6 DEF words, tail

(* The first chunk of a message, whatever its header leaves out. *)
LEMMA BegunRead ==
  ASSUME NEW d, NEW e, Matches(d, e), WellWritten(e), NEW k \in Media, e.streams[k].left = <<>>,
         NEW fmt \in 0 .. 3, NEW t \in Int, NEW body \in Seq(Words), 1 <= Len(body) /\ Len(body) <= 2,
         NEW value \in Bits, value = IF fmt = 0 THEN t % TsMod ELSE t - e.streams[k].t,
         MayWrite(fmt, e.streams[k], body, t - e.streams[k].t), NEW ch,
         ch = FirstChunk(fmt, CsidOf(k), value, k, body, e.size)
  PROVE  IsMediaRead(d, ch, k, Begun(value, t, body, e.size),
                     Amended(e, k, Begun(value, t, body, e.size), FALSE))
<1> DEFINE c == CsidOf(k)
           st == e.streams[k]
           ds == d.streams[c]
           new == Begun(value, t, body, e.size)
           cut == Cut(body, e.size)
           h == Headed(d, ch)
<1>1. d \in Decoders /\ d.size = e.size /\ e.size \in Nat \ {0} /\ st \in EncStreams
  BY DEF Matches, WellWritten, Encoders
<1>2. c \in Csids /\ c \in {4, 6} BY Csid
<1>3. SameStream(ds, st, k) BY DEF Matches
<1>4. Unfinished(e, st) BY DEF WellWritten
<1>5. ds \in StreamStates BY <1>1, <1>2 DEF Decoders
<1>6. IsBegun(new, value, t, body, e.size) BY <1>1, BegunIs
<1>7. cut \in Seq(Words) /\ Len(cut) = (IF Len(body) <= e.size THEN Len(body) ELSE e.size)
      /\ \A i \in 1 .. Len(cut) : cut[i] = body[i]
  BY <1>1, Cuts, ZenonT(30)
<1>8. /\ ch.fmt = fmt /\ ch.csid = c /\ ch.field = Field(value) /\ ch.len = Len(body) /\ ch.type = k
      /\ ch.words = ExtWords(ExtOf(value)) \o cut
  BY DEF FirstChunk
<1> HIDE DEF c, new, cut
<1>9. ~Continues(d, ch)
  <2>1. ds.busy = FALSE BY <1>3 DEF SameStream, st
  <2> QED BY <1>8, <2>1 DEF Continues
<1>10. fmt # 0 => st.known /\ t - st.t = value BY DEF MayWrite
<1>11. fmt # 0 => ds.known BY <1>3, <1>10 DEF SameStream
<1>12. fmt # 0 => ds.ts = st.t % TsMod /\ ds.delta = st.delta /\ ds.ext = st.ext
                  /\ ds.len = Len(st.body) /\ ds.type = k
  BY <1>3, <1>10 DEF SameStream
<1>13. fmt = 3 => st.delta = value BY <1>10 DEF MayWrite
<1> DEFINE big == value >= Extended
<1>14. HasExt(d, ch) <=> big
  <2>1. CASE fmt <= 2
    <3>1. HasExt(d, ch) <=> ch.field = Extended BY <1>8, <2>1 DEF HasExt
    <3>2. Field(value) = Extended <=> big BY Extension
    <3> HIDE DEF big
    <3> QED BY <1>8, <3>1, <3>2, SMTT(30)
  <2>2. CASE fmt = 3
    <3>1. HasExt(d, ch) <=> d.streams[ch.csid].ext # NoExt BY <1>8, <2>2, SMTT(30) DEF HasExt
    <3>2. d.streams[ch.csid].ext = ExtOf(value) BY <1>4, <1>8, <1>12, <1>13, <2>2 DEF Unfinished
    <3>3. ExtOf(value) = NoExt <=> ~big BY Extension
    <3> HIDE DEF big
    <3> QED BY <3>1, <3>2, <3>3, SMTT(30)
  <2> QED BY <2>1, <2>2, SMTT(30)
<1>15. ReadsExt(d, ch) <=> HasExt(d, ch) BY <1>9 DEF ReadsExt
<1>16. Value(d, ch) = value /\ Payload(d, ch) = cut
  <2>1. HasExt(d, ch) => Value(d, ch) = value /\ Payload(d, ch) = cut
    <3>1. HasExt(d, ch) => ExtOf(value) = value /\ ExtOf(value) # NoExt BY <1>14, Extension, SMTT(30)
    <3>2. HasExt(d, ch) => ch.words = <<TsWord(value)>> \o cut BY <1>8, <3>1, SMTT(30) DEF ExtWords
    <3> HIDE DEF big
    <3>3. HasExt(d, ch) => Head(ch.words)[2] = value /\ Tail(ch.words) = cut BY <1>7, <3>2, WordsRead, SMTT(30)
    <3> QED BY <1>15, <3>3 DEF Value, Payload
  <2>2. ~HasExt(d, ch) => Value(d, ch) = value /\ Payload(d, ch) = cut
    <3>1. ~HasExt(d, ch) => ExtOf(value) = NoExt BY <1>14, Extension
    <3>2. <<>> \o cut = cut BY <1>7, SMTT(30)
    <3>3. ~HasExt(d, ch) => ch.words = cut BY <1>8, <3>1, <3>2 DEF ExtWords
    <3>4. ~HasExt(d, ch) => Field(value) = value BY <1>14 DEF Field
    <3> HIDE DEF big
    <3> QED BY <1>8, <1>15, <3>3, <3>4 DEF Value, Payload
  <2> QED BY <2>1, <2>2, SMTT(30)
<1>17. t % TsMod \in Bits BY ChunkConstants DEF Bits
<1>18. IsHeaded(h, t % TsMod, value, Len(body), k)
  <2>1. t % TsMod = IF ch.fmt = 0 THEN value ELSE (d.streams[ch.csid].ts + value) % TsMod
    <3>1. CASE fmt = 0 BY <1>8, <3>1, SMTT(30)
    <3>2. CASE fmt # 0
      <4>1. TsMod \in Nat \ {0} BY ChunkConstants
      <4>2. st.t \in Int BY <1>1 DEF EncStreams
      <4>3. ((st.t % TsMod) + (t - st.t)) % TsMod = t % TsMod BY <4>1, <4>2, AddedUp
      <4> QED BY <1>8, <1>10, <1>12, <3>2, <4>3
    <3> QED BY <3>1, <3>2
  <2>2. Len(body) = IF ch.fmt <= 1 THEN ch.len ELSE d.streams[ch.csid].len
    <3>1. fmt \in {2, 3} => Len(body) = Len(st.body) BY SMTT(30) DEF MayWrite
    <3>2. CASE fmt <= 1 BY <1>8, <3>2, SMTT(30)
    <3>3. CASE ~(fmt <= 1)
      <4>1. fmt \in {2, 3} /\ fmt # 0 BY <3>3
      <4> QED BY <1>8, <1>12, <3>1, <3>3, <4>1, SMTT(30)
    <3> QED BY <3>2, <3>3
  <2>3. k = IF ch.fmt <= 1 THEN ch.type ELSE d.streams[ch.csid].type
    <3>2. CASE fmt <= 1 BY <1>8, <3>2, SMTT(30)
    <3>3. CASE ~(fmt <= 1)
      <4>1. fmt # 0 BY <3>3
      <4> QED BY <1>8, <1>12, <3>3, <4>1, SMTT(30)
    <3> QED BY <3>2, <3>3, SMTT(30)
  <2>4. ch.fmt = 3 /\ ~HasExt(d, ch) => d.streams[ch.csid].delta = value
    BY <1>8, <1>12, <1>13
  <2>5. HasExt(d, ch) \/ ch.fmt # 3 => Value(d, ch) = value BY <1>16, SMTT(30)
  <2>6. k \in Types /\ Len(body) \in Nat /\ ch.csid \in Csids /\ ch.fmt \in 0 .. 3
    BY <1>2, <1>8 DEF Types
  <2>7. HasExt(d, ch) <=> value >= Extended BY <1>14, SMTT(30)
  <2> HIDE DEF h, big
  <2>8. IsHeaded(Headed(d, ch), t % TsMod, value, Len(body), k)
    BY <1>1, <1>9, <1>17, <2>1, <2>2, <2>3, <2>4, <2>5, <2>6, <2>7, HeadedAnew, ZenonT(30)
  <2> QED BY <2>8, SMTT(30) DEF h
<1>19. /\ h \in StreamStates /\ h.ts = t % TsMod /\ h.delta = value /\ h.len = Len(body) /\ h.type = k
       /\ h.ext = ExtOf(value) /\ h.part = <<>> /\ Len(h.part) = 0
  BY <1>18 DEF IsHeaded
<1>20. h.busy = TRUE /\ h.known = TRUE BY <1>18 DEF IsHeaded
<1>21. Takes(d, ch) = Len(cut)
  <2>1. Headed(d, ch) = h BY DEF h
  <2>2. Len(body) \in Nat OBVIOUS
  <2> HIDE DEF h
  <2>3. Takes(d, ch) = IF Len(body) < e.size THEN Len(body) ELSE e.size
    BY <1>1, <1>19, <2>1, <2>2 DEF Takes
  <2> QED BY <1>1, <1>7, <2>2, <2>3
<1> HIDE DEF h, big
<1>22. /\ new \in EncStreams /\ new.delta = value /\ new.ext = ExtOf(value) /\ new.t = t
       /\ new.body = body /\ Len(cut) = Len(body) - Len(new.left)
  BY <1>6 DEF IsBegun, cut
<1>23. new.known BY <1>6 DEF IsBegun
<1>24. Learned(d, ch) = IF ~(e.shown \/ FALSE) THEN "Unknown" ELSE IF e.repeats THEN "Yes" ELSE "No"
  <2>1. Learned(d, ch) = d.repeats BY <1>9 DEF Learned
  <2>2. d.repeats = IF ~e.shown THEN "Unknown" ELSE IF e.repeats THEN "Yes" ELSE "No" BY DEF Matches
  <2> QED BY <2>1, <2>2
<1>25. IsMediaRead(d, ch, k, new, Amended(e, k, new, FALSE))
  <2>1. Headed(d, ch) = h BY DEF h
  <2>2. Len(h.part) + Len(cut) = Len(new.body) - Len(new.left) BY <1>7, <1>19, <1>22, SMTT(30)
  <2>3. \A i \in 1 .. Len(h.part) : h.part[i] = new.body[i] BY <1>19
  <2>4. \A i \in 1 .. Len(cut) : cut[i] = new.body[Len(h.part) + i] BY <1>7, <1>19, <1>22, SMTT(30)
  <2>5. GoesOnWith(d, ch, k, new, h, cut)
    BY <1>16, <1>19, <1>20, <1>21, <1>22, <2>1, <2>2, <2>3, <2>4, ZenonT(30) DEF GoesOnWith
  <2>6. ch.fmt # 0 => d.streams[ch.csid].known BY <1>8, <1>11, SMTT(30)
  <2>7. ch.csid = CsidOf(k) /\ Len(new.body) <= 2 BY <1>8, <1>22 DEF c
  <2>8. h \in StreamStates /\ cut \in Seq(Words) /\ new \in EncStreams BY <1>7, <1>19, <1>22
  <2> HIDE DEF st, ds
  <2> QED BY <1>23, <1>24, <2>5, <2>6, <2>7, <2>8, ReadOn
<1> QED BY <1>25 DEF new

(* A chunk that goes on with a message, of an encoder that repeats         *)
(* extended timestamps and of one that does not.                           *)
WentOnWith(d, ch, e, st, cut) ==
  LET ext == st.ext # NoExt
  IN /\ HasExt(d, ch) <=> ext
     /\ Payload(d, ch) = cut
     /\ Learned(d, ch) = IF ~(e.shown \/ ext) THEN "Unknown" ELSE IF e.repeats THEN "Yes" ELSE "No"

(* A bare chunk that goes on with a message: whether the extended time is  *)
(* in it is guessed right.                                                 *)
LEMMA WentOnIs ==
  ASSUME NEW d, NEW e, Matches(d, e), WellWritten(e), NEW k \in Media, NEW st, e.streams[k] = st,
         NEW cut \in Seq(Words), cut # <<>>, st.left # <<>>, cut[1] = st.left[1], Len(st.left) >= 1,
         NEW ch, ch.csid = CsidOf(k), ch.fmt = 3, Continues(d, ch),
         d.streams[ch.csid].ext = st.ext, st.delta \in Bits,
         ch.words = (IF e.repeats THEN ExtWords(st.ext) ELSE <<>>) \o cut
  PROVE  WentOnWith(d, ch, e, st, cut)
<1> DEFINE ext == st.ext # NoExt
           v == st.delta
           word == TsWord(v)
<1>1. HasExt(d, ch) <=> ext BY DEF HasExt
<1>2. d.repeats = IF ~e.shown THEN "Unknown" ELSE IF e.repeats THEN "Yes" ELSE "No" BY DEF Matches
<1>3. Unfinished(e, st) BY DEF WellWritten
<1>4. ext => st.ext = v BY <1>3, Extension DEF Unfinished
<1>5. e.repeats \in BOOLEAN /\ e.shown \in BOOLEAN BY DEF WellWritten, Encoders
<1>6. <<>> \o cut = cut /\ Head(cut) = cut[1] OBVIOUS
<1>7. ext /\ e.repeats => Head(ch.words) = word /\ Tail(ch.words) = cut
  <2>1. ext /\ e.repeats => ExtWords(st.ext) = <<word>> BY <1>4 DEF ExtWords
  <2>2. ext /\ e.repeats => ch.words = <<word>> \o cut BY <2>1
  <2> HIDE DEF ext
  <2> QED BY <2>2, WordsRead, SMTT(30) DEF word
<1>8. ~(ext /\ e.repeats) => ch.words = cut
  <2>1. ~ext => ExtWords(st.ext) = <<>> BY DEF ExtWords
  <2> HIDE DEF ext
  <2> QED BY <1>6, <2>1
<1>9. ext /\ ~e.repeats /\ ~e.shown => Head(ch.words) # word
  <2>1. ext /\ ~e.repeats /\ ~e.shown => \A i \in 1 .. Len(st.left) : st.left[i] # TsWord(st.ext)
    BY <1>3 DEF Unfinished
  <2>2. 1 \in 1 .. Len(st.left)
    <3>1. st \in EncStreams BY DEF WellWritten, Encoders
    <3>2. Len(st.left) \in Nat BY <3>1 DEF EncStreams
    <3> QED BY <3>2
  <2>3. ext /\ ~e.repeats /\ ~e.shown => st.left[1] # word BY <1>4, <2>1, <2>2
  <2>4. ext /\ ~e.repeats /\ ~e.shown => Head(ch.words) = st.left[1] BY <1>6, <1>8
  <2> HIDE DEF ext, word
  <2> QED BY <2>3, <2>4
<1>10. ext => (Repeats(d, ch) <=> e.repeats)
  <2> DEFINE same == Head(ch.words) = word
  <2>1. ext => (Repeats(d, ch) <=> IF d.repeats = "Unknown" THEN same ELSE d.repeats = "Yes")
    BY <1>4 DEF Repeats
  <2>2. ext /\ e.repeats => same BY <1>7
  <2>3. ext /\ ~e.repeats /\ ~e.shown => ~same BY <1>9
  <2> HIDE DEF ext, same
  <2>4. CASE ~ext BY <2>4
  <2>5. CASE ext /\ e.repeats
    <3>1. CASE e.shown
      <4>1. d.repeats = "Yes" BY <1>2, <2>5, <3>1
      <4> QED BY <2>1, <2>5, <4>1
    <3>2. CASE ~e.shown
      <4>1. d.repeats = "Unknown" BY <1>2, <3>2
      <4> QED BY <2>1, <2>2, <2>5, <4>1
    <3> QED BY <3>1, <3>2
  <2>6. CASE ext /\ ~e.repeats
    <3>1. CASE e.shown
      <4>1. d.repeats = "No" BY <1>2, <2>6, <3>1
      <4> QED BY <2>1, <2>6, <4>1
    <3>2. CASE ~e.shown
      <4>1. d.repeats = "Unknown" BY <1>2, <3>2
      <4> QED BY <2>1, <2>3, <2>6, <3>2, <4>1
    <3> QED BY <3>1, <3>2
  <2> QED BY <2>4, <2>5, <2>6
<1> HIDE DEF ext, word
<1>11. ReadsExt(d, ch) <=> ext /\ e.repeats BY <1>1, <1>10 DEF ReadsExt
<1>12. Payload(d, ch) = cut
  <2>1. CASE ext /\ e.repeats BY <1>7, <1>11, <2>1 DEF Payload
  <2>2. CASE ~(ext /\ e.repeats) BY <1>8, <1>11, <2>2 DEF Payload
  <2> QED BY <2>1, <2>2
<1>13. Learned(d, ch) = IF ~(e.shown \/ ext) THEN "Unknown" ELSE IF e.repeats THEN "Yes" ELSE "No"
  <2>1. CASE ~ext
    <3>1. Learned(d, ch) = d.repeats BY <1>1, <2>1 DEF Learned
    <3> QED BY <1>2, <2>1, <3>1
  <2>2. CASE ext /\ e.shown
    <3>1. d.repeats # "Unknown" BY <1>2, <2>2
    <3>2. Learned(d, ch) = d.repeats BY <3>1 DEF Learned
    <3> QED BY <1>2, <2>2, <3>2
  <2>3. CASE ext /\ ~e.shown
    <3>1. d.repeats = "Unknown" BY <1>2, <2>3
    <3>2. Learned(d, ch) = IF Repeats(d, ch) THEN "Yes" ELSE "No" BY <1>1, <2>3, <3>1 DEF Learned
    <3> QED BY <1>10, <2>3, <3>2
  <2> QED BY <2>1, <2>2, <2>3
<1> QED BY <1>1, <1>12, <1>13 DEF WentOnWith, ext

(* A bare chunk that goes on with a message is read as it was written. *)
LEMMA WentOnRead ==
  ASSUME NEW d, NEW e, Matches(d, e), WellWritten(e), NEW k \in Media, NEW st, e.streams[k] = st,
         st.left # <<>>, NEW ch, ch = NextChunk(CsidOf(k), st.ext, e.repeats, st.left, e.size)
  PROVE  LET new == [st EXCEPT !.left = Rest(@, e.size)]
         IN IsMediaRead(d, ch, k, new, Amended(e, k, new, st.ext # NoExt))
<1> DEFINE c == CsidOf(k)
           h == d.streams[c]
           new == [st EXCEPT !.left = Rest(@, e.size)]
           cut == Cut(st.left, e.size)
           w == st.ext # NoExt
<1>1. d \in Decoders /\ d.size = e.size /\ e.size \in Nat \ {0} /\ st \in EncStreams
  BY DEF Matches, WellWritten, Encoders
<1>2. c \in Csids BY Csid
<1>3. SameStream(h, st, k) BY DEF Matches
<1>4. Unfinished(e, st) BY DEF WellWritten
<1>5. h \in StreamStates BY <1>1, <1>2 DEF Decoders
<1>6. IsGoneOn(new, st, e.size) BY <1>1, GoneOnIs
<1>7. st.left \in Seq(Words) /\ st.body \in Seq(Words) /\ st.delta \in Bits BY <1>1 DEF EncStreams
<1>8. /\ cut \in Seq(Words) /\ Len(cut) = (IF Len(st.left) <= e.size THEN Len(st.left) ELSE e.size)
      /\ \A i \in 1 .. Len(cut) : cut[i] = st.left[i]
  BY <1>1, <1>7, Cuts, SMTT(30)
<1>9. /\ ch.fmt = 3 /\ ch.csid = c
      /\ ch.words = (IF e.repeats THEN ExtWords(st.ext) ELSE <<>>) \o cut
  BY DEF NextChunk
<1> HIDE DEF c, new, cut, w
<1>10. st.known BY <1>4 DEF Unfinished
<1>11. h.known = TRUE
  <2>1. h.known = st.known BY <1>3 DEF SameStream
  <2>2. h.known \in BOOLEAN BY <1>5 DEF StreamStates
  <2> QED BY <1>10, <2>1, <2>2
<1>12. h.busy = TRUE
  <2>1. h.busy = (st.left # <<>>) BY <1>3 DEF SameStream
  <2> QED BY <2>1
<1>13. /\ h.ts = st.t % TsMod /\ h.delta = st.delta /\ h.ext = st.ext /\ h.len = Len(st.body) /\ h.type = k
       /\ Len(h.part) = Len(st.body) - Len(st.left) /\ \A i \in 1 .. Len(h.part) : h.part[i] = st.body[i]
  BY <1>3, <1>10 DEF SameStream
<1>14. Continues(d, ch) /\ Headed(d, ch) = h
  <2>1. Continues(d, ch) BY <1>9, <1>12 DEF Continues
  <2> QED BY <1>9, <2>1 DEF Headed
<1>15. 1 <= Len(cut) /\ cut # <<>> /\ 1 <= Len(st.left) /\ cut[1] = st.left[1]
  <2>1. Len(st.left) \in Nat /\ 1 <= Len(st.left) BY <1>7
  <2>2. 1 <= Len(cut) BY <1>1, <1>8, <2>1
  <2> QED BY <1>8, <2>1, <2>2
<1>16. WentOnWith(d, ch, e, st, cut)
  <2>1. d.streams[ch.csid].ext = st.ext BY <1>9, <1>13
  <2>2. ch.csid = CsidOf(k) BY <1>9 DEF c
  <2> HIDE DEF h
  <2> QED BY <1>7, <1>8, <1>9, <1>14, <1>15, <2>1, <2>2, WentOnIs, ZenonT(30)
<1>17. /\ new \in EncStreams /\ new.delta = st.delta /\ new.ext = st.ext /\ new.t = st.t
       /\ new.body = st.body /\ Len(new.left) = Len(st.left) - Len(cut)
  BY <1>6 DEF IsGoneOn, cut
<1>18. new.known BY <1>6, <1>10 DEF IsGoneOn
<1>19. Takes(d, ch) = Len(cut)
  <2>1. h.len - Len(h.part) = Len(st.left)
    <3>1. Len(st.body) \in Nat /\ Len(st.left) \in Nat BY <1>7
    <3> QED BY <1>13, <3>1
  <2> HIDE DEF h
  <2>2. Takes(d, ch) = IF Len(st.left) < e.size THEN Len(st.left) ELSE e.size
    BY <1>1, <1>14, <2>1 DEF Takes
  <2>3. Len(st.left) \in Nat BY <1>7
  <2> QED BY <1>1, <1>8, <2>2, <2>3
<1>20. Payload(d, ch) = cut /\ w \in BOOLEAN
       /\ Learned(d, ch) = IF ~(e.shown \/ w) THEN "Unknown" ELSE IF e.repeats THEN "Yes" ELSE "No"
  BY <1>16 DEF WentOnWith, w
<1>21. GoesOnWith(d, ch, k, new, h, cut)
  <2>1. Len(h.part) + Len(cut) = Len(new.body) - Len(new.left)
    <3>1. Len(st.body) \in Nat /\ Len(st.left) \in Nat /\ Len(cut) \in Nat BY <1>7, <1>8
    <3> QED BY <1>13, <1>17, <3>1
  <2>2. \A i \in 1 .. Len(h.part) : h.part[i] = new.body[i] BY <1>13, <1>17
  <2>3. \A i \in 1 .. Len(cut) : cut[i] = new.body[Len(h.part) + i]
    <3> SUFFICES ASSUME NEW i \in 1 .. Len(cut) PROVE cut[i] = new.body[Len(h.part) + i] OBVIOUS
    <3>1. Len(st.body) \in Nat /\ Len(st.left) \in Nat BY <1>7
    <3>2. i \in 1 .. Len(st.left) BY <1>1, <1>8, <3>1
    <3>3. st.left[i] = st.body[i + (Len(st.body) - Len(st.left))] BY <1>4, <3>2 DEF Unfinished
    <3>4. i + (Len(st.body) - Len(st.left)) = Len(h.part) + i BY <1>13, <3>1, <3>2
    <3>5. cut[i] = st.left[i] BY <1>8
    <3> QED BY <1>17, <3>3, <3>4, <3>5
  <2>4. h.ts = new.t % TsMod /\ h.delta = new.delta /\ h.ext = new.ext /\ h.len = Len(new.body)
    BY <1>13, <1>17
  <2> HIDE DEF h
  <2> QED BY <1>11, <1>12, <1>13, <1>14, <1>19, <1>20, <2>1, <2>2, <2>3, <2>4 DEF GoesOnWith
<1>22. IsMediaRead(d, ch, k, new, Amended(e, k, new, w))
  <2>1. ch.fmt # 0 => d.streams[ch.csid].known BY <1>9, <1>11
  <2>2. ch.csid = CsidOf(k) BY <1>9 DEF c
  <2>3. Len(new.body) <= 2 BY <1>4, <1>17 DEF Unfinished
  <2> HIDE DEF h
  <2> QED BY <1>5, <1>8, <1>17, <1>18, <1>20, <1>21, <2>1, <2>2, <2>3, ReadOn DEF h
<1> QED BY <1>22 DEF new, w

(* What the session takes from the publisher for its decoder. *)
LEMMA AbortedRead ==
  ASSUME NEW d, NEW e, Matches(d, e), WellWritten(e), NEW k \in Media
  PROVE  Matches(Aborted(d, CsidOf(k)), [e EXCEPT !.streams[k].left = <<>>])
<1> DEFINE c == CsidOf(k)
           st == e.streams[k]
           new == [st EXCEPT !.left = <<>>]
           x == Aborted(d, c)
           h == d.streams[c]
           none == <<>>
           ds == [h EXCEPT !.part = none, !.busy = FALSE]
<1>1. d \in Decoders /\ c \in Csids BY Csid DEF Matches
<1>2. h \in StreamStates /\ none \in Seq(Words) BY <1>1 DEF Decoders
<1>3. x = [d EXCEPT !.streams[c] = ds] BY <1>1 DEF Aborted, Decoders
<1>4. SameStream(h, st, k) BY DEF Matches
<1>5. new \in EncStreams /\ [e EXCEPT !.streams[k].left = <<>>] = Amended(e, k, new, FALSE)
  BY GivenUpIs
<1>6. st \in EncStreams /\ e \in Encoders BY DEF WellWritten, Encoders
<1>7. new.t = st.t /\ new.delta = st.delta /\ new.ext = st.ext /\ new.body = st.body /\ new.left = <<>>
  BY <1>6 DEF EncStreams
<1>8. new.known = st.known BY <1>6 DEF EncStreams
<1> HIDE DEF h, c, none, new
<1>9. /\ ds \in StreamStates /\ ds.ts = h.ts /\ ds.delta = h.delta /\ ds.ext = h.ext /\ ds.len = h.len
      /\ ds.type = h.type /\ ds.part = none
  BY <1>2 DEF StreamStates
<1>10. ds.known = h.known BY <1>2 DEF StreamStates
<1>11. ds.busy = FALSE BY <1>2 DEF StreamStates
<1> HIDE DEF ds, x
<1>12. /\ x \in Decoders /\ x.size = d.size /\ x.repeats = d.repeats
       /\ x.streams = [d.streams EXCEPT ![c] = ds]
  BY <1>1, <1>3, <1>9 DEF Decoders
<1>13. x.streams[c] = ds /\ \A f \in Csids : f # c => x.streams[f] = d.streams[f]
  BY <1>1, <1>12 DEF Decoders
<1> HIDE DEF st
<1>14. SameStream(ds, new, k)
  <2>1. ds.known = new.known BY <1>4, <1>8, <1>10 DEF SameStream
  <2>2. ds.busy = (new.left # <<>>) BY <1>7, <1>11
  <2>3. new.known => /\ ds.ts = new.t % TsMod /\ ds.delta = new.delta /\ ds.ext = new.ext
                     /\ ds.len = Len(new.body) /\ ds.type = k
    BY <1>4, <1>7, <1>8, <1>9 DEF SameStream
  <2>4. Len(ds.part) = 0 /\ \A i \in 1 .. Len(ds.part) : ds.part[i] = new.body[i] BY <1>9 DEF none
  <2> QED BY <1>7, <2>1, <2>2, <2>3, <2>4 DEF SameStream
<1>15. Matches(x, Amended(e, k, new, FALSE))
  <2> DEFINE w == FALSE
  <2>1. x.repeats = IF ~(e.shown \/ w) THEN "Unknown" ELSE IF e.repeats THEN "Yes" ELSE "No"
    BY <1>12 DEF Matches
  <2>2. w \in BOOLEAN OBVIOUS
  <2>3. SameStream(x.streams[CsidOf(k)], new, k) BY <1>13, <1>14 DEF c
  <2>4. \A f \in Csids : f # CsidOf(k) => x.streams[f] = d.streams[f] BY <1>13 DEF c
  <2> HIDE DEF w
  <2>5. Matches(x, Amended(e, k, new, w)) BY <1>5, <1>6, <1>12, <2>1, <2>2, <2>3, <2>4, MatchesOn, ZenonT(30)
  <2> QED BY <2>5 DEF w
<1> QED BY <1>5, <1>15 DEF x, c

(* A change of the chunk size is followed (set_chunk_size). *)
LEMMA ResizedRead ==
  ASSUME NEW d, NEW e, Matches(d, e), WellWritten(e), NEW n \in Nat \ {0}
  PROVE  Matches(Resized(d, n), [e EXCEPT !.size = n])
<1> DEFINE x == Resized(d, n)
           y == [e EXCEPT !.size = n]
<1>1. d \in Decoders BY DEF Matches
<1>2. y.size = n /\ y.streams = e.streams /\ y.repeats = e.repeats /\ y.shown = e.shown BY ResizedWell
<1>3. x \in Decoders /\ x.size = n /\ x.streams = d.streams /\ x.repeats = d.repeats
  BY <1>1 DEF Resized, Decoders
<1> HIDE DEF x, y
<1>4. x.repeats = IF ~y.shown THEN "Unknown" ELSE IF y.repeats THEN "Yes" ELSE "No"
  BY <1>2, <1>3 DEF Matches
<1>5. Unused(x) BY <1>3 DEF Matches, Unused
<1>6. \A k \in Media : SameStream(x.streams[CsidOf(k)], y.streams[k], k) BY <1>2, <1>3 DEF Matches
<1>7. Matches(x, y) BY <1>2, <1>3, <1>4, <1>5, <1>6 DEF Matches
<1> QED BY <1>7 DEF x, y

(* A new decoder matches a new encoder. *)
LEMMA NothingRead ==
  ASSUME NEW r \in BOOLEAN
  PROVE  Matches(Decoder, [size |-> 1, repeats |-> r, shown |-> FALSE, streams |-> [k \in Media |-> Idle]])
<1> DEFINE e == [size |-> 1, repeats |-> r, shown |-> FALSE, streams |-> [k \in Media |-> Idle]]
           d == Decoder
<1>1. e.size = 1 /\ ~e.shown /\ \A k \in Media : e.streams[k] = Idle OBVIOUS
<1>2. d.size = 1 /\ d.repeats = "Unknown" /\ \A c \in Csids : d.streams[c] = Blank BY DEF Decoder
<1>3. Blank \in StreamStates
  <2>1. 0 \in Bits /\ NoExt \in 0 .. TsMod BY ChunkConstants DEF Bits, NoExt
  <2>2. "none" \in Types BY DEF Types
  <2> QED BY <2>1, <2>2 DEF Blank, StreamStates
<1>4. d \in Decoders BY <1>3 DEF Decoder, Decoders
<1>5. ASSUME NEW k PROVE SameStream(Blank, Idle, k)
  <2>1. Blank.known = Idle.known /\ Blank.busy = (Idle.left # <<>>) BY DEF Blank, Idle
  <2>2. ~Idle.known BY DEF Idle
  <2>3. Blank.part = <<>> /\ Idle.left = <<>> BY DEF Blank, Idle
  <2> QED BY <2>1, <2>2, <2>3 DEF SameStream
<1> HIDE DEF e, d
<1>6. Unused(d) BY <1>2 DEF Unused, Blank
<1>7. \A k \in Media : SameStream(d.streams[CsidOf(k)], e.streams[k], k) BY <1>1, <1>2, <1>5, Csid
<1>8. Matches(d, e) BY <1>1, <1>2, <1>4, <1>6, <1>7 DEF Matches
<1> QED BY <1>8 DEF d, e

-----------------------------------------------------------------------------
(* The way along the wire *)

LEMMA GoesForward ==
  ASSUME NEW due, NEW a, NEW b, NEW ch, Place(a, due), Place(b, due), Wrote(a, ch, b, due)
  PROVE  Forward(a, b)
<1>1. CASE Shook(a, b)
  <2>1. a.at \in Shakes /\ a.at \notin Ending /\ b.had = a.had BY <1>1 DEF Shook, Shakes, Ending
  <2>2. a.had \in Nat BY DEF Place
  <2> QED BY <2>1, <2>2 DEF Forward
<1>2. CASE Said(a, ch, b)
  <2>1. PICK name \in Names : Leads(a.at, name, b.at) BY <1>2 DEF Said
  <2>2. a.had \in Nat /\ b.had = a.had BY <1>2 DEF Said, Place
  <2>3. b.at \notin Shakes BY <2>1 DEF Leads, Shakes, Ending
  <2>4. a.at \in Ending => b.at \in Ending BY <2>1 DEF Leads, Ending
  <2> QED BY <2>2, <2>3, <2>4 DEF Forward
<1>3. CASE Controlled(a, ch, b) BY <1>3 DEF Controlled, Forward, Place
<1>4. ASSUME a.at = "Publishing", b.at = "Publishing", NEW k \in Media,
             Began(k, a, ch, b, due) \/ WentOn(k, a, ch, b, due)
      PROVE  Forward(a, b)
  <2>1. Finishes(k, a, b, due) BY <1>4 DEF Began, WentOn
  <2>2. a.had \in Nat /\ (b.had = a.had \/ b.had = a.had + 1) BY <2>1 DEF Finishes, Place
  <2>3. b.at \notin Shakes /\ b.at \in Ending BY <1>4 DEF Shakes, Ending
  <2> QED BY <2>2, <2>3, SMTT(30) DEF Forward
<1> QED BY <1>1, <1>2, <1>3, <1>4 DEF Wrote

(* More is due than there was. *)
Extends(due, more) == Len(due) <= Len(more) /\ \A i \in 1 .. Len(due) : more[i] = due[i]

(* What was written stays what it was when a message is finished later. *)
LEMMA WroteStill ==
  ASSUME NEW due \in Seq(Sent), NEW more \in Seq(Sent), Extends(due, more), NEW a, NEW b, NEW ch,
         Place(a, due), Place(b, due), Wrote(a, ch, b, due)
  PROVE  Wrote(a, ch, b, more) /\ Place(a, more) /\ Place(b, more)
<1>1. Place(a, more) /\ Place(b, more)
  <2>1. Len(due) \in Nat /\ Len(more) \in Nat /\ Len(due) <= Len(more) BY DEF Extends
  <2> QED BY <2>1 DEF Place
<1>2. ASSUME NEW k \in Media, Finishes(k, a, b, due) PROVE Finishes(k, a, b, more)
  <2>1. a.had \in Nat /\ b.had \in Nat /\ b.had <= Len(due) BY DEF Place
  <2>2. CASE b.enc.streams[k].left # <<>> BY <1>2, <2>2 DEF Finishes
  <2>3. CASE b.enc.streams[k].left = <<>>
    <3>1. b.had = a.had + 1 /\ due[b.had] = [kind |-> k, ts |-> b.enc.streams[k].t, body |-> b.enc.streams[k].body]
      BY <1>2, <2>3 DEF Finishes
    <3>2. b.had \in 1 .. Len(due) BY <2>1, <3>1
    <3>3. more[b.had] = due[b.had] BY <3>2, SMTT(30) DEF Extends
    <3> QED BY <2>3, <3>1, <3>3 DEF Finishes
  <2> QED BY <2>2, <2>3
<1>3. ASSUME NEW k \in Media, Began(k, a, ch, b, due) PROVE Began(k, a, ch, b, more)
  BY <1>2, <1>3 DEF Began
<1>4. ASSUME NEW k \in Media, WentOn(k, a, ch, b, due) PROVE WentOn(k, a, ch, b, more)
  BY <1>2, <1>4 DEF WentOn
<1>5. Wrote(a, ch, b, more) BY <1>3, <1>4 DEF Wrote
<1> QED BY <1>1, <1>5

(* What is written leads on from where what is on the wire leads. *)
Longer(q, path, chunks, ch, b, more) ==
  /\ Along(q, chunks \o <<ch>>, more)
  /\ q[1] = path[1] /\ q[Len(chunks) + 2] = b

(* A chunk more on the wire is a place more along it. *)
LEMMA Lengthened ==
  ASSUME NEW due \in Seq(Sent), NEW more \in Seq(Sent), Extends(due, more), NEW chunks \in Seq(Chunks),
         NEW path, Along(path, chunks, due), NEW ch \in Chunks, NEW b, Place(b, more),
         Wrote(path[Len(chunks) + 1], ch, b, more)
  PROVE  \E q : Longer(q, path, chunks, ch, b, more)
<1> DEFINE n == Len(chunks)
           q == [i \in 1 .. n + 2 |-> IF i <= n + 1 THEN path[i] ELSE b]
           all == chunks \o <<ch>>
<1>1. n \in Nat OBVIOUS
<1>2. all \in Seq(Chunks) /\ Len(all) = n + 1 /\ all[n + 1] = ch
      /\ \A i \in 1 .. n : all[i] = chunks[i]
  <2>1. <<ch>> \in Seq(Chunks) /\ Len(<<ch>>) = 1 /\ <<ch>>[1] = ch OBVIOUS
  <2> DEFINE one == <<ch>>
  <2> HIDE DEF one
  <2>2. one \in Seq(Chunks) /\ Len(one) = 1 /\ one[1] = ch BY <2>1 DEF one
  <2> DEFINE s == chunks \o one
  <2>3. s \in Seq(Chunks) BY <2>2
  <2>4. Len(s) = n + 1
    <3>1. Len(s) = Len(chunks) + Len(one) BY <2>2, ConcatProperties
    <3> QED BY <2>2, <3>1
  <2>5. \A i \in 1 .. n : s[i] = chunks[i] BY <2>2
  <2>6. s[n + 1] = ch
    <3>1. s[n + 1] = one[(n + 1) - n] BY <1>1, <2>2, <2>4
    <3>2. (n + 1) - n = 1 BY <1>1
    <3> HIDE DEF s, n
    <3> QED BY <2>2, <3>1, <3>2
  <2> QED BY <2>3, <2>4, <2>5, <2>6 DEF one
<1>3. /\ \A i \in 1 .. n + 1 : Place(path[i], due)
      /\ \A i \in 1 .. n : Wrote(path[i], chunks[i], path[i + 1], due)
      /\ \A i, j \in 1 .. n + 1 : i <= j => Forward(path[i], path[j])
  BY DEF Along
<1>11. Wrote(path[n + 1], ch, b, more) OBVIOUS
<1> HIDE DEF all, n
<1>4. DOMAIN q = 1 .. n + 2 /\ q[n + 2] = b /\ \A i \in 1 .. n + 1 : q[i] = path[i]
  BY <1>1
<1> HIDE DEF q
<1>5. ASSUME NEW i \in 1 .. n + 1 PROVE Place(path[i], more)
  <2>1. Len(due) \in Nat /\ Len(more) \in Nat /\ Len(due) <= Len(more) BY DEF Extends
  <2>2. PICK a : a = path[i] OBVIOUS
  <2>3. Place(a, due) BY <1>3, <2>2
  <2>4. a.had \in 0 .. Len(due) BY <2>3 DEF Place
  <2>5. a.had \in 0 .. Len(more) BY <2>1, <2>4
  <2>6. Place(a, more) BY <2>3, <2>5 DEF Place
  <2> QED BY <2>2, <2>6
<1>6. ASSUME NEW i \in 1 .. n + 2 PROVE Place(q[i], more)
  <2>1. i \in 1 .. n + 1 \/ i = n + 2 BY <1>1
  <2> QED BY <1>4, <1>5, <2>1
<1>7. ASSUME NEW i \in 1 .. n + 1 PROVE Wrote(q[i], all[i], q[i + 1], more)
  <2>1. CASE i = n + 1
    <3>1. i \in 1 .. n + 1 /\ i + 1 = n + 2 BY <1>1, <2>1
    <3> QED BY <1>2, <1>4, <1>11, <2>1, <3>1
  <2>2. CASE i # n + 1
    <3>1. i \in 1 .. n /\ i + 1 \in 1 .. n + 1 BY <1>1, <2>2
    <3>2. Wrote(path[i], chunks[i], path[i + 1], due) BY <1>3, <3>1
    <3>3. Place(path[i], due) /\ Place(path[i + 1], due) BY <1>3, <3>1
    <3>4. Wrote(path[i], chunks[i], path[i + 1], more) BY <3>2, <3>3, WroteStill
    <3> QED BY <1>2, <1>4, <3>1, <3>4
  <2> QED BY <2>1, <2>2
<1>8. Forward(path[n + 1], b)
  <2>1. n + 1 \in 1 .. n + 1 BY <1>1
  <2> QED BY <1>5, <1>11, <2>1, GoesForward
<1>9. ASSUME NEW i \in 1 .. n + 2, NEW j \in 1 .. n + 2, i <= j PROVE Forward(q[i], q[j])
  <2>1. CASE j = n + 2 /\ i = n + 2
    <3>1. b.had \in Nat BY DEF Place
    <3> QED BY <1>4, <2>1, <3>1 DEF Forward
  <2>2. CASE j = n + 2 /\ i # n + 2
    <3>1. i \in 1 .. n + 1 /\ n + 1 \in 1 .. n + 1 /\ i <= n + 1 BY <1>1, <2>2
    <3>2. Forward(path[i], path[n + 1]) BY <1>3, <3>1
    <3>3. path[i].had \in Nat /\ path[n + 1].had \in Nat /\ b.had \in Nat
      <4>1. Place(path[i], more) /\ Place(path[n + 1], more) BY <1>5, <3>1
      <4>2. \A a : Place(a, more) => a.had \in Nat BY DEF Place
      <4> QED BY <4>1, <4>2
    <3>4. Forward(path[i], b) BY <1>8, <3>2, <3>3, SMTT(30) DEF Forward
    <3> QED BY <1>4, <2>2, <3>1, <3>4
  <2>3. CASE j # n + 2
    <3>1. i \in 1 .. n + 1 /\ j \in 1 .. n + 1 BY <1>1, <1>9, <2>3
    <3> QED BY <1>3, <1>4, <1>9, <3>1
  <2> QED BY <2>1, <2>2, <2>3
<1>10. Along(q, all, more)
  <2>1. Len(all) + 1 = n + 2 BY <1>1, <1>2
  <2>2. \A i \in 1 .. Len(all) : Wrote(q[i], all[i], q[i + 1], more) BY <1>2, <1>7
  <2> QED BY <1>4, <1>6, <1>9, <2>1, <2>2 DEF Along
<1>12. q[1] = path[1]
  <2>1. 1 \in 1 .. n + 1 BY <1>1
  <2> QED BY <1>4, <2>1
<1>13. Longer(q, path, chunks, ch, b, more) BY <1>4, <1>10, <1>12 DEF Longer, all, n
<1> QED BY <1>13

(* What is read is the first of it. *)
LEMMA Shortened ==
  ASSUME NEW due, NEW chunks \in Seq(Chunks), chunks # <<>>, NEW path, Along(path, chunks, due)
  PROVE  LET q == [i \in 1 .. Len(chunks) |-> path[i + 1]]
         IN /\ Along(q, Tail(chunks), due)
            /\ q[1] = path[2] /\ q[Len(Tail(chunks)) + 1] = path[Len(chunks) + 1]
            /\ Wrote(path[1], Head(chunks), path[2], due) /\ Place(path[1], due) /\ Place(path[2], due)
<1> DEFINE n == Len(chunks)
           q == [i \in 1 .. n |-> path[i + 1]]
           t == Tail(chunks)
<1>1. n \in Nat /\ 1 <= n OBVIOUS
<1>2. t \in Seq(Chunks) /\ Len(t) + 1 = n /\ \A i \in 1 .. Len(t) : t[i] = chunks[i + 1] OBVIOUS
<1>3. /\ \A i \in 1 .. n + 1 : Place(path[i], due)
      /\ \A i \in 1 .. n : Wrote(path[i], chunks[i], path[i + 1], due)
      /\ \A i, j \in 1 .. n + 1 : i <= j => Forward(path[i], path[j])
  BY DEF Along
<1>4. Head(chunks) = chunks[1] OBVIOUS
<1> HIDE DEF n, t
<1>5. DOMAIN q = 1 .. n /\ \A i \in 1 .. n : q[i] = path[i + 1] OBVIOUS
<1> HIDE DEF q
<1>6. \A i \in 1 .. n : i + 1 \in 1 .. n + 1 BY <1>1
<1>7. \A i \in 1 .. n : Place(q[i], due) BY <1>3, <1>5, <1>6
<1>8. ASSUME NEW i \in 1 .. Len(t) PROVE Wrote(q[i], t[i], q[i + 1], due)
  <2>1. i \in 1 .. n /\ i + 1 \in 1 .. n BY <1>1, <1>2
  <2>2. Wrote(path[i + 1], chunks[i + 1], path[(i + 1) + 1], due) BY <1>3, <2>1
  <2> QED BY <1>2, <1>5, <2>1, <2>2
<1>9. ASSUME NEW i \in 1 .. n, NEW j \in 1 .. n, i <= j PROVE Forward(q[i], q[j])
  <2>1. i + 1 <= j + 1 BY <1>1, <1>9
  <2>2. Forward(path[i + 1], path[j + 1]) BY <1>3, <1>6, <2>1
  <2> QED BY <1>5, <2>2
<1>10. Along(q, t, due) BY <1>2, <1>5, <1>7, <1>8, <1>9 DEF Along
<1>11. q[1] = path[2] /\ q[Len(t) + 1] = path[n + 1]
  <2>1. 1 \in 1 .. n /\ n \in 1 .. n /\ 1 + 1 = 2 BY <1>1
  <2> QED BY <1>2, <1>5, <2>1
<1>12. Wrote(path[1], Head(chunks), path[2], due) /\ Place(path[1], due) /\ Place(path[2], due)
  <2>1. 1 \in 1 .. n /\ 1 + 1 = 2 /\ 1 \in 1 .. n + 1 /\ 2 \in 1 .. n + 1 BY <1>1
  <2> QED BY <1>3, <1>4, <2>1
<1> QED BY <1>10, <1>11, <1>12 DEF q, t, n

(* Once the publisher is accepted, what it writes comes to a publishing    *)
(* session.                                                                *)
Now(a) == [at |-> IF a.at = "PublishPending" THEN "Publishing" ELSE a.at, enc |-> a.enc, had |-> a.had]

(* Two places along the wire after the core has accepted. *)
LEMMA AcceptedPlace ==
  ASSUME NEW due, NEW a, NEW b, NEW ch, Place(a, due), Place(b, due), a.at \in Ending, b.at \in Ending,
         Wrote(a, ch, b, due)
  PROVE  Wrote(Now(a), ch, Now(b), due) /\ Place(Now(a), due) /\ Forward(Now(a), Now(b))
<1> DEFINE x == Now(a)
           y == Now(b)
<1>1. x.enc = a.enc /\ x.had = a.had /\ x.at = (IF a.at = "PublishPending" THEN "Publishing" ELSE a.at)
      /\ x = [at |-> x.at, enc |-> x.enc, had |-> x.had]
  BY DEF Now
<1>2. y.enc = b.enc /\ y.had = b.had /\ y.at = IF b.at = "PublishPending" THEN "Publishing" ELSE b.at
  BY DEF Now
<1> HIDE DEF x, y
<1>3. x.at \in Ending /\ x.at \notin Shakes /\ y.at \in Ending /\ y.at \notin Shakes
  BY <1>1, <1>2 DEF Ending, Shakes
<1>4. Place(x, due)
  <2>1. x.at \in Stages BY <1>3 DEF Ending, Stages
  <2> QED BY <1>1, <2>1 DEF Place
<1>5. Forward(x, y)
  <2>1. a.had <= b.had BY GoesForward DEF Forward
  <2> QED BY <1>1, <1>2, <1>3, <2>1 DEF Forward
<1>6. ~Shook(a, b) BY DEF Shook, Ending
<1>7. CASE Said(a, ch, b)
  <2>1. PICK name \in Names :
          /\ ch = FirstChunk(0, Command, 0, "command", <<<<name, 0>>>>, a.enc.size)
          /\ Leads(a.at, name, b.at)
    BY <1>7 DEF Said
  <2>2. Leads(x.at, name, y.at)
    <3>1. name # "connect" /\ name # "publish" BY <2>1 DEF Leads, Ending
    <3>2. CASE name \in {"FCUnpublish", "deleteStream"}
      <4>1. b.at = "Closed" BY <2>1, <3>2 DEF Leads
      <4> QED BY <1>2, <1>3, <3>2, <4>1 DEF Leads
    <3>3. CASE name \notin {"FCUnpublish", "deleteStream"}
      <4>1. b.at = a.at BY <2>1, <3>1, <3>3 DEF Leads
      <4> QED BY <1>1, <1>2, <1>3, <3>1, <3>3, <4>1 DEF Leads
    <3> QED BY <3>2, <3>3
  <2>3. b.enc = a.enc /\ b.had = a.had BY <1>7 DEF Said
  <2>4. Said(x, ch, y) BY <1>1, <1>2, <2>1, <2>2, <2>3 DEF Said
  <2> QED BY <1>4, <1>5, <2>4 DEF Wrote, x, y
<1>8. CASE Controlled(a, ch, b)
  <2>1. Controlled(x, ch, y) BY <1>1, <1>2, <1>3, <1>8, ZenonT(30) DEF Controlled
  <2> QED BY <1>4, <1>5, <2>1 DEF Wrote, x, y
<1>9. ASSUME a.at = "Publishing", b.at = "Publishing", NEW k \in Media,
             Began(k, a, ch, b, due) \/ WentOn(k, a, ch, b, due)
      PROVE  Wrote(x, ch, y, due)
  <2>1. x.at = "Publishing" /\ y.at = "Publishing" BY <1>1, <1>2, <1>9
  <2>2. Finishes(k, a, b, due) => Finishes(k, x, y, due) BY <1>1, <1>2 DEF Finishes
  <2>3. Began(k, a, ch, b, due) => Began(k, x, ch, y, due) BY <1>1, <1>2, <2>2, ZenonT(30) DEF Began
  <2>4. WentOn(k, a, ch, b, due) => WentOn(k, x, ch, y, due) BY <1>1, <1>2, <2>2 DEF WentOn
  <2> QED BY <1>9, <2>1, <2>3, <2>4 DEF Wrote
<1> QED BY <1>4, <1>5, <1>6, <1>7, <1>8, <1>9 DEF Wrote, x, y

(* The whole way along the wire after the core has accepted                *)
(* (accept_publish).                                                       *)
LEMMA AcceptedWay ==
  ASSUME NEW due, NEW chunks \in Seq(Chunks), NEW path, Along(path, chunks, due), path[1].at \in Ending
  PROVE  Along([i \in 1 .. Len(chunks) + 1 |-> Now(path[i])], chunks, due)
<1> DEFINE n == Len(chunks)
           q == [i \in 1 .. n + 1 |-> Now(path[i])]
<1>1. n \in Nat OBVIOUS
<1>2. /\ \A i \in 1 .. n + 1 : Place(path[i], due)
      /\ \A i \in 1 .. n : Wrote(path[i], chunks[i], path[i + 1], due)
      /\ \A i, j \in 1 .. n + 1 : i <= j => Forward(path[i], path[j])
  BY DEF Along
<1> HIDE DEF n
<1>3. DOMAIN q = 1 .. n + 1 /\ \A i \in 1 .. n + 1 : q[i] = Now(path[i]) OBVIOUS
<1> HIDE DEF q
<1>4. ASSUME NEW i \in 1 .. n + 1 PROVE path[i].at \in Ending
  <2>1. 1 \in 1 .. n + 1 /\ 1 <= i BY <1>1
  <2> QED BY <1>2, <2>1 DEF Forward
<1>5. ASSUME NEW i \in 1 .. n + 1 PROVE Place(q[i], due)
  <2>1. path[i].at \in Ending /\ Place(path[i], due) BY <1>2, <1>4
  <2>2. Now(path[i]).at \in Stages BY <2>1 DEF Now, Ending, Stages
  <2>3. Place(Now(path[i]), due) BY <2>1, <2>2 DEF Place, Now
  <2> QED BY <1>3, <2>3
<1>6. ASSUME NEW i \in 1 .. n PROVE Wrote(q[i], chunks[i], q[i + 1], due)
  <2>1. i \in 1 .. n + 1 /\ i + 1 \in 1 .. n + 1 BY <1>1
  <2>2. Wrote(path[i], chunks[i], path[i + 1], due) BY <1>2
  <2>3. Place(path[i], due) /\ Place(path[i + 1], due) BY <1>2, <2>1
  <2>4. Wrote(Now(path[i]), chunks[i], Now(path[i + 1]), due) BY <1>4, <2>1, <2>2, <2>3, AcceptedPlace
  <2> QED BY <1>3, <2>1, <2>4
<1>7. ASSUME NEW i \in 1 .. n + 1, NEW j \in 1 .. n + 1, i <= j PROVE Forward(q[i], q[j])
  <2>1. path[i].had <= path[j].had BY <1>2, <1>7 DEF Forward
  <2>2. path[i].at \in Ending /\ path[j].at \in Ending BY <1>4
  <2>3. Now(path[i]).had = path[i].had /\ Now(path[j]).had = path[j].had
        /\ Now(path[j]).at \in Ending /\ Now(path[j]).at \notin Shakes
    BY <2>2 DEF Now, Ending, Shakes
  <2>4. Forward(Now(path[i]), Now(path[j])) BY <2>1, <2>3 DEF Forward
  <2> QED BY <1>3, <2>4
<1>8. Along(q, chunks, due) BY <1>3, <1>5, <1>6, <1>7 DEF Along, n
<1> QED BY <1>8 DEF q, n

(* What is handed over is no longer due. *)
Less(a) == [at |-> a.at, enc |-> a.enc, had |-> a.had - 1]

(* Two places along the wire after the oldest message was handed over. *)
LEMMA HandedPlace ==
  ASSUME NEW due \in Seq(Sent), due # <<>>, NEW a, NEW b, NEW ch, Place(a, due), Place(b, due), 1 <= a.had,
         1 <= b.had, Wrote(a, ch, b, due)
  PROVE  Wrote(Less(a), ch, Less(b), Tail(due)) /\ Place(Less(a), Tail(due))
<1> DEFINE x == Less(a)
           y == Less(b)
           rest == Tail(due)
           n == Len(due)
<1>1. x.enc = a.enc /\ x.had = a.had - 1 /\ x.at = a.at /\ x = [at |-> x.at, enc |-> x.enc, had |-> x.had]
  BY DEF Less
<1>2. y.enc = b.enc /\ y.had = b.had - 1 /\ y.at = b.at BY DEF Less
<1>3. n \in Nat /\ Len(rest) = n - 1 /\ \A i \in 1 .. n - 1 : rest[i] = due[i + 1] OBVIOUS
<1> HIDE DEF x, y, rest, n
<1>4. a.had \in 1 .. n /\ b.had \in 1 .. n
  <2>1. a.had \in Nat /\ a.had <= n /\ b.had \in Nat /\ b.had <= n BY <1>3 DEF Place, n
  <2> QED BY <1>3, <2>1
<1>5. Place(x, rest)
  <2>1. x.had \in 0 .. Len(rest) BY <1>1, <1>3, <1>4
  <2> QED BY <1>1, <2>1 DEF Place
<1>6. ASSUME NEW k \in Media, Finishes(k, a, b, due) PROVE Finishes(k, x, y, rest)
  <2>1. CASE b.enc.streams[k].left # <<>> BY <1>1, <1>2, <1>6, <2>1 DEF Finishes
  <2>2. CASE b.enc.streams[k].left = <<>>
    <3>1. b.had = a.had + 1 /\ due[b.had] = [kind |-> k, ts |-> b.enc.streams[k].t, body |-> b.enc.streams[k].body]
      BY <1>6, <2>2 DEF Finishes
    <3>2. y.had = x.had + 1 /\ y.had \in 1 .. n - 1 /\ y.had + 1 = b.had
      <4> DEFINE s == a.had
                 t == b.had
      <4>1. x.had = s - 1 /\ y.had = t - 1 /\ s \in 1 .. n /\ t \in 1 .. n /\ t = s + 1 /\ n \in Nat
        BY <1>1, <1>2, <1>3, <1>4, <3>1
      <4> HIDE DEF s, t
      <4>2. t - 1 = (s - 1) + 1 /\ t - 1 \in 1 .. n - 1 /\ (t - 1) + 1 = t BY <4>1
      <4> QED BY <4>1, <4>2 DEF t
    <3>3. rest[y.had] = due[b.had] BY <1>3, <3>2
    <3> QED BY <1>2, <2>2, <3>1, <3>2, <3>3 DEF Finishes
  <2> QED BY <2>1, <2>2
<1>7. Shook(a, b) => Shook(x, y) BY <1>1, <1>2 DEF Shook
<1>8. Said(a, ch, b) => Said(x, ch, y) BY <1>1, <1>2 DEF Said
<1>9. Controlled(a, ch, b) => Controlled(x, ch, y) BY <1>1, <1>2, ZenonT(30) DEF Controlled
<1>10. ASSUME NEW k \in Media, Began(k, a, ch, b, due) PROVE Began(k, x, ch, y, rest)
  <2>1. Finishes(k, x, y, rest) BY <1>6, <1>10 DEF Began
  <2> QED BY <1>1, <1>2, <1>10, <2>1, ZenonT(30) DEF Began
<1>11. ASSUME NEW k \in Media, WentOn(k, a, ch, b, due) PROVE WentOn(k, x, ch, y, rest)
  <2>1. Finishes(k, x, y, rest) BY <1>6, <1>11 DEF WentOn
  <2> QED BY <1>1, <1>2, <1>11, <2>1 DEF WentOn
<1>12. Wrote(x, ch, y, rest) BY <1>1, <1>2, <1>7, <1>8, <1>9, <1>10, <1>11 DEF Wrote
<1> QED BY <1>5, <1>12 DEF x, y, rest

(* The whole way along the wire after the oldest message was handed over. *)
LEMMA HandedWay ==
  ASSUME NEW due \in Seq(Sent), due # <<>>, NEW chunks \in Seq(Chunks), NEW path, Along(path, chunks, due),
         1 <= path[1].had
  PROVE  Along([i \in 1 .. Len(chunks) + 1 |-> Less(path[i])], chunks, Tail(due))
<1> DEFINE n == Len(chunks)
           q == [i \in 1 .. n + 1 |-> Less(path[i])]
           rest == Tail(due)
<1>1. n \in Nat OBVIOUS
<1>2. /\ \A i \in 1 .. n + 1 : Place(path[i], due)
      /\ \A i \in 1 .. n : Wrote(path[i], chunks[i], path[i + 1], due)
      /\ \A i, j \in 1 .. n + 1 : i <= j => Forward(path[i], path[j])
  BY DEF Along
<1>9. Len(due) \in Nat /\ Len(rest) = Len(due) - 1 OBVIOUS
<1> HIDE DEF n, rest
<1>3. DOMAIN q = 1 .. n + 1 /\ \A i \in 1 .. n + 1 : q[i] = Less(path[i]) OBVIOUS
<1> HIDE DEF q
<1>4. ASSUME NEW i \in 1 .. n + 1 PROVE 1 <= path[i].had /\ path[i].had \in Nat /\ path[i].had <= Len(due)
  <2>1. 1 \in 1 .. n + 1 /\ 1 <= i BY <1>1
  <2>2. path[1].had <= path[i].had BY <1>2, <2>1 DEF Forward
  <2>3. Place(path[1], due) /\ Place(path[i], due) BY <1>2, <2>1
  <2>4. \A a : Place(a, due) => a.had \in Nat /\ a.had <= Len(due) BY <1>9 DEF Place
  <2> QED BY <2>2, <2>3, <2>4
<1>5. ASSUME NEW i \in 1 .. n + 1 PROVE Place(q[i], rest)
  <2>1. Place(path[i], due) BY <1>2
  <2>2. path[i].had - 1 \in 0 .. Len(rest) BY <1>4, <1>9
  <2>3. Place(Less(path[i]), rest) BY <2>1, <2>2 DEF Place, Less
  <2> QED BY <1>3, <2>3
<1>6. ASSUME NEW i \in 1 .. n PROVE Wrote(q[i], chunks[i], q[i + 1], rest)
  <2>1. i \in 1 .. n + 1 /\ i + 1 \in 1 .. n + 1 BY <1>1
  <2>2. Wrote(path[i], chunks[i], path[i + 1], due) BY <1>2
  <2>3. Place(path[i], due) /\ Place(path[i + 1], due) BY <1>2, <2>1
  <2>4. 1 <= path[i].had /\ 1 <= path[i + 1].had BY <1>4, <2>1
  <2>5. Wrote(Less(path[i]), chunks[i], Less(path[i + 1]), rest) BY <2>2, <2>3, <2>4, HandedPlace DEF rest
  <2> QED BY <1>3, <2>1, <2>5
<1>7. ASSUME NEW i \in 1 .. n + 1, NEW j \in 1 .. n + 1, i <= j PROVE Forward(q[i], q[j])
  <2>1. Forward(path[i], path[j]) BY <1>2, <1>7
  <2>2. path[i].had \in Nat /\ path[j].had \in Nat BY <1>4
  <2>3. Forward(Less(path[i]), Less(path[j])) BY <2>1, <2>2, SMTT(30) DEF Forward, Less
  <2> QED BY <1>3, <2>3
<1>8. Along(q, chunks, rest) BY <1>3, <1>5, <1>6, <1>7 DEF Along, n
<1> QED BY <1>8 DEF q, n, rest

-----------------------------------------------------------------------------
(* The relay's session reads a chunk *)

LEMMA FirstIs ==
  ASSUME NEW fmt \in 0 .. 3, NEW csid \in Nat, NEW value \in Bits, NEW type \in Types \cup {"C0C1", "C2"},
         NEW body \in Seq(Words), NEW size \in Nat \ {0}
  PROVE  FirstChunk(fmt, csid, value, type, body, size) \in Chunks
<1>1. Cut(body, size) \in Seq(Words) /\ Len(body) \in Nat BY Cuts
<1>2. value \in Int /\ Field(value) \in Nat /\ ExtOf(value) \in Int
  BY ChunkConstants DEF Bits, Field, ExtOf, NoExt
<1>3. ExtWords(ExtOf(value)) \in Seq(Words)
  <2> DEFINE ext == ExtOf(value)
             word == TsWord(ext)
  <2>1. word \in Words BY <1>2 DEF Words, Tags, TsWord
  <2>2. <<word>> \in Seq(Words) BY <2>1
  <2> HIDE DEF word, ext
  <2>3. ext = NoExt \/ ext # NoExt OBVIOUS
  <2>4. ExtWords(ext) \in Seq(Words) BY <2>2, <2>3 DEF ExtWords, word
  <2> QED BY <2>4 DEF ext
<1> DEFINE words == ExtWords(ExtOf(value)) \o Cut(body, size)
<1>4. words \in Seq(Words) BY <1>1, <1>3
<1> HIDE DEF words
<1>5. FirstChunk(fmt, csid, value, type, body, size)
        = [fmt |-> fmt, csid |-> csid, field |-> Field(value), len |-> Len(body), type |-> type,
           words |-> words]
  BY DEF FirstChunk, words
<1> QED BY <1>1, <1>2, <1>4, <1>5 DEF Chunks

(* The next chunk of a message is a chunk. *)
LEMMA NextIs ==
  ASSUME NEW csid \in Nat, NEW ext \in 0 .. TsMod, NEW repeats, NEW left \in Seq(Words),
         NEW size \in Nat \ {0}
  PROVE  NextChunk(csid, ext, repeats, left, size) \in Chunks
<1> DEFINE again == IF repeats THEN ExtWords(ext) ELSE <<>>
           words == again \o Cut(left, size)
           word == TsWord(ext)
<1>1. Cut(left, size) \in Seq(Words) BY Cuts
<1>2. word \in Words
  <2>1. ext \in Int BY ChunkConstants
  <2> QED BY <2>1 DEF Words, Tags, TsWord
<1>3. <<word>> \in Seq(Words) /\ <<>> \in Seq(Words) BY <1>2
<1> HIDE DEF word
<1>4. ExtWords(ext) \in Seq(Words) BY <1>3 DEF ExtWords, word
<1>5. again \in Seq(Words) BY <1>3, <1>4
<1> HIDE DEF again
<1>6. words \in Seq(Words) BY <1>1, <1>5
<1> HIDE DEF words
<1>7. NextChunk(csid, ext, repeats, left, size)
        = [fmt |-> 3, csid |-> csid, field |-> 0, len |-> 0, type |-> "none", words |-> words]
  BY DEF NextChunk, words, again
<1>8. "none" \in Types BY DEF Types
<1> QED BY <1>6, <1>7, <1>8 DEF Chunks

(* What each command adds to the events and to the answers. *)
Grown(e, name, st) ==
  CASE name = "connect" -> Append(e, Named("connect"))
    [] name = "publish" -> Append(e, Named("publish"))
    [] name \in {"FCUnpublish", "deleteStream"} /\ st # "Closed" -> Append(e, Named("unpublish"))
    [] OTHER -> e
Replied(o, name) ==
  CASE name = "connect" -> o \o <<"bandwidth", "size", "result connect">>
    [] name = "releaseStream" -> o \o <<"result releaseStream">>
    [] name = "FCPublish" -> o \o <<"onFCPublish", "result FCPublish">>
    [] name = "createStream" -> o \o <<"result createStream">>
    [] OTHER -> o

(* What a command in its turn does to the session (handle_command). *)
LEMMA CommandedIs ==
  ASSUME NEW sh, NEW st \in States, NEW d, NEW f, NEW r, NEW e, NEW o, NEW x, NEW name \in Names, NEW to,
         Leads(st, name, to)
  PROVE  Commanded(Server(sh, st, d, f, r, e, o, x), name)
           = Server(sh, to, d, f, r, Grown(e, name, st), Replied(o, name), x)
<1> DEFINE s == Server(sh, st, d, f, r, e, o, x)
<1>1. CASE name = "connect"
  <2>1. st = "AwaitConnect" /\ to = "Connected" BY <1>1 DEF Leads
  <2>2. Commanded(s, name) = Connected(s) BY <1>1 DEF Commanded
  <2>3. Connected(s) = Server(sh, to, d, f, r, Append(e, Named("connect")),
                              o \o <<"bandwidth", "size", "result connect">>, x)
    BY <2>1 DEF Connected, Event, Replies, Server
  <2> QED BY <1>1, <2>2, <2>3 DEF Grown, Replied
<1>2. CASE name = "publish"
  <2>1. st = "Connected" /\ to = "PublishPending" BY <1>2 DEF Leads
  <2>2. Commanded(s, name) = PublishAsked(s) BY <1>2 DEF Commanded
  <2>3. PublishAsked(s) = Server(sh, to, d, f, r, Append(e, Named("publish")), o, x)
    BY <2>1 DEF PublishAsked, Event, Server
  <2> QED BY <1>2, <2>2, <2>3 DEF Grown, Replied
<1>3. CASE name \in {"FCUnpublish", "deleteStream"}
  <2>1. st \in Ending /\ to = "Closed" BY <1>3 DEF Leads
  <2>2. Commanded(s, name) = Unpublished(s) BY <1>3 DEF Commanded
  <2>3. CASE st = "Closed"
    <3>1. Unpublished(s) = Server(sh, to, d, f, r, e, o, x) BY <2>1, <2>3 DEF Unpublished, Server
    <3> QED BY <1>3, <2>2, <2>3, <3>1 DEF Grown, Replied
  <2>4. CASE st # "Closed"
    <3>1. st \in {"PublishPending", "Publishing"} BY <2>1, <2>4 DEF Ending
    <3>2. Unpublished(s) = Server(sh, to, d, f, r, Append(e, Named("unpublish")), o, x)
      BY <2>1, <3>1 DEF Unpublished, Event, Server
    <3> QED BY <1>3, <2>2, <2>4, <3>2 DEF Grown, Replied
  <2> QED BY <2>3, <2>4
<1>4. CASE name \in {"releaseStream", "FCPublish", "createStream"}
  <2>1. to = st BY <1>4 DEF Leads
  <2>2. Commanded(s, name) = Server(sh, st, d, f, r, e, Replied(o, name), x)
    BY <1>4 DEF Commanded, Replies, Replied, Server
  <2> QED BY <1>4, <2>1, <2>2 DEF Grown
<1> QED BY <1>1, <1>2, <1>3, <1>4 DEF Names

(* A message that is read whole is dealt with; a part of one is kept. *)
LEMMA FedIs ==
  ASSUME NEW sh, NEW st, NEW d, NEW f, NEW r, NEW e, NEW o, NEW x, NEW ch,
         ~Refuses(d, ch, Limit(Server(sh, st, d, f, r, e, o, x), Headed(d, ch).type))
  PROVE  Fed(Server(sh, st, d, f, r, e, o, x), ch)
           = IF Completes(d, ch)
             THEN Handled(Server(sh, st, Decoded(d, ch), f, r, e, o, x), Message(d, ch))
             ELSE Server(sh, st, Decoded(d, ch), f, r, e, o, x)
<1> DEFINE s == Server(sh, st, d, f, r, e, o, x)
           t == Server(sh, st, Decoded(d, ch), f, r, e, o, x)
<1>1. s.dec = d BY DEF Server
<1>2. [s EXCEPT !.dec = Decoded(d, ch)] = t BY DEF Server
<1> HIDE DEF s, t
<1>3. ~Refuses(s.dec, ch, Limit(s, Headed(s.dec, ch).type)) BY <1>1 DEF s
<1>4. Fed(s, ch) = IF Completes(d, ch) THEN Handled(t, Message(d, ch)) ELSE t
  BY <1>1, <1>2, <1>3 DEF Fed
<1> QED BY <1>4 DEF s, t

(* A session of which only the reading changes. *)
LEMMA ReadingIs ==
  ASSUME NEW sh, NEW st, NEW d, NEW f, NEW r, NEW e, NEW o, NEW x, NEW y
  PROVE  [Server(sh, st, d, f, r, e, o, x) EXCEPT !.reading = y] = Server(sh, st, d, f, y, e, o, x)
BY DEF Server

Reading(s) == [s EXCEPT !.reading = TRUE]

(* The session after a read. *)
LEMMA ReadEnds ==
  ASSUME NEW sh, NEW st, NEW d, NEW f, NEW r, NEW e, NEW o, NEW x, NEW t, t = Server(sh, st, d, f, r, e, o, x),
         srv' = Reading(t)
  PROVE  srv' = Server(sh, st, d, f, TRUE, e, o, x)
<1>1. PICK y : y = TRUE OBVIOUS
<1>2. srv' = [t EXCEPT !.reading = y] BY <1>1 DEF Reading
<1>3. [t EXCEPT !.reading = y] = Server(sh, st, d, f, y, e, o, x) BY ReadingIs
<1>4. srv' = Server(sh, st, d, f, y, e, o, x) BY <1>2, <1>3
<1> QED BY <1>1, <1>4

(* What is among two sequences is among one of them. *)
LEMMA AmongBoth ==
  ASSUME NEW S, NEW s \in Seq(S), NEW t \in Seq(S), NEW x, Among(x, s \o t)
  PROVE  Among(x, s) \/ Among(x, t)
<1>1. PICK i \in 1 .. Len(s \o t) : (s \o t)[i] = x BY DEF Among
<1>2. i \in 1 .. Len(s) + Len(t) /\ x = IF i <= Len(s) THEN s[i] ELSE t[i - Len(s)]
  BY <1>1, ConcatProperties
<1>3. Len(s) \in Nat /\ Len(t) \in Nat OBVIOUS
<1>4. CASE i <= Len(s)
  <2>1. i \in 1 .. Len(s) BY <1>2, <1>3, <1>4
  <2> QED BY <1>2, <1>4, <2>1 DEF Among
<1>5. CASE ~(i <= Len(s))
  <2>1. i - Len(s) \in 1 .. Len(t) BY <1>2, <1>3, <1>5
  <2> QED BY <1>2, <1>5, <2>1 DEF Among
<1> QED BY <1>4, <1>5

(* The true times are kept where no time changes. *)
LEMMA TimeKept ==
  ASSUME TimeInv, app'.unwrap = app.unwrap, hist'.due = hist.due, hist'.time = hist.time
  PROVE  TimeInv'
<1>1. ASSUME NEW k \in Media PROVE TimeOf(k)'
  <2>1. TimeOf(k) BY DEF TimeInv
  <2>2. \A a, b : Other(k, a, b)' <=> Other(k, a, b) BY DEF Other
  <2> QED BY <2>1, <2>2 DEF TimeOf
<1> QED BY <1>1 DEF TimeInv

(* What was read leaves the rest of the wire to be read. *)
LEMMA ReadCloses ==
  ASSUME RtmpInv, NEW path, Follows(path), ~app.done, wire # <<>>, wire' = Tail(wire),
         UNCHANGED <<pub, enc, back, app, hist>>,
         NEW shake \in Shakes \cup {"Done"}, NEW state \in States, NEW dec, NEW es \in Seq(Events),
         NEW os \in Seq(Answers), srv' = Server(shake, state, dec, srv.full, TRUE, es, os, srv.refused),
         path[2].at = Stage(srv'), Matches(dec, path[2].enc), Ordered', Publishes',
         Pending(path[2].had)', srv.shake = "Done" => shake = "Done",
         Among("bandwidth", os) => Among("bandwidth", srv.out) \/ shake = "Done",
         Among("Publish.Start", os) => Among("Publish.Start", srv.out),
         srv.state \in {"Publishing", "Closed"} => state \in {"Publishing", "Closed"}
  PROVE  RtmpInv'
<1>1. /\ srv'.shake = shake /\ srv'.state = state /\ srv'.dec = dec /\ srv'.full = srv.full
      /\ srv'.events = es /\ srv'.out = os /\ srv'.refused = srv.refused
      /\ srv' = Server(srv'.shake, srv'.state, srv'.dec, srv'.full, srv'.reading, srv'.events, srv'.out,
                       srv'.refused)
  BY DEF Server
<1>2. pub' = pub /\ enc' = enc /\ back' = back /\ app' = app /\ hist' = hist OBVIOUS
<1>3. EncInv' BY <1>2 DEF RtmpInv, EncInv
<1>4. wire \in Seq(Chunks) /\ Tail(wire) \in Seq(Chunks) BY DEF RtmpInv, Shape
<1>5. Shape' BY <1>1, <1>2, <1>4 DEF RtmpInv, Shape
<1>6. TimeInv' BY <1>2, TimeKept DEF RtmpInv
<1>7. NeverRefused' BY <1>1 DEF RtmpInv, NeverRefused
<1>8. Ended' BY <1>2 DEF Ended
<1>9. Along(path, wire, hist.due) BY DEF Follows
<1>10. PICK q : /\ Along(q, wire', hist.due) /\ q[1] = path[2] /\ q[Len(wire') + 1] = path[Len(wire) + 1]
  BY <1>4, <1>9, Shortened, ZenonT(30)
<1>13. PICK last : last = path[Len(wire) + 1] OBVIOUS
<1>11. Follows(q)'
  <2>1. last.enc = enc /\ last.had = Len(hist.due) /\ Expects(last.at) BY <1>13 DEF Follows
  <2>2. Answered("Publish.Start")' => Answered("Publish.Start") BY <1>1, <1>2 DEF Answered
  <2>3. Expects(last.at)' BY <1>2, <2>1, <2>2 DEF Expects
  <2>4. Answered("bandwidth")' => srv'.shake = "Done"
    <3>1. Answered("bandwidth")' => Answered("bandwidth") \/ shake = "Done" BY <1>1, <1>2 DEF Answered
    <3>2. Answered("bandwidth") => srv.shake = "Done" BY DEF Follows
    <3> QED BY <1>1, <3>1, <3>2
  <2>5. Answered("Publish.Start")' => srv'.state \in {"Publishing", "Closed"}
    BY <1>1, <2>2 DEF Follows
  <2>6. q[Len(wire') + 1] = last /\ q[1] = path[2] BY <1>10, <1>13
  <2> QED BY <1>1, <1>2, <1>10, <2>1, <2>3, <2>4, <2>5, <2>6 DEF Follows
<1>12. InStep' BY <1>11 DEF InStep
<1> QED BY <1>3, <1>5, <1>6, <1>7, <1>8, <1>12 DEF RtmpInv

(* Read takes the handshake first. *)
LEMMA ReadShook ==
  ASSUME RtmpInv, NEW path, Follows(path), ~app.done, Read, Shook(path[1], path[2])
  PROVE  RtmpInv'
<1> DEFINE os == srv.out \o <<"S0S1S2">>
<1>1. /\ wire # <<>> /\ wire' = Tail(wire) /\ UNCHANGED <<pub, enc, back, app, hist>>
      /\ srv' = [(IF srv.shake # "Done" THEN Shaken(srv) ELSE Fed(srv, Head(wire))) EXCEPT !.reading = TRUE]
  BY DEF Read
<1>2. path[1].at = Stage(srv) /\ Matches(srv.dec, path[1].enc) /\ Pending(path[1].had) BY DEF Follows
<1>3. path[1].at \in Shakes /\ path[2].enc = path[1].enc /\ path[2].had = path[1].had BY DEF Shook, Shakes
<1>4. srv.shake \in Shakes /\ srv.shake = path[1].at
  <2>1. srv.state \notin Shakes BY DEF RtmpInv, Shape, States, Shakes
  <2> QED BY <1>2, <1>3, <2>1 DEF Stage
<1>5. srv.state = "AwaitConnect" /\ srv.events = <<>> /\ srv.shake # "Done" BY <1>4 DEF RtmpInv, Ordered, Shakes
<1>6. srv = Server(srv.shake, srv.state, srv.dec, srv.full, srv.reading, srv.events, srv.out, srv.refused)
      /\ srv.out \in Seq(Answers) /\ srv.state \in States /\ srv.events \in Seq(Events)
  BY DEF RtmpInv, Shape
<1>7. os \in Seq(Answers) /\ \A x : Among(x, os) => Among(x, srv.out) \/ x = "S0S1S2"
  <2> DEFINE one == <<"S0S1S2">>
             s == srv.out
  <2>1. one \in Seq(Answers) /\ Len(one) = 1 /\ one[1] = "S0S1S2"
    <3>1. "S0S1S2" \in Answers BY DEF Answers
    <3> QED BY <3>1
  <2> HIDE DEF one, s
  <2>2. s \in Seq(Answers) BY <1>6 DEF s
  <2>3. s \o one \in Seq(Answers) BY <2>1, <2>2
  <2>4. ASSUME NEW x, Among(x, s \o one) PROVE Among(x, s) \/ Among(x, one)
    BY <2>1, <2>2, <2>4, AmongBoth
  <2>5. \A x : Among(x, one) => x = "S0S1S2" BY <2>1 DEF Among
  <2> QED BY <2>3, <2>4, <2>5 DEF one, s
<1> HIDE DEF os
<1>8. CASE srv.shake = "WaitC0C1"
  <2>1. srv' = Server("WaitC2", srv.state, srv.dec, srv.full, TRUE, srv.events, os, srv.refused)
    <3>1. srv' = Reading(Shaken(srv)) BY <1>1, <1>5 DEF Reading
    <3>2. Shaken(srv) = [[srv EXCEPT !.out = @ \o <<"S0S1S2">>] EXCEPT !.shake = "WaitC2"]
      BY <1>8 DEF Shaken, Replies
    <3>3. Shaken(srv) = Server("WaitC2", srv.state, srv.dec, srv.full, srv.reading, srv.events, os, srv.refused)
      BY <1>6, <3>2 DEF Server, os
    <3> QED BY <3>1, <3>3, ReadEnds
  <2>2. path[2].at = "WaitC2" BY <1>4, <1>8 DEF Shook
  <2>3. srv'.shake = "WaitC2" /\ srv'.state = srv.state /\ srv'.events = srv.events /\ srv'.full = srv.full
    BY <2>1 DEF Server
  <2>4. path[2].at = Stage(srv') BY <2>2, <2>3 DEF Stage
  <2>5. Ordered' BY <1>5, <2>3 DEF Ordered
  <2>6. Publishes' BY <1>1, <1>5, <2>3 DEF Publishes, RtmpInv
  <2>7. Pending(path[2].had)' BY <1>1, <1>2, <1>3, <2>3 DEF Pending, Came
  <2>8. Among("bandwidth", os) => Among("bandwidth", srv.out) BY <1>7
  <2>9. Among("Publish.Start", os) => Among("Publish.Start", srv.out) BY <1>7
  <2>10. "WaitC2" \in Shakes \cup {"Done"} BY DEF Shakes
  <2> QED BY <1>1, <1>2, <1>3, <1>5, <1>6, <1>7, <2>1, <2>4, <2>5, <2>6, <2>7, <2>8, <2>9, <2>10, ReadCloses, ZenonT(30)
<1>9. CASE srv.shake = "WaitC2"
  <2>1. srv' = Server("Done", srv.state, srv.dec, srv.full, TRUE, srv.events, srv.out, srv.refused)
    <3>1. srv' = Reading(Shaken(srv)) BY <1>1, <1>5 DEF Reading
    <3>2. Shaken(srv) = [srv EXCEPT !.shake = "Done"] BY <1>9 DEF Shaken
    <3>3. Shaken(srv) = Server("Done", srv.state, srv.dec, srv.full, srv.reading, srv.events, srv.out, srv.refused)
      BY <1>6, <3>2 DEF Server
    <3> QED BY <3>1, <3>3, ReadEnds
  <2>2. path[2].at = "AwaitConnect" BY <1>4, <1>9 DEF Shook
  <2>3. srv'.shake = "Done" /\ srv'.state = srv.state /\ srv'.events = srv.events /\ srv'.full = srv.full
    BY <2>1 DEF Server
  <2>4. path[2].at = Stage(srv') BY <1>5, <2>2, <2>3 DEF Stage
  <2>5. Ordered' BY <1>5, <2>3 DEF Ordered
  <2>6. Publishes' BY <1>1, <1>5, <2>3 DEF Publishes, RtmpInv
  <2>7. Pending(path[2].had)' BY <1>1, <1>2, <1>3, <2>3 DEF Pending, Came
  <2> QED BY <1>1, <1>2, <1>3, <1>5, <1>6, <2>1, <2>4, <2>5, <2>6, <2>7, ReadCloses, ZenonT(30)
<1> QED BY <1>4, <1>8, <1>9 DEF Shakes

IsAppended(t, s, x) ==
  /\ Len(s) \in Nat /\ Len(t) = Len(s) + 1 /\ t[Len(t)] = x /\ t # <<>>
  /\ \A i \in 1 .. Len(t) : i # Len(t) => i \in 1 .. Len(s) /\ t[i] = s[i]
  /\ \A i \in 1 .. Len(s) : i \in 1 .. Len(t) /\ i # Len(t) /\ t[i] = s[i]

(* What a sequence with one more element is. *)
LEMMA AppendedIs ==
  ASSUME NEW S, NEW s \in Seq(S), NEW x \in S
  PROVE  Append(s, x) \in Seq(S) /\ IsAppended(Append(s, x), s, x)
<1> DEFINE t == Append(s, x)
           n == Len(s)
<1>1. t \in Seq(S) /\ n \in Nat /\ Len(t) = n + 1 /\ t[n + 1] = x /\ \A i \in 1 .. n : t[i] = s[i]
  OBVIOUS
<1>2. t # <<>> BY <1>1
<1> HIDE DEF t, n
<1>3. \A i \in 1 .. n + 1 : i # n + 1 => i \in 1 .. n BY <1>1
<1>4. \A i \in 1 .. n : i \in 1 .. n + 1 /\ i # n + 1 BY <1>1
<1>5. \A i \in 1 .. Len(t) : i # Len(t) => i \in 1 .. n /\ t[i] = s[i] BY <1>1, <1>3
<1>6. \A i \in 1 .. n : i \in 1 .. Len(t) /\ i # Len(t) /\ t[i] = s[i] BY <1>1, <1>4
<1>7. IsAppended(t, s, x) BY <1>1, <1>2, <1>5, <1>6 DEF IsAppended, n
<1> QED BY <1>1, <1>7 DEF t

(* What the session asks for comes behind the media it took. *)
LEMMA AsksLast ==
  ASSUME NEW had \in Nat, Pending(had), NEW e, IsAppended(srv'.events, srv.events, e), hist' = hist,
         e.kind \in {"connect", "publish", "unpublish"}
  PROVE  Pending(had)'
<1> DEFINE t == srv'.events
           s == srv.events
<1>1. /\ had <= Len(s) /\ \A i \in 1 .. had : s[i] = Came(hist.due[i])
      /\ \A i \in had + 1 .. Len(s) : s[i].kind \in {"connect", "publish", "unpublish"}
  BY DEF Pending
<1>2. /\ Len(s) \in Nat /\ Len(t) = Len(s) + 1 /\ t[Len(t)] = e
      /\ \A i \in 1 .. Len(t) : i # Len(t) => i \in 1 .. Len(s) /\ t[i] = s[i]
      /\ \A i \in 1 .. Len(s) : t[i] = s[i]
  BY DEF IsAppended
<1> HIDE DEF t, s
<1>3. had <= Len(t) BY <1>1, <1>2
<1>4. ASSUME NEW i \in 1 .. had PROVE t[i] = Came(hist.due[i])
  <2>1. i \in 1 .. Len(s) BY <1>1, <1>2
  <2> QED BY <1>1, <1>2, <2>1
<1>5. ASSUME NEW i \in had + 1 .. Len(t) PROVE t[i].kind \in {"connect", "publish", "unpublish"}
  <2>1. CASE i = Len(t) BY <1>2, <2>1
  <2>2. CASE i # Len(t)
    <3>1. i \in 1 .. Len(t) BY <1>2
    <3>2. i \in had + 1 .. Len(s) BY <1>2, <2>2
    <3> QED BY <1>1, <1>2, <2>2, <3>1, <3>2
  <2> QED BY <2>1, <2>2
<1> QED BY <1>3, <1>4, <1>5 DEF Pending, t, Came

(* A command in its turn keeps the order of the events and whom the        *)
(* session is for.                                                         *)
LEMMA SaidOrdered ==
  ASSUME Ordered, Publishes, srv.events \in Seq(Events), srv.shake = "Done", srv'.shake = "Done",
         NEW name \in Names, srv.state \in States,
         Leads(srv.state, name, srv'.state), srv'.events = Grown(srv.events, name, srv.state),
         srv'.full = srv.full, app' = app, hist' = hist, NEW had \in Nat, Pending(had)
  PROVE  Ordered' /\ Publishes' /\ Pending(had)' /\ srv'.events \in Seq(Events)
<1>0. \A x \in {"connect", "publish", "unpublish"} : Named(x) \in Events /\ Named(x).kind = x
  <2>1. 0 \in Bits /\ <<>> \in Seq(Words) BY ChunkConstants DEF Bits
  <2> QED BY <2>1 DEF Named, Events
<1>1. CASE name = "connect"
  <2>1. srv.state = "AwaitConnect" /\ srv'.state = "Connected" /\ srv'.events = Append(srv.events, Named("connect"))
    BY <1>1 DEF Leads, Grown
  <2>2. srv'.events \in Seq(Events) /\ IsAppended(srv'.events, srv.events, Named("connect"))
    BY <1>0, <2>1, AppendedIs
  <2>3. srv.events = <<>> BY <2>1 DEF Ordered
  <2>4. \A i \in 1 .. Len(srv'.events) : srv'.events[i].kind = "connect"
    BY <1>0, <2>2, <2>3 DEF IsAppended
  <2>5. Ordered' BY <2>1, <2>4 DEF Ordered
  <2>6. ~app.publishing BY <2>1 DEF Publishes
  <2>7. Publishes' BY <2>6 DEF Publishes
  <2> QED BY <1>0, <2>2, <2>5, <2>7, AsksLast
<1>2. CASE name = "publish"
  <2>1. srv.state = "Connected" /\ srv'.state = "PublishPending" /\ srv'.events = Append(srv.events, Named("publish"))
    BY <1>2 DEF Leads, Grown
  <2>2. srv'.events \in Seq(Events) /\ IsAppended(srv'.events, srv.events, Named("publish"))
    BY <1>0, <2>1, AppendedIs
  <2>3. \A i \in 1 .. Len(srv.events) : srv.events[i].kind = "connect" BY <2>1 DEF Ordered
  <2>4. \A i \in 1 .. Len(srv'.events) - 1 : srv'.events[i].kind = "connect"
    <3>1. Len(srv'.events) - 1 = Len(srv.events) BY <2>2 DEF IsAppended
    <3> QED BY <2>2, <2>3, <3>1 DEF IsAppended
  <2>5. srv'.events # <<>> /\ srv'.events[Len(srv'.events)].kind = "publish" BY <1>0, <2>2 DEF IsAppended
  <2>6. Ordered' BY <2>1, <2>4, <2>5 DEF Ordered, LastKind
  <2>7. ~app.publishing BY <2>1 DEF Publishes
  <2>8. Publishes' BY <2>7 DEF Publishes
  <2> QED BY <1>0, <2>2, <2>6, <2>8, AsksLast
<1>3. CASE name \in {"FCUnpublish", "deleteStream"} /\ srv.state # "Closed"
  <2>1. srv.state \in {"PublishPending", "Publishing"} /\ srv'.state = "Closed"
        /\ srv'.events = Append(srv.events, Named("unpublish"))
    BY <1>3 DEF Leads, Grown, Ending
  <2> DEFINE t == srv'.events
             s == srv.events
  <2>2. t \in Seq(Events) /\ IsAppended(t, s, Named("unpublish")) BY <1>0, <2>1, AppendedIs
  <2>3. t # <<>> /\ t[Len(t)].kind = "unpublish" BY <1>0, <2>2 DEF IsAppended
  <2>4. \A i \in 1 .. Len(s) : s[i].kind # "unpublish" /\ (s[i].kind = "publish" => i = Len(s))
    <3>1. CASE srv.state = "Publishing" BY <3>1 DEF Ordered, Media
    <3>2. CASE srv.state = "PublishPending"
      <4>1. LastKind = "publish" /\ \A i \in 1 .. Len(s) - 1 : s[i].kind = "connect" BY <3>2 DEF Ordered
      <4>2. \A i \in 1 .. Len(s) : i \in 1 .. Len(s) - 1 \/ i = Len(s) OBVIOUS
      <4> QED BY <4>1, <4>2 DEF LastKind
    <3> QED BY <2>1, <3>1, <3>2
  <2>5. ASSUME NEW i \in 1 .. Len(t)
        PROVE  /\ t[i].kind = "unpublish" => i = Len(t)
               /\ t[i].kind = "publish" => i = Len(t) - 1
    <3>1. CASE i = Len(t) BY <2>3, <3>1
    <3>2. CASE i # Len(t)
      <4>1. i \in 1 .. Len(s) /\ t[i] = s[i] /\ Len(t) - 1 = Len(s) BY <2>2, <3>2 DEF IsAppended
      <4> QED BY <2>4, <4>1
    <3> QED BY <3>1, <3>2
  <2>6. Ordered' BY <2>1, <2>3, <2>5 DEF Ordered, LastKind
  <2>7. Publishes'
    <3>1. ASSUME app.publishing, NEW i \in 1 .. Len(t) PROVE t[i].kind # "publish"
      <4>1. CASE i = Len(t) BY <2>3, <4>1
      <4>2. CASE i # Len(t)
        <5>1. i \in 1 .. Len(s) /\ t[i] = s[i] BY <2>2, <4>2 DEF IsAppended
        <5> QED BY <3>1, <5>1 DEF Publishes
      <4> QED BY <4>1, <4>2
    <3> QED BY <2>1, <2>3, <3>1 DEF Publishes, LastKind
  <2> HIDE DEF t, s
  <2>8. IsAppended(srv'.events, srv.events, Named("unpublish")) BY <2>2 DEF t, s
  <2> QED BY <1>0, <2>2, <2>6, <2>7, <2>8, AsksLast DEF t
<1>4. CASE name \notin {"connect", "publish"} /\ ~(name \in {"FCUnpublish", "deleteStream"} /\ srv.state # "Closed")
  <2>1. srv'.state = srv.state /\ srv'.events = srv.events BY <1>4 DEF Leads, Grown
  <2>2. Ordered' BY <2>1 DEF Ordered, LastKind
  <2>3. Publishes' BY <2>1 DEF Publishes, LastKind
  <2>4. Pending(had)' BY <2>1 DEF Pending, Came
  <2> QED BY <2>1, <2>2, <2>3, <2>4
<1> QED BY <1>1, <1>2, <1>3, <1>4

(* Sequences of one, two and three. *)
LEMMA Tuples ==
  ASSUME NEW S, NEW a \in S, NEW b \in S, NEW c \in S
  PROVE  <<a>> \in Seq(S) /\ <<a, b>> \in Seq(S) /\ <<a, b, c>> \in Seq(S)
OBVIOUS

(* The answers to a command do not accept the publisher. *)
LEMMA RepliedIs ==
  ASSUME NEW o \in Seq(Answers), NEW name
  PROVE  /\ Replied(o, name) \in Seq(Answers)
         /\ Among("Publish.Start", Replied(o, name)) => Among("Publish.Start", o)
<1> DEFINE S == Answers \ {"Publish.Start"}
           start == "Publish.Start"
<1>1. "bandwidth" \in S /\ "size" \in S /\ "result connect" \in S BY DEF Answers
<1>2. "result releaseStream" \in S /\ "onFCPublish" \in S /\ "result FCPublish" \in S BY DEF Answers
<1>3. "result createStream" \in S BY DEF Answers
<1>4. start \notin S /\ S \subseteq Answers OBVIOUS
<1> HIDE DEF S, start
<1>5. ASSUME NEW t \in Seq(S) PROVE o \o t \in Seq(Answers) /\ (Among(start, o \o t) => Among(start, o))
  <2>1. t \in Seq(Answers) BY <1>4
  <2>2. o \o t \in Seq(Answers) BY <2>1
  <2>3. ~Among(start, t)
    <3>1. \A i \in 1 .. Len(t) : t[i] \in S OBVIOUS
    <3> QED BY <1>4, <3>1 DEF Among
  <2>4. Among(start, o \o t) => Among(start, o) \/ Among(start, t) BY <2>1, AmongBoth
  <2> QED BY <2>2, <2>3, <2>4
<1>6. <<"bandwidth", "size", "result connect">> \in Seq(S) BY <1>1, Tuples
<1>7. <<"result releaseStream">> \in Seq(S) BY <1>2, Tuples
<1>8. <<"onFCPublish", "result FCPublish">> \in Seq(S) BY <1>2, Tuples
<1>9. <<"result createStream">> \in Seq(S) BY <1>3, Tuples
<1>10. \/ Replied(o, name) = o \/ \E t \in Seq(S) : Replied(o, name) = o \o t
  <2>1. CASE name = "connect" BY <1>6, <2>1 DEF Replied
  <2>2. CASE name = "releaseStream" BY <1>7, <2>2 DEF Replied
  <2>3. CASE name = "FCPublish" BY <1>8, <2>3 DEF Replied
  <2>4. CASE name = "createStream" BY <1>9, <2>4 DEF Replied
  <2>5. CASE name \notin {"connect", "releaseStream", "FCPublish", "createStream"} BY <2>5 DEF Replied
  <2> QED BY <2>1, <2>2, <2>3, <2>4, <2>5
<1> QED BY <1>5, <1>10 DEF start

(* A read of the session, when the handshake is over. *)
LEMMA ReadIs ==
  ASSUME RtmpInv, NEW path, Follows(path), ~app.done, Read, path[1].at \notin Shakes
  PROVE  /\ wire # <<>> /\ wire' = Tail(wire) /\ UNCHANGED <<pub, enc, back, app, hist>>
         /\ srv' = Reading(Fed(srv, Head(wire)))
         /\ srv.shake = "Done" /\ path[1].at = srv.state /\ Matches(srv.dec, path[1].enc)
         /\ Pending(path[1].had)
         /\ srv = Server("Done", srv.state, srv.dec, srv.full, srv.reading, srv.events, srv.out, srv.refused)
         /\ srv.out \in Seq(Answers) /\ srv.state \in States /\ srv.events \in Seq(Events)
<1>1. /\ wire # <<>> /\ wire' = Tail(wire) /\ UNCHANGED <<pub, enc, back, app, hist>>
      /\ srv' = [(IF srv.shake # "Done" THEN Shaken(srv) ELSE Fed(srv, Head(wire))) EXCEPT !.reading = TRUE]
  BY DEF Read
<1>2. path[1].at = Stage(srv) /\ Matches(srv.dec, path[1].enc) /\ Pending(path[1].had) BY DEF Follows
<1>3. srv = Server(srv.shake, srv.state, srv.dec, srv.full, srv.reading, srv.events, srv.out, srv.refused)
      /\ srv.out \in Seq(Answers) /\ srv.state \in States /\ srv.events \in Seq(Events)
      /\ srv.shake \in Shakes \cup {"Done"}
  BY DEF RtmpInv, Shape
<1>4. srv.shake = "Done" /\ path[1].at = srv.state BY <1>2, <1>3 DEF Stage
<1>5. srv' = Reading(Fed(srv, Head(wire))) BY <1>1, <1>4 DEF Reading
<1> QED BY <1>1, <1>2, <1>3, <1>4, <1>5

(* To read a command or a window keeps the invariant. *)
LEMMA ReadSaid ==
  ASSUME RtmpInv, NEW path, Follows(path), ~app.done, Read, Said(path[1], Head(wire), path[2]),
         WellWritten(path[1].enc), path[1].had \in Nat
  PROVE  RtmpInv'
<1> DEFINE a == path[1]
           b == path[2]
           ch == Head(wire)
<1>1. PICK name \in Names :
        /\ ch = FirstChunk(0, Command, 0, "command", <<<<name, 0>>>>, a.enc.size)
        /\ Leads(a.at, name, b.at)
  BY DEF Said
<1>2. b.enc = a.enc /\ b.had = a.had BY DEF Said
<1>3. a.at \notin Shakes BY <1>1 DEF Leads, Shakes, Ending
<1> DEFINE word == <<name, 0>>
           body == <<word>>
           st == srv.state
           d == Decoded(srv.dec, ch)
           es == Grown(srv.events, name, st)
           os == Replied(srv.out, name)
<1>4. /\ wire # <<>> /\ wire' = Tail(wire) /\ UNCHANGED <<pub, enc, back, app, hist>>
      /\ srv' = Reading(Fed(srv, ch))
      /\ srv.shake = "Done" /\ a.at = st /\ Matches(srv.dec, a.enc) /\ Pending(a.had)
      /\ srv = Server("Done", st, srv.dec, srv.full, srv.reading, srv.events, srv.out, srv.refused)
      /\ srv.out \in Seq(Answers) /\ st \in States /\ srv.events \in Seq(Events)
  BY <1>3, ReadIs
<1>5. IsSaid(srv.dec, ch, a.enc, "command", word)
  <2>1. word \in Words BY DEF Words, Tags
  <2>2. Command \in {Control, Command} /\ "command" \in Types BY DEF Types
  <2> QED BY <1>1, <1>4, <2>1, <2>2, SaidRead
<1>6. /\ \A limit \in Nat \ {0} : ~Refuses(srv.dec, ch, limit)
      /\ Completes(srv.dec, ch) /\ Message(srv.dec, ch) = [type |-> "command", ts |-> 0, body |-> body]
      /\ Matches(d, a.enc) /\ Headed(srv.dec, ch).type = "command"
  BY <1>5 DEF IsSaid
<1> HIDE DEF ch, d, a, b
<1>7. ~Refuses(srv.dec, ch, Limit(srv, Headed(srv.dec, ch).type))
  <2>1. Limit(srv, "command") = SmallMessage BY DEF Limit, Media
  <2>2. SmallMessage \in Nat \ {0} BY RtmpConstants
  <2> QED BY <1>6, <2>1, <2>2
<1> DEFINE s == Server("Done", st, srv.dec, srv.full, srv.reading, srv.events, srv.out, srv.refused)
           t == Server("Done", st, d, srv.full, srv.reading, srv.events, srv.out, srv.refused)
           u == Server("Done", b.at, d, srv.full, srv.reading, es, os, srv.refused)
<1>8. Fed(srv, ch) = Handled(t, Message(srv.dec, ch))
  <2>1. ~Refuses(srv.dec, ch, Limit(s, Headed(srv.dec, ch).type)) BY <1>4, <1>7
  <2>2. Fed(s, ch) = IF Completes(srv.dec, ch) THEN Handled(t, Message(srv.dec, ch)) ELSE t
    BY <2>1, FedIs DEF d
  <2>3. srv = s BY <1>4
  <2> HIDE DEF s, t
  <2> QED BY <1>6, <2>2, <2>3
<1>9. Handled(t, Message(srv.dec, ch)) = Commanded(t, name)
  <2>1. body[1][1] = name OBVIOUS
  <2> HIDE DEF t, body
  <2>2. Handled(t, [type |-> "command", ts |-> 0, body |-> body]) = Commanded(t, body[1][1])
    BY DEF Handled
  <2> QED BY <1>6, <2>1, <2>2
<1>10. Commanded(t, name) = u BY <1>1, <1>4, CommandedIs
<1>11. srv' = Server("Done", b.at, d, srv.full, TRUE, es, os, srv.refused)
  <2>1. Fed(srv, ch) = u BY <1>8, <1>9, <1>10
  <2>2. srv' = Reading(Fed(srv, ch)) BY <1>4
  <2>3. srv' = Server("Done", b.at, d, srv.full, TRUE, es, os, srv.refused) BY <2>1, <2>2, ReadEnds
  <2> QED BY <1>4, <2>3
<1> HIDE DEF s, t, u, word, body
<1>12. srv'.shake = "Done" /\ srv'.state = b.at /\ srv'.events = es /\ srv'.full = srv.full
  BY <1>11 DEF Server
<1>13. b.at \in States /\ b.at = Stage(srv')
  <2>1. b.at \in States BY <1>1, <1>4 DEF Leads, States
  <2> QED BY <1>12, <2>1 DEF Stage
<1>14. Ordered' /\ Publishes' /\ Pending(a.had)' /\ es \in Seq(Events)
  <2>1. Ordered /\ Publishes BY DEF RtmpInv
  <2>2. PICK had \in Nat : had = a.had BY DEF a
  <2>3. Leads(st, name, srv'.state) BY <1>1, <1>4, <1>12
  <2>4. Ordered' /\ Publishes' /\ Pending(had)' /\ srv'.events \in Seq(Events)
    BY <1>4, <1>12, <2>1, <2>2, <2>3, SaidOrdered
  <2> QED BY <1>12, <2>2, <2>4 DEF a
<1>15. os \in Seq(Answers) /\ (Among("Publish.Start", os) => Among("Publish.Start", srv.out))
  BY <1>4, RepliedIs
<1>16. srv.state \in {"Publishing", "Closed"} => b.at \in {"Publishing", "Closed"}
  BY <1>1, <1>4 DEF Leads, Ending, Names
<1> HIDE DEF es, os, st
<1>17. PICK dec, es2, os2, state : dec = d /\ es2 = es /\ os2 = os /\ state = b.at OBVIOUS
<1>18. Matches(dec, path[2].enc) BY <1>2, <1>6, <1>17 DEF a, b
<1>19. path[2].at = Stage(srv') /\ Pending(path[2].had)'
  BY <1>2, <1>13, <1>14 DEF a, b
<1>20. srv' = Server("Done", state, dec, srv.full, TRUE, es2, os2, srv.refused) BY <1>11, <1>17
<1>21. /\ es2 \in Seq(Events) /\ os2 \in Seq(Answers) /\ state \in States
       /\ Among("Publish.Start", os2) => Among("Publish.Start", srv.out)
       /\ srv.state \in {"Publishing", "Closed"} => state \in {"Publishing", "Closed"}
  BY <1>13, <1>14, <1>15, <1>16, <1>17
<1>22. "Done" \in Shakes \cup {"Done"} OBVIOUS
<1> QED BY <1>4, <1>14, <1>18, <1>19, <1>20, <1>21, <1>22, ReadCloses

(* What is for the decoder changes nothing else of the session. *)
ControlsWith(e, ch, f) ==
  \/ ch = InControl(e, "window", <<"window", 0>>) /\ f = e
  \/ \E n \in Nat \ {0} : ch = InControl(e, "size", <<"size", n>>) /\ f = [e EXCEPT !.size = n]
  \/ \E k \in Media : /\ ch = InControl(e, "abort", <<"abort", CsidOf(k)>>)
                      /\ f = [e EXCEPT !.streams[k].left = <<>>]

(* What a change of the chunk size or an abort does to the session         *)
(* (handle_control).                                                       *)
LEMMA ControlIs ==
  ASSUME NEW e, WellWritten(e), NEW d, Matches(d, e), NEW ch, NEW f,
         NEW sh, NEW st, NEW r, NEW ev, NEW o, NEW x,
         ControlsWith(e, ch, f)
  PROVE  /\ \A limit \in Nat \ {0} : ~Refuses(d, ch, limit)
         /\ Completes(d, ch) /\ Headed(d, ch).type \notin Media
         /\ \E d2 : /\ Matches(d2, f)
                    /\ \A full : Handled(Server(sh, st, Decoded(d, ch), full, r, ev, o, x), Message(d, ch))
                                   = Server(sh, st, d2, full, r, ev, o, x)
<1> DEFINE D == Decoded(d, ch)
<1>1. ASSUME NEW type \in {"window", "size", "abort"}, NEW word \in Words, ch = InControl(e, type, word)
      PROVE  IsSaid(d, ch, e, type, word)
  <2>1. Control \in {Control, Command} /\ type \in Types BY DEF Types
  <2> QED BY <1>1, <2>1, SaidRead DEF InControl
<1>2. ASSUME NEW type \in {"window", "size", "abort"}, NEW word, IsSaid(d, ch, e, type, word)
      PROVE  /\ \A limit \in Nat \ {0} : ~Refuses(d, ch, limit)
             /\ Completes(d, ch) /\ Message(d, ch) = [type |-> type, ts |-> 0, body |-> <<word>>]
             /\ Matches(D, e) /\ Headed(d, ch).type \notin Media
  BY <1>2 DEF IsSaid, Media
<1> DEFINE Goal(d2) == \A full : Handled(Server(sh, st, D, full, r, ev, o, x), Message(d, ch))
                                   = Server(sh, st, d2, full, r, ev, o, x)
<1>3. CASE ch = InControl(e, "window", <<"window", 0>>) /\ f = e
  <2>1. <<"window", 0>> \in Words BY DEF Words, Tags
  <2>2. IsSaid(d, ch, e, "window", <<"window", 0>>) BY <1>1, <1>3, <2>1
  <2>3. /\ \A limit \in Nat \ {0} : ~Refuses(d, ch, limit)
        /\ Completes(d, ch) /\ Message(d, ch) = [type |-> "window", ts |-> 0, body |-> <<<<"window", 0>>>>]
        /\ Matches(D, e) /\ Headed(d, ch).type \notin Media
    BY <1>2, <2>2
  <2>4. Message(d, ch).type = "window" BY <2>3
  <2> HIDE DEF D
  <2>5. Goal(D) BY <2>4 DEF Handled
  <2> QED BY <1>3, <2>3, <2>5 DEF D
<1>4. ASSUME NEW n \in Nat \ {0}, ch = InControl(e, "size", <<"size", n>>), f = [e EXCEPT !.size = n]
      PROVE  /\ \A limit \in Nat \ {0} : ~Refuses(d, ch, limit)
             /\ Completes(d, ch) /\ Headed(d, ch).type \notin Media
             /\ \E d2 : Matches(d2, f) /\ Goal(d2)
  <2>1. <<"size", n>> \in Words
    <3>1. n \in Int OBVIOUS
    <3> QED BY <3>1 DEF Words, Tags
  <2> DEFINE word == <<"size", n>>
             body == <<word>>
  <2>2. IsSaid(d, ch, e, "size", word) BY <1>1, <1>4, <2>1
  <2>3. /\ \A limit \in Nat \ {0} : ~Refuses(d, ch, limit)
        /\ Completes(d, ch) /\ Message(d, ch) = [type |-> "size", ts |-> 0, body |-> body]
        /\ Matches(D, e) /\ Headed(d, ch).type \notin Media
    BY <1>2, <2>2
  <2>4. body[1][2] = n OBVIOUS
  <2> HIDE DEF word, body, D
  <2>5. Message(d, ch).type = "size" /\ Message(d, ch).body[1][2] = n BY <2>3, <2>4
  <2>6. Goal(Resized(D, n))
    <3> SUFFICES ASSUME NEW full
                 PROVE  Handled(Server(sh, st, D, full, r, ev, o, x), Message(d, ch))
                          = Server(sh, st, Resized(D, n), full, r, ev, o, x)
      OBVIOUS
    <3> DEFINE s == Server(sh, st, D, full, r, ev, o, x)
               y == Resized(D, n)
    <3>1. Handled(s, Message(d, ch)) = [s EXCEPT !.dec = Resized(@, n)] BY <2>5 DEF Handled
    <3>2. s.dec = D BY DEF Server
    <3>3. Handled(s, Message(d, ch)) = [s EXCEPT !.dec = y] BY <3>1, <3>2
    <3> HIDE DEF y
    <3>4. [s EXCEPT !.dec = y] = Server(sh, st, y, full, r, ev, o, x) BY DEF Server
    <3> HIDE DEF s
    <3>5. Handled(s, Message(d, ch)) = Server(sh, st, y, full, r, ev, o, x) BY <3>3, <3>4
    <3> QED BY <3>5 DEF s, y
  <2>7. Matches(Resized(D, n), f) BY <1>4, <2>3, ResizedRead
  <2> QED BY <2>3, <2>6, <2>7
<1>5. ASSUME NEW k \in Media, ch = InControl(e, "abort", <<"abort", CsidOf(k)>>),
             f = [e EXCEPT !.streams[k].left = <<>>]
      PROVE  /\ \A limit \in Nat \ {0} : ~Refuses(d, ch, limit)
             /\ Completes(d, ch) /\ Headed(d, ch).type \notin Media
             /\ \E d2 : Matches(d2, f) /\ Goal(d2)
  <2> DEFINE c == CsidOf(k)
  <2>8. c \in Int BY Csid
  <2> HIDE DEF c
  <2>1. <<"abort", c>> \in Words BY <2>8 DEF Words, Tags
  <2> DEFINE word == <<"abort", c>>
             body == <<word>>
  <2>2. IsSaid(d, ch, e, "abort", word) BY <1>1, <1>5, <2>1 DEF c
  <2>3. /\ \A limit \in Nat \ {0} : ~Refuses(d, ch, limit)
        /\ Completes(d, ch) /\ Message(d, ch) = [type |-> "abort", ts |-> 0, body |-> body]
        /\ Matches(D, e) /\ Headed(d, ch).type \notin Media
    BY <1>2, <2>2
  <2>4. body[1][2] = c OBVIOUS
  <2> HIDE DEF word, body, D
  <2>5. Message(d, ch).type = "abort" /\ Message(d, ch).body[1][2] = c BY <2>3, <2>4
  <2>6. Goal(Aborted(D, c))
    <3> SUFFICES ASSUME NEW full
                 PROVE  Handled(Server(sh, st, D, full, r, ev, o, x), Message(d, ch))
                          = Server(sh, st, Aborted(D, c), full, r, ev, o, x)
      OBVIOUS
    <3> DEFINE s == Server(sh, st, D, full, r, ev, o, x)
               y == Aborted(D, c)
    <3>1. Handled(s, Message(d, ch)) = [s EXCEPT !.dec = Aborted(@, c)] BY <2>5 DEF Handled
    <3>2. s.dec = D BY DEF Server
    <3>3. Handled(s, Message(d, ch)) = [s EXCEPT !.dec = y] BY <3>1, <3>2
    <3> HIDE DEF y
    <3>4. [s EXCEPT !.dec = y] = Server(sh, st, y, full, r, ev, o, x) BY DEF Server
    <3> HIDE DEF s
    <3>5. Handled(s, Message(d, ch)) = Server(sh, st, y, full, r, ev, o, x) BY <3>3, <3>4
    <3> QED BY <3>5 DEF s, y
  <2>7. Matches(Aborted(D, c), f) BY <1>5, <2>3, AbortedRead DEF c
  <2> QED BY <2>3, <2>6, <2>7
<1> QED BY <1>3, <1>4, <1>5 DEF ControlsWith

(* To read a change of the chunk size or an abort keeps the invariant. *)
LEMMA ReadControlled ==
  ASSUME RtmpInv, NEW path, Follows(path), ~app.done, Read, Controlled(path[1], Head(wire), path[2]),
         WellWritten(path[1].enc)
  PROVE  RtmpInv'
<1> DEFINE a == path[1]
           b == path[2]
           ch == Head(wire)
           st == srv.state
           d == Decoded(srv.dec, ch)
<1>1. a.at \notin Shakes /\ b.at = a.at /\ b.had = a.had BY DEF Controlled
<1>4. /\ wire # <<>> /\ wire' = Tail(wire) /\ UNCHANGED <<pub, enc, back, app, hist>>
      /\ srv' = Reading(Fed(srv, ch))
      /\ srv.shake = "Done" /\ a.at = st /\ Matches(srv.dec, a.enc) /\ Pending(a.had)
      /\ srv = Server("Done", st, srv.dec, srv.full, srv.reading, srv.events, srv.out, srv.refused)
      /\ srv.out \in Seq(Answers) /\ st \in States /\ srv.events \in Seq(Events)
  BY <1>1, ReadIs
<1> DEFINE s == Server("Done", st, srv.dec, srv.full, srv.reading, srv.events, srv.out, srv.refused)
           t == Server("Done", st, d, srv.full, srv.reading, srv.events, srv.out, srv.refused)
<1>5. /\ \A limit \in Nat \ {0} : ~Refuses(srv.dec, ch, limit)
      /\ Completes(srv.dec, ch) /\ Headed(srv.dec, ch).type \notin Media
      /\ \E d2 : /\ Matches(d2, b.enc)
                 /\ Handled(t, Message(srv.dec, ch))
                      = Server("Done", st, d2, srv.full, srv.reading, srv.events, srv.out, srv.refused)
  <2>1. ControlsWith(a.enc, ch, b.enc) BY DEF Controlled, ControlsWith
  <2>2. PICK e, f, dec : e = a.enc /\ f = b.enc /\ dec = srv.dec OBVIOUS
  <2>3. WellWritten(e) /\ Matches(dec, e) BY <1>4, <2>2
  <2> HIDE DEF a, b, ch, st
  <2>4. ControlsWith(e, ch, f) BY <2>1, <2>2
  <2>5. /\ \A limit \in Nat \ {0} : ~Refuses(dec, ch, limit)
        /\ Completes(dec, ch) /\ Headed(dec, ch).type \notin Media
        /\ \E d2 : /\ Matches(d2, f)
                   /\ \A full :
                        Handled(Server("Done", st, Decoded(dec, ch), full, srv.reading, srv.events,
                                       srv.out, srv.refused), Message(dec, ch))
                                  = Server("Done", st, d2, full, srv.reading, srv.events, srv.out, srv.refused)
    BY <2>3, <2>4, ControlIs
  <2> QED BY <2>2, <2>5, SMTT(30)
<1>6. PICK d2 : /\ Matches(d2, b.enc)
                /\ Handled(t, Message(srv.dec, ch))
                     = Server("Done", st, d2, srv.full, srv.reading, srv.events, srv.out, srv.refused)
  BY <1>5
<1>7. ~Refuses(srv.dec, ch, Limit(srv, Headed(srv.dec, ch).type))
  <2>1. Limit(srv, Headed(srv.dec, ch).type) = SmallMessage BY <1>5 DEF Limit
  <2>2. SmallMessage \in Nat \ {0} BY RtmpConstants
  <2> QED BY <1>5, <2>1, <2>2
<1> HIDE DEF a, b, ch, d
<1>8. Fed(srv, ch) = Handled(t, Message(srv.dec, ch))
  <2>1. ~Refuses(srv.dec, ch, Limit(s, Headed(srv.dec, ch).type)) BY <1>4, <1>7
  <2>2. Fed(s, ch) = IF Completes(srv.dec, ch) THEN Handled(t, Message(srv.dec, ch)) ELSE t
    BY <2>1, FedIs DEF d
  <2>3. srv = s BY <1>4
  <2> HIDE DEF s, t
  <2> QED BY <1>5, <2>2, <2>3
<1>11. srv' = Server("Done", st, d2, srv.full, TRUE, srv.events, srv.out, srv.refused)
  <2>1. Fed(srv, ch) = Server("Done", st, d2, srv.full, srv.reading, srv.events, srv.out, srv.refused)
    BY <1>6, <1>8
  <2> QED BY <1>4, <2>1, ReadEnds, ZenonT(30)
<1> HIDE DEF s, t
<1>12. srv'.shake = "Done" /\ srv'.state = st /\ srv'.events = srv.events /\ srv'.full = srv.full
  BY <1>11 DEF Server
<1>13. b.at = Stage(srv') BY <1>1, <1>4, <1>12 DEF Stage
<1>14. Ordered' /\ Publishes'
  <2>1. Ordered /\ Publishes BY DEF RtmpInv
  <2>2. Ordered' BY <1>4, <1>12, <2>1 DEF Ordered, LastKind
  <2>3. Publishes' BY <1>4, <1>12, <2>1 DEF Publishes, LastKind
  <2> QED BY <2>2, <2>3
<1>19. path[2].at = Stage(srv') /\ Pending(path[2].had)' /\ Matches(d2, path[2].enc)
  <2>1. Pending(path[2].had)'
    <3>1. PICK had : had = path[2].had OBVIOUS
    <3>2. Pending(had) BY <1>1, <1>4, <3>1 DEF a, b
    <3>3. Pending(had)' BY <1>4, <1>12, <3>2 DEF Pending, Came
    <3> QED BY <3>1, <3>3
  <2> QED BY <1>6, <1>13, <2>1 DEF b
<1>20. PICK es2, os2, state : es2 = srv.events /\ os2 = srv.out /\ state = st OBVIOUS
<1>21. srv' = Server("Done", state, d2, srv.full, TRUE, es2, os2, srv.refused) BY <1>11, <1>20
<1>22. /\ es2 \in Seq(Events) /\ os2 \in Seq(Answers) /\ state \in States
       /\ Among("Publish.Start", os2) => Among("Publish.Start", srv.out)
       /\ srv.state \in {"Publishing", "Closed"} => state \in {"Publishing", "Closed"}
  BY <1>4, <1>20
<1>23. "Done" \in Shakes \cup {"Done"} OBVIOUS
<1> QED BY <1>4, <1>14, <1>19, <1>21, <1>22, <1>23, ReadCloses

(* A chunk of media, the first of a message or another. *)
LEMMA MediaIs ==
  ASSUME NEW due, NEW a, NEW b, NEW ch, NEW d, Matches(d, a.enc), WellWritten(a.enc), NEW k \in Media,
         Began(k, a, ch, b, due) \/ WentOn(k, a, ch, b, due)
  PROVE  \E new \in EncStreams : /\ IsMediaRead(d, ch, k, new, b.enc) /\ b.enc.streams[k] = new
                                 /\ Finishes(k, a, b, due)
<1> DEFINE e == a.enc
           st == e.streams[k]
<1>1. e \in Encoders /\ e.size \in Nat \ {0} /\ st \in EncStreams BY DEF WellWritten, Encoders
<1>2. CASE Began(k, a, ch, b, due)
  <2>1. PICK fmt \in 0 .. 3, t \in Int, body \in Seq(Words) :
          LET delta == t - st.t
              value == IF fmt = 0 THEN t % TsMod ELSE delta
          IN /\ value \in Bits /\ 1 <= Len(body) /\ Len(body) <= 2
             /\ MayWrite(fmt, st, body, delta)
             /\ ch = FirstChunk(fmt, CsidOf(k), value, k, body, e.size)
             /\ b.enc = Amended(e, k, Begun(value, t, body, e.size), FALSE)
    BY <1>2 DEF Began
  <2>2. PICK value \in Bits : /\ value = IF fmt = 0 THEN t % TsMod ELSE t - st.t
                              /\ ch = FirstChunk(fmt, CsidOf(k), value, k, body, e.size)
                              /\ b.enc = Amended(e, k, Begun(value, t, body, e.size), FALSE)
    BY <2>1
  <2>3. 1 <= Len(body) /\ Len(body) <= 2 /\ MayWrite(fmt, st, body, t - st.t) BY <2>1
  <2>4. st.left = <<>> /\ Finishes(k, a, b, due) BY <1>2 DEF Began
  <2> DEFINE new == Begun(value, t, body, e.size)
  <2> HIDE DEF e
  <2>5. IsMediaRead(d, ch, k, new, Amended(e, k, new, FALSE))
    BY <2>2, <2>3, <2>4, BegunRead DEF e
  <2>6. IsBegun(new, value, t, body, e.size) BY <1>1, <2>3, BegunIs
  <2> HIDE DEF new
  <2>7. new \in EncStreams BY <2>6 DEF IsBegun
  <2>8. FALSE \in BOOLEAN OBVIOUS
  <2>9. IsAmended(Amended(e, k, new, FALSE), e, k, new, FALSE) BY <1>1, <2>7, <2>8, AmendedIs
  <2>10. b.enc = Amended(e, k, new, FALSE) BY <2>2 DEF new
  <2>11. b.enc.streams[k] = new BY <2>9, <2>10 DEF IsAmended
  <2> QED BY <2>4, <2>5, <2>7, <2>10, <2>11, ZenonT(30)
<1>3. CASE WentOn(k, a, ch, b, due)
  <2> DEFINE new == [st EXCEPT !.left = Rest(@, e.size)]
             w == st.ext # NoExt
  <2>1. /\ st.left # <<>> /\ ch = NextChunk(CsidOf(k), st.ext, e.repeats, st.left, e.size)
        /\ b.enc = Amended(e, k, new, w) /\ Finishes(k, a, b, due)
    BY <1>3 DEF WentOn
  <2>2. PICK f, s : f = e /\ s = st OBVIOUS
  <2>3. IsMediaRead(d, ch, k, [s EXCEPT !.left = Rest(@, f.size)],
                    Amended(f, k, [s EXCEPT !.left = Rest(@, f.size)], s.ext # NoExt))
    BY <2>1, <2>2, WentOnRead
  <2>4. IsMediaRead(d, ch, k, new, Amended(e, k, new, w)) BY <2>2, <2>3
  <2>5. IsGoneOn(new, st, e.size) BY <1>1, <2>1, GoneOnIs
  <2> HIDE DEF new, w
  <2>6. new \in EncStreams BY <2>5 DEF IsGoneOn
  <2>7. w \in BOOLEAN BY DEF w
  <2> HIDE DEF e
  <2>8. IsAmended(Amended(e, k, new, w), e, k, new, w) BY <1>1, <2>6, <2>7, AmendedIs
  <2>9. b.enc.streams[k] = new BY <2>1, <2>8 DEF IsAmended
  <2> QED BY <2>1, <2>4, <2>6, <2>9
<1> QED BY <1>2, <1>3

(* A message of media is the next that is due. *)
LEMMA ComesNext ==
  ASSUME Ordered, Publishes, srv.events \in Seq(Events), srv.state = "Publishing", srv.shake = "Done",
         NEW had \in Nat, Pending(had), NEW e \in Events, e.kind \in Media, e = Came(hist.due[had + 1]),
         srv'.events = Append(srv.events, e), srv'.state = srv.state, srv'.full = srv.full,
         srv'.shake = srv.shake, app' = app, hist' = hist
  PROVE  Ordered' /\ Publishes' /\ Pending(had + 1)' /\ srv'.events \in Seq(Events)
<1> DEFINE s == srv.events
           t == srv'.events
<1>1. t \in Seq(Events) /\ IsAppended(t, s, e) BY AppendedIs
<1>2. srv.full /\ \A i \in 1 .. Len(s) : s[i].kind \in Media BY DEF Ordered
<1>3. Len(s) \in Nat /\ had <= Len(s) /\ (\A i \in 1 .. had : s[i] = Came(hist.due[i]))
      /\ \A i \in had + 1 .. Len(s) : s[i].kind \in {"connect", "publish", "unpublish"}
  BY DEF Pending
<1>4. /\ Len(t) = Len(s) + 1 /\ t[Len(t)] = e
      /\ \A i \in 1 .. Len(t) : i # Len(t) => i \in 1 .. Len(s) /\ t[i] = s[i]
  BY <1>1 DEF IsAppended
<1>5. \A x \in Media : x \notin {"connect", "publish", "unpublish"} BY DEF Media
<1> HIDE DEF s, t
<1>6. had = Len(s)
  <2> SUFFICES ASSUME had # Len(s) PROVE FALSE OBVIOUS
  <2>1. Len(s) \in had + 1 .. Len(s) /\ Len(s) \in 1 .. Len(s) BY <1>3
  <2> QED BY <1>2, <1>3, <1>5, <2>1
<1>7. \A i \in 1 .. Len(t) : t[i].kind \in Media BY <1>2, <1>4
<1>8. Ordered'
  <2>1. srv'.full = srv.full /\ srv.full BY <1>2
  <2>2. srv'.full BY <2>1
  <2> QED BY <1>7, <2>2 DEF Ordered, t
<1>9. Publishes' BY <1>5, <1>7 DEF Publishes, t
<1>10. Pending(had + 1)'
  <2>1. Len(t) = had + 1 BY <1>4, <1>6
  <2>2. ASSUME NEW i \in 1 .. had + 1 PROVE t[i] = Came(hist.due[i])
    <3>1. CASE i = had + 1 BY <1>4, <2>1, <3>1
    <3>2. CASE i # had + 1
      <4>1. i \in 1 .. had /\ i \in 1 .. Len(t) /\ i # Len(t) BY <2>1, <3>2
      <4> QED BY <1>3, <1>4, <4>1
    <3> QED BY <3>1, <3>2
  <2>3. \A i \in (had + 1) + 1 .. Len(t) : FALSE BY <2>1
  <2>4. had + 1 <= Len(t) BY <2>1
  <2> QED BY <2>2, <2>3, <2>4 DEF Pending, Came, t
<1> QED BY <1>1, <1>8, <1>9, <1>10 DEF t

(* What a message of media does to the session (handle). *)
LEMMA CameIs ==
  ASSUME NEW sh, NEW st, NEW d, NEW f, NEW r, NEW e, NEW o, NEW x, NEW m, NEW ev, st = "Publishing",
         m.type \in Media, ev = [kind |-> m.type, ts |-> m.ts, body |-> m.body]
  PROVE  Handled(Server(sh, st, d, f, r, e, o, x), m) = Server(sh, st, d, f, r, Append(e, ev), o, x)
<1> DEFINE s == Server(sh, st, d, f, r, e, o, x)
<1>1. s.state = st BY DEF Server
<1>2. Event(s, ev) = Server(sh, st, d, f, r, Append(e, ev), o, x) BY SMTT(30) DEF Event, Server
<1> HIDE DEF s
<1>3. m.type \notin {"size", "abort", "window", "command"} BY DEF Media
<1>4. Handled(s, m) = MediaCame(s, m) BY <1>3 DEF Handled
<1>5. MediaCame(s, m) = Event(s, ev) BY <1>1 DEF MediaCame
<1>6. Handled(s, m) = Server(sh, st, d, f, r, Append(e, ev), o, x) BY <1>2, <1>4, <1>5
<1> QED BY <1>6 DEF s

(* To read a chunk of media keeps the invariant. *)
LEMMA ReadMedia ==
  ASSUME RtmpInv, NEW path, Follows(path), ~app.done, Read, NEW k \in Media,
         path[1].at = "Publishing", path[2].at = "Publishing",
         Began(k, path[1], Head(wire), path[2], hist.due) \/ WentOn(k, path[1], Head(wire), path[2], hist.due),
         WellWritten(path[1].enc), path[1].had \in Nat, path[2].had \in 0 .. Len(hist.due)
  PROVE  RtmpInv'
<1> DEFINE a == path[1]
           b == path[2]
           ch == Head(wire)
           st == srv.state
           d == Decoded(srv.dec, ch)
<1>1. a.at \notin Shakes BY DEF Shakes
<1>4. /\ wire # <<>> /\ wire' = Tail(wire) /\ UNCHANGED <<pub, enc, back, app, hist>>
      /\ srv' = Reading(Fed(srv, ch))
      /\ srv.shake = "Done" /\ a.at = st /\ Matches(srv.dec, a.enc) /\ Pending(a.had)
      /\ srv = Server("Done", st, srv.dec, srv.full, srv.reading, srv.events, srv.out, srv.refused)
      /\ srv.out \in Seq(Answers) /\ st \in States /\ srv.events \in Seq(Events)
  BY <1>1, ReadIs
<1>5. PICK new \in EncStreams : /\ IsMediaRead(srv.dec, ch, k, new, b.enc) /\ b.enc.streams[k] = new
                                /\ Finishes(k, a, b, hist.due)
  <2>1. PICK dec, due : dec = srv.dec /\ due = hist.due OBVIOUS
  <2>2. Matches(dec, a.enc) BY <1>4, <2>1
  <2>3. Began(k, a, ch, b, due) \/ WentOn(k, a, ch, b, due) BY <2>1
  <2> HIDE DEF a, b, ch
  <2>4. WellWritten(a.enc) BY DEF a
  <2>5. \E new \in EncStreams : /\ IsMediaRead(dec, ch, k, new, b.enc) /\ b.enc.streams[k] = new
                                /\ Finishes(k, a, b, due)
    BY <2>2, <2>3, <2>4, MediaIs
  <2> QED BY <2>1, <2>5
<1>6. /\ \A limit \in Nat : limit >= 2 => ~Refuses(srv.dec, ch, limit)
      /\ Headed(srv.dec, ch).type = k
      /\ Completes(srv.dec, ch) <=> new.left = <<>>
      /\ Completes(srv.dec, ch) => Message(srv.dec, ch) = [type |-> k, ts |-> new.t % TsMod, body |-> new.body]
      /\ Matches(d, b.enc)
  BY <1>5 DEF IsMediaRead
<1> HIDE DEF ch, d, a, b
<1>16. st = "Publishing" /\ b.at = "Publishing" BY <1>4 DEF a, b
<1>7. ~Refuses(srv.dec, ch, Limit(srv, Headed(srv.dec, ch).type))
  <2>1. srv.full BY <1>16 DEF RtmpInv, Ordered
  <2>2. Limit(srv, k) = MaxPending BY <2>1 DEF Limit
  <2>3. MaxPending \in Nat /\ MaxPending >= 2
    <3>1. MaxPending \in Nat /\ MaxPending >= 4 BY ChunkConstants, RtmpConstants
    <3> QED BY <3>1
  <2> QED BY <1>6, <2>2, <2>3
<1> DEFINE s == Server("Done", st, srv.dec, srv.full, srv.reading, srv.events, srv.out, srv.refused)
           t == Server("Done", st, d, srv.full, srv.reading, srv.events, srv.out, srv.refused)
<1>8. Fed(srv, ch) = IF Completes(srv.dec, ch) THEN Handled(t, Message(srv.dec, ch)) ELSE t
  <2>1. ~Refuses(srv.dec, ch, Limit(s, Headed(srv.dec, ch).type)) BY <1>4, <1>7
  <2>2. Fed(s, ch) = IF Completes(srv.dec, ch) THEN Handled(t, Message(srv.dec, ch)) ELSE t
    BY <2>1, FedIs DEF d
  <2>3. srv = s BY <1>4
  <2> HIDE DEF s, t
  <2> QED BY <2>2, <2>3
<1>14. ASSUME NEW es, Fed(srv, ch) = Server("Done", st, d, srv.full, srv.reading, es, srv.out, srv.refused)
       PROVE  srv' = Server("Done", st, d, srv.full, TRUE, es, srv.out, srv.refused)
  <2>1. PICK state, dec, full, reading, os, refused :
          /\ state = st /\ dec = d /\ full = srv.full /\ reading = srv.reading /\ os = srv.out
          /\ refused = srv.refused
    OBVIOUS
  <2>2. PICK x : x = Fed(srv, ch) OBVIOUS
  <2>3. x = Server("Done", state, dec, full, reading, es, os, refused) BY <1>14, <2>1, <2>2
  <2>4. srv' = Reading(x) BY <1>4, <2>2
  <2>5. srv' = Server("Done", state, dec, full, TRUE, es, os, refused) BY <2>3, <2>4, ReadEnds
  <2> QED BY <2>1, <2>5
<1>9. ASSUME NEW es, srv' = Server("Done", st, d, srv.full, TRUE, es, srv.out, srv.refused),
             Ordered', Publishes', Pending(b.had)', es \in Seq(Events)
      PROVE  RtmpInv'
  <2>1. PICK dec, es2, os2, state : dec = d /\ es2 = es /\ os2 = srv.out /\ state = st OBVIOUS
  <2>2. srv' = Server("Done", state, dec, srv.full, TRUE, es2, os2, srv.refused) BY <1>9, <2>1
  <2>3. srv'.shake = "Done" /\ srv'.state = state BY <2>2 DEF Server
  <2>4. path[2].at = Stage(srv') BY <1>16, <2>1, <2>3 DEF Stage, b
  <2>5. Matches(dec, path[2].enc) BY <1>6, <2>1 DEF b
  <2>6. /\ es2 \in Seq(Events) /\ os2 \in Seq(Answers) /\ state \in States
        /\ Among("Publish.Start", os2) => Among("Publish.Start", srv.out)
        /\ srv.state \in {"Publishing", "Closed"} => state \in {"Publishing", "Closed"}
    BY <1>4, <1>9, <2>1
  <2>7. "Done" \in Shakes \cup {"Done"} OBVIOUS
  <2>8. Pending(path[2].had)' BY <1>9 DEF b
  <2> HIDE DEF st
  <2> QED BY <1>4, <1>9, <2>2, <2>4, <2>5, <2>6, <2>7, <2>8, ReadCloses
<1>10. Ordered /\ Publishes BY DEF RtmpInv
<1>11. PICK had \in Nat : had = a.had BY DEF a
<1>12. CASE new.left # <<>>
  <2>1. Fed(srv, ch) = Server("Done", st, d, srv.full, srv.reading, srv.events, srv.out, srv.refused)
    BY <1>6, <1>8, <1>12
  <2>2. srv' = Server("Done", st, d, srv.full, TRUE, srv.events, srv.out, srv.refused) BY <1>14, <2>1
  <2>3. srv'.shake = "Done" /\ srv'.state = st /\ srv'.events = srv.events /\ srv'.full = srv.full
    BY <2>2 DEF Server
  <2>4. Ordered' BY <1>4, <1>10, <2>3 DEF Ordered, LastKind
  <2>5. Publishes' BY <1>4, <1>10, <2>3 DEF Publishes, LastKind
  <2>6. b.had = had BY <1>5, <1>11, <1>12 DEF Finishes
  <2>7. Pending(had)' BY <1>4, <1>11, <2>3 DEF Pending, Came
  <2>8. Pending(b.had)' BY <2>6, <2>7 DEF b
  <2> QED BY <1>4, <1>9, <2>2, <2>4, <2>5, <2>8
<1>13. CASE new.left = <<>>
  <2> DEFINE ev == [kind |-> k, ts |-> new.t % TsMod, body |-> new.body]
             es == Append(srv.events, ev)
  <2>1. Message(srv.dec, ch) = [type |-> k, ts |-> new.t % TsMod, body |-> new.body] BY <1>6, <1>13
  <2>2. Fed(srv, ch) = Handled(t, Message(srv.dec, ch)) BY <1>6, <1>8, <1>13
  <2>3. Message(srv.dec, ch).type \in Media
        /\ ev = [kind |-> Message(srv.dec, ch).type, ts |-> Message(srv.dec, ch).ts,
                 body |-> Message(srv.dec, ch).body]
    BY <2>1
  <2> HIDE DEF ev
  <2>4. Handled(t, Message(srv.dec, ch)) = Server("Done", st, d, srv.full, srv.reading, es, srv.out, srv.refused)
    BY <1>16, <2>3, CameIs
  <2> HIDE DEF t, es
  <2>5. Fed(srv, ch) = Server("Done", st, d, srv.full, srv.reading, es, srv.out, srv.refused) BY <2>2, <2>4
  <2>6. srv' = Server("Done", st, d, srv.full, TRUE, es, srv.out, srv.refused) BY <1>14, <2>5
  <2>7. srv'.shake = "Done" /\ srv'.state = st /\ srv'.events = es /\ srv'.full = srv.full
    BY <2>6 DEF Server
  <2>8. b.had = had + 1 /\ hist.due[had + 1] = [kind |-> k, ts |-> new.t, body |-> new.body]
    BY <1>5, <1>11, <1>13 DEF Finishes
  <2>9. ev = Came(hist.due[had + 1]) BY <2>8 DEF Came, ev
  <2>10. ev \in Events /\ ev.kind \in Media
    <3>1. new.t % TsMod \in Bits
      <4>1. new.t \in Int BY DEF EncStreams
      <4> QED BY <4>1, ChunkConstants DEF Bits
    <3>2. new.body \in Seq(Words) BY DEF EncStreams
    <3> QED BY <3>1, <3>2 DEF ev, Events
  <2>11. Ordered' /\ Publishes' /\ Pending(had + 1)' /\ srv'.events \in Seq(Events)
    <3>1. PICK e \in Events : e = ev BY <2>10
    <3>2. srv'.events = Append(srv.events, e) BY <2>7, <3>1 DEF es
    <3>3. e = Came(hist.due[had + 1]) /\ e.kind \in Media BY <2>9, <2>10, <3>1
    <3>4. srv.state = "Publishing" /\ srv'.state = srv.state /\ srv'.shake = srv.shake
      BY <1>4, <1>16, <2>7
    <3>5. Pending(had) BY <1>4, <1>11
    <3> QED BY <1>4, <1>10, <2>7, <3>2, <3>3, <3>4, <3>5, ComesNext
  <2>12. Pending(b.had)' BY <2>8, <2>11 DEF b
  <2>13. es \in Seq(Events) BY <2>7, <2>11
  <2> QED BY <1>9, <2>6, <2>11, <2>12, <2>13
<1> QED BY <1>12, <1>13

(* To read a chunk keeps the invariant (feed). *)
LEMMA ReadKeeps ==
  ASSUME RtmpInv, Read
  PROVE  RtmpInv'
<1>1. ~app.done /\ wire # <<>> BY DEF Read, Waiting
<1>2. PICK path : Follows(path) BY <1>1 DEF RtmpInv, InStep
<1>3. wire \in Seq(Chunks) /\ Along(path, wire, hist.due) BY <1>2 DEF RtmpInv, Shape, Follows
<1>4. /\ Wrote(path[1], Head(wire), path[2], hist.due)
      /\ Place(path[1], hist.due) /\ Place(path[2], hist.due)
  BY <1>1, <1>3, Shortened
<1>5. WellWritten(path[1].enc) /\ path[1].had \in Nat /\ path[2].had \in 0 .. Len(hist.due)
  BY <1>4 DEF Place
<1>6. CASE Shook(path[1], path[2]) BY <1>1, <1>2, <1>6, ReadShook
<1>7. CASE Said(path[1], Head(wire), path[2]) BY <1>1, <1>2, <1>5, <1>7, ReadSaid
<1>8. CASE Controlled(path[1], Head(wire), path[2]) BY <1>1, <1>2, <1>5, <1>8, ReadControlled
<1>9. ASSUME path[1].at = "Publishing", path[2].at = "Publishing", NEW k \in Media,
             Began(k, path[1], Head(wire), path[2], hist.due) \/ WentOn(k, path[1], Head(wire), path[2], hist.due)
      PROVE  RtmpInv'
  BY <1>1, <1>2, <1>5, <1>9, ReadMedia
<1> QED BY <1>4, <1>6, <1>7, <1>8, <1>9 DEF Wrote

(* The session goes on from where it is, with what is on the wire as it is. *)
LEMMA SessionCloses ==
  ASSUME RtmpInv, ~app.done, UNCHANGED <<pub, enc, wire>>, EncInv', TimeInv', Ordered', Publishes',
         NEW state \in States, NEW full, NEW reading, NEW es \in Seq(Events), NEW os \in Seq(Answers),
         srv' = Server(srv.shake, state, srv.dec, full, reading, es, os, srv.refused),
         back' \in Seq(Answers),
         app' = [publishing |-> app'.publishing, done |-> app.done, unwrap |-> app'.unwrap],
         NEW path, NEW q, Follows(path), Along(q, wire, hist'.due), q[1].enc = path[1].enc,
         q[1].at = Stage(srv'), Pending(q[1].had)',
         NEW last, last = q[Len(wire) + 1], last.enc = enc, last.had = Len(hist'.due), Expects(last.at)',
         Answered("bandwidth")' => Answered("bandwidth"),
         Answered("Publish.Start")' => state \in {"Publishing", "Closed"}
  PROVE  RtmpInv'
<1>1. /\ srv'.shake = srv.shake /\ srv'.state = state /\ srv'.dec = srv.dec
      /\ srv'.events = es /\ srv'.out = os /\ srv'.refused = srv.refused
      /\ srv' = Server(srv'.shake, srv'.state, srv'.dec, srv'.full, srv'.reading, srv'.events, srv'.out,
                       srv'.refused)
  BY DEF Server
<1>2. Shape' BY <1>1 DEF RtmpInv, Shape
<1>3. NeverRefused' BY <1>1 DEF RtmpInv, NeverRefused
<1>4. Ended' BY DEF Ended
<1>5. Follows(q)'
  <2>1. Matches(srv.dec, path[1].enc) BY DEF Follows
  <2>2. Matches(srv'.dec, q[1].enc) BY <1>1, <2>1
  <2>3. Answered("bandwidth")' => srv'.shake = "Done" BY <1>1 DEF Follows
  <2>4. Answered("Publish.Start")' => srv'.state \in {"Publishing", "Closed"} BY <1>1
  <2> QED BY <2>2, <2>3, <2>4 DEF Follows
<1>6. InStep' BY <1>5 DEF InStep
<1> QED BY <1>2, <1>3, <1>4, <1>6 DEF RtmpInv

(* So does the end of a read. *)
LEMMA EndOfReadKeeps ==
  ASSUME RtmpInv, EndOfRead
  PROVE  RtmpInv'
<1>1. ~app.done /\ UNCHANGED <<pub, enc, wire, back, app, hist>> /\ srv' = [srv EXCEPT !.reading = FALSE]
  BY DEF EndOfRead, Waiting
<1>2. PICK path : Follows(path) BY <1>1 DEF RtmpInv, InStep
<1>3. srv = Server(srv.shake, srv.state, srv.dec, srv.full, srv.reading, srv.events, srv.out, srv.refused)
      /\ srv.out \in Seq(Answers) /\ srv.state \in States /\ srv.events \in Seq(Events) /\ back \in Seq(Answers)
      /\ app = [publishing |-> app.publishing, done |-> app.done, unwrap |-> app.unwrap]
  BY DEF RtmpInv, Shape
<1>4. PICK reading : reading = FALSE OBVIOUS
<1>5. srv' = Server(srv.shake, srv.state, srv.dec, srv.full, reading, srv.events, srv.out, srv.refused)
  <2>1. srv' = [srv EXCEPT !.reading = reading] BY <1>1, <1>4
  <2> QED BY <1>3, <2>1 DEF Server
<1>6. /\ srv'.shake = srv.shake /\ srv'.state = srv.state /\ srv'.full = srv.full
      /\ srv'.events = srv.events /\ srv'.out = srv.out
  BY <1>5 DEF Server
<1>7. EncInv' BY <1>1 DEF RtmpInv, EncInv
<1>8. TimeInv' BY <1>1, TimeKept DEF RtmpInv
<1>9. Ordered' BY <1>6 DEF RtmpInv, Ordered, LastKind
<1>10. Publishes' BY <1>1, <1>6 DEF RtmpInv, Publishes, LastKind
<1>11. PICK had, last : had = path[1].had /\ last = path[Len(wire) + 1] OBVIOUS
<1>12. Along(path, wire, hist'.due) /\ path[1].at = Stage(srv')
  BY <1>1, <1>2, <1>6 DEF Follows, Stage
<1>13. Pending(had)' BY <1>1, <1>2, <1>6, <1>11 DEF Follows, Pending, Came
<1>14. last.enc = enc /\ last.had = Len(hist'.due) /\ Expects(last.at)' 
  <2>1. last.enc = enc /\ last.had = Len(hist.due) /\ Expects(last.at) BY <1>2, <1>11 DEF Follows
  <2> QED BY <1>1, <1>6, <2>1 DEF Expects, Answered
<1>15. Answered("bandwidth")' => Answered("bandwidth") BY <1>1, <1>6 DEF Answered
<1>16. Answered("Publish.Start")' => srv.state \in {"Publishing", "Closed"}
  BY <1>1, <1>2, <1>6 DEF Answered, Follows
<1>17. PICK state, es, os : state = srv.state /\ es = srv.events /\ os = srv.out OBVIOUS
<1>18. /\ srv' = Server(srv.shake, state, srv.dec, srv.full, reading, es, os, srv.refused)
       /\ state \in States /\ es \in Seq(Events) /\ os \in Seq(Answers)
       /\ Answered("Publish.Start")' => state \in {"Publishing", "Closed"}
  BY <1>3, <1>5, <1>16, <1>17
<1>19. Pending(path[1].had)' BY <1>1, <1>11, <1>13
<1> QED BY <1>1, <1>2, <1>3, <1>7, <1>8, <1>9, <1>10, <1>11, <1>12, <1>14, <1>15, <1>18, <1>19, SessionCloses

(* So does sending the answers. *)
LEMMA FlushKeeps ==
  ASSUME RtmpInv, Flush
  PROVE  RtmpInv'
<1>1. ~app.done /\ UNCHANGED <<pub, enc, wire, app, hist>> /\ srv' = [srv EXCEPT !.out = <<>>]
      /\ back' = back \o srv.out
  BY DEF Flush, Waiting
<1>2. PICK path : Follows(path) BY <1>1 DEF RtmpInv, InStep
<1>3. srv = Server(srv.shake, srv.state, srv.dec, srv.full, srv.reading, srv.events, srv.out, srv.refused)
      /\ srv.out \in Seq(Answers) /\ srv.state \in States /\ srv.events \in Seq(Events) /\ back \in Seq(Answers)
      /\ app = [publishing |-> app.publishing, done |-> app.done, unwrap |-> app.unwrap]
  BY DEF RtmpInv, Shape
<1>5. srv' = Server(srv.shake, srv.state, srv.dec, srv.full, srv.reading, srv.events, <<>>, srv.refused)
  BY <1>1, <1>3 DEF Server
<1>6. /\ srv'.shake = srv.shake /\ srv'.state = srv.state /\ srv'.full = srv.full
      /\ srv'.events = srv.events /\ srv'.out = <<>>
  BY <1>5 DEF Server
<1>4. back' \in Seq(Answers) /\ \A x : Answered(x)' => Answered(x)
  <2>1. back' \in Seq(Answers) BY <1>1, <1>3
  <2>2. \A x : Among(x, back') => Among(x, back) \/ Among(x, srv.out) BY <1>1, <1>3, AmongBoth
  <2>3. \A x : ~Among(x, srv'.out)
    <3>1. Len(srv'.out) = 0 BY <1>6
    <3> QED BY <3>1 DEF Among
  <2> QED BY <2>1, <2>2, <2>3 DEF Answered
<1>7. EncInv' BY <1>1 DEF RtmpInv, EncInv
<1>8. TimeInv' BY <1>1, TimeKept DEF RtmpInv
<1>9. Ordered' BY <1>6 DEF RtmpInv, Ordered, LastKind
<1>10. Publishes' BY <1>1, <1>6 DEF RtmpInv, Publishes, LastKind
<1>11. PICK had, last : had = path[1].had /\ last = path[Len(wire) + 1] OBVIOUS
<1>12. Along(path, wire, hist'.due) /\ path[1].at = Stage(srv')
  BY <1>1, <1>2, <1>6 DEF Follows, Stage
<1>13. Pending(had)' BY <1>1, <1>2, <1>6, <1>11 DEF Follows, Pending, Came
<1>14. last.enc = enc /\ last.had = Len(hist'.due) /\ Expects(last.at)' 
  <2>1. last.enc = enc /\ last.had = Len(hist.due) /\ Expects(last.at) BY <1>2, <1>11 DEF Follows
  <2>2. Answered("Publish.Start")' => Answered("Publish.Start") BY <1>4
  <2> QED BY <1>1, <2>1, <2>2 DEF Expects
<1>15. Answered("bandwidth")' => Answered("bandwidth") BY <1>4
<1>16. Answered("Publish.Start")' => srv.state \in {"Publishing", "Closed"}
  <2>1. Answered("Publish.Start")' => Answered("Publish.Start") BY <1>4
  <2> QED BY <1>2, <2>1 DEF Follows
<1>17. PICK state, es, os : state = srv.state /\ es = srv.events /\ os = <<>> OBVIOUS
<1>20. os \in Seq(Answers) BY <1>17
<1>18. /\ srv' = Server(srv.shake, state, srv.dec, srv.full, srv.reading, es, os, srv.refused)
       /\ state \in States /\ es \in Seq(Events)
       /\ Answered("Publish.Start")' => state \in {"Publishing", "Closed"}
  BY <1>3, <1>5, <1>16, <1>17
<1>19. Pending(path[1].had)' BY <1>1, <1>11, <1>13
<1> QED BY <1>1, <1>2, <1>3, <1>4, <1>7, <1>8, <1>9, <1>10, <1>11, <1>12, <1>14, <1>15, <1>18, <1>19, <1>20, SessionCloses

IsRest(t, s) ==
  /\ Len(s) \in Nat \ {0} /\ Len(t) = Len(s) - 1 /\ (t = <<>> <=> Len(s) = 1)
  /\ \A i \in 1 .. Len(t) : i + 1 \in 1 .. Len(s) /\ i + 1 # 1 /\ t[i] = s[i + 1]
  /\ \A i \in 1 .. Len(s) : i # 1 => i - 1 \in 1 .. Len(t) /\ t[i - 1] = s[i]

(* What a sequence without its first element is. *)
LEMMA RestIs ==
  ASSUME NEW S, NEW s \in Seq(S), s # <<>>
  PROVE  Tail(s) \in Seq(S) /\ IsRest(Tail(s), s) /\ Head(s) = s[1] /\ s[1] \in S
<1> DEFINE t == Tail(s)
           n == Len(s)
<1>1. t \in Seq(S) /\ n \in Nat /\ n # 0 /\ Len(t) = n - 1 /\ \A i \in 1 .. n - 1 : t[i] = s[i + 1]
  OBVIOUS
<1>2. t = <<>> <=> Len(t) = 0 BY <1>1, SMTT(30)
<1>3. Head(s) = s[1] /\ s[1] \in S OBVIOUS
<1> HIDE DEF t, n
<1>4. t = <<>> <=> n = 1 BY <1>1, <1>2
<1>5. \A i \in 1 .. n - 1 : i + 1 \in 1 .. n /\ i + 1 # 1 /\ t[i] = s[i + 1] BY <1>1
<1>6. \A i \in 1 .. n : i # 1 => i - 1 \in 1 .. n - 1 /\ t[i - 1] = s[i]
  <2> SUFFICES ASSUME NEW i \in 1 .. n, i # 1 PROVE i - 1 \in 1 .. n - 1 /\ t[i - 1] = s[i]
    OBVIOUS
  <2>1. i - 1 \in 1 .. n - 1 /\ (i - 1) + 1 = i BY <1>1
  <2> QED BY <1>1, <2>1
<1>7. IsRest(t, s) BY <1>1, <1>4, <1>5, <1>6 DEF IsRest, n
<1> QED BY <1>1, <1>3, <1>7 DEF t

(* The events after one that asks for no stream. *)
LEMMA RestOrdered ==
  ASSUME Ordered, IsRest(srv'.events, srv.events), srv.events[1].kind # "publish",
         srv'.shake = srv.shake, srv'.state = srv.state, srv'.full = srv.full
  PROVE  Ordered'
<1> DEFINE t == srv'.events
           s == srv.events
           n == Len(s)
<1>1. /\ n \in Nat \ {0} /\ Len(t) = n - 1 /\ (t = <<>> <=> n = 1)
      /\ \A i \in 1 .. Len(t) : i + 1 \in 1 .. n /\ t[i] = s[i + 1]
  BY DEF IsRest
<1>2. /\ srv.state = "AwaitConnect" => s = <<>>
      /\ srv.state = "Connected" => \A i \in 1 .. n : s[i].kind = "connect"
      /\ srv.state = "PublishPending" =>
           /\ s # <<>> /\ s[n].kind = "publish"
           /\ \A i \in 1 .. n - 1 : s[i].kind = "connect"
      /\ srv.state = "Publishing" =>
           srv.full /\ \A i \in 1 .. n : s[i].kind \in Media
      /\ srv.state = "Closed" =>
           \A i \in 1 .. n :
             /\ s[i].kind = "unpublish" => i = n
             /\ s[i].kind = "publish" => i = n - 1 /\ s[n].kind = "unpublish"
      /\ srv.shake # "Done" => srv.state = "AwaitConnect"
  BY DEF Ordered, LastKind
<1>3. s # <<>>
  <2>1. Len(s) # 0 BY <1>1
  <2>2. Len(<<>>) = 0 OBVIOUS
  <2> QED BY <2>1, <2>2
<1>0. s[1].kind # "publish" OBVIOUS
<1> HIDE DEF s, t, n
<1>4. srv.state # "AwaitConnect" BY <1>2, <1>3
<1>5. srv.state = "Connected" => \A i \in 1 .. Len(t) : t[i].kind = "connect" BY <1>1, <1>2
<1>6. ASSUME srv.state = "PublishPending"
      PROVE  /\ t # <<>> /\ t[Len(t)].kind = "publish"
             /\ \A i \in 1 .. Len(t) - 1 : t[i].kind = "connect"
  <2>1. n # 1 BY <1>0, <1>2, <1>6
  <2>2. t # <<>> BY <1>1, <2>1
  <2>3. Len(t) \in 1 .. Len(t) /\ Len(t) + 1 = n BY <1>1, <2>1
  <2>4. t[Len(t)] = s[n] BY <1>1, <2>3
  <2>5. ASSUME NEW i \in 1 .. Len(t) - 1 PROVE t[i].kind = "connect"
    <3>1. i \in 1 .. Len(t) /\ i + 1 \in 1 .. n - 1 BY <1>1
    <3> QED BY <1>1, <1>2, <1>6, <3>1
  <2> QED BY <1>2, <1>6, <2>2, <2>4, <2>5
<1>7. srv.state = "Publishing" => \A i \in 1 .. Len(t) : t[i].kind \in Media BY <1>1, <1>2
<1>8. ASSUME srv.state = "Closed", NEW i \in 1 .. Len(t)
      PROVE  /\ t[i].kind = "unpublish" => i = Len(t)
             /\ t[i].kind = "publish" => i = Len(t) - 1 /\ t[Len(t)].kind = "unpublish"
  <2>1. i + 1 \in 1 .. n /\ t[i] = s[i + 1] BY <1>1
  <2>2. Len(t) \in 1 .. Len(t) /\ Len(t) + 1 = n BY <1>1
  <2>3. t[Len(t)] = s[n] BY <1>1, <2>2
  <2>4. t[i].kind = "unpublish" => i + 1 = n BY <1>2, <1>8, <2>1
  <2>5. t[i].kind = "publish" => i + 1 = n - 1 /\ s[n].kind = "unpublish" BY <1>2, <1>8, <2>1
  <2> QED BY <1>1, <2>2, <2>3, <2>4, <2>5
<1>9. srv'.shake # "Done" => srv'.state = "AwaitConnect" BY <1>2
<1>10. /\ srv'.state # "AwaitConnect"
       /\ srv'.state = "Connected" => \A i \in 1 .. Len(t) : t[i].kind = "connect"
       /\ srv'.state = "PublishPending" => /\ t # <<>> /\ t[Len(t)].kind = "publish"
                                           /\ \A i \in 1 .. Len(t) - 1 : t[i].kind = "connect"
  BY <1>4, <1>5, <1>6
<1>11. srv'.state = "Publishing" => srv'.full /\ \A i \in 1 .. Len(t) : t[i].kind \in Media
  <2> SUFFICES ASSUME srv'.state = "Publishing" PROVE srv'.full /\ \A i \in 1 .. Len(t) : t[i].kind \in Media
    OBVIOUS
  <2>1. srv.full BY <1>2
  <2>2. srv'.full BY <2>1
  <2> QED BY <1>7, <2>2
<1>12. srv'.state = "Closed" =>
         \A i \in 1 .. Len(t) :
           /\ t[i].kind = "unpublish" => i = Len(t)
           /\ t[i].kind = "publish" => i = Len(t) - 1 /\ t[Len(t)].kind = "unpublish"
  BY <1>8
<1> QED BY <1>9, <1>10, <1>11, <1>12 DEF Ordered, LastKind, t

(* An event less leaves it right who publishes. *)
LEMMA RestPublishes ==
  ASSUME Publishes, IsRest(srv'.events, srv.events), srv'.state = srv.state,
         app'.publishing => app.publishing /\ srv.events[1].kind # "unpublish"
  PROVE  Publishes'
<1> DEFINE t == srv'.events
           s == srv.events
           n == Len(s)
<1>1. /\ n \in Nat \ {0} /\ Len(t) = n - 1 /\ (t = <<>> <=> n = 1)
      /\ \A i \in 1 .. Len(t) : i + 1 \in 1 .. n /\ t[i] = s[i + 1]
  BY DEF IsRest
<1> SUFFICES ASSUME app'.publishing
             PROVE  /\ srv'.state \in {"Publishing", "Closed"}
                    /\ srv'.state = "Closed" => t # <<>> /\ t[Len(t)].kind = "unpublish"
                    /\ \A i \in 1 .. Len(t) : t[i].kind # "publish"
  BY DEF Publishes, LastKind
<1>0. s[1].kind # "unpublish" OBVIOUS
<1>2. /\ srv.state \in {"Publishing", "Closed"}
      /\ srv.state = "Closed" => s # <<>> /\ s[n].kind = "unpublish"
      /\ \A i \in 1 .. n : s[i].kind # "publish"
  BY DEF Publishes, LastKind
<1> HIDE DEF s, t, n
<1>3. ASSUME srv.state = "Closed" PROVE t # <<>> /\ t[Len(t)].kind = "unpublish"
  <2>1. n # 1 BY <1>0, <1>2, <1>3
  <2>2. t # <<>> BY <1>1, <2>1
  <2>3. Len(t) \in 1 .. Len(t) /\ Len(t) + 1 = n BY <1>1, <2>1
  <2>4. t[Len(t)] = s[n] BY <1>1, <2>3
  <2> QED BY <1>2, <1>3, <2>2, <2>4
<1>4. \A i \in 1 .. Len(t) : t[i].kind # "publish" BY <1>1, <1>2
<1> QED BY <1>2, <1>3, <1>4

(* An event less leaves what is to come: no message of media was in it. *)
LEMMA RestPending ==
  ASSUME Pending(0), IsRest(srv'.events, srv.events)
  PROVE  Pending(0)'
<1> DEFINE t == srv'.events
           s == srv.events
<1>1. /\ Len(s) \in Nat \ {0} /\ Len(t) = Len(s) - 1
      /\ \A i \in 1 .. Len(t) : i + 1 \in 1 .. Len(s) /\ t[i] = s[i + 1]
  BY DEF IsRest
<1>2. \A i \in 0 + 1 .. Len(s) : s[i].kind \in {"connect", "publish", "unpublish"} BY DEF Pending
<1> HIDE DEF s, t
<1>3. 0 <= Len(t) BY <1>1
<1>4. \A i \in 0 + 1 .. Len(t) : t[i].kind \in {"connect", "publish", "unpublish"} BY <1>1, <1>2
<1>5. \A i \in 1 .. 0 : FALSE OBVIOUS
<1> QED BY <1>3, <1>4, <1>5 DEF Pending, t

(* None of the media that is due has come when the first event is not media. *)
LEMMA NoneCame ==
  ASSUME hist.due \in Seq(Sent), NEW had \in 0 .. Len(hist.due), Pending(had), srv.events # <<>>,
         srv.events[1].kind \notin Media
  PROVE  had = 0
<1> SUFFICES ASSUME had # 0 PROVE FALSE OBVIOUS
<1>1. 1 \in 1 .. had /\ 1 \in 1 .. Len(hist.due) OBVIOUS
<1>2. srv.events[1] = Came(hist.due[1]) BY <1>1 DEF Pending
<1>3. hist.due[1] \in Sent BY <1>1
<1>4. Came(hist.due[1]).kind \in Media BY <1>3 DEF Came, Sent
<1> QED BY <1>2, <1>4

(* The first event is taken. *)
LEMMA TakenFirst ==
  ASSUME RtmpInv, NEW kinds, Taking(kinds)
  PROVE  /\ ~app.done /\ srv.events # <<>> /\ Head(srv.events) = srv.events[1] /\ srv.events[1] \in Events
         /\ srv.events[1].kind \in kinds /\ Tail(srv.events) \in Seq(Events)
         /\ IsRest(Tail(srv.events), srv.events)
         /\ Rested = Server(srv.shake, srv.state, srv.dec, srv.full, srv.reading, Tail(srv.events), srv.out,
                            srv.refused)
         /\ srv.out \in Seq(Answers) /\ srv.state \in States /\ back \in Seq(Answers)
         /\ srv.shake \in Shakes \cup {"Done"}
         /\ app = [publishing |-> app.publishing, done |-> app.done, unwrap |-> app.unwrap]
         /\ hist.due \in Seq(Sent)
<1>1. ~app.done /\ srv.events # <<>> /\ Head(srv.events).kind \in kinds BY DEF Taking, Waiting
<1>2. srv = Server(srv.shake, srv.state, srv.dec, srv.full, srv.reading, srv.events, srv.out, srv.refused)
      /\ srv.out \in Seq(Answers) /\ srv.state \in States /\ srv.events \in Seq(Events) /\ back \in Seq(Answers)
      /\ app = [publishing |-> app.publishing, done |-> app.done, unwrap |-> app.unwrap]
      /\ srv.shake \in Shakes \cup {"Done"}
  BY DEF RtmpInv, Shape
<1>3. hist.due \in Seq(Sent) BY DEF RtmpInv, EncInv
<1>4. Tail(srv.events) \in Seq(Events) /\ IsRest(Tail(srv.events), srv.events)
      /\ Head(srv.events) = srv.events[1] /\ srv.events[1] \in Events
  BY <1>1, <1>2, RestIs
<1>5. Rested = Server(srv.shake, srv.state, srv.dec, srv.full, srv.reading, Tail(srv.events), srv.out,
                      srv.refused)
  <2> DEFINE t == Tail(srv.events)
  <2>1. Rested = [srv EXCEPT !.events = t] BY DEF Rested
  <2> HIDE DEF t
  <2>2. [srv EXCEPT !.events = t] = Server(srv.shake, srv.state, srv.dec, srv.full, srv.reading, t, srv.out,
                                           srv.refused)
    <3>1. PICK sh, st, d, f, r, e, o, x :
            /\ sh = srv.shake /\ st = srv.state /\ d = srv.dec /\ f = srv.full /\ r = srv.reading
            /\ e = srv.events /\ o = srv.out /\ x = srv.refused
      OBVIOUS
    <3>2. srv = Server(sh, st, d, f, r, e, o, x) BY <1>2, <3>1
    <3>3. [srv EXCEPT !.events = t] = [Server(sh, st, d, f, r, e, o, x) EXCEPT !.events = t] BY <3>2
    <3>4. [Server(sh, st, d, f, r, e, o, x) EXCEPT !.events = t] = Server(sh, st, d, f, r, t, o, x)
      BY DEF Server
    <3> QED BY <3>1, <3>3, <3>4
  <2> QED BY <2>1, <2>2 DEF t
<1> QED BY <1>1, <1>2, <1>3, <1>4, <1>5

(* The way along the wire as it is when an event is taken that is not media. *)
LEMMA AsItIs ==
  ASSUME RtmpInv, ~app.done, srv.events # <<>>, srv.events[1].kind \notin Media
  PROVE  \E path : /\ Follows(path) /\ path[1].had = 0 /\ Pending(0) /\ Along(path, wire, hist.due)
                   /\ path[1].at = Stage(srv)
<1>1. PICK path : Follows(path) BY DEF RtmpInv, InStep
<1>2. Along(path, wire, hist.due) /\ Pending(path[1].had) /\ path[1].at = Stage(srv) BY <1>1 DEF Follows
<1>3. 1 \in 1 .. Len(wire) + 1
  <2>1. Len(wire) \in Nat BY DEF RtmpInv, Shape
  <2> QED BY <2>1
<1>4. Place(path[1], hist.due) BY <1>2, <1>3 DEF Along
<1>5. PICK had \in 0 .. Len(hist.due) : had = path[1].had BY <1>4 DEF Place
<1>6. hist.due \in Seq(Sent) /\ Pending(had) BY <1>2, <1>5 DEF RtmpInv, EncInv
<1>7. had = 0 BY <1>6, NoneCame
<1> QED BY <1>1, <1>2, <1>5, <1>6, <1>7

(* The first event is taken and is not media. *)
LEMMA RestedCloses ==
  ASSUME RtmpInv, NEW kinds, Taking(kinds), srv.events[1].kind \notin Media, srv' = Rested,
         UNCHANGED <<pub, enc, wire, back, hist>>, app'.unwrap = app.unwrap,
         app' = [publishing |-> app'.publishing, done |-> app.done, unwrap |-> app'.unwrap],
         Ordered', Publishes'
  PROVE  RtmpInv'
<1>2. /\ ~app.done /\ srv.events # <<>> /\ Tail(srv.events) \in Seq(Events)
      /\ IsRest(Tail(srv.events), srv.events)
      /\ Rested = Server(srv.shake, srv.state, srv.dec, srv.full, srv.reading, Tail(srv.events), srv.out,
                         srv.refused)
      /\ srv.out \in Seq(Answers) /\ srv.state \in States /\ back \in Seq(Answers)
  BY TakenFirst
<1>4. PICK path : /\ Follows(path) /\ path[1].had = 0 /\ Pending(0) /\ Along(path, wire, hist.due)
                  /\ path[1].at = Stage(srv)
  BY <1>2, AsItIs
<1>3. PICK full, reading : full = srv.full /\ reading = srv.reading OBVIOUS
<1>5. PICK es \in Seq(Events), os \in Seq(Answers), state \in States :
        es = Tail(srv.events) /\ os = srv.out /\ state = srv.state
  BY <1>2
<1>6. srv' = Server(srv.shake, state, srv.dec, full, reading, es, os, srv.refused)
  BY <1>2, <1>3, <1>5
<1>7. /\ srv'.shake = srv.shake /\ srv'.state = srv.state /\ srv'.events = es /\ srv'.out = srv.out
  BY <1>5, <1>6 DEF Server
<1>8. IsRest(srv'.events, srv.events) BY <1>2, <1>5, <1>7
<1>10. EncInv' BY DEF RtmpInv, EncInv
<1>11. TimeInv' BY TimeKept DEF RtmpInv
<1>14. PICK last : last = path[Len(wire) + 1] OBVIOUS
<1>15. Along(path, wire, hist'.due) /\ path[1].at = Stage(srv') BY <1>4, <1>7 DEF Stage
<1>16. Pending(0)' BY <1>4, <1>8, RestPending
<1>17. last.enc = enc /\ last.had = Len(hist'.due) /\ Expects(last.at)'
  <2>1. last.enc = enc /\ last.had = Len(hist.due) /\ Expects(last.at) BY <1>4, <1>14 DEF Follows
  <2> QED BY <1>7, <2>1 DEF Expects, Answered
<1>18. Answered("bandwidth")' => Answered("bandwidth") BY <1>7 DEF Answered
<1>19. Answered("Publish.Start")' => state \in {"Publishing", "Closed"}
  BY <1>4, <1>5, <1>7 DEF Answered, Follows
<1>20. back' \in Seq(Answers) BY <1>2
<1>21. Pending(path[1].had)' BY <1>4, <1>16
<1>22. ~app.done /\ UNCHANGED <<pub, enc, wire>> BY <1>2
<1>24. Follows(path) BY <1>4
<1> QED BY <1>22, <1>24, <1>6, <1>10, <1>11, <1>14, <1>15, <1>17, <1>18, <1>19, <1>20, <1>21, SessionCloses

(* To end the stream keeps the invariant (ServerEvent::Unpublish). *)
LEMMA EndStreamKeeps ==
  ASSUME RtmpInv, EndStream
  PROVE  RtmpInv'
<1> DEFINE kinds == {"connect", "unpublish"}
<1>1. Taking(kinds) /\ srv' = Rested /\ UNCHANGED <<pub, enc, wire, back, hist>>
      /\ app' = [app EXCEPT !.publishing = @ /\ Head(srv.events).kind # "unpublish"]
  BY DEF EndStream
<1>2. /\ Head(srv.events) = srv.events[1]
      /\ srv.events[1].kind \in kinds /\ IsRest(Tail(srv.events), srv.events)
      /\ Rested = Server(srv.shake, srv.state, srv.dec, srv.full, srv.reading, Tail(srv.events), srv.out,
                         srv.refused)
      /\ app = [publishing |-> app.publishing, done |-> app.done, unwrap |-> app.unwrap]
  BY <1>1, TakenFirst
<1>3. srv.events[1].kind \notin Media /\ srv.events[1].kind # "publish" BY <1>2 DEF Media
<1> HIDE DEF kinds
<1>7. /\ srv'.shake = srv.shake /\ srv'.state = srv.state /\ srv'.full = srv.full
      /\ srv'.events = Tail(srv.events)
  BY <1>1, <1>2 DEF Server
<1>8. IsRest(srv'.events, srv.events) BY <1>2, <1>7
<1>9. app'.unwrap = app.unwrap /\ app' = [publishing |-> app'.publishing, done |-> app.done, unwrap |-> app'.unwrap]
      /\ (app'.publishing => app.publishing /\ srv.events[1].kind # "unpublish")
  <2>1. PICK x : x = (app.publishing /\ Head(srv.events).kind # "unpublish") OBVIOUS
  <2>2. app' = [app EXCEPT !.publishing = x] BY <1>1, <2>1
  <2>3. PICK y, z, w : y = app.publishing /\ z = app.done /\ w = app.unwrap OBVIOUS
  <2>4. app = [publishing |-> y, done |-> z, unwrap |-> w] BY <1>2, <2>3
  <2>5. app' = [publishing |-> x, done |-> z, unwrap |-> w] BY <2>2, <2>4
  <2>6. app'.publishing = x /\ app'.done = z /\ app'.unwrap = w BY <2>5
  <2> QED BY <1>2, <2>1, <2>3, <2>5, <2>6
<1>12. Ordered' BY <1>3, <1>7, <1>8, RestOrdered DEF RtmpInv
<1>13. Publishes' BY <1>7, <1>8, <1>9, RestPublishes DEF RtmpInv
<1> QED BY <1>1, <1>3, <1>9, <1>12, <1>13, RestedCloses

(* A session of which only the answers change. *)
LEMMA OutIs ==
  ASSUME NEW sh, NEW st, NEW d, NEW f, NEW r, NEW e, NEW o, NEW x, NEW s, NEW more,
         s = Server(sh, st, d, f, r, e, o, x)
  PROVE  s.out = o /\ s.state = st /\ [s EXCEPT !.out = more] = Server(sh, st, d, f, r, e, more, x)
BY DEF Server

Moved(s, to, full) == [s EXCEPT !.state = to, !.full = full]

(* A session that is moved on. *)
LEMMA PublishingIs ==
  ASSUME NEW sh, NEW st, NEW d, NEW f, NEW r, NEW e, NEW o, NEW x, NEW s, NEW full, NEW to,
         s = Server(sh, st, d, f, r, e, o, x)
  PROVE  Moved(s, to, full) = Server(sh, to, d, full, r, e, o, x)
<1>1. Moved(s, to, full) = [[s EXCEPT !.state = to] EXCEPT !.full = full] BY DEF Moved
<1>2. PICK y : y = [s EXCEPT !.state = to] OBVIOUS
<1>3. y = Server(sh, to, d, f, r, e, o, x) BY <1>2 DEF Server
<1>4. [y EXCEPT !.full = full] = Server(sh, to, d, full, r, e, o, x) BY <1>3 DEF Server
<1> QED BY <1>1, <1>2, <1>4

(* A value is hidden from the provers that might take it for a formula. *)
IsTrue(x) == x = TRUE

(* What accepting does to the session (accept_publish). *)
LEMMA AcceptedIs ==
  ASSUME NEW sh, NEW st, NEW d, NEW f, NEW r, NEW e, NEW o, NEW x, NEW full, IsTrue(full), NEW s,
         s = Server(sh, st, d, f, r, e, o, x)
  PROVE  Accepted(s)
           = IF st = "PublishPending" THEN Server(sh, "Publishing", d, full, r, e, o \o <<"Publish.Start">>, x)
             ELSE s
<1>1. PICK more : more = o \o <<"Publish.Start">> OBVIOUS
<1>2. s.out = o /\ s.state = st /\ [s EXCEPT !.out = more] = Server(sh, st, d, f, r, e, more, x) BY OutIs
<1>3. Replies(s, <<"Publish.Start">>) = [s EXCEPT !.out = more] BY <1>1, <1>2 DEF Replies
<1>4. PICK y : y = Replies(s, <<"Publish.Start">>) OBVIOUS
<1>5. AcceptedAnyway(s) = Moved(y, "Publishing", full) BY <1>4 DEF AcceptedAnyway, IsTrue, Moved
<1>6. y = Server(sh, st, d, f, r, e, more, x) BY <1>2, <1>3, <1>4
<1>7. PICK to : to = "Publishing" OBVIOUS
<1>8. Moved(y, to, full) = Server(sh, to, d, full, r, e, more, x) BY <1>6, PublishingIs
<1>9. AcceptedAnyway(s) = Server(sh, "Publishing", d, full, r, e, more, x) BY <1>5, <1>7, <1>8
<1>10. Accepted(s) = IF st = "PublishPending" THEN AcceptedAnyway(s) ELSE s BY <1>2 DEF Accepted
<1> QED BY <1>1, <1>9, <1>10

(* Where a publish is the first event, nothing but the end may follow it. *)
LEMMA PublishFirst ==
  ASSUME RtmpInv, srv.events # <<>>, srv.events[1].kind = "publish"
  PROVE  /\ srv.shake = "Done" /\ ~app.publishing
         /\ \/ srv.state = "PublishPending" /\ Len(srv.events) = 1
            \/ srv.state = "Closed" /\ Len(srv.events) = 2 /\ srv.events[2].kind = "unpublish"
<1> DEFINE s == srv.events
<1>1. s \in Seq(Events) /\ srv.state \in States BY DEF RtmpInv, Shape
<1>2. Ordered /\ Publishes BY DEF RtmpInv
<1>3. Len(s) \in Nat \ {0} /\ 1 \in 1 .. Len(s) BY <1>1
<1>4. srv.state # "AwaitConnect" BY <1>2 DEF Ordered
<1>5. srv.shake = "Done" BY <1>2, <1>4 DEF Ordered
<1>6. ~app.publishing BY <1>2, <1>3 DEF Publishes
<1>7. srv.state # "Connected"
  <2> SUFFICES ASSUME srv.state = "Connected" PROVE FALSE OBVIOUS
  <2>1. s[1].kind = "connect" BY <1>2, <1>3 DEF Ordered
  <2> QED BY <2>1
<1>8. srv.state # "Publishing"
  <2> SUFFICES ASSUME srv.state = "Publishing" PROVE FALSE OBVIOUS
  <2>1. s[1].kind \in Media BY <1>2, <1>3 DEF Ordered
  <2> QED BY <2>1 DEF Media
<1>9. CASE srv.state = "PublishPending"
  <2>1. \A i \in 1 .. Len(s) - 1 : s[i].kind = "connect" BY <1>2, <1>9 DEF Ordered
  <2>2. 1 \notin 1 .. Len(s) - 1 BY <2>1
  <2>3. Len(s) = 1
    <3>1. PICK n : n = Len(s) OBVIOUS
    <3>2. n \in Nat \ {0} /\ 1 \notin 1 .. n - 1 BY <1>3, <2>2, <3>1
    <3>3. n = 1 BY <3>2
    <3> QED BY <3>1, <3>3
  <2> QED BY <1>5, <1>6, <1>9, <2>3
<1>10. CASE srv.state = "Closed"
  <2>1. 1 = Len(s) - 1 /\ LastKind = "unpublish" BY <1>2, <1>3, <1>10 DEF Ordered
  <2>2. Len(s) = 2 BY <1>3, <2>1
  <2>3. s[2].kind = "unpublish" BY <2>1, <2>2 DEF LastKind
  <2> QED BY <1>5, <1>6, <1>10, <2>2, <2>3
<1> QED BY <1>1, <1>4, <1>7, <1>8, <1>9, <1>10 DEF States

(* A publisher that waits is accepted. *)
LEMMA WaitingAccepted ==
  ASSUME RtmpInv, Accept, srv.state = "PublishPending"
  PROVE  RtmpInv'
<1> DEFINE kinds == {"publish"}
           os == srv.out \o <<"Publish.Start">>
<1>1. Taking(kinds) /\ srv' = Accepted(Rested) /\ UNCHANGED <<pub, enc, wire, back, hist>>
      /\ app' = [app EXCEPT !.publishing = TRUE]
  BY DEF Accept
<1>2. /\ ~app.done /\ srv.events # <<>>
      /\ srv.events[1].kind \in kinds /\ Tail(srv.events) \in Seq(Events)
      /\ IsRest(Tail(srv.events), srv.events)
      /\ Rested = Server(srv.shake, srv.state, srv.dec, srv.full, srv.reading, Tail(srv.events), srv.out,
                         srv.refused)
      /\ srv.out \in Seq(Answers) /\ srv.state \in States /\ back \in Seq(Answers)
      /\ app = [publishing |-> app.publishing, done |-> app.done, unwrap |-> app.unwrap]
  BY <1>1, TakenFirst
<1>3. srv.events[1].kind \notin Media /\ srv.events[1].kind = "publish" BY <1>2 DEF Media
<1> HIDE DEF kinds
<1>4. PICK path : /\ Follows(path) /\ path[1].had = 0 /\ Pending(0) /\ Along(path, wire, hist.due)
                  /\ path[1].at = Stage(srv)
  BY <1>2, <1>3, AsItIs
<1>5. srv.shake = "Done" /\ Len(srv.events) = 1 BY <1>2, <1>3, PublishFirst
<1>6. Tail(srv.events) = <<>> BY <1>2, <1>5 DEF IsRest
<1>7. PICK es, full, reading, state : /\ es = <<>> /\ full = TRUE /\ reading = srv.reading
                                      /\ state = "Publishing"
  OBVIOUS
<1>8. os \in Seq(Answers) /\ \A x : Among(x, os) => Among(x, srv.out) \/ x = "Publish.Start"
  <2> DEFINE one == <<"Publish.Start">>
             s == srv.out
  <2>1. one \in Seq(Answers) /\ Len(one) = 1 /\ one[1] = "Publish.Start"
    <3>1. "Publish.Start" \in Answers BY DEF Answers
    <3> QED BY <3>1
  <2> HIDE DEF one, s
  <2>2. s \in Seq(Answers) BY <1>2 DEF s
  <2>3. s \o one \in Seq(Answers) BY <2>1, <2>2
  <2>4. ASSUME NEW x, Among(x, s \o one) PROVE Among(x, s) \/ Among(x, one)
    BY <2>1, <2>2, <2>4, AmongBoth
  <2>5. \A x : Among(x, one) => x = "Publish.Start" BY <2>1 DEF Among
  <2> QED BY <2>3, <2>4, <2>5 DEF one, s
<1>9. srv' = Server(srv.shake, state, srv.dec, full, reading, es, os, srv.refused)
  <2>1. PICK sh, st, d, f, o, x :
          /\ sh = srv.shake /\ st = srv.state /\ d = srv.dec /\ f = srv.full /\ o = srv.out /\ x = srv.refused
    OBVIOUS
  <2>2. Rested = Server(sh, st, d, f, reading, es, o, x) BY <1>2, <1>6, <1>7, <2>1
  <2>3. PICK s : s = Rested OBVIOUS
  <2>4. s = Server(sh, st, d, f, reading, es, o, x) /\ srv' = Accepted(s) BY <1>1, <2>2, <2>3
  <2>5. IsTrue(full) /\ st = "PublishPending" BY <1>7, <2>1 DEF IsTrue
  <2>6. Accepted(s)
          = IF st = "PublishPending" THEN Server(sh, "Publishing", d, full, reading, es, o \o <<"Publish.Start">>, x)
            ELSE s
    BY <2>4, <2>5, AcceptedIs
  <2>7. srv' = Server(sh, "Publishing", d, full, reading, es, o \o <<"Publish.Start">>, x)
    BY <2>4, <2>5, <2>6
  <2> QED BY <1>7, <2>1, <2>7
<1> HIDE DEF os
<1>10. /\ srv'.shake = srv.shake /\ srv'.state = "Publishing" /\ srv'.full = full
       /\ srv'.events = <<>> /\ srv'.out = os
  BY <1>7, <1>9 DEF Server
<1>11. app'.unwrap = app.unwrap /\ app' = [publishing |-> app'.publishing, done |-> app.done, unwrap |-> app'.unwrap]
  <2>1. PICK x, y, z, w : x = TRUE /\ y = app.publishing /\ z = app.done /\ w = app.unwrap OBVIOUS
  <2>2. app' = [app EXCEPT !.publishing = x] BY <1>1, <2>1
  <2>4. app = [publishing |-> y, done |-> z, unwrap |-> w] BY <1>2, <2>1
  <2>5. app' = [publishing |-> x, done |-> z, unwrap |-> w] BY <2>2, <2>4
  <2>6. app'.publishing = x /\ app'.done = z /\ app'.unwrap = w BY <2>5
  <2> QED BY <2>1, <2>5, <2>6
<1>12. EncInv' BY <1>1 DEF RtmpInv, EncInv
<1>13. TimeInv' BY <1>1, <1>11, TimeKept DEF RtmpInv
<1>14. Ordered'
  <2>1. srv'.full BY <1>7, <1>10
  <2>2. \A i \in 1 .. Len(srv'.events) : FALSE BY <1>10
  <2> QED BY <1>5, <1>10, <2>1, <2>2 DEF Ordered
<1>15. Publishes'
  <2>1. \A i \in 1 .. Len(srv'.events) : FALSE BY <1>10
  <2> QED BY <1>10, <2>1 DEF Publishes
<1>16. Pending(0)' BY <1>10 DEF Pending
<1> DEFINE q == [i \in 1 .. Len(wire) + 1 |-> Now(path[i])]
           n == Len(wire) + 1
<1>17. wire \in Seq(Chunks) BY DEF RtmpInv, Shape
<1>18. 1 \in 1 .. n /\ n \in 1 .. n /\ 1 <= n
  <2>1. Len(wire) \in Nat BY <1>17
  <2> QED BY <2>1
<1>19. path[1].at = "PublishPending" BY <1>4, <1>5 DEF Stage
<1>20. Along(q, wire, hist.due)
  <2>1. path[1].at \in Ending BY <1>19 DEF Ending
  <2>2. PICK due : due = hist.due OBVIOUS
  <2>3. Along(path, wire, due) BY <1>4, <2>2
  <2>4. Along([i \in 1 .. Len(wire) + 1 |-> Now(path[i])], wire, due) BY <1>17, <2>1, <2>3, AcceptedWay
  <2> QED BY <2>2, <2>4
<1>21. q[1] = Now(path[1]) /\ q[n] = Now(path[n]) BY <1>18
<1>22. path[n].at \in Ending
  <2>1. Forward(path[1], path[n]) BY <1>4, <1>18 DEF Along
  <2> QED BY <1>19, <2>1 DEF Forward, Ending
<1>23. path[n].enc = enc /\ path[n].had = Len(hist.due) /\ Expects(path[n].at) BY <1>4 DEF Follows
<1> HIDE DEF q
<1>24. PICK last, way : last = q[n] /\ way = q OBVIOUS
<1>25. last.enc = enc /\ last.had = Len(hist.due)
       /\ last.at = IF path[n].at = "PublishPending" THEN "Publishing" ELSE path[n].at
  BY <1>21, <1>23, <1>24 DEF Now
<1>26. Expects(last.at)'
  <2>1. PICK at : at = path[n].at OBVIOUS
  <2>2. Expects(at) /\ at \in Ending /\ last.at = IF at = "PublishPending" THEN "Publishing" ELSE at
    BY <1>22, <1>23, <1>25, <2>1
  <2>3. pub' = pub BY <1>1
  <2> QED BY <2>2, <2>3 DEF Expects, Ending
<1>27. way[1].enc = path[1].enc /\ way[1].had = 0 /\ way[1].at = "Publishing"
  BY <1>4, <1>19, <1>21, <1>24 DEF Now
<1>28. way[1].at = Stage(srv') BY <1>5, <1>10, <1>27 DEF Stage
<1>29. Answered("bandwidth")' => Answered("bandwidth")
  <2>1. Among("bandwidth", os) => Among("bandwidth", srv.out) BY <1>8
  <2> QED BY <1>1, <1>10, <2>1 DEF Answered
<1>30. PICK more : more = os OBVIOUS
<1>31. /\ srv' = Server(srv.shake, state, srv.dec, full, reading, es, more, srv.refused)
       /\ state \in States /\ es \in Seq(Events) /\ more \in Seq(Answers)
       /\ Answered("Publish.Start")' => state \in {"Publishing", "Closed"}
  BY <1>7, <1>8, <1>9, <1>30 DEF States
<1>32. ~app.done /\ UNCHANGED <<pub, enc, wire>> /\ back' \in Seq(Answers) BY <1>1, <1>2
<1>33. app' = [publishing |-> app'.publishing, done |-> app.done, unwrap |-> app'.unwrap] BY <1>11
<1>34. Follows(path) BY <1>4
<1>35. Along(way, wire, hist'.due) BY <1>1, <1>20, <1>24
<1>36. last = way[Len(wire) + 1] /\ last.enc = enc /\ last.had = Len(hist'.due) BY <1>1, <1>24, <1>25
<1>37. Pending(way[1].had)' BY <1>16, <1>27
<1>38. way[1].enc = path[1].enc BY <1>27
<1> QED BY <1>12, <1>13, <1>14, <1>15, <1>26, <1>28, <1>29, <1>31, <1>32, <1>33, <1>34, <1>35, <1>36, <1>37, <1>38,
           SessionCloses

(* One that has ended its stream before it was accepted is accepted all    *)
(* the same, and its end is taken next.                                    *)
LEMMA EndedAccepted ==
  ASSUME RtmpInv, Accept, srv.state = "Closed"
  PROVE  RtmpInv'
<1> DEFINE kinds == {"publish"}
<1>1. Taking(kinds) /\ srv' = Accepted(Rested) /\ UNCHANGED <<pub, enc, wire, back, hist>>
      /\ app' = [app EXCEPT !.publishing = TRUE]
  BY DEF Accept
<1>2. /\ srv.events # <<>> /\ srv.events[1].kind \in kinds /\ IsRest(Tail(srv.events), srv.events)
      /\ Rested = Server(srv.shake, srv.state, srv.dec, srv.full, srv.reading, Tail(srv.events), srv.out,
                         srv.refused)
      /\ app = [publishing |-> app.publishing, done |-> app.done, unwrap |-> app.unwrap]
  BY <1>1, TakenFirst
<1>3. srv.events[1].kind \notin Media /\ srv.events[1].kind = "publish" BY <1>2 DEF Media
<1> HIDE DEF kinds
<1>4. srv.shake = "Done" /\ Len(srv.events) = 2 /\ srv.events[2].kind = "unpublish" BY <1>2, <1>3, PublishFirst
<1>5. srv' = Rested
  <2>1. Rested.state = "Closed" BY <1>2 DEF Server
  <2> QED BY <1>1, <2>1 DEF Accepted
<1>6. /\ srv'.shake = "Done" /\ srv'.state = "Closed" /\ srv'.events = Tail(srv.events)
  BY <1>2, <1>4, <1>5 DEF Server
<1>7. Len(srv'.events) = 1 /\ srv'.events # <<>> /\ srv'.events[1].kind = "unpublish"
  <2>1. IsRest(srv'.events, srv.events) BY <1>2, <1>6
  <2>2. Len(srv'.events) = 1 /\ srv'.events # <<>> BY <1>4, <2>1 DEF IsRest
  <2>3. 1 \in 1 .. Len(srv'.events) /\ 1 + 1 = 2 BY <2>2
  <2>4. srv'.events[1] = srv.events[2] BY <2>1, <2>3 DEF IsRest
  <2> QED BY <1>4, <2>2, <2>4
<1>8. app'.unwrap = app.unwrap /\ app' = [publishing |-> app'.publishing, done |-> app.done, unwrap |-> app'.unwrap]
  <2>1. PICK x, y, z, w : x = TRUE /\ y = app.publishing /\ z = app.done /\ w = app.unwrap OBVIOUS
  <2>2. app' = [app EXCEPT !.publishing = x] BY <1>1, <2>1
  <2>4. app = [publishing |-> y, done |-> z, unwrap |-> w] BY <1>2, <2>1
  <2>5. app' = [publishing |-> x, done |-> z, unwrap |-> w] BY <2>2, <2>4
  <2>6. app'.publishing = x /\ app'.done = z /\ app'.unwrap = w BY <2>5
  <2> QED BY <2>1, <2>5, <2>6
<1>9. \A i \in 1 .. Len(srv'.events) : i = 1 BY <1>7
<1>10. Ordered' BY <1>6, <1>7, <1>9 DEF Ordered, LastKind
<1>11. Publishes' BY <1>6, <1>7, <1>9 DEF Publishes, LastKind
<1> QED BY <1>1, <1>3, <1>5, <1>8, <1>10, <1>11, RestedCloses

(* To accept the publisher keeps the invariant, also if it has gone on     *)
(* meanwhile.                                                              *)
LEMMA AcceptKeeps ==
  ASSUME RtmpInv, Accept
  PROVE  RtmpInv'
<1> DEFINE kinds == {"publish"}
<1>1. Taking(kinds) BY DEF Accept
<1>2. srv.events # <<>> /\ srv.events[1].kind \in kinds BY <1>1, TakenFirst
<1>3. srv.state = "PublishPending" \/ srv.state = "Closed" BY <1>2, PublishFirst
<1> QED BY <1>3, WaitingAccepted, EndedAccepted

(* One that is not accepted is at its end. *)
LEMMA RejectKeeps ==
  ASSUME RtmpInv, Reject
  PROVE  RtmpInv'
<1> DEFINE kinds == {"publish"}
           more == (back \o srv.out) \o <<"error">>
<1>1. Taking(kinds) /\ srv' = [srv EXCEPT !.state = "Closed", !.events = <<>>, !.out = <<>>]
      /\ back' = back \o srv.out \o <<"error">> /\ app' = [app EXCEPT !.done = TRUE]
      /\ UNCHANGED <<pub, enc, wire, hist>>
  BY DEF Reject
<1>2. /\ srv.events # <<>> /\ srv.events[1].kind \in kinds /\ srv.out \in Seq(Answers)
      /\ back \in Seq(Answers)
      /\ app = [publishing |-> app.publishing, done |-> app.done, unwrap |-> app.unwrap]
  BY <1>1, TakenFirst
<1>3. srv.shake = "Done" /\ ~app.publishing BY <1>2, PublishFirst
<1>4. more \in Seq(Answers)
  <2>1. back \o srv.out \in Seq(Answers) BY <1>2
  <2>2. "error" \in Answers BY DEF Answers
  <2>3. <<"error">> \in Seq(Answers) BY <2>2
  <2> DEFINE s == back \o srv.out
             t == <<"error">>
  <2> HIDE DEF s, t
  <2>4. s \o t \in Seq(Answers) BY <2>1, <2>3 DEF s, t
  <2> QED BY <2>4 DEF s, t
<1>5. back' = more BY <1>1
<1> HIDE DEF more, kinds
<1>6. srv' = Server(srv.shake, "Closed", srv.dec, srv.full, srv.reading, <<>>, <<>>, srv.refused)
  <2>1. PICK sh, st, d, f, r, e, o, x, to, none :
          /\ sh = srv.shake /\ st = srv.state /\ d = srv.dec /\ f = srv.full /\ r = srv.reading
          /\ e = srv.events /\ o = srv.out /\ x = srv.refused /\ to = "Closed" /\ none = <<>>
    OBVIOUS
  <2>2. srv = Server(sh, st, d, f, r, e, o, x)
    <3>1. srv = Server(srv.shake, srv.state, srv.dec, srv.full, srv.reading, srv.events, srv.out, srv.refused)
      BY DEF RtmpInv, Shape
    <3> QED BY <2>1, <3>1
  <2>3. srv' = [[[srv EXCEPT !.state = to] EXCEPT !.events = none] EXCEPT !.out = none] BY <1>1, <2>1
  <2>4. PICK y : y = [srv EXCEPT !.state = to] OBVIOUS
  <2>5. y = Server(sh, to, d, f, r, e, o, x) BY <2>2, <2>4 DEF Server
  <2>6. PICK z : z = [y EXCEPT !.events = none] OBVIOUS
  <2>7. z = Server(sh, to, d, f, r, none, o, x) BY <2>5, <2>6 DEF Server
  <2>8. [z EXCEPT !.out = none] = Server(sh, to, d, f, r, none, none, x) BY <2>7, OutIs
  <2>9. srv' = [z EXCEPT !.out = none] BY <2>3, <2>4, <2>6
  <2> QED BY <2>1, <2>8, <2>9
<1>7. /\ srv'.shake = srv.shake /\ srv'.state = "Closed" /\ srv'.events = <<>> /\ srv'.out = <<>>
      /\ srv'.refused = srv.refused
      /\ srv' = Server(srv'.shake, srv'.state, srv'.dec, srv'.full, srv'.reading, srv'.events, srv'.out,
                       srv'.refused)
  BY <1>6 DEF Server
<1>8. app'.unwrap = app.unwrap /\ app'.publishing = app.publishing
      /\ app' = [publishing |-> app'.publishing, done |-> app'.done, unwrap |-> app'.unwrap]
  <2>1. PICK x, y, z, w : x = TRUE /\ y = app.publishing /\ z = app.done /\ w = app.unwrap OBVIOUS
  <2>2. app' = [app EXCEPT !.done = x] BY <1>1, <2>1
  <2>4. app = [publishing |-> y, done |-> z, unwrap |-> w] BY <1>2, <2>1
  <2>5. app' = [publishing |-> y, done |-> x, unwrap |-> w] BY <2>2, <2>4
  <2>6. app'.publishing = y /\ app'.done = x /\ app'.unwrap = w BY <2>5
  <2> QED BY <2>1, <2>5, <2>6
<1>9. app'.done
  <2>1. app.done \/ ~app.done OBVIOUS
  <2>2. DOMAIN app = {"publishing", "done", "unwrap"} BY <1>2
  <2>3. "done" \in DOMAIN app BY <2>2
  <2> QED BY <1>1, <2>3
<1>10. EncInv' BY <1>1 DEF RtmpInv, EncInv
<1>11. TimeInv' BY <1>1, <1>8, TimeKept DEF RtmpInv
<1>12. Shape'
  <2>1. srv'.events \in Seq(Events) /\ srv'.out \in Seq(Answers) BY <1>7
  <2>2. srv'.state \in States BY <1>7 DEF States
  <2> QED BY <1>1, <1>4, <1>5, <1>7, <1>8, <2>1, <2>2 DEF RtmpInv, Shape
<1>13. Ordered'
  <2>1. \A i \in 1 .. Len(srv'.events) : FALSE BY <1>7
  <2> QED BY <1>3, <1>7, <2>1 DEF Ordered
<1>14. ~app'.publishing BY <1>3, <1>8
<1>15. Publishes' /\ Ended' BY <1>7, <1>14 DEF Publishes, Ended
<1>16. NeverRefused' BY <1>7 DEF RtmpInv, NeverRefused
<1>17. InStep' BY <1>9 DEF InStep
<1> QED BY <1>10, <1>11, <1>12, <1>13, <1>15, <1>16, <1>17 DEF RtmpInv

(* The relay's time for a message that is near the one before. *)
LEMMA UnwrapsAs ==
  ASSUME NEW u, NEW t \in Int, u.current \in Int, Follow(u, t),
         u = IF u.seen THEN [seen |-> TRUE, last |-> u.current % TsMod, current |-> u.current] ELSE Fresh
  PROVE  Unwrapped(u, t % TsMod) = [seen |-> TRUE, last |-> t % TsMod, current |-> t]
<1>1. CASE u.seen
  <2>1. PICK a : a = u.current OBVIOUS
  <2>2. u = [seen |-> TRUE, last |-> a % TsMod, current |-> a] BY <1>1, <2>1
  <2>3. a \in Int /\ -TsMod <= 2 * (t - a) /\ 2 * (t - a) < TsMod BY <1>1, <2>1 DEF Follow, Near
  <2> QED BY <2>2, <2>3, UnwrapsRight
<1>2. CASE ~u.seen
  <2>1. t \in 0 .. TsMod - 1 BY <1>2 DEF Follow, Bits
  <2>2. t % TsMod = t BY <2>1, ChunkConstants
  <2> QED BY <1>2, <2>2 DEF Unwrapped
<1> QED BY <1>1, <1>2

(* What is due once the first of it is handed over. *)
LEMMA TimeHanded ==
  ASSUME TimeInv, hist.due \in Seq(Sent), hist.due # <<>>, hist'.due = Tail(hist.due), hist'.time = hist.time,
         NEW k, k = hist.due[1].kind, NEW t, t = hist.due[1].ts,
         app'.unwrap = [app.unwrap EXCEPT ![k] = [seen |-> TRUE, last |-> t % TsMod, current |-> t]]
  PROVE  TimeInv'
<1>0. PICK due, rest, n, m : due = hist.due /\ rest = hist'.due /\ n = Len(due) /\ m = Len(rest) OBVIOUS
<1> DEFINE new == [seen |-> TRUE, last |-> t % TsMod, current |-> t]
<1>1. IsRest(rest, due) /\ due[1] \in Sent BY <1>0, RestIs
<1>2. n \in Nat \ {0} /\ m = n - 1 /\ \A i \in 1 .. m : i + 1 \in 1 .. n /\ rest[i] = due[i + 1]
  BY <1>0, <1>1 DEF IsRest
<1>3. k \in Media /\ t \in Int /\ due[1].kind = k /\ due[1].ts = t BY <1>0, <1>1 DEF Sent
<1>4. DOMAIN app.unwrap = Media /\ \A l \in Media : TimeOf(l) BY DEF TimeInv
<1>5. new.seen /\ new.current = t /\ new = [seen |-> TRUE, last |-> new.current % TsMod, current |-> new.current]
  OBVIOUS
<1> HIDE DEF new
<1>6. DOMAIN app'.unwrap = Media /\ app'.unwrap[k] = new
      /\ \A l \in Media : l # k => app'.unwrap[l] = app.unwrap[l]
  BY <1>3, <1>4 DEF new
<1>7. ASSUME NEW l \in Media, NEW a \in 1 .. m + 1, NEW b \in 0 .. m
      PROVE  Other(l, a, b)' <=> Other(l, a + 1, b + 1)
  <2>1. Other(l, a, b)' => Other(l, a + 1, b + 1)
    <3> SUFFICES ASSUME Other(l, a, b)', NEW i \in a + 1 .. b + 1 PROVE due[i].kind # l
      BY <1>0 DEF Other
    <3>1. i - 1 \in a .. b /\ i - 1 \in 1 .. m /\ (i - 1) + 1 = i BY <1>2
    <3>2. rest[i - 1].kind # l BY <1>0, <3>1 DEF Other
    <3> QED BY <1>2, <3>1, <3>2
  <2>2. Other(l, a + 1, b + 1) => Other(l, a, b)'
    <3> SUFFICES ASSUME Other(l, a + 1, b + 1), NEW i \in a .. b PROVE rest[i].kind # l
      BY <1>0 DEF Other
    <3>1. i + 1 \in a + 1 .. b + 1 /\ i \in 1 .. m BY <1>2
    <3>2. due[i + 1].kind # l BY <1>0, <3>1 DEF Other
    <3> QED BY <1>2, <3>1, <3>2
  <2> QED BY <2>1, <2>2
<1>8. ASSUME NEW l \in Media, NEW b \in 1 .. n
      PROVE  Other(l, 1, b) <=> l # k /\ Other(l, 2, b)
  <2>1. 1 \in 1 .. b BY <1>2
  <2>2. \A i \in 1 .. b : i = 1 \/ i \in 2 .. b BY <1>2
  <2>3. \A i \in 2 .. b : i \in 1 .. b BY <1>2, SMTT(30)
  <2> QED BY <1>3, <2>1, <2>2, <2>3, <1>0 DEF Other
<1>9. ASSUME NEW l \in Media PROVE TimeOf(l)'
  <2> DEFINE u == app.unwrap[l]
             v == app'.unwrap[l]
  <2>1. /\ u = IF u.seen THEN [seen |-> TRUE, last |-> u.current % TsMod, current |-> u.current] ELSE Fresh
        /\ u.current \in Int
        /\ \A j \in 1 .. n : due[j].kind = l /\ Other(l, 1, j - 1) => Follow(u, due[j].ts)
        /\ \A i, j \in 1 .. n :
             i < j /\ due[i].kind = l /\ due[j].kind = l /\ Other(l, i + 1, j - 1)
               => Near(due[i].ts, due[j].ts)
        /\ \A i \in 1 .. n : due[i].kind = l /\ Other(l, i + 1, n) => hist.time[l] = <<due[i].ts>>
        /\ Other(l, 1, n) => hist.time[l] = IF u.seen THEN <<u.current>> ELSE <<>>
    BY <1>0, <1>4 DEF TimeOf
  <2>2. l = k => v = new BY <1>6
  <2>3. l # k => v = u BY <1>6
  <2> HIDE DEF u, v
  <2>4. /\ v = IF v.seen THEN [seen |-> TRUE, last |-> v.current % TsMod, current |-> v.current] ELSE Fresh
        /\ v.current \in Int
    <3>1. CASE l = k BY <1>3, <1>5, <2>2, <3>1
    <3>2. CASE l # k BY <2>1, <2>3, <3>2
    <3> QED BY <3>1, <3>2
  <2>5. ASSUME NEW j \in 1 .. m, rest[j].kind = l, Other(l, 1, j - 1)' PROVE Follow(v, rest[j].ts)
    <3>1. j + 1 \in 1 .. n /\ rest[j] = due[j + 1] /\ 1 \in 1 .. m + 1 /\ j - 1 \in 0 .. m /\ (j - 1) + 1 = j
          /\ 1 + 1 = 2 /\ j \in 1 .. n /\ (j + 1) - 1 = j /\ 1 < j + 1 /\ 1 \in 1 .. n
      BY <1>2
    <3>2. Other(l, 2, j) BY <1>7, <2>5, <3>1
    <3>3. CASE l = k
      <4>1. Near(due[1].ts, due[j + 1].ts) BY <1>3, <2>1, <2>5, <3>1, <3>2, <3>3
      <4>2. v.seen /\ v.current = due[1].ts BY <1>3, <1>5, <2>2, <3>3
      <4> QED BY <3>1, <4>1, <4>2, SMTT(30) DEF Follow
    <3>4. CASE l # k
      <4>1. Other(l, 1, j) BY <1>8, <3>1, <3>2, <3>4
      <4>2. Follow(u, due[j + 1].ts) BY <2>1, <2>5, <3>1, <4>1
      <4> QED BY <2>3, <3>1, <3>4, <4>2
    <3> QED BY <3>3, <3>4
  <2>6. ASSUME NEW i \in 1 .. m, NEW j \in 1 .. m, i < j, rest[i].kind = l, rest[j].kind = l,
               Other(l, i + 1, j - 1)'
        PROVE  Near(rest[i].ts, rest[j].ts)
    <3>1. PICK x \in 1 .. n, y \in 1 .. n : x = i + 1 /\ y = j + 1 BY <1>2
    <3>2. x < y /\ x \in 1 .. m + 1 /\ j - 1 \in 0 .. m /\ (j - 1) + 1 = y - 1 BY <1>2, <2>6, <3>1
    <3>3. rest[i] = due[x] /\ rest[j] = due[y] BY <1>2, <3>1
    <3>4. Other(l, x, j - 1)' BY <2>6, <3>1
    <3>5. Other(l, x + 1, y - 1) BY <1>7, <3>2, <3>4
    <3>6. Near(due[x].ts, due[y].ts) BY <2>1, <2>6, <3>2, <3>3, <3>5
    <3> QED BY <3>3, <3>6
  <2>7. ASSUME NEW i \in 1 .. m, rest[i].kind = l, Other(l, i + 1, m)'
        PROVE  hist.time[l] = <<rest[i].ts>>
    <3>1. i + 1 \in 1 .. n /\ rest[i] = due[i + 1] /\ i + 1 \in 1 .. m + 1 /\ m \in 0 .. m /\ m + 1 = n
      BY <1>2
    <3>2. Other(l, (i + 1) + 1, n) BY <1>7, <2>7, <3>1
    <3> QED BY <2>1, <2>7, <3>1, <3>2
  <2>8. ASSUME Other(l, 1, m)' PROVE hist.time[l] = IF v.seen THEN <<v.current>> ELSE <<>>
    <3>1. 1 \in 1 .. m + 1 /\ m \in 0 .. m /\ m + 1 = n /\ 1 + 1 = 2 /\ 1 \in 1 .. n /\ n \in 1 .. n BY <1>2
    <3>2. Other(l, 2, n) BY <1>7, <2>8, <3>1
    <3>3. CASE l = k
      <4>1. hist.time[l] = <<due[1].ts>> BY <1>3, <2>1, <3>1, <3>2, <3>3
      <4>2. v.seen /\ v.current = due[1].ts BY <1>3, <1>5, <2>2, <3>3
      <4> QED BY <4>1, <4>2, SMTT(30)
    <3>4. CASE l # k
      <4>1. Other(l, 1, n) BY <1>8, <3>1, <3>2, <3>4
      <4> QED BY <2>1, <2>3, <3>4, <4>1
    <3> QED BY <3>3, <3>4
  <2>9. hist'.time[l] = hist.time[l] OBVIOUS
  <2> QED BY <2>4, <2>5, <2>6, <2>7, <2>8, <2>9, <1>0 DEF TimeOf, v
<1> QED BY <1>6, <1>9 DEF TimeInv

(* What is handed over is the first message that is due, at its time. *)
IsHandedOver(path, m) ==
  /\ Follows(path) /\ path[1].had \in 1 .. Len(hist.due) /\ Pending(path[1].had)
  /\ hist.due # <<>> /\ m = hist.due[1] /\ m \in Sent
  /\ srv.events[1] = Came(m)
  /\ app'.unwrap = [app.unwrap EXCEPT ![m.kind] = [seen |-> TRUE, last |-> m.ts % TsMod, current |-> m.ts]]
  /\ app' = [publishing |-> app.publishing, done |-> app.done, unwrap |-> app'.unwrap]
  /\ app'.publishing = app.publishing
  /\ hist'.due = Tail(hist.due) /\ hist'.time = hist.time /\ hist'.count = hist.count + 1
  /\ hist'.last = [kind |-> m.kind, ts |-> NotNegative(m.ts), body |-> m.body]

(* What is handed over is the oldest message due, at its true time         *)
(* (TsUnwrapper::unwrap).                                                  *)
LEMMA HandedOver ==
  ASSUME RtmpInv, HandOver
  PROVE  \E path, m : IsHandedOver(path, m)
<1> DEFINE e == srv.events[1]
<1>1. /\ Taking(Media)
      /\ LET h == Head(srv.events)
             u == Unwrapped(app.unwrap[h.kind], h.ts)
         IN /\ app' = [app EXCEPT !.unwrap[h.kind] = u]
            /\ hist' = [hist EXCEPT !.due = IF @ = <<>> THEN @ ELSE Tail(@), !.count = @ + 1,
                           !.last = [h EXCEPT !.ts = NotNegative(u.current)]]
  BY DEF HandOver
<1>2. /\ ~app.done /\ srv.events # <<>> /\ Head(srv.events) = e /\ e.kind \in Media
      /\ app = [publishing |-> app.publishing, done |-> app.done, unwrap |-> app.unwrap]
      /\ hist.due \in Seq(Sent) /\ srv.events \in Seq(Events)
  BY <1>1, TakenFirst DEF RtmpInv, Shape
<1>3. PICK path : Follows(path) BY <1>2 DEF RtmpInv, InStep
<1>4. Along(path, wire, hist.due) /\ Pending(path[1].had) BY <1>3 DEF Follows
<1>5. 1 \in 1 .. Len(wire) + 1
  <2>1. Len(wire) \in Nat BY DEF RtmpInv, Shape
  <2> QED BY <2>1
<1>6. Place(path[1], hist.due) BY <1>4, <1>5 DEF Along
<1>7. path[1].had \in 0 .. Len(hist.due) BY <1>6 DEF Place
<1>8. path[1].had # 0
  <2> SUFFICES ASSUME path[1].had = 0 PROVE FALSE OBVIOUS
  <2>1. 1 \in 0 + 1 .. Len(srv.events)
    <3>1. Len(srv.events) \in Nat \ {0} BY <1>2
    <3> QED BY <3>1
  <2>2. \A i \in 0 + 1 .. Len(srv.events) : srv.events[i].kind \in {"connect", "publish", "unpublish"}
    BY <1>4 DEF Pending
  <2>3. e.kind \in {"connect", "publish", "unpublish"} BY <2>1, <2>2
  <2> QED BY <1>2, <2>3 DEF Media
<1>9. path[1].had \in 1 .. Len(hist.due) /\ 1 \in 1 .. path[1].had /\ 1 \in 1 .. Len(hist.due)
  <2>1. Len(hist.due) \in Nat BY <1>2
  <2>2. PICK had, n : had = path[1].had /\ n = Len(hist.due) OBVIOUS
  <2>3. n \in Nat /\ had \in 0 .. n /\ had # 0 BY <1>7, <1>8, <2>1, <2>2
  <2>4. had \in 1 .. n /\ 1 \in 1 .. had /\ 1 \in 1 .. n BY <2>3
  <2> QED BY <2>2, <2>4
<1>10. hist.due # <<>> /\ hist.due[1] \in Sent
  <2>1. Len(<<>>) = 0 OBVIOUS
  <2>2. hist.due # <<>>
    <3> SUFFICES ASSUME hist.due = <<>> PROVE FALSE OBVIOUS
    <3>1. Len(hist.due) = 0 BY <2>1
    <3> QED BY <1>9, <3>1
  <2> QED BY <1>2, <1>9, <2>2
<1>11. PICK m \in Sent : m = hist.due[1] BY <1>10
<1>12. e = Came(m) BY <1>4, <1>9, <1>11 DEF Pending
<1>13. m.kind \in Media /\ m.ts \in Int /\ m.body \in Seq(Words) /\ e.kind = m.kind /\ e.ts = m.ts % TsMod
       /\ e = [kind |-> m.kind, ts |-> m.ts % TsMod, body |-> m.body]
  BY <1>12 DEF Sent, Came
<1>14. Unwrapped(app.unwrap[m.kind], m.ts % TsMod) = [seen |-> TRUE, last |-> m.ts % TsMod, current |-> m.ts]
  <2>7. PICK t \in Int, k \in Media : t = m.ts /\ k = m.kind BY <1>13
  <2>8. PICK u : u = app.unwrap[k] OBVIOUS
  <2>1. u = app.unwrap[k] /\ t = m.ts /\ k = m.kind BY <2>7, <2>8
  <2>2. TimeOf(k) BY DEF RtmpInv, TimeInv
  <2>3. u = IF u.seen THEN [seen |-> TRUE, last |-> u.current % TsMod, current |-> u.current] ELSE Fresh
    BY <2>1, <2>2 DEF TimeOf
  <2>4. u.current \in Int BY <2>1, <2>2 DEF TimeOf
  <2>5. Other(k, 1, 1 - 1)
    <3>1. \A i \in 1 .. 1 - 1 : FALSE BY SMTT(30)
    <3> QED BY <3>1 DEF Other
  <2>6. Follow(u, t) BY <1>9, <1>11, <2>1, <2>2, <2>5 DEF TimeOf
  <2> QED BY <2>1, <2>3, <2>4, <2>6, UnwrapsAs
<1> DEFINE new == [seen |-> TRUE, last |-> m.ts % TsMod, current |-> m.ts]
<1>15. Unwrapped(app.unwrap[Head(srv.events).kind], Head(srv.events).ts) = new BY <1>2, <1>13, <1>14
<1>16. new.current = m.ts OBVIOUS
<1> HIDE DEF new, e
<1>17. app' = [app EXCEPT !.unwrap[m.kind] = new] BY <1>1, <1>2, <1>13, <1>15
<1>18. /\ app'.unwrap = [app.unwrap EXCEPT ![m.kind] = new]
       /\ app' = [publishing |-> app.publishing, done |-> app.done, unwrap |-> app'.unwrap]
       /\ app'.publishing = app.publishing
  <2>1. PICK y, z, w : y = app.publishing /\ z = app.done /\ w = app.unwrap OBVIOUS
  <2>2. app = [publishing |-> y, done |-> z, unwrap |-> w] BY <1>2, <2>1
  <2>3. PICK v : v = [w EXCEPT ![m.kind] = new] OBVIOUS
  <2>4. app' = [app EXCEPT !.unwrap = v] BY <1>17, <2>1, <2>3
  <2>5. app' = [publishing |-> y, done |-> z, unwrap |-> v] BY <2>2, <2>4
  <2>6. app'.publishing = y /\ app'.unwrap = v BY <2>5
  <2> QED BY <2>1, <2>3, <2>5, <2>6
<1>19. [e EXCEPT !.ts = NotNegative(m.ts)] = [kind |-> m.kind, ts |-> NotNegative(m.ts), body |-> m.body]
  BY <1>13
<1>20. hist' = [hist EXCEPT !.due = IF @ = <<>> THEN @ ELSE Tail(@), !.count = @ + 1,
                  !.last = [e EXCEPT !.ts = NotNegative(m.ts)]]
  BY <1>1, <1>2, <1>15, <1>16
<1>21. hist'.time = hist.time /\ hist'.due = Tail(hist.due) /\ hist'.count = hist.count + 1
  BY <1>10, HandOverRecords DEF RtmpInv
<1>22. hist'.last = [e EXCEPT !.ts = NotNegative(m.ts)]
  <2>1. hist = [time |-> hist.time, due |-> hist.due, last |-> hist.last, count |-> hist.count]
    BY DEF RtmpInv, EncInv
  <2>2. "last" \in DOMAIN hist BY <2>1
  <2>3. PICK y : y = [e EXCEPT !.ts = NotNegative(m.ts)] OBVIOUS
  <2>4. hist' = [hist EXCEPT !.due = IF @ = <<>> THEN @ ELSE Tail(@), !.count = @ + 1, !.last = y]
    BY <1>20, <2>3
  <2>5. hist'.last = y BY <2>2, <2>4
  <2> QED BY <2>3, <2>5
<1>23. IsHandedOver(path, m)
  BY <1>3, <1>4, <1>9, <1>10, <1>11, <1>12, <1>18, <1>19, <1>21, <1>22 DEF IsHandedOver, new, e
<1> QED BY <1>23

(* What is to come, once a message was handed over. *)
LEMMA RestHanded ==
  ASSUME NEW had, hist.due \in Seq(Sent), had \in 1 .. Len(hist.due), Pending(had),
         IsRest(srv'.events, srv.events), hist.due # <<>>, hist'.due = Tail(hist.due)
  PROVE  Pending(had - 1)'
<1>0. PICK due, rest, s, t : due = hist.due /\ rest = hist'.due /\ s = srv.events /\ t = srv'.events OBVIOUS
<1>1. /\ Len(s) \in Nat \ {0} /\ Len(t) = Len(s) - 1
      /\ \A i \in 1 .. Len(t) : i + 1 \in 1 .. Len(s) /\ t[i] = s[i + 1]
  BY <1>0 DEF IsRest
<1>2. IsRest(rest, due) BY <1>0, RestIs
<1>3. Len(due) \in Nat /\ Len(rest) = Len(due) - 1 /\ \A i \in 1 .. Len(rest) : rest[i] = due[i + 1]
  BY <1>2 DEF IsRest
<1>4. had <= Len(s) /\ (\A i \in 1 .. had : s[i] = Came(due[i]))
      /\ \A i \in had + 1 .. Len(s) : s[i].kind \in {"connect", "publish", "unpublish"}
  BY <1>0 DEF Pending
<1>5. PICK n \in Nat, x \in Nat, y \in Nat : n = had - 1 /\ had = n + 1 /\ x = Len(t) /\ x + 1 = Len(s) /\ y = Len(rest)
                                 /\ had <= y + 1
  <2>1. had \in Nat /\ 1 <= had /\ had <= Len(due) BY <1>0, <1>3
  <2>2. PICK b \in Nat : b = Len(due) BY <1>3
  <2>3. b >= 1 BY <2>1, <2>2
  <2>4. Len(rest) = b - 1 /\ b - 1 \in Nat /\ had <= (b - 1) + 1 BY <1>3, <2>1, <2>2, <2>3
  <2>5. PICK a \in Nat \ {0} : a = Len(s) BY <1>1
  <2>6. Len(t) = a - 1 /\ a - 1 \in Nat /\ (a - 1) + 1 = a BY <1>1, <2>5
  <2>7. had - 1 \in Nat /\ had = (had - 1) + 1 BY <2>1
  <2> QED BY <2>4, <2>5, <2>6, <2>7
<1>6. n <= x BY <1>4, <1>5
<1>7. ASSUME NEW i \in 1 .. n PROVE t[i] = Came(rest[i])
  <2>1. i \in 1 .. x /\ i \in 1 .. y /\ i + 1 \in 1 .. had BY <1>5, <1>6
  <2>2. t[i] = s[i + 1] /\ rest[i] = due[i + 1] BY <1>1, <1>3, <1>5, <2>1
  <2> QED BY <1>4, <2>1, <2>2
<1>8. ASSUME NEW i \in n + 1 .. x PROVE t[i].kind \in {"connect", "publish", "unpublish"}
  <2>1. i \in 1 .. x /\ i + 1 \in had + 1 .. Len(s) BY <1>5
  <2> QED BY <1>1, <1>4, <1>5, <2>1
<1>9. Pending(n)' BY <1>0, <1>5, <1>6, <1>7, <1>8 DEF Pending, Came
<1> QED BY <1>0, <1>5, <1>6, <1>7, <1>8 DEF Pending, Came

(* To hand a message over keeps the invariant. *)
LEMMA HandOverKeeps ==
  ASSUME RtmpInv, HandOver
  PROVE  RtmpInv'
<1>1. Taking(Media) /\ srv' = Rested /\ UNCHANGED <<pub, enc, wire, back>> BY DEF HandOver
<1>2. /\ ~app.done /\ srv.events # <<>> /\ srv.events[1].kind \in Media /\ Tail(srv.events) \in Seq(Events)
      /\ IsRest(Tail(srv.events), srv.events)
      /\ Rested = Server(srv.shake, srv.state, srv.dec, srv.full, srv.reading, Tail(srv.events), srv.out,
                         srv.refused)
      /\ srv.out \in Seq(Answers) /\ srv.state \in States /\ back \in Seq(Answers)
      /\ hist.due \in Seq(Sent)
  BY <1>1, TakenFirst
<1>3. PICK path, m : IsHandedOver(path, m) BY HandedOver
<1>4. /\ Follows(path) /\ path[1].had \in 1 .. Len(hist.due) /\ Pending(path[1].had)
      /\ hist.due # <<>> /\ m = hist.due[1] /\ m \in Sent
      /\ app'.unwrap = [app.unwrap EXCEPT ![m.kind] = [seen |-> TRUE, last |-> m.ts % TsMod, current |-> m.ts]]
      /\ app' = [publishing |-> app.publishing, done |-> app.done, unwrap |-> app'.unwrap]
      /\ app'.publishing = app.publishing
      /\ hist'.due = Tail(hist.due) /\ hist'.time = hist.time
  BY <1>3 DEF IsHandedOver
<1>5. PICK es \in Seq(Events), os \in Seq(Answers), state \in States :
        es = Tail(srv.events) /\ os = srv.out /\ state = srv.state
  BY <1>2
<1>6. PICK full, reading : full = srv.full /\ reading = srv.reading OBVIOUS
<1>7. srv' = Server(srv.shake, state, srv.dec, full, reading, es, os, srv.refused) BY <1>1, <1>2, <1>5, <1>6
<1>8. /\ srv'.shake = srv.shake /\ srv'.state = srv.state /\ srv'.events = es /\ srv'.out = srv.out
      /\ srv'.full = srv.full
  BY <1>5, <1>6, <1>7 DEF Server
<1>9. IsRest(srv'.events, srv.events) BY <1>2, <1>5, <1>8
<1>10. srv.events[1].kind # "publish" /\ srv.events[1].kind # "unpublish" BY <1>2 DEF Media
<1>11. EncInv' BY HandOverRecords DEF RtmpInv
<1>12. TimeInv'
  <2>1. PICK k, t : k = hist.due[1].kind /\ t = hist.due[1].ts OBVIOUS
  <2>2. app'.unwrap = [app.unwrap EXCEPT ![k] = [seen |-> TRUE, last |-> t % TsMod, current |-> t]]
    BY <1>4, <2>1
  <2> QED BY <1>2, <1>4, <2>1, <2>2, TimeHanded DEF RtmpInv
<1>13. Ordered' BY <1>8, <1>9, <1>10, RestOrdered DEF RtmpInv
<1>14. Publishes' BY <1>4, <1>8, <1>9, <1>10, RestPublishes DEF RtmpInv
<1>15. wire \in Seq(Chunks) BY DEF RtmpInv, Shape
<1>16. PICK n \in Nat : n = Len(wire) + 1 /\ 1 \in 1 .. n /\ n \in 1 .. n
  <2>1. Len(wire) \in Nat BY <1>15
  <2> QED BY <2>1
<1>17. PICK due \in Seq(Sent) : due = hist.due BY <1>2
<1>18. Along(path, wire, due) /\ due # <<>> /\ 1 <= path[1].had
  <2>1. Along(path, wire, hist.due) BY <1>4 DEF Follows
  <2>2. 1 <= path[1].had
    <3>1. PICK b \in Nat : b = Len(due) OBVIOUS
    <3>2. path[1].had \in 1 .. b BY <1>4, <1>17, <3>1
    <3> QED BY <3>2
  <2> QED BY <1>4, <1>17, <2>1, <2>2
<1>19. PICK way : way = [i \in 1 .. Len(wire) + 1 |-> Less(path[i])] OBVIOUS
<1>20. Along(way, wire, Tail(due)) BY <1>15, <1>18, <1>19, HandedWay
<1>21. way[1] = Less(path[1]) /\ way[n] = Less(path[n]) BY <1>16, <1>19
<1>22. path[n].enc = enc /\ path[n].had = Len(hist.due) /\ Expects(path[n].at) /\ path[1].at = Stage(srv)
  BY <1>4, <1>16 DEF Follows
<1>23. PICK last : last = way[n] OBVIOUS
<1>24. last.enc = enc /\ last.had = Len(hist'.due) /\ last.at = path[n].at
  <2>1. last.enc = path[n].enc /\ last.had = path[n].had - 1 /\ last.at = path[n].at BY <1>21, <1>23 DEF Less
  <2>2. Len(hist'.due) = Len(hist.due) - 1
    <3>1. IsRest(hist'.due, hist.due) BY <1>2, <1>4, RestIs
    <3> QED BY <3>1 DEF IsRest
  <2> QED BY <1>22, <2>1, <2>2
<1>25. Expects(last.at)'
  <2>1. Expects(last.at) BY <1>22, <1>24
  <2> QED BY <1>1, <1>8, <2>1 DEF Expects, Answered
<1>26. way[1].enc = path[1].enc /\ way[1].at = Stage(srv')
  BY <1>8, <1>21, <1>22 DEF Less, Stage
<1>27. Pending(way[1].had)'
  <2>1. PICK had : had = path[1].had OBVIOUS
  <2>2. Pending(had - 1)' BY <1>2, <1>4, <1>9, <2>1, RestHanded
  <2>3. way[1].had = had - 1 BY <1>21, <2>1 DEF Less
  <2> QED BY <2>2, <2>3
<1>28. Answered("bandwidth")' => Answered("bandwidth") BY <1>1, <1>8 DEF Answered
<1>29. Answered("Publish.Start")' => state \in {"Publishing", "Closed"}
  BY <1>1, <1>4, <1>5, <1>8 DEF Answered, Follows
<1>30. ~app.done /\ UNCHANGED <<pub, enc, wire>> /\ back' \in Seq(Answers) BY <1>1, <1>2
<1>31. app' = [publishing |-> app'.publishing, done |-> app.done, unwrap |-> app'.unwrap] BY <1>4
<1>32. Follows(path) BY <1>4
<1>33. Along(way, wire, hist'.due) BY <1>4, <1>17, <1>20
<1>34. last = way[Len(wire) + 1] BY <1>16, <1>23
<1> QED BY <1>7, <1>11, <1>12, <1>13, <1>14, <1>24, <1>25, <1>26, <1>27, <1>28, <1>29, <1>30, <1>31, <1>32, <1>33,
           <1>34, SessionCloses

-----------------------------------------------------------------------------
(* The publisher writes *)

LEMMA OneMore ==
  ASSUME NEW S, NEW s \in Seq(S), NEW a \in S, NEW t, t = s \o <<a>>
  PROVE  /\ t \in Seq(S) /\ Len(t) = Len(s) + 1 /\ t[Len(s) + 1] = a
         /\ \A i \in 1 .. Len(s) : t[i] = s[i]
<1>1. PICK one : one = <<a>> OBVIOUS
<1>2. one \in Seq(S) /\ Len(one) = 1 /\ one[1] = a BY <1>1
<1>3. t \in Seq(S) BY <1>1, <1>2
<1>4. /\ Len(t) = Len(s) + Len(one)
      /\ \A i \in 1 .. Len(s) + Len(one) : t[i] = IF i <= Len(s) THEN s[i] ELSE one[i - Len(s)]
  BY <1>1, <1>2, ConcatProperties
<1>5. PICK n \in Nat : n = Len(s) OBVIOUS
<1>6. n + 1 \in 1 .. n + 1 /\ ~(n + 1 <= n) /\ (n + 1) - n = 1 BY <1>5
<1>7. t[n + 1] = a BY <1>2, <1>4, <1>5, <1>6
<1>8. \A i \in 1 .. n : i \in 1 .. n + 1 /\ i <= n BY <1>5
<1>9. \A i \in 1 .. n : t[i] = s[i] BY <1>2, <1>4, <1>5, <1>8
<1> QED BY <1>2, <1>3, <1>4, <1>5, <1>7, <1>9

(* Two chunks more are one more and one more. *)
LEMMA TwoMore ==
  ASSUME NEW S, NEW s \in Seq(S), NEW a \in S, NEW b \in S
  PROVE  s \o <<a, b>> = (s \o <<a>>) \o <<b>>
<1>1. PICK one, two, t : one = s \o <<a>> /\ two = one \o <<b>> /\ t = <<a, b>> OBVIOUS
<1>2. /\ one \in Seq(S) /\ Len(one) = Len(s) + 1 /\ one[Len(s) + 1] = a
      /\ \A i \in 1 .. Len(s) : one[i] = s[i]
  BY <1>1, OneMore
<1>3. /\ two \in Seq(S) /\ Len(two) = Len(one) + 1 /\ two[Len(one) + 1] = b
      /\ \A i \in 1 .. Len(one) : two[i] = one[i]
  BY <1>1, <1>2, OneMore
<1>4. t \in Seq(S) /\ Len(t) = 2 /\ t[1] = a /\ t[2] = b BY <1>1
<1>5. PICK x : x = s \o t OBVIOUS
<1>6. /\ x \in Seq(S) /\ Len(x) = Len(s) + Len(t)
      /\ \A i \in 1 .. Len(s) + Len(t) : x[i] = IF i <= Len(s) THEN s[i] ELSE t[i - Len(s)]
  BY <1>4, <1>5, ConcatProperties
<1>7. PICK n \in Nat : n = Len(s) OBVIOUS
<1>8. Len(x) = n + 2 /\ Len(two) = n + 2 /\ Len(one) = n + 1 BY <1>2, <1>3, <1>4, <1>6, <1>7
<1>9. ASSUME NEW i \in 1 .. n + 2 PROVE x[i] = two[i]
  <2>1. x[i] = IF i <= n THEN s[i] ELSE t[i - n] BY <1>4, <1>6, <1>7
  <2>2. CASE i <= n
    <3>1. i \in 1 .. n /\ i \in 1 .. n + 1 BY <2>2
    <3> QED BY <1>2, <1>3, <1>7, <1>8, <2>1, <2>2, <3>1
  <2>3. CASE i = n + 1
    <3>1. ~(i <= n) /\ i - n = 1 /\ i \in 1 .. n + 1 BY <2>3
    <3> QED BY <1>2, <1>3, <1>4, <1>7, <1>8, <2>1, <2>3, <3>1
  <2>4. CASE i = n + 2
    <3>1. ~(i <= n) /\ i - n = 2 /\ (n + 1) + 1 = n + 2 BY <2>4
    <3> QED BY <1>3, <1>4, <1>8, <2>1, <2>4, <3>1
  <2> QED BY <2>2, <2>3, <2>4
<1>10. x = two BY <1>3, <1>6, <1>8, <1>9, SeqEqual
<1> QED BY <1>1, <1>5, <1>10

(* And three are two more and one more. *)
LEMMA ThreeMore ==
  ASSUME NEW S, NEW s \in Seq(S), NEW a \in S, NEW b \in S, NEW c \in S
  PROVE  s \o <<a, b, c>> = ((s \o <<a>>) \o <<b>>) \o <<c>>
<1>1. <<a, b, c>> = <<a>> \o <<b, c>> OBVIOUS
<1>2. PICK one, t : one = <<a>> /\ t = <<b, c>> OBVIOUS
<1>3. one \in Seq(S) /\ t \in Seq(S) BY <1>2
<1>4. s \o (one \o t) = (s \o one) \o t BY <1>3, ConcatAssociative, SMTT(30)
<1>5. PICK w : w = s \o one OBVIOUS
<1>6. w \in Seq(S) BY <1>3, <1>5
<1>7. w \o <<b, c>> = (w \o <<b>>) \o <<c>> BY <1>6, TwoMore, SMTT(30)
<1> QED BY <1>1, <1>2, <1>4, <1>5, <1>7

(* The wire leads from one place to another. *)
Reaches(first, w, x, due) == \E q : Along(q, w, due) /\ q[1] = first /\ q[Len(w) + 1] = x

(* A chunk more on the wire leads a place further. *)
LEMMA ReachesOn ==
  ASSUME NEW due \in Seq(Sent), NEW more \in Seq(Sent), Extends(due, more), NEW w \in Seq(Chunks),
         NEW first, NEW x, Reaches(first, w, x, due), NEW ch \in Chunks, NEW y, Place(y, more),
         Wrote(x, ch, y, more)
  PROVE  Reaches(first, w \o <<ch>>, y, more)
<1>1. PICK path : Along(path, w, due) /\ path[1] = first /\ path[Len(w) + 1] = x BY DEF Reaches
<1>2. Wrote(path[Len(w) + 1], ch, y, more) BY <1>1
<1>3. PICK q : Longer(q, path, w, ch, y, more) BY <1>1, <1>2, Lengthened
<1>4. PICK t : t = w \o <<ch>> OBVIOUS
<1>5. Along(q, t, more) /\ q[1] = first /\ q[Len(w) + 2] = y BY <1>1, <1>3, <1>4 DEF Longer
<1>6. Len(t) = Len(w) + 1 BY <1>4, OneMore
<1>7. Len(t) + 1 = Len(w) + 2
  <2>1. PICK n \in Nat : n = Len(w) OBVIOUS
  <2> QED BY <1>6, <2>1
<1>8. Reaches(first, t, y, more) BY <1>5, <1>7 DEF Reaches
<1> QED BY <1>4, <1>8

(* What the publisher wrote leads to where it takes the relay to be. *)
Leaves(path, x) ==
  /\ Follows(path) /\ Extends(hist.due, hist'.due) /\ Reaches(path[1], wire', x, hist'.due)
  /\ x.enc = enc' /\ x.had = Len(hist'.due) /\ Expects(x.at)'

(* What the publisher writes keeps the invariant if the wire leads to      *)
(* where it then is.                                                       *)
LEMMA WriteCloses ==
  ASSUME RtmpInv, srv' = srv, app' = app, EncInv', TimeInv', wire' \in Seq(Chunks), back' \in Seq(Answers),
         pub' = [state |-> pub'.state, made |-> pub'.made, odd |-> pub'.odd],
         \A a : Among(a, back') => Among(a, back),
         app.done \/ \E path, x : Leaves(path, x)
  PROVE  RtmpInv'
<1>1. Shape' BY DEF RtmpInv, Shape
<1>2. Ordered' BY DEF RtmpInv, Ordered, LastKind
<1>3. Publishes' BY DEF RtmpInv, Publishes, LastKind
<1>4. NeverRefused' /\ Ended' BY DEF RtmpInv, NeverRefused, Ended
<1>5. InStep'
  <2>1. CASE app.done BY <2>1 DEF InStep
  <2>2. ASSUME NEW path, NEW x, Leaves(path, x) PROVE InStep'
    <3>1. /\ Follows(path) /\ Extends(hist.due, hist'.due)
          /\ x.enc = enc' /\ x.had = Len(hist'.due) /\ Expects(x.at)'
      BY <2>2 DEF Leaves
    <3>2. PICK q : Along(q, wire', hist'.due) /\ q[1] = path[1] /\ q[Len(wire') + 1] = x
      BY <2>2 DEF Leaves, Reaches
    <3>3. /\ Along(path, wire, hist.due) /\ path[1].at = Stage(srv) /\ Matches(srv.dec, path[1].enc)
          /\ Pending(path[1].had)
          /\ Answered("bandwidth") => srv.shake = "Done"
          /\ Answered("Publish.Start") => srv.state \in {"Publishing", "Closed"}
      BY <3>1 DEF Follows
    <3>4. \A a : Answered(a)' => Answered(a) BY DEF Answered
    <3>5. Stage(srv') = Stage(srv) /\ srv'.dec = srv.dec /\ srv'.shake = srv.shake /\ srv'.state = srv.state
      OBVIOUS
    <3>6. Pending(q[1].had)'
      <4>1. 1 \in 1 .. Len(wire) + 1
        <5>1. Len(wire) \in Nat BY DEF RtmpInv, Shape
        <5> QED BY <5>1
      <4>2. Place(path[1], hist.due) BY <3>3, <4>1 DEF Along
      <4>3. PICK had \in 0 .. Len(hist.due) : had = path[1].had BY <4>2 DEF Place
      <4>4. Len(hist.due) \in Nat BY DEF RtmpInv, EncInv
      <4>5. \A i \in 1 .. had : i \in 1 .. Len(hist.due) BY <4>4
      <4>6. \A i \in 1 .. had : hist'.due[i] = hist.due[i] BY <3>1, <4>5 DEF Extends
      <4>7. Pending(had) BY <3>3, <4>3
      <4>8. Pending(had)' BY <4>6, <4>7 DEF Pending, Came
      <4> QED BY <3>2, <4>3, <4>8
    <3>7. Follows(q)' BY <3>1, <3>2, <3>3, <3>4, <3>5, <3>6 DEF Follows
    <3> QED BY <3>7 DEF InStep
  <2> QED BY <2>1, <2>2
<1> QED BY <1>1, <1>2, <1>3, <1>4, <1>5 DEF RtmpInv

(* What the publisher says of its session. *)
At(at) == [at |-> at, enc |-> enc, had |-> Len(hist.due)]
Went(first, w, at) == w \in Seq(Chunks) /\ Reaches(first, w, At(at), hist.due)

(* What is said is a chunk. *)
LEMMA SayIs ==
  ASSUME EncInv, NEW csid \in Nat, NEW type \in Types, NEW word \in Words
  PROVE  Say(csid, type, word) \in Chunks
<1>1. 0 \in Bits /\ <<word>> \in Seq(Words) /\ enc.size \in Nat \ {0}
  BY ChunkConstants DEF EncInv, WellWritten, Encoders, Bits
<1>2. PICK fmt \in 0 .. 3 : fmt = 0 OBVIOUS
<1>3. PICK value \in Bits : value = 0 BY <1>1
<1>4. PICK size \in Nat \ {0} : size = enc.size BY <1>1
<1>5. PICK body \in Seq(Words) : body = <<word>> BY <1>1
<1>6. FirstChunk(fmt, csid, value, type, body, size) \in Chunks BY FirstIs
<1> QED BY <1>2, <1>3, <1>4, <1>5, <1>6 DEF Say

(* A packet of the handshake is a chunk. *)
LEMMA PacketIs ==
  ASSUME NEW name \in {"C0C1", "C2"}
  PROVE  Packet(name) \in Chunks
<1>1. 0 \in Bits /\ <<>> \in Seq(Words) BY ChunkConstants DEF Bits
<1>2. PICK fmt \in 0 .. 3, csid \in Nat : fmt = 0 /\ csid = 0 OBVIOUS
<1>3. PICK value \in Bits : value = 0 BY <1>1
<1>4. PICK size \in Nat \ {0} : size = 1 OBVIOUS
<1>5. PICK body \in Seq(Words) : body = <<>> BY <1>1
<1>6. FirstChunk(fmt, csid, value, name, body, size) \in Chunks BY FirstIs
<1> QED BY <1>2, <1>3, <1>4, <1>5, <1>6 DEF Packet

(* A command is a chunk. *)
LEMMA ToldIs ==
  ASSUME EncInv, NEW name \in Names
  PROVE  Told(name) \in Chunks
<1>1. <<name, 0>> \in Words BY DEF Words, Tags
<1>2. "command" \in Types /\ Command \in Nat BY DEF Types, Command
<1> QED BY <1>1, <1>2, SayIs DEF Told

(* What is said leads a place further. *)
LEMMA SaysOn ==
  ASSUME EncInv, NEW first, NEW w, NEW at, Went(first, w, at), NEW to \in Stages, NEW ch \in Chunks,
         Shook(At(at), At(to)) \/ Said(At(at), ch, At(to)) \/ Controlled(At(at), ch, At(to))
  PROVE  Went(first, w \o <<ch>>, to)
<1>1. PICK due \in Seq(Sent) : due = hist.due BY DEF EncInv
<1>2. w \in Seq(Chunks) /\ Reaches(first, w, At(at), due) BY <1>1 DEF Went
<1>3. Place(At(to), due)
  <2>1. Len(due) \in Nat OBVIOUS
  <2>2. Len(due) \in 0 .. Len(due) BY <2>1
  <2>3. WellWritten(enc) BY DEF EncInv
  <2>4. PICK x : x = At(to) OBVIOUS
  <2>5. x.at = to /\ x.enc = enc /\ x.had = Len(due) /\ x = [at |-> x.at, enc |-> x.enc, had |-> x.had]
    BY <1>1, <2>4 DEF At
  <2>6. Place(x, due) BY <2>2, <2>3, <2>5 DEF Place
  <2> QED BY <2>4, <2>6
<1>4. Extends(due, due) BY DEF Extends
<1>5. PICK x, y : x = At(at) /\ y = At(to) OBVIOUS
<1>6. Wrote(x, ch, y, due) BY <1>5 DEF Wrote
<1>7. Reaches(first, w \o <<ch>>, y, due) BY <1>2, <1>3, <1>4, <1>5, <1>6, ReachesOn
<1>8. w \o <<ch>> \in Seq(Chunks)
  <2>1. PICK t : t = w \o <<ch>> OBVIOUS
  <2>2. t \in Seq(Chunks) BY <1>2, <2>1, OneMore
  <2> QED BY <2>1, <2>2
<1> QED BY <1>1, <1>5, <1>7, <1>8 DEF Went

(* A command in its turn leads a place further. *)
LEMMA ToldOn ==
  ASSUME EncInv, NEW first, NEW w, NEW at, Went(first, w, at), NEW to \in Stages, NEW name \in Names,
         Leads(at, name, to)
  PROVE  Went(first, w \o <<Told(name)>>, to)
<1>1. PICK ch \in Chunks : ch = Told(name) BY ToldIs
<1>2. PICK a, b : a = At(at) /\ b = At(to) OBVIOUS
<1>3. a.at = at /\ b.at = to /\ b.enc = a.enc /\ b.had = a.had /\ a.enc = enc BY <1>2 DEF At
<1>4. ch = FirstChunk(0, Command, 0, "command", <<<<name, 0>>>>, a.enc.size) BY <1>1, <1>3 DEF Told, Say
<1>5. Said(a, ch, b) BY <1>3, <1>4 DEF Said
<1>6. Went(first, w \o <<ch>>, to) BY <1>2, <1>5, SaysOn
<1> QED BY <1>1, <1>6

(* A packet of the handshake leads a place further. *)
LEMMA PacketOn ==
  ASSUME EncInv, NEW first, NEW w, NEW at, Went(first, w, at), NEW to, NEW name \in {"C0C1", "C2"},
         (at = "WaitC0C1" /\ to = "WaitC2") \/ (at = "WaitC2" /\ to = "AwaitConnect")
  PROVE  Went(first, w \o <<Packet(name)>>, to)
<1>1. PICK ch \in Chunks : ch = Packet(name) BY PacketIs
<1>2. PICK a, b : a = At(at) /\ b = At(to) OBVIOUS
<1>3. a.at = at /\ b.at = to /\ b.enc = a.enc /\ b.had = a.had BY <1>2 DEF At
<1>4. Shook(a, b) BY <1>3 DEF Shook
<1>5. to \in Stages BY DEF Stages, Shakes
<1>6. Went(first, w \o <<ch>>, to) BY <1>2, <1>4, <1>5, SaysOn
<1> QED BY <1>1, <1>6

(* A window leads to where one is. *)
LEMMA WindowOn ==
  ASSUME EncInv, NEW first, NEW w, NEW at \in Stages \ Shakes, Went(first, w, at)
  PROVE  /\ Went(first, w \o <<Say(Control, "window", <<"window", 0>>)>>, at)
         /\ Say(Control, "window", <<"window", 0>>) \in Chunks
<1>1. PICK ch \in Chunks : ch = Say(Control, "window", <<"window", 0>>)
  <2>1. <<"window", 0>> \in Words BY DEF Words, Tags
  <2>2. "window" \in Types /\ Control \in Nat BY DEF Types, Control
  <2> QED BY <2>1, <2>2, SayIs
<1>2. PICK a : a = At(at) OBVIOUS
<1>3. a.at = at /\ a.enc = enc BY <1>2 DEF At
<1>4. ch = InControl(a.enc, "window", <<"window", 0>>) BY <1>1, <1>3 DEF InControl, Say
<1>5. Controlled(a, ch, a) BY <1>3, <1>4 DEF Controlled
<1>6. Went(first, w \o <<ch>>, at) BY <1>2, <1>5, SaysOn
<1> QED BY <1>1, <1>6

(* Where the wire leads before the publisher writes. *)
LEMMA WentHere ==
  ASSUME RtmpInv, NEW path, Follows(path)
  PROVE  \E at \in Stages : /\ Went(path[1], wire, at) /\ Expects(at) /\ Forward(path[1], At(at))
                            /\ Place(At(at), hist.due)
<1>1. wire \in Seq(Chunks) BY DEF RtmpInv, Shape
<1>2. PICK n \in Nat : n = Len(wire) + 1 /\ 1 \in 1 .. n /\ n \in 1 .. n /\ 1 <= n
  <2>1. Len(wire) \in Nat BY <1>1
  <2> QED BY <2>1
<1>3. Along(path, wire, hist.due) /\ path[n].enc = enc /\ path[n].had = Len(hist.due) /\ Expects(path[n].at)
  BY <1>2 DEF Follows
<1>4. Place(path[n], hist.due) /\ Forward(path[1], path[n]) BY <1>2, <1>3 DEF Along
<1>5. PICK x : x = path[n] OBVIOUS
<1>6. x = At(x.at) /\ x.at \in Stages BY <1>3, <1>4, <1>5 DEF Place, At
<1>7. Reaches(path[1], wire, x, hist.due) BY <1>2, <1>3, <1>5 DEF Reaches
<1>8. Went(path[1], wire, x.at) BY <1>1, <1>6, <1>7 DEF Went
<1> QED BY <1>3, <1>4, <1>5, <1>6, <1>8

(* It writes no media. *)
LEMMA SayCloses ==
  ASSUME RtmpInv, UNCHANGED <<enc, srv, app, hist>>, wire' \in Seq(Chunks), back' \in Seq(Answers),
         pub' = [state |-> pub'.state, made |-> pub'.made, odd |-> pub'.odd],
         \A a : Among(a, back') => Among(a, back),
         app.done \/ \E path, to : Follows(path) /\ Went(path[1], wire', to) /\ Expects(to)'
  PROVE  RtmpInv'
<1>1. EncInv' BY DEF RtmpInv, EncInv
<1>2. TimeInv' BY TimeKept DEF RtmpInv
<1>3. ASSUME NEW path, NEW to, Follows(path), Went(path[1], wire', to), Expects(to)'
      PROVE  \E way, x : Leaves(way, x)
  <2>1. PICK x : x = At(to) OBVIOUS
  <2>2. x.at = to /\ x.enc = enc /\ x.had = Len(hist.due) BY <2>1 DEF At
  <2>3. Reaches(path[1], wire', x, hist.due) BY <1>3, <2>1 DEF Went
  <2>4. Extends(hist.due, hist'.due) BY DEF Extends, RtmpInv, EncInv
  <2>5. Reaches(path[1], wire', x, hist'.due)
    <3>1. PICK due : due = hist.due OBVIOUS
    <3>2. hist'.due = due BY <3>1
    <3> QED BY <2>3, <3>1, <3>2
  <2>6. Leaves(path, x) BY <1>3, <2>2, <2>4, <2>5 DEF Leaves
  <2> QED BY <2>6
<1>4. app.done \/ \E path, x : Leaves(path, x) BY <1>3
<1> QED BY <1>1, <1>2, <1>4, WriteCloses

(* A publisher of which only the state changes. *)
LEMMA PubIs ==
  ASSUME NEW s, NEW state, s = [state |-> s.state, made |-> s.made, odd |-> s.odd]
  PROVE  LET t == [s EXCEPT !.state = state]
         IN t = [state |-> t.state, made |-> t.made, odd |-> t.odd] /\ t.state = state
<1>1. PICK a, b, c : a = s.state /\ b = s.made /\ c = s.odd OBVIOUS
<1>2. s = [state |-> a, made |-> b, odd |-> c] BY <1>1
<1>3. PICK t : t = [s EXCEPT !.state = state] OBVIOUS
<1>4. t = [state |-> state, made |-> b, odd |-> c] BY <1>2, <1>3
<1>5. t.state = state /\ t.made = b /\ t.odd = c BY <1>4
<1>6. t = [state |-> t.state, made |-> t.made, odd |-> t.odd] BY <1>4, <1>5
<1> QED BY <1>3, <1>5, <1>6

(* To start the handshake keeps the invariant. *)
LEMMA HelloKeeps ==
  ASSUME RtmpInv, Hello
  PROVE  RtmpInv'
<1>1. /\ pub.state = "Start" /\ pub' = [pub EXCEPT !.state = "Greeting"]
      /\ wire' = wire \o <<Packet("C0C1")>> /\ UNCHANGED <<enc, back, srv, app, hist>>
  BY DEF Hello, Write
<1>2. EncInv /\ wire \in Seq(Chunks) /\ back \in Seq(Answers)
      /\ pub = [state |-> pub.state, made |-> pub.made, odd |-> pub.odd]
  BY DEF RtmpInv, Shape
<1>3. pub' = [state |-> pub'.state, made |-> pub'.made, odd |-> pub'.odd] /\ pub'.state = "Greeting"
  BY <1>1, <1>2, PubIs
<1>4. wire' \in Seq(Chunks)
  <2>1. PICK ch \in Chunks : ch = Packet("C0C1") BY PacketIs
  <2>2. PICK t : t = wire \o <<ch>> OBVIOUS
  <2>3. t \in Seq(Chunks) BY <1>2, <2>2, OneMore
  <2> QED BY <1>1, <2>1, <2>2, <2>3
<1>5. ASSUME NEW path, Follows(path)
      PROVE  \E to : Went(path[1], wire', to) /\ Expects(to)'
  <2>1. PICK at \in Stages : Went(path[1], wire, at) /\ Expects(at) BY <1>5, WentHere
  <2>2. at = "WaitC0C1" BY <1>1, <2>1 DEF Expects
  <2>8. PICK name \in {"C0C1", "C2"} : name = "C0C1" OBVIOUS
  <2>9. PICK first, w, to : first = path[1] /\ w = wire /\ to = "WaitC2" OBVIOUS
  <2>3. first = path[1] /\ w = wire /\ name = "C0C1" /\ to = "WaitC2" BY <2>8, <2>9
  <2>4. Went(first, w \o <<Packet(name)>>, to) BY <1>2, <2>1, <2>2, <2>3, PacketOn
  <2>5. wire' = w \o <<Packet(name)>> BY <1>1, <2>3
  <2>6. Went(path[1], wire', to) BY <2>3, <2>4, <2>5
  <2>7. Expects(to)' BY <1>3, <2>3 DEF Expects
  <2> QED BY <2>6, <2>7
<1>6. app.done \/ \E path, to : Follows(path) /\ Went(path[1], wire', to) /\ Expects(to)'
  BY <1>5 DEF RtmpInv, InStep
<1>7. back' \in Seq(Answers) /\ \A a : Among(a, back') => Among(a, back) BY <1>1, <1>2
<1> QED BY <1>1, <1>3, <1>4, <1>6, <1>7, SayCloses

(* To close the stream keeps it (ClientSession::close). *)
LEMMA CloseKeeps ==
  ASSUME RtmpInv, Close
  PROVE  RtmpInv'
<1>1. /\ pub.state \in {"Connecting", "CreatingStream", "PublishPending", "Publishing"}
      /\ pub' = [pub EXCEPT !.state = "Closed"]
      /\ wire' = wire \o (IF pub.state \in {"PublishPending", "Publishing"}
                          THEN <<Told("FCUnpublish"), Told("deleteStream")>> ELSE <<>>)
      /\ UNCHANGED <<enc, back, srv, app, hist>>
  BY DEF Close, Write
<1>2. EncInv /\ wire \in Seq(Chunks) /\ back \in Seq(Answers)
      /\ pub = [state |-> pub.state, made |-> pub.made, odd |-> pub.odd]
  BY DEF RtmpInv, Shape
<1>3. pub' = [state |-> pub'.state, made |-> pub'.made, odd |-> pub'.odd] /\ pub'.state = "Closed"
  BY <1>1, <1>2, PubIs
<1>4. \A at : at \in {"Connected", "Closed"} => Expects(at)' BY <1>3 DEF Expects
<1>5. PICK a \in Names, b \in Names : a = "FCUnpublish" /\ b = "deleteStream" BY DEF Names
<1>6. Told(a) \in Chunks /\ Told(b) \in Chunks BY <1>2, ToldIs
<1>7. back' \in Seq(Answers) /\ \A x : Among(x, back') => Among(x, back) BY <1>1, <1>2
<1>8. CASE pub.state \in {"PublishPending", "Publishing"}
  <2>1. PICK one, two : one = wire \o <<Told(a)>> /\ two = one \o <<Told(b)>> OBVIOUS
  <2>2. one \in Seq(Chunks) BY <1>2, <1>6, <2>1, OneMore
  <2>3. two \in Seq(Chunks) BY <1>6, <2>1, <2>2, OneMore
  <2>4. wire' = two
    <3>1. wire' = wire \o <<Told(a), Told(b)>> BY <1>1, <1>5, <1>8
    <3>2. PICK c \in Chunks, d \in Chunks : c = Told(a) /\ d = Told(b) BY <1>6
    <3>3. wire \o <<c, d>> = (wire \o <<c>>) \o <<d>> BY <1>2, TwoMore, SMTT(30)
    <3> QED BY <2>1, <3>1, <3>2, <3>3
  <2>5. ASSUME NEW path, Follows(path)
        PROVE  \E to : Went(path[1], wire', to) /\ Expects(to)'
    <3>1. PICK at \in Stages : Went(path[1], wire, at) /\ Expects(at) BY <2>5, WentHere
    <3>2. at \in {"PublishPending", "Publishing"} BY <1>8, <3>1 DEF Expects
    <3>3. PICK to \in Stages : to = "Closed" BY DEF Stages
    <3>4. Leads(at, a, to) /\ Leads(to, b, to) BY <1>5, <3>2, <3>3 DEF Leads, Ending
    <3>5. PICK first, w : first = path[1] /\ w = wire OBVIOUS
    <3>6. Went(first, w \o <<Told(a)>>, to) BY <1>2, <3>1, <3>4, <3>5, ToldOn
    <3>7. Went(first, one, to) BY <2>1, <3>5, <3>6
    <3>8. Went(first, one \o <<Told(b)>>, to) BY <1>2, <3>4, <3>7, ToldOn
    <3> QED BY <1>4, <2>1, <2>4, <3>3, <3>5, <3>8
  <2>6. app.done \/ \E path, to : Follows(path) /\ Went(path[1], wire', to) /\ Expects(to)'
    BY <2>5 DEF RtmpInv, InStep
  <2>7. wire' \in Seq(Chunks) BY <2>3, <2>4
  <2> QED BY <1>1, <1>3, <1>7, <2>6, <2>7, SayCloses
<1>9. CASE pub.state \in {"Connecting", "CreatingStream"}
  <2>1. wire' = wire BY <1>1, <1>2, <1>9
  <2>2. ASSUME NEW path, Follows(path)
        PROVE  \E to : Went(path[1], wire', to) /\ Expects(to)'
    <3>1. PICK at \in Stages : Went(path[1], wire, at) /\ Expects(at) BY <2>2, WentHere
    <3>2. at = "Connected" BY <1>9, <3>1 DEF Expects
    <3> QED BY <1>4, <2>1, <3>1, <3>2
  <2>3. app.done \/ \E path, to : Follows(path) /\ Went(path[1], wire', to) /\ Expects(to)'
    BY <2>2 DEF RtmpInv, InStep
  <2>4. wire' \in Seq(Chunks) BY <1>2, <2>1
  <2> QED BY <1>1, <1>3, <1>7, <2>3, <2>4, SayCloses
<1> QED BY <1>1, <1>8, <1>9

(* What an answer makes the publisher say and wait for. *)
Says(say, state) ==
  /\ wire' = wire \o say /\ pub'.state = state
  /\ pub' = [state |-> pub'.state, made |-> pub'.made, odd |-> pub'.odd]
  /\ UNCHANGED <<enc, srv, app, hist>> /\ back' \in Seq(Answers)
  /\ \A a : Among(a, back') => Among(a, back)

(* What the publisher does about an answer (ClientSession::handle). *)
LEMMA AnswerIs ==
  ASSUME RtmpInv, Receive
  PROVE  \/ pub.state = "Greeting" /\ Says(<<Packet("C2"), Told("connect")>>, "Connecting")
         \/ Among("bandwidth", back) /\ Says(<<Say(Control, "window", <<"window", 0>>)>>, pub.state)
         \/ /\ pub.state = "Connecting"
            /\ Says(<<Told("releaseStream"), Told("FCPublish"), Told("createStream")>>, "CreatingStream")
         \/ pub.state = "CreatingStream" /\ Says(<<Told("publish")>>, "PublishPending")
         \/ /\ Among("Publish.Start", back) /\ pub.state = "PublishPending"
            /\ Says(<<>>, "Publishing")
         \/ Says(<<>>, "Failed")
         \/ Says(<<>>, pub.state)
<1> DEFINE a == Head(back)
<1>1. /\ back # <<>> /\ back' = Tail(back) /\ pub' = [pub EXCEPT !.state = Answer(a).state]
      /\ wire' = wire \o Answer(a).say /\ UNCHANGED <<enc, srv, app, hist>>
  BY DEF Receive, Write
<1>2. back \in Seq(Answers) /\ pub = [state |-> pub.state, made |-> pub.made, odd |-> pub.odd]
  BY DEF RtmpInv, Shape
<1>3. back' \in Seq(Answers) /\ IsRest(back', back) /\ a = back[1] BY <1>1, <1>2, RestIs
<1>4. 1 \in 1 .. Len(back) /\ Among(a, back)
  <2>1. 1 \in 1 .. Len(back) BY <1>3 DEF IsRest
  <2> QED BY <1>3, <2>1 DEF Among
<1>5. ASSUME NEW x, Among(x, back') PROVE Among(x, back)
  <2>1. PICK i \in 1 .. Len(back') : back'[i] = x BY <1>5 DEF Among
  <2>2. i + 1 \in 1 .. Len(back) /\ back[i + 1] = x BY <1>3, <2>1 DEF IsRest
  <2> QED BY <2>2 DEF Among
<1> HIDE DEF a
<1>6. ASSUME NEW say, NEW state, Answer(a) = [state |-> state, say |-> say]
      PROVE  Says(say, state)
  <2>1. Answer(a).state = state /\ Answer(a).say = say BY <1>6
  <2>2. pub' = [pub EXCEPT !.state = state] BY <1>1, <2>1
  <2>3. pub' = [state |-> pub'.state, made |-> pub'.made, odd |-> pub'.odd] /\ pub'.state = state
    BY <1>2, <2>2, PubIs
  <2> QED BY <1>1, <1>3, <1>5, <2>1, <2>3 DEF Says
<1>7. CASE a = "S0S1S2" /\ pub.state = "Greeting"
  <2>1. Answer(a) = [state |-> "Connecting", say |-> <<Packet("C2"), Told("connect")>>]
    BY <1>7 DEF Answer
  <2> QED BY <1>6, <1>7, <2>1
<1>8. CASE a = "bandwidth"
  <2>1. Answer(a) = [state |-> pub.state, say |-> <<Say(Control, "window", <<"window", 0>>)>>]
    BY <1>8 DEF Answer
  <2> QED BY <1>4, <1>6, <1>8, <2>1
<1>9. CASE a = "result connect" /\ pub.state = "Connecting"
  <2>1. Answer(a) = [state |-> "CreatingStream",
                     say |-> <<Told("releaseStream"), Told("FCPublish"), Told("createStream")>>]
    BY <1>9, ZenonT(20) DEF Answer
  <2> QED BY <1>6, <1>9, <2>1
<1>10. CASE a = "result createStream" /\ pub.state = "CreatingStream"
  <2>1. Answer(a) = [state |-> "PublishPending", say |-> <<Told("publish")>>]
    BY <1>10, ZenonT(20) DEF Answer
  <2> QED BY <1>6, <1>10, <2>1
<1>11. CASE a = "Publish.Start" /\ pub.state = "PublishPending"
  <2>1. Answer(a) = [state |-> "Publishing", say |-> <<>>] BY <1>11, ZenonT(20) DEF Answer
  <2> QED BY <1>4, <1>6, <1>11, <2>1
<1>12. CASE a = "error"
  <2>1. Answer(a) = [state |-> "Failed", say |-> <<>>] BY <1>12, ZenonT(20) DEF Answer
  <2> QED BY <1>6, <2>1
<1>13. CASE ~(\/ a = "S0S1S2" /\ pub.state = "Greeting"
              \/ a = "bandwidth"
              \/ a = "result connect" /\ pub.state = "Connecting"
              \/ a = "result createStream" /\ pub.state = "CreatingStream"
              \/ a = "Publish.Start" /\ pub.state = "PublishPending"
              \/ a = "error")
  <2>1. Answer(a) = [state |-> pub.state, say |-> <<>>] BY <1>13, ZenonT(20) DEF Answer
  <2> QED BY <1>6, <2>1
<1> QED BY <1>7, <1>8, <1>9, <1>10, <1>11, <1>12, <1>13

(* What it says keeps the invariant if it leads to where the publisher     *)
(* then is.                                                                *)
LEMMA SaysCloses ==
  ASSUME RtmpInv, NEW say, NEW state, Says(say, state), wire' \in Seq(Chunks),
         \A path : Follows(path) => \E to : Went(path[1], wire', to) /\ Expects(to)'
  PROVE  RtmpInv'
<1>1. app.done \/ \E path, to : Follows(path) /\ Went(path[1], wire', to) /\ Expects(to)'
  BY DEF RtmpInv, InStep
<1> QED BY <1>1, SayCloses DEF Says

(* To receive an answer keeps the invariant. *)
LEMMA ReceiveKeeps ==
  ASSUME RtmpInv, Receive
  PROVE  RtmpInv'
<1>1. EncInv /\ wire \in Seq(Chunks) BY DEF RtmpInv, Shape
<1>2. ASSUME NEW say, NEW state, Says(say, state)
      PROVE  /\ wire' = wire \o say /\ pub'.state = state
             /\ Answered("Publish.Start")' => Answered("Publish.Start")
  BY <1>2 DEF Says, Answered
<1>3. \A x \in Names : Told(x) \in Chunks BY <1>1, ToldIs
<1>4. ASSUME pub.state = "Greeting", Says(<<Packet("C2"), Told("connect")>>, "Connecting")
      PROVE  RtmpInv'
  <2>1. PICK name \in {"C0C1", "C2"} : name = "C2" OBVIOUS
  <2>2. PICK word \in Names : word = "connect" BY DEF Names
  <2>3. PICK c \in Chunks, d \in Chunks : c = Packet(name) /\ d = Told(word) BY <1>3, PacketIs
  <2>4. PICK one, two : one = wire \o <<c>> /\ two = one \o <<d>> OBVIOUS
  <2>5. one \in Seq(Chunks) BY <1>1, <2>4, OneMore
  <2>6. two \in Seq(Chunks) BY <2>4, <2>5, OneMore
  <2>7. wire' = two
    <3>1. wire \o <<c, d>> = (wire \o <<c>>) \o <<d>> BY <1>1, TwoMore
    <3>2. wire' = wire \o <<Packet("C2"), Told("connect")>> BY <1>2, <1>4
    <3> QED BY <2>1, <2>2, <2>3, <2>4, <3>1, <3>2
  <2>8. ASSUME NEW path, Follows(path) PROVE \E to : Went(path[1], wire', to) /\ Expects(to)'
    <3>1. PICK at \in Stages : Went(path[1], wire, at) /\ Expects(at) BY <2>8, WentHere
    <3>2. at = "WaitC2" BY <1>4, <3>1 DEF Expects
    <3>3. PICK to \in Stages, end \in Stages : to = "AwaitConnect" /\ end = "Connected" BY DEF Stages
    <3>4. PICK first, w : first = path[1] /\ w = wire OBVIOUS
    <3>5. Went(first, w \o <<Packet(name)>>, to) BY <1>1, <3>1, <3>2, <3>3, <3>4, PacketOn
    <3>6. Went(first, one, to) BY <2>3, <2>4, <3>4, <3>5
    <3>7. Leads(to, word, end) BY <2>2, <3>3 DEF Leads
    <3>8. Went(first, one \o <<Told(word)>>, end) BY <1>1, <3>6, <3>7, ToldOn
    <3>9. Went(path[1], wire', end) BY <2>3, <2>4, <2>7, <3>4, <3>8
    <3>10. pub'.state = "Connecting" BY <1>2, <1>4
    <3>11. Expects(end)' BY <3>3, <3>10 DEF Expects
    <3> QED BY <3>9, <3>11
  <2>9. wire' \in Seq(Chunks) BY <2>6, <2>7
  <2> QED BY <1>4, <2>8, <2>9, SaysCloses
<1>5. ASSUME Among("bandwidth", back), Says(<<Say(Control, "window", <<"window", 0>>)>>, pub.state)
      PROVE  RtmpInv'
  <2>1. PICK say : say = Say(Control, "window", <<"window", 0>>) OBVIOUS
  <2>2. say \in Chunks
    <3>1. <<"window", 0>> \in Words BY DEF Words, Tags
    <3>2. "window" \in Types /\ Control \in Nat BY DEF Types, Control
    <3> QED BY <1>1, <2>1, <3>1, <3>2, SayIs
  <2>3. PICK one : one = wire \o <<say>> OBVIOUS
  <2>4. one \in Seq(Chunks) BY <1>1, <2>2, <2>3, OneMore
  <2>5. wire' = one BY <1>2, <1>5, <2>1, <2>3
  <2>6. ASSUME NEW path, Follows(path) PROVE \E to : Went(path[1], wire', to) /\ Expects(to)'
    <3>1. PICK at \in Stages : Went(path[1], wire, at) /\ Expects(at) /\ Forward(path[1], At(at))
      BY <2>6, WentHere
    <3>2. srv.shake = "Done" /\ path[1].at = Stage(srv) BY <1>5, <2>6 DEF Follows, Answered
    <3>3. path[1].at \in States BY <3>2 DEF RtmpInv, Shape, Stage
    <3>4. path[1].at \notin Shakes BY <3>3 DEF States, Shakes
    <3>5. at \in Stages \ Shakes
      <4>1. At(at).at = at BY DEF At
      <4> QED BY <3>1, <3>4, <4>1 DEF Forward
    <3>6. PICK first, w : first = path[1] /\ w = wire OBVIOUS
    <3>7. Went(first, w \o <<Say(Control, "window", <<"window", 0>>)>>, at)
      BY <1>1, <3>1, <3>5, <3>6, WindowOn
    <3>8. Went(path[1], wire', at) BY <2>1, <2>3, <2>5, <3>6, <3>7
    <3>9. pub'.state = pub.state /\ (Answered("Publish.Start")' => Answered("Publish.Start")) BY <1>2, <1>5
    <3>10. Expects(at)' BY <3>1, <3>9 DEF Expects
    <3> QED BY <3>8, <3>10
  <2>7. wire' \in Seq(Chunks) BY <2>4, <2>5
  <2> QED BY <1>5, <2>6, <2>7, SaysCloses
<1>6. ASSUME pub.state = "Connecting",
             Says(<<Told("releaseStream"), Told("FCPublish"), Told("createStream")>>, "CreatingStream")
      PROVE  RtmpInv'
  <2>1. PICK a \in Names, b \in Names, c \in Names : a = "releaseStream" /\ b = "FCPublish" /\ c = "createStream"
    BY DEF Names
  <2>2. PICK d \in Chunks, e \in Chunks, f \in Chunks : d = Told(a) /\ e = Told(b) /\ f = Told(c) BY <1>3
  <2>3. PICK one, two, three : one = wire \o <<d>> /\ two = one \o <<e>> /\ three = two \o <<f>> OBVIOUS
  <2>4. one \in Seq(Chunks) BY <1>1, <2>3, OneMore
  <2>5. two \in Seq(Chunks) BY <2>3, <2>4, OneMore
  <2>6. three \in Seq(Chunks) BY <2>3, <2>5, OneMore
  <2>7. wire' = three
    <3>1. wire \o <<d, e, f>> = ((wire \o <<d>>) \o <<e>>) \o <<f>> BY <1>1, ThreeMore, SMTT(30)
    <3>2. wire' = wire \o <<Told("releaseStream"), Told("FCPublish"), Told("createStream")>> BY <1>2, <1>6
    <3> QED BY <2>1, <2>2, <2>3, <3>1, <3>2
  <2>8. ASSUME NEW path, Follows(path) PROVE \E to : Went(path[1], wire', to) /\ Expects(to)'
    <3>1. PICK at \in Stages : Went(path[1], wire, at) /\ Expects(at) BY <2>8, WentHere
    <3>2. at = "Connected" BY <1>6, <3>1 DEF Expects
    <3>3. Leads(at, a, at) /\ Leads(at, b, at) /\ Leads(at, c, at) BY <2>1, <3>2 DEF Leads, Shakes
    <3>4. PICK first, w : first = path[1] /\ w = wire OBVIOUS
    <3>5. Went(first, w \o <<Told(a)>>, at) BY <1>1, <3>1, <3>3, <3>4, ToldOn
    <3>6. Went(first, one, at) BY <2>2, <2>3, <3>4, <3>5
    <3>7. Went(first, one \o <<Told(b)>>, at) BY <1>1, <3>3, <3>6, ToldOn
    <3>8. Went(first, two, at) BY <2>2, <2>3, <3>7
    <3>9. Went(first, two \o <<Told(c)>>, at) BY <1>1, <3>3, <3>8, ToldOn
    <3>10. Went(path[1], wire', at) BY <2>2, <2>3, <2>7, <3>4, <3>9
    <3>11. pub'.state = "CreatingStream" BY <1>2, <1>6
    <3>12. Expects(at)' BY <3>2, <3>11 DEF Expects
    <3> QED BY <3>10, <3>12
  <2>9. wire' \in Seq(Chunks) BY <2>6, <2>7
  <2> QED BY <1>6, <2>8, <2>9, SaysCloses
<1>7. ASSUME pub.state = "CreatingStream", Says(<<Told("publish")>>, "PublishPending")
      PROVE  RtmpInv'
  <2>1. PICK a \in Names : a = "publish" BY DEF Names
  <2>2. PICK d \in Chunks : d = Told(a) BY <1>3
  <2>3. PICK one : one = wire \o <<d>> OBVIOUS
  <2>4. one \in Seq(Chunks) BY <1>1, <2>3, OneMore
  <2>5. wire' = one BY <1>2, <1>7, <2>1, <2>2, <2>3
  <2>6. ASSUME NEW path, Follows(path) PROVE \E to : Went(path[1], wire', to) /\ Expects(to)'
    <3>1. PICK at \in Stages : Went(path[1], wire, at) /\ Expects(at) /\ Forward(path[1], At(at))
      BY <2>6, WentHere
    <3>2. at = "Connected" BY <1>7, <3>1 DEF Expects
    <3>3. PICK to \in Stages : to = "PublishPending" BY DEF Stages
    <3>4. Leads(at, a, to) BY <2>1, <3>2, <3>3 DEF Leads
    <3>5. PICK first, w : first = path[1] /\ w = wire OBVIOUS
    <3>6. Went(first, w \o <<Told(a)>>, to) BY <1>1, <3>1, <3>4, <3>5, ToldOn
    <3>7. Went(path[1], wire', to) BY <2>2, <2>3, <2>5, <3>5, <3>6
    <3>8. ~Answered("Publish.Start")
      <4> SUFFICES ASSUME Answered("Publish.Start") PROVE FALSE OBVIOUS
      <4>1. srv.state \in {"Publishing", "Closed"} /\ path[1].at = Stage(srv) BY <2>6 DEF Follows
      <4>2. srv.shake = "Done" BY <4>1 DEF RtmpInv, Ordered
      <4>3. path[1].at \in Ending BY <4>1, <4>2 DEF Stage, Ending
      <4>4. At(at).at = at BY DEF At
      <4>5. at \in Ending BY <3>1, <4>3, <4>4 DEF Forward
      <4> QED BY <3>2, <4>5 DEF Ending
    <3>9. pub'.state = "PublishPending" /\ ~Answered("Publish.Start")' BY <1>2, <1>7, <3>8
    <3>10. Expects(to)' BY <3>3, <3>9 DEF Expects
    <3> QED BY <3>7, <3>10
  <2>7. wire' \in Seq(Chunks) BY <2>4, <2>5
  <2> QED BY <1>7, <2>6, <2>7, SaysCloses
<1>8. ASSUME NEW state, Says(<<>>, state), \A at : Expects(at) => Expects(at)'
      PROVE  RtmpInv'
  <2>1. wire' = wire BY <1>1, <1>2, <1>8
  <2>2. ASSUME NEW path, Follows(path) PROVE \E to : Went(path[1], wire', to) /\ Expects(to)'
    <3>1. PICK at \in Stages : Went(path[1], wire, at) /\ Expects(at) BY <2>2, WentHere
    <3> QED BY <1>8, <2>1, <3>1
  <2>3. wire' \in Seq(Chunks) BY <1>1, <2>1
  <2> QED BY <1>8, <2>2, <2>3, SaysCloses
<1>9. ASSUME Among("Publish.Start", back), pub.state = "PublishPending", Says(<<>>, "Publishing")
      PROVE  RtmpInv'
  <2>1. pub'.state = "Publishing" /\ Answered("Publish.Start") BY <1>2, <1>9 DEF Answered
  <2>2. \A at : Expects(at) => Expects(at)' BY <1>9, <2>1 DEF Expects
  <2> QED BY <1>8, <1>9, <2>2
<1>10. ASSUME Says(<<>>, "Failed") PROVE RtmpInv'
  <2>1. pub'.state = "Failed" BY <1>2, <1>10
  <2>2. \A at : Expects(at) => Expects(at)' BY <2>1 DEF Expects
  <2> QED BY <1>8, <1>10, <2>2
<1>11. ASSUME Says(<<>>, pub.state) PROVE RtmpInv'
  <2>1. pub'.state = pub.state /\ (Answered("Publish.Start")' => Answered("Publish.Start")) BY <1>2, <1>11
  <2>2. \A at : Expects(at) => Expects(at)' BY <2>1 DEF Expects
  <2>3. PICK state : state = pub.state OBVIOUS
  <2>4. Says(<<>>, state) BY <1>11, <2>3
  <2> QED BY <1>8, <2>2, <2>4
<1> QED BY <1>4, <1>5, <1>6, <1>7, <1>9, <1>10, <1>11, AnswerIs

-----------------------------------------------------------------------------
(* The publisher writes its media *)

(* A message that is near the one before, or the first of its kind, is due *)
(* behind the others.                                                      *)
LEMMA TimeSent ==
  ASSUME TimeInv, hist.due \in Seq(Sent), NEW m \in Sent, hist'.due = Append(hist.due, m),
         DOMAIN hist.time = Media, hist'.time = [hist.time EXCEPT ![m.kind] = <<m.ts>>],
         NearEnough(m.kind, m.ts), app' = app
  PROVE  TimeInv'
<1>0. PICK due, more, n, k, t : /\ due = hist.due /\ more = hist'.due /\ n = Len(due)
                                /\ k = m.kind /\ t = m.ts
  OBVIOUS
<1> n \in Nat BY <1>0
<1>1. IsAppended(more, due, m) BY <1>0, AppendedIs
<1>2. Len(more) = n + 1 /\ more[n + 1] = m /\ \A i \in 1 .. n : more[i] = due[i]
  BY <1>0, <1>1 DEF IsAppended
<1>3. k \in Media /\ t \in Int BY <1>0 DEF Sent
<1>4. \A l \in Media : TimeOf(l) BY DEF TimeInv
<1>5. hist'.time[k] = <<t>> /\ \A l \in Media : l # k => hist'.time[l] = hist.time[l] BY <1>0, <1>3
<1>6. hist.time[k] = <<>> => t \in Bits BY <1>0 DEF NearEnough
<1>7. hist.time[k] # <<>> => Near(Head(hist.time[k]), t) BY <1>0 DEF NearEnough
<1>8. ASSUME NEW l, NEW a \in 1 .. n + 1, NEW b \in 0 .. n
      PROVE  Other(l, a, b)' <=> Other(l, a, b)
  <2>1. \A i \in a .. b : i \in 1 .. n OBVIOUS
  <2>2. \A i \in a .. b : more[i] = due[i] BY <1>2, <2>1
  <2> QED BY <1>0, <2>2 DEF Other
<1>9. ASSUME NEW l, NEW a \in 1 .. n + 1, Other(l, a, n + 1)'
      PROVE  l # k /\ Other(l, a, n)
  <2>1. n + 1 \in a .. n + 1 /\ \A i \in a .. n : i \in a .. n + 1 OBVIOUS
  <2>2. more[n + 1].kind # l BY <1>0, <1>9, <2>1 DEF Other
  <2>3. Other(l, a, n)' BY <1>9, <2>1 DEF Other
  <2>4. n \in 0 .. n OBVIOUS
  <2>5. Other(l, a, n) BY <1>8, <2>3, <2>4
  <2> QED BY <1>0, <1>2, <2>2, <2>5
<1>10. ASSUME NEW l \in Media PROVE TimeOf(l)'
  <2>0. PICK u : u = app.unwrap[l] OBVIOUS
  <2>1. /\ u = IF u.seen THEN [seen |-> TRUE, last |-> u.current % TsMod, current |-> u.current] ELSE Fresh
        /\ u.current \in Int
        /\ \A j \in 1 .. n : due[j].kind = l /\ Other(l, 1, j - 1) => Follow(u, due[j].ts)
        /\ \A i, j \in 1 .. n :
             i < j /\ due[i].kind = l /\ due[j].kind = l /\ Other(l, i + 1, j - 1)
               => Near(due[i].ts, due[j].ts)
        /\ \A i \in 1 .. n : due[i].kind = l /\ Other(l, i + 1, n) => hist.time[l] = <<due[i].ts>>
        /\ Other(l, 1, n) => hist.time[l] = IF u.seen THEN <<u.current>> ELSE <<>>
    BY <1>0, <1>4, <2>0, ZenonT(30) DEF TimeOf
  <2>2. app'.unwrap[l] = u BY <2>0
  <2>3. 1 \in 1 .. n + 1 /\ n \in 0 .. n /\ (n + 1) - 1 = n OBVIOUS
  <2>4. ASSUME NEW j \in 1 .. n + 1, more[j].kind = l, Other(l, 1, j - 1)' PROVE Follow(u, more[j].ts)
    <3>1. CASE j = n + 1
      <4>1. Other(l, 1, n) BY <1>8, <2>3, <2>4, <3>1
      <4>2. l = k /\ more[j].ts = t BY <1>0, <1>2, <2>4, <3>1
      <4>3. hist.time[k] = IF u.seen THEN <<u.current>> ELSE <<>> BY <2>1, <4>1, <4>2
      <4>4. CASE u.seen
        <5>1. hist.time[k] # <<>> /\ Head(hist.time[k]) = u.current BY <4>3, <4>4
        <5> QED BY <1>7, <4>2, <4>4, <5>1 DEF Follow
      <4>5. CASE ~u.seen BY <1>6, <4>2, <4>3, <4>5 DEF Follow
      <4> QED BY <4>4, <4>5
    <3>2. CASE j # n + 1
      <4>1. j \in 1 .. n /\ j - 1 \in 0 .. n BY <3>2
      <4>2. Other(l, 1, j - 1) BY <1>8, <2>3, <2>4, <4>1
      <4> QED BY <1>2, <2>1, <2>4, <4>1, <4>2
    <3> QED BY <3>1, <3>2
  <2>5. ASSUME NEW i \in 1 .. n + 1, NEW j \in 1 .. n + 1, i < j, more[i].kind = l, more[j].kind = l,
               Other(l, i + 1, j - 1)'
        PROVE  Near(more[i].ts, more[j].ts)
    <3>1. i \in 1 .. n /\ i + 1 \in 1 .. n + 1 /\ j - 1 \in 0 .. n /\ more[i] = due[i]
      <4>1. i \in 1 .. n /\ i + 1 \in 1 .. n + 1 /\ j - 1 \in 0 .. n BY <2>5
      <4> QED BY <1>2, <4>1
    <3>2. Other(l, i + 1, j - 1) BY <1>8, <2>5, <3>1
    <3>3. CASE j = n + 1
      <4>1. l = k /\ more[j].ts = t BY <1>0, <1>2, <2>5, <3>3
      <4>2. hist.time[k] = <<due[i].ts>> BY <2>1, <2>3, <2>5, <3>1, <3>2, <3>3, <4>1
      <4>3. hist.time[k] # <<>> /\ Head(hist.time[k]) = due[i].ts BY <4>2
      <4> QED BY <1>7, <3>1, <4>1, <4>3
    <3>4. CASE j # n + 1
      <4>1. j \in 1 .. n BY <3>4
      <4>2. more[j] = due[j] BY <1>2, <4>1
      <4> QED BY <2>1, <2>5, <3>1, <3>2, <4>1, <4>2
    <3> QED BY <3>3, <3>4
  <2>6. ASSUME NEW i \in 1 .. n + 1, more[i].kind = l, Other(l, i + 1, n + 1)'
        PROVE  hist'.time[l] = <<more[i].ts>>
    <3>1. CASE i = n + 1 BY <1>0, <1>2, <1>5, <2>6, <3>1
    <3>2. CASE i # n + 1
      <4>1. i \in 1 .. n /\ i + 1 \in 1 .. n + 1 BY <3>2
      <4>2. l # k /\ Other(l, i + 1, n) BY <1>9, <2>6, <4>1
      <4>3. more[i] = due[i] BY <1>2, <4>1
      <4> QED BY <1>5, <2>1, <2>6, <4>1, <4>2, <4>3
    <3> QED BY <3>1, <3>2
  <2>7. ASSUME Other(l, 1, n + 1)' PROVE hist'.time[l] = IF u.seen THEN <<u.current>> ELSE <<>>
    <3>1. l # k /\ Other(l, 1, n) BY <1>9, <2>3, <2>7
    <3> QED BY <1>5, <2>1, <3>1
  <2> QED BY <1>0, <1>2, <2>1, <2>2, <2>4, <2>5, <2>6, <2>7 DEF TimeOf
<1> QED BY <1>10 DEF TimeInv

(* What was recorded of a message. *)
LEMMA RecordsIs ==
  ASSUME EncInv, TimeInv, NEW k \in Media, NEW st \in EncStreams, st.known, Timed(st, hist.time[k]),
         Records(k, st), app' = app
  PROVE  /\ TimeInv' /\ Extends(hist.due, hist'.due)
         /\ st.left # <<>> => Len(hist'.due) = Len(hist.due)
         /\ st.left = <<>> => /\ Len(hist'.due) = Len(hist.due) + 1
                              /\ hist'.due[Len(hist'.due)] = [kind |-> k, ts |-> st.t, body |-> st.body]
<1>1. hist = [time |-> hist.time, due |-> hist.due, last |-> hist.last, count |-> hist.count]
      /\ hist.due \in Seq(Sent) /\ DOMAIN hist.time = Media
  BY DEF EncInv
<1>2. CASE st.left # <<>>
  <2>1. hist' = hist BY <1>2 DEF Records
  <2>2. TimeInv' BY <2>1, TimeKept
  <2>3. Extends(hist.due, hist'.due) BY <1>1, <2>1 DEF Extends
  <2> QED BY <1>2, <2>1, <2>2, <2>3
<1>3. CASE st.left = <<>>
  <2>1. PICK m : m = [kind |-> k, ts |-> st.t, body |-> st.body] OBVIOUS
  <2>2. m \in Sent /\ m.kind = k /\ m.ts = st.t BY <2>1 DEF Sent, EncStreams
  <2>3. hist' = [hist EXCEPT !.time[k] = <<st.t>>, !.due = Append(@, m)] BY <1>3, <2>1 DEF Records
  <2>4. hist'.time = [hist.time EXCEPT ![k] = <<st.t>>] /\ hist'.due = Append(hist.due, m) BY <1>1, <2>3
  <2>5. NearEnough(k, st.t) BY DEF Timed, NearEnough
  <2>6. TimeInv' BY <1>1, <2>2, <2>4, <2>5, TimeSent
  <2>7. IsAppended(hist'.due, hist.due, m) BY <1>1, <2>2, <2>4, AppendedIs
  <2>8. Len(hist'.due) = Len(hist.due) + 1 /\ hist'.due[Len(hist'.due)] = m BY <2>7 DEF IsAppended
  <2>9. Extends(hist.due, hist'.due)
    <3>1. \A n \in Nat : n <= n + 1 OBVIOUS
    <3> QED BY <2>7, <3>1 DEF IsAppended, Extends
  <2> QED BY <1>3, <2>1, <2>6, <2>8, <2>9
<1> QED BY <1>2, <1>3

(* Where the wire leads once the publisher has written.                    *)
Written(x) == x = [at |-> "Publishing", enc |-> enc', had |-> Len(hist'.due)]

IsWritten(ch) ==
  /\ pub.state = "Publishing" /\ pub'.state = "Publishing"
  /\ pub' = [state |-> pub'.state, made |-> pub'.made, odd |-> pub'.odd]
  /\ UNCHANGED <<back, srv, app>> /\ wire' = wire \o <<ch>> /\ ch \in Chunks
  /\ EncInv' /\ TimeInv' /\ Extends(hist.due, hist'.due)

(* What a publisher that is accepted writes keeps the invariant. *)
LEMMA WrittenCloses ==
  ASSUME RtmpInv, NEW ch, IsWritten(ch), NEW x, Written(x), Wrote(At("Publishing"), ch, x, hist'.due)
  PROVE  RtmpInv'
<1>1. PICK due \in Seq(Sent), more \in Seq(Sent) : due = hist.due /\ more = hist'.due
  BY DEF RtmpInv, EncInv, IsWritten
<1>2. wire \in Seq(Chunks) /\ back \in Seq(Answers) BY DEF RtmpInv, Shape
<1>3. ch \in Chunks /\ Extends(due, more) BY <1>1 DEF IsWritten
<1>4. x.at = "Publishing" /\ x.enc = enc' /\ x.had = Len(more) /\ x = [at |-> x.at, enc |-> x.enc, had |-> x.had]
  BY <1>1 DEF Written
<1>5. Place(x, more)
  <2>1. Len(more) \in 0 .. Len(more) OBVIOUS
  <2>2. WellWritten(enc') BY DEF IsWritten, EncInv
  <2>3. x.at \in Stages BY <1>4 DEF Stages
  <2> QED BY <1>4, <2>1, <2>2, <2>3 DEF Place
<1>6. PICK a, w : a = At("Publishing") /\ w = wire OBVIOUS
<1>7. Wrote(a, ch, x, more) BY <1>1, <1>6
<1>8. ASSUME NEW path, Follows(path) PROVE Leaves(path, x)
  <2>1. PICK at \in Stages : Went(path[1], wire, at) /\ Expects(at) BY <1>8, WentHere
  <2>2. pub.state = "Publishing" BY DEF IsWritten
  <2>3. at = "Publishing" BY <2>1, <2>2 DEF Expects
  <2>4. PICK first : first = path[1] OBVIOUS
  <2>5. Reaches(first, w, a, due) BY <1>1, <1>6, <2>1, <2>3, <2>4 DEF Went
  <2>6. Reaches(first, w \o <<ch>>, x, more) BY <1>2, <1>3, <1>5, <1>6, <1>7, <2>5, ReachesOn
  <2>7. Reaches(path[1], wire', x, hist'.due) BY <1>1, <1>6, <2>4, <2>6 DEF IsWritten
  <2>8. pub'.state = "Publishing" BY DEF IsWritten
  <2>9. Expects(x.at)' BY <1>4, <2>8 DEF Expects
  <2> QED BY <1>1, <1>3, <1>4, <1>8, <2>7, <2>9 DEF Leaves
<1>9. app.done \/ \E path, y : Leaves(path, y) BY <1>8 DEF RtmpInv, InStep
<1>10. wire' \in Seq(Chunks)
  <2>1. PICK t : t = wire \o <<ch>> OBVIOUS
  <2>2. t \in Seq(Chunks) BY <1>2, <1>3, <2>1, OneMore
  <2> QED BY <2>1, <2>2 DEF IsWritten
<1>11. srv' = srv /\ app' = app /\ back' \in Seq(Answers) /\ (\A a2 : Among(a2, back') => Among(a2, back))
  BY <1>2 DEF IsWritten
<1>12. EncInv' /\ TimeInv' /\ pub' = [state |-> pub'.state, made |-> pub'.made, odd |-> pub'.odd]
  BY DEF IsWritten
<1> QED BY <1>9, <1>10, <1>11, <1>12, WriteCloses

(* What a chunk of media leaves of the message it is of. *)
LEMMA MediaWritten ==
  ASSUME RtmpInv, EncInv', NEW k \in Media, NEW st \in EncStreams, st.known, Timed(st, hist.time[k]),
         Records(k, st), enc'.streams[k] = st, NEW ch \in Chunks, pub.state = "Publishing",
         pub'.state = "Publishing", pub' = [state |-> pub'.state, made |-> pub'.made, odd |-> pub'.odd],
         UNCHANGED <<back, srv, app>>, wire' = wire \o <<ch>>
  PROVE  /\ IsWritten(ch)
         /\ \A x : Written(x) => Finishes(k, At("Publishing"), x, hist'.due)
<1>1. EncInv /\ TimeInv BY DEF RtmpInv
<1>2. /\ TimeInv' /\ Extends(hist.due, hist'.due)
      /\ st.left # <<>> => Len(hist'.due) = Len(hist.due)
      /\ st.left = <<>> => /\ Len(hist'.due) = Len(hist.due) + 1
                           /\ hist'.due[Len(hist'.due)] = [kind |-> k, ts |-> st.t, body |-> st.body]
  BY <1>1, RecordsIs
<1>3. IsWritten(ch) BY <1>2 DEF IsWritten
<1>4. ASSUME NEW x, Written(x) PROVE Finishes(k, At("Publishing"), x, hist'.due)
  <2>1. PICK a : a = At("Publishing") OBVIOUS
  <2>2. a.had = Len(hist.due) BY <2>1 DEF At
  <2>3. x.enc.streams[k] = st /\ x.had = Len(hist'.due) BY <1>4 DEF Written
  <2>4. Finishes(k, a, x, hist'.due) BY <1>2, <2>2, <2>3 DEF Finishes
  <2> QED BY <2>1, <2>4
<1> QED BY <1>3, <1>4

(* To begin a message keeps the invariant. *)
LEMMA BeginWrites ==
  ASSUME RtmpInv, NEW k \in Media, Begin(k)
  PROVE  RtmpInv'
<1>0. EncInv /\ EncInv' BY BeginKeeps DEF RtmpInv
<1>1. PICK fmt \in 0 .. 3, t \in Int, body \in Seq(Words), value \in Bits :
        Chosen(k, fmt, t, body, value)
  BY <1>0, BeginIs
<1>2. PICK st : st = Begun(value, t, body, enc.size) OBVIOUS
<1>3. PICK ch : ch = FirstChunk(fmt, CsidOf(k), value, k, body, enc.size) OBVIOUS
<1>4. PICK old : old = enc.streams[k] OBVIOUS
<1>5. /\ old.left = <<>> /\ value = (IF fmt = 0 THEN t % TsMod ELSE t - old.t)
      /\ 1 <= Len(body) /\ Len(body) <= 2 /\ MayWrite(fmt, old, body, t - old.t)
      /\ NearEnough(k, t) /\ enc' = Amended(enc, k, st, FALSE) /\ wire' = wire \o <<ch>> /\ Records(k, st)
  BY <1>1, <1>2, <1>3, <1>4 DEF Chosen
<1>6. enc \in Encoders /\ enc.size \in Nat \ {0} BY <1>0 DEF EncInv, WellWritten, Encoders
<1>7. IsBegun(st, value, t, body, enc.size) BY <1>2, <1>5, <1>6, BegunIs
<1>8. st \in EncStreams /\ st.t = t BY <1>7 DEF IsBegun
<1>9. st.known BY <1>7 DEF IsBegun
<1>10. Timed(enc.streams[k], hist.time[k]) BY <1>0 DEF EncInv
<1>11. Timed(st, hist.time[k]) BY <1>5, <1>8, <1>9, <1>10 DEF Timed, NearEnough
<1>12. enc'.streams[k] = st
  <2>1. PICK w \in BOOLEAN : w = FALSE OBVIOUS
  <2>2. enc' = Amended(enc, k, st, w) BY <1>5, <2>1
  <2>3. IsAmended(enc', enc, k, st, w) BY <1>6, <1>8, <2>2, AmendedIs
  <2> QED BY <2>3 DEF IsAmended
<1>13. ch \in Chunks
  <2>1. CsidOf(k) \in Nat /\ k \in Types \cup {"C0C1", "C2"} BY DEF CsidOf, Types
  <2> QED BY <1>3, <1>6, <2>1, FirstIs
<1>14. /\ pub.state = "Publishing" /\ pub' = [pub EXCEPT !.made = @ + 1] /\ UNCHANGED <<back, srv, app>>
  BY DEF Begin, Writing
<1>15. pub = [state |-> pub.state, made |-> pub.made, odd |-> pub.odd] BY DEF RtmpInv, Shape
<1>16. pub'.state = "Publishing" /\ pub' = [state |-> pub'.state, made |-> pub'.made, odd |-> pub'.odd]
  BY <1>14, <1>15
<1>17. IsWritten(ch) /\ \A x : Written(x) => Finishes(k, At("Publishing"), x, hist'.due)
  BY <1>0, <1>5, <1>8, <1>9, <1>11, <1>12, <1>13, <1>14, <1>16, MediaWritten
<1>18. PICK a : a = At("Publishing") OBVIOUS
<1>19. PICK x : x = [at |-> "Publishing", enc |-> enc', had |-> Len(hist'.due)] OBVIOUS
<1>20. a.at = "Publishing" /\ a.enc = enc BY <1>18 DEF At
<1>21. Written(x) /\ x.at = "Publishing" /\ x.enc = enc' BY <1>19 DEF Written
<1>22. Finishes(k, a, x, hist'.due) BY <1>17, <1>18, <1>21
<1>23. Began(k, a, ch, x, hist'.due)
  <2>1. PICK due : due = hist'.due OBVIOUS
  <2>2. a.enc.streams[k] = old BY <1>4, <1>20
  <2>3. x.enc = Amended(a.enc, k, Begun(value, t, body, a.enc.size), FALSE) BY <1>2, <1>5, <1>20, <1>21
  <2>4. ch = FirstChunk(fmt, CsidOf(k), value, k, body, a.enc.size) BY <1>3, <1>20
  <2>5. Finishes(k, a, x, due) BY <1>22, <2>1
  <2>6. Began(k, a, ch, x, due) BY <1>5, <2>2, <2>3, <2>4, <2>5 DEF Began
  <2> QED BY <2>1, <2>6
<1>24. Wrote(a, ch, x, hist'.due) BY <1>20, <1>21, <1>23 DEF Wrote
<1> QED BY <1>17, <1>18, <1>21, <1>24, WrittenCloses

(* To go on with a message keeps the invariant. *)
LEMMA GoOnWrites ==
  ASSUME RtmpInv, NEW k \in Media, GoOn(k)
  PROVE  RtmpInv'
<1>0. EncInv /\ EncInv' BY GoOnKeeps DEF RtmpInv
<1>1. PICK old : old = enc.streams[k] OBVIOUS
<1>2. PICK st : st = [old EXCEPT !.left = Rest(@, enc.size)] OBVIOUS
<1>3. PICK ch : ch = NextChunk(CsidOf(k), old.ext, enc.repeats, old.left, enc.size) OBVIOUS
<1>4. PICK w \in BOOLEAN : w = (old.ext # NoExt) OBVIOUS
<1>5. enc' = Amended(enc, k, st, old.ext # NoExt) /\ wire' = wire \o <<ch>> /\ Records(k, st)
  BY <1>1, <1>2, <1>3, GoOnIs DEF GoesOn
<1>6. enc \in Encoders /\ enc.size \in Nat \ {0} /\ old \in EncStreams /\ Unfinished(enc, old)
  BY <1>0, <1>1 DEF EncInv, WellWritten, Encoders
<1>7. old.left # <<>> BY <1>1 DEF GoOn
<1>8. IsGoneOn(st, old, enc.size) BY <1>2, <1>6, <1>7, GoneOnIs
<1>9. st \in EncStreams /\ st.t = old.t BY <1>8 DEF IsGoneOn
<1>10. old.known BY <1>6, <1>7 DEF Unfinished
<1>11. st.known BY <1>8, <1>10 DEF IsGoneOn
<1>12. Timed(old, hist.time[k]) BY <1>0, <1>1 DEF EncInv
<1>13. Timed(st, hist.time[k]) BY <1>9, <1>10, <1>11, <1>12 DEF Timed
<1>14. enc'.streams[k] = st
  <2>1. enc' = Amended(enc, k, st, w) BY <1>4, <1>5
  <2>2. IsAmended(enc', enc, k, st, w) BY <1>6, <1>9, <2>1, AmendedIs
  <2> QED BY <2>2 DEF IsAmended
<1>15. ch \in Chunks
  <2>1. CsidOf(k) \in Nat BY DEF CsidOf
  <2>2. old.ext \in 0 .. TsMod /\ old.left \in Seq(Words) BY <1>6 DEF EncStreams
  <2>3. PICK r : r = enc.repeats OBVIOUS
  <2>4. NextChunk(CsidOf(k), old.ext, r, old.left, enc.size) \in Chunks BY <1>6, <2>1, <2>2, NextIs
  <2> QED BY <1>3, <2>3, <2>4
<1>16. pub.state = "Publishing" /\ pub' = pub /\ UNCHANGED <<back, srv, app>> BY DEF GoOn, Writing
<1>17. pub'.state = "Publishing" /\ pub' = [state |-> pub'.state, made |-> pub'.made, odd |-> pub'.odd]
  BY <1>16 DEF RtmpInv, Shape
<1>18. IsWritten(ch) /\ \A x : Written(x) => Finishes(k, At("Publishing"), x, hist'.due)
  BY <1>0, <1>5, <1>9, <1>11, <1>13, <1>14, <1>15, <1>16, <1>17, MediaWritten
<1>19. PICK a : a = At("Publishing") OBVIOUS
<1>20. PICK x : x = [at |-> "Publishing", enc |-> enc', had |-> Len(hist'.due)] OBVIOUS
<1>21. a.at = "Publishing" /\ a.enc = enc BY <1>19 DEF At
<1>22. Written(x) /\ x.at = "Publishing" /\ x.enc = enc' BY <1>20 DEF Written
<1>23. Finishes(k, a, x, hist'.due) BY <1>18, <1>19, <1>22
<1>24. WentOn(k, a, ch, x, hist'.due)
  <2>1. PICK due : due = hist'.due OBVIOUS
  <2>2. a.enc.streams[k] = old BY <1>1, <1>21
  <2>3. x.enc = Amended(a.enc, k, [old EXCEPT !.left = Rest(@, a.enc.size)], old.ext # NoExt)
    BY <1>2, <1>5, <1>21, <1>22
  <2>4. ch = NextChunk(CsidOf(k), old.ext, a.enc.repeats, old.left, a.enc.size) BY <1>3, <1>21
  <2>5. Finishes(k, a, x, due) BY <1>23, <2>1
  <2>6. WentOn(k, a, ch, x, due) BY <1>7, <2>2, <2>3, <2>4, <2>5 DEF WentOn
  <2> QED BY <2>1, <2>6
<1>25. Wrote(a, ch, x, hist'.due) BY <1>21, <1>22, <1>24 DEF Wrote
<1> QED BY <1>18, <1>19, <1>22, <1>25, WrittenCloses

(* The encoder changes the size of its chunks, or gives a message up. *)
LEMMA ControlWrites ==
  ASSUME RtmpInv, EncInv', pub.state = "Publishing", pub' = [pub EXCEPT !.odd = @ + 1],
         UNCHANGED <<back, srv, app, hist>>, NEW ch \in Chunks, wire' = wire \o <<ch>>,
         \A a, x : a.at = "Publishing" /\ a.enc = enc /\ Written(x) /\ a.had = x.had => Controlled(a, ch, x)
  PROVE  RtmpInv'
<1>1. pub = [state |-> pub.state, made |-> pub.made, odd |-> pub.odd] /\ EncInv /\ TimeInv
  BY DEF RtmpInv, Shape
<1>2. pub'.state = "Publishing" /\ pub' = [state |-> pub'.state, made |-> pub'.made, odd |-> pub'.odd]
  BY <1>1
<1>3. TimeInv' BY <1>1, TimeKept
<1>4. Extends(hist.due, hist'.due) BY <1>1 DEF EncInv, Extends
<1>5. IsWritten(ch) BY <1>2, <1>3, <1>4 DEF IsWritten
<1>6. PICK a : a = At("Publishing") OBVIOUS
<1>7. PICK x : x = [at |-> "Publishing", enc |-> enc', had |-> Len(hist'.due)] OBVIOUS
<1>8. a.at = "Publishing" /\ a.enc = enc /\ a.had = Len(hist.due) BY <1>6 DEF At
<1>9. Written(x) /\ x.had = Len(hist.due) BY <1>7 DEF Written
<1>10. Controlled(a, ch, x) BY <1>8, <1>9
<1>11. Wrote(a, ch, x, hist'.due) BY <1>10 DEF Wrote
<1> QED BY <1>5, <1>6, <1>9, <1>11, WrittenCloses

(* To change the chunk size keeps the invariant. *)
LEMMA ResizeWrites ==
  ASSUME RtmpInv, Resize
  PROVE  RtmpInv'
<1>0. EncInv /\ EncInv' BY ResizeKeeps DEF RtmpInv
<1>1. PICK n \in Sizes : wire' = wire \o <<Say(Control, "size", <<"size", n>>)>> /\ enc' = [enc EXCEPT !.size = n]
  BY DEF Resize, Write
<1>2. n \in Nat \ {0} BY RtmpConstants
<1>3. PICK ch \in Chunks : ch = Say(Control, "size", <<"size", n>>)
  <2>1. PICK word : word = <<"size", n>> OBVIOUS
  <2>2. word \in Words
    <3>1. n \in Int /\ "size" \in Tags BY <1>2 DEF Tags
    <3> QED BY <2>1, <3>1 DEF Words
  <2>3. "size" \in Types /\ Control \in Nat BY DEF Types, Control
  <2>4. Say(Control, "size", word) \in Chunks BY <1>0, <2>2, <2>3, SayIs
  <2> QED BY <2>1, <2>4
<1>4. pub.state = "Publishing" /\ pub' = [pub EXCEPT !.odd = @ + 1] /\ UNCHANGED <<back, srv, app, hist>>
  BY DEF Resize, Writing
<1>5. ASSUME NEW a, NEW x, a.at = "Publishing", a.enc = enc, Written(x), a.had = x.had
      PROVE  Controlled(a, ch, x)
  <2>1. x.at = "Publishing" /\ x.enc = enc' BY <1>5 DEF Written
  <2>2. ch = InControl(a.enc, "size", <<"size", n>>) BY <1>3, <1>5 DEF InControl, Say
  <2>3. x.enc = [a.enc EXCEPT !.size = n] BY <1>1, <1>5, <2>1
  <2>4. a.at \notin Shakes BY <1>5 DEF Shakes
  <2> QED BY <1>2, <1>5, <2>1, <2>2, <2>3, <2>4 DEF Controlled
<1>6. wire' = wire \o <<ch>> BY <1>1, <1>3
<1> QED BY <1>0, <1>4, <1>5, <1>6, ControlWrites

(* To give a message up keeps the invariant. *)
LEMMA GiveUpWrites ==
  ASSUME RtmpInv, NEW k \in Media, GiveUp(k)
  PROVE  RtmpInv'
<1>0. EncInv /\ EncInv' BY GiveUpKeeps DEF RtmpInv
<1>1. wire' = wire \o <<Say(Control, "abort", <<"abort", CsidOf(k)>>)>>
      /\ enc' = [enc EXCEPT !.streams[k].left = <<>>]
  BY DEF GiveUp, Write
<1>2. PICK ch \in Chunks : ch = Say(Control, "abort", <<"abort", CsidOf(k)>>)
  <2>1. PICK word : word = <<"abort", CsidOf(k)>> OBVIOUS
  <2>2. word \in Words
    <3>1. CsidOf(k) \in Int /\ "abort" \in Tags BY DEF Tags, CsidOf
    <3> QED BY <2>1, <3>1 DEF Words
  <2>3. "abort" \in Types /\ Control \in Nat BY DEF Types, Control
  <2>4. Say(Control, "abort", word) \in Chunks BY <1>0, <2>2, <2>3, SayIs
  <2> QED BY <2>1, <2>4
<1>3. pub.state = "Publishing" /\ pub' = [pub EXCEPT !.odd = @ + 1] /\ UNCHANGED <<back, srv, app, hist>>
  BY DEF GiveUp, Writing
<1>4. ASSUME NEW a, NEW x, a.at = "Publishing", a.enc = enc, Written(x), a.had = x.had
      PROVE  Controlled(a, ch, x)
  <2>1. x.at = "Publishing" /\ x.enc = enc' BY <1>4 DEF Written
  <2>2. ch = InControl(a.enc, "abort", <<"abort", CsidOf(k)>>) BY <1>2, <1>4 DEF InControl, Say
  <2>3. x.enc = [a.enc EXCEPT !.streams[k].left = <<>>] BY <1>1, <1>4, <2>1
  <2>4. a.at \notin Shakes BY <1>4 DEF Shakes
  <2> QED BY <1>4, <2>1, <2>2, <2>3, <2>4 DEF Controlled
<1>5. wire' = wire \o <<ch>> BY <1>1, <1>2
<1> QED BY <1>0, <1>3, <1>4, <1>5, ControlWrites

-----------------------------------------------------------------------------
(* The invariant *)

LEMMA RtmpInit == Init => RtmpInv
<1> SUFFICES ASSUME Init PROVE RtmpInv OBVIOUS
<1>1. EncInv BY EncInit
<1>2. /\ pub = [state |-> "Start", made |-> 0, odd |-> 0] /\ wire = <<>> /\ back = <<>>
      /\ srv = [shake |-> "WaitC0C1", state |-> "AwaitConnect", dec |-> Decoder, full |-> FALSE,
                reading |-> FALSE, events |-> <<>>, out |-> <<>>, refused |-> FALSE]
      /\ app = [publishing |-> FALSE, done |-> FALSE, unwrap |-> [k \in Media |-> Fresh]]
      /\ hist = [time |-> [k \in Media |-> <<>>], due |-> <<>>, last |-> Nothing, count |-> 0]
  BY DEF Init
<1>3. PICK r \in BOOLEAN : enc = [size |-> 1, repeats |-> r, shown |-> FALSE, streams |-> [k \in Media |-> Idle]]
  BY DEF Init
<1>4. /\ srv.shake = "WaitC0C1" /\ srv.state = "AwaitConnect" /\ srv.dec = Decoder
      /\ srv.events = <<>> /\ srv.out = <<>>
  BY <1>2
<1>5. ~srv.refused BY <1>2
<1>6. ~app.publishing /\ ~app.done BY <1>2
<1>7. app.unwrap = [k \in Media |-> Fresh] /\ hist.due = <<>> /\ hist.time = [k \in Media |-> <<>>] BY <1>2
<1>8. pub.state = "Start" BY <1>2
<1>9. Shape
  <2>1. srv = Server(srv.shake, srv.state, srv.dec, srv.full, srv.reading, srv.events, srv.out, srv.refused)
    <3>1. PICK sh, st, d, no, em : sh = "WaitC0C1" /\ st = "AwaitConnect" /\ d = Decoder /\ no = FALSE /\ em = <<>>
      OBVIOUS
    <3>2. srv = [shake |-> sh, state |-> st, dec |-> d, full |-> no, reading |-> no, events |-> em, out |-> em,
                 refused |-> no]
      BY <1>2, <3>1
    <3>3. srv = Server(sh, st, d, no, no, em, em, no) BY <3>2 DEF Server
    <3>4. srv.shake = sh /\ srv.state = st /\ srv.dec = d /\ srv.full = no /\ srv.reading = no
          /\ srv.events = em /\ srv.out = em /\ srv.refused = no
      BY <3>2
    <3> QED BY <3>3, <3>4
  <2>2. srv.shake \in Shakes \cup {"Done"} /\ srv.state \in States BY <1>4 DEF Shakes, States
  <2>3. srv.events \in Seq(Events) /\ srv.out \in Seq(Answers) BY <1>4
  <2>4. wire \in Seq(Chunks) /\ back \in Seq(Answers) BY <1>2
  <2>5. pub = [state |-> pub.state, made |-> pub.made, odd |-> pub.odd] BY <1>2
  <2>6. app = [publishing |-> app.publishing, done |-> app.done, unwrap |-> app.unwrap]
    <3>1. PICK no, u : no = FALSE /\ u = [k \in Media |-> Fresh] OBVIOUS
    <3>2. app = [publishing |-> no, done |-> no, unwrap |-> u] BY <1>2, <3>1
    <3> QED BY <3>2
  <2> QED BY <2>1, <2>2, <2>3, <2>4, <2>5, <2>6 DEF Shape
<1>10. Ordered BY <1>4 DEF Ordered
<1>11. Publishes BY <1>6 DEF Publishes
<1>12. NeverRefused BY <1>5 DEF NeverRefused
<1>13. Ended BY <1>6 DEF Ended
<1>14. TimeInv
  <2>1. DOMAIN app.unwrap = Media BY <1>7
  <2>2. ASSUME NEW k \in Media PROVE TimeOf(k)
    <3>1. PICK u : u = app.unwrap[k] OBVIOUS
    <3>2. u = Fresh /\ u.current = 0 BY <1>7, <3>1 DEF Fresh
    <3>3. ~u.seen BY <3>2 DEF Fresh
    <3>4. PICK n : n = Len(hist.due) OBVIOUS
    <3>5. n = 0 /\ \A i \in 1 .. n : FALSE BY <1>7, <3>4
    <3>6. hist.time[k] = <<>> BY <1>7
    <3> QED BY <3>1, <3>2, <3>3, <3>4, <3>5, <3>6 DEF TimeOf
  <2> QED BY <2>1, <2>2 DEF TimeInv
<1>15. \E path : Follows(path)
  <2>1. PICK a : a = [at |-> "WaitC0C1", enc |-> enc, had |-> 0] OBVIOUS
  <2>2. a.at = "WaitC0C1" /\ a.enc = enc /\ a.had = 0 /\ a = [at |-> a.at, enc |-> a.enc, had |-> a.had] BY <2>1
  <2>3. PICK path : path = [i \in 1 .. 1 |-> a] OBVIOUS
  <2>4. DOMAIN path = 1 .. 1 /\ path[1] = a BY <2>3
  <2>5. Len(wire) + 1 = 1 /\ Len(wire) = 0 /\ Len(hist.due) = 0 BY <1>2, <1>7
  <2>6. Place(a, hist.due)
    <3>1. WellWritten(enc) BY <1>1 DEF EncInv
    <3>2. a.at \in Stages BY <2>2 DEF Stages, Shakes
    <3> QED BY <2>2, <2>5, <3>1, <3>2 DEF Place
  <2>7. Forward(a, a) BY <2>2 DEF Forward
  <2>8. Along(path, wire, hist.due)
    <3>1. \A i \in 1 .. 1 : path[i] = a BY <2>4
    <3>2. \A i \in 1 .. 0 : FALSE OBVIOUS
    <3> QED BY <2>4, <2>5, <2>6, <2>7, <3>1, <3>2 DEF Along
  <2>9. Expects(a.at) BY <1>8, <2>2 DEF Expects
  <2>10. a.at = Stage(srv) BY <1>4, <2>2 DEF Stage
  <2>11. Matches(srv.dec, a.enc) BY <1>3, <1>4, <2>2, NothingRead
  <2>12. Pending(0)
    <3>1. Len(srv.events) = 0 BY <1>4
    <3>2. \A i \in 1 .. 0 : FALSE OBVIOUS
    <3>3. \A i \in 0 + 1 .. 0 : FALSE OBVIOUS
    <3> QED BY <3>1, <3>2, <3>3 DEF Pending
  <2>13. \A x : ~Answered(x) BY <1>2, <1>4 DEF Answered, Among
  <2>14. Follows(path) BY <2>2, <2>4, <2>5, <2>8, <2>9, <2>10, <2>11, <2>12, <2>13 DEF Follows
  <2> QED BY <2>14
<1> QED BY <1>1, <1>9, <1>10, <1>11, <1>12, <1>13, <1>14, <1>15 DEF RtmpInv, InStep

(* The invariant is about no more than the state. *)
LEMMA RtmpStays ==
  ASSUME RtmpInv, UNCHANGED vars
  PROVE  RtmpInv'
<1>1. UNCHANGED <<pub, enc, wire, back, srv, app, hist>> BY DEF vars
<1>2. EncInv' BY <1>1 DEF RtmpInv, EncInv
<1>3. TimeInv' BY <1>1, TimeKept DEF RtmpInv
<1>4. wire' \in Seq(Chunks) /\ back' \in Seq(Answers)
      /\ pub' = [state |-> pub'.state, made |-> pub'.made, odd |-> pub'.odd]
  BY <1>1 DEF RtmpInv, Shape
<1>5. ASSUME NEW path, Follows(path) PROVE \E to : Went(path[1], wire', to) /\ Expects(to)'
  <2>1. PICK at \in Stages : Went(path[1], wire, at) /\ Expects(at) BY <1>5, WentHere
  <2>2. Expects(at)' BY <1>1, <2>1 DEF Expects, Answered
  <2> QED BY <1>1, <2>1, <2>2
<1>6. app.done \/ \E path, to : Follows(path) /\ Went(path[1], wire', to) /\ Expects(to)'
  BY <1>5 DEF RtmpInv, InStep
<1>7. \A a : Among(a, back') => Among(a, back) BY <1>1
<1> QED BY <1>1, <1>4, <1>6, <1>7, SayCloses

(* Every step keeps the invariant. *)
LEMMA RtmpStep ==
  ASSUME RtmpInv, [Next]_vars
  PROVE  RtmpInv'
<1>1. CASE Hello BY <1>1, HelloKeeps
<1>2. CASE Receive BY <1>2, ReceiveKeeps
<1>3. CASE Close BY <1>3, CloseKeeps
<1>4. CASE Resize BY <1>4, ResizeWrites
<1>5. ASSUME NEW k \in Media, Begin(k) PROVE RtmpInv' BY <1>5, BeginWrites
<1>6. ASSUME NEW k \in Media, GoOn(k) PROVE RtmpInv' BY <1>6, GoOnWrites
<1>7. ASSUME NEW k \in Media, GiveUp(k) PROVE RtmpInv' BY <1>7, GiveUpWrites
<1>8. CASE Read BY <1>8, ReadKeeps
<1>9. CASE EndOfRead BY <1>9, EndOfReadKeeps
<1>10. CASE Accept BY <1>10, AcceptKeeps
<1>11. CASE Reject BY <1>11, RejectKeeps
<1>12. CASE HandOver BY <1>12, HandOverKeeps
<1>13. CASE EndStream BY <1>13, EndStreamKeeps
<1>14. CASE Flush BY <1>14, FlushKeeps
<1>15. CASE UNCHANGED vars BY <1>15, RtmpStays
<1> QED BY <1>1, <1>2, <1>3, <1>4, <1>5, <1>6, <1>7, <1>8, <1>9, <1>10, <1>11, <1>12, <1>13, <1>14, <1>15
        DEF Next, Encoder, Relay

(* The relay is in step: what is on the wire leads, a chunk at a time, from  *)
(* where its session and its decoder are to where the publisher and its     *)
(* encoder are, and the events and messages not yet dealt with are those of *)
(* the publisher, in order (next_chunk, handle, handle_command).            *)
THEOREM InStepAlways == Spec => []RtmpInv
BY RtmpInit, RtmpStep, PTL DEF Spec

(* A publisher that keeps to the protocol is never turned away             *)
(* (next_chunk, feed), however it writes, whatever the size of its chunks  *)
(* and the modulus of its timestamps.                                      *)
THEOREM RefusesNobody == Spec => []NeverRefused
<1>1. RtmpInv => NeverRefused BY DEF RtmpInv
<1> QED BY <1>1, InStepAlways, PTL

(* What the publisher closed has left nothing in the core: the session is  *)
(* past its stream once all of the wire is read.                           *)
LEMMA EndIsHeard == RtmpInv => EndIsTold
<1> SUFFICES ASSUME RtmpInv, pub.state = "Closed", wire = <<>>, srv.events = <<>>, ~srv.reading
             PROVE  ~app.publishing /\ srv.state # "Publishing"
  BY DEF EndIsTold
<1>1. CASE app.done BY <1>1 DEF RtmpInv, Ended
<1>2. ASSUME NEW path, Follows(path) PROVE srv.state # "Publishing" /\ ~app.publishing
  <2>1. Len(wire) + 1 = 1 OBVIOUS
  <2>2. path[1].at = Stage(srv) /\ Expects(path[1].at) BY <1>2, <2>1 DEF Follows
  <2>3. Stage(srv) \in {"Connected", "Closed"} BY <2>2 DEF Expects
  <2>4. srv.state \in {"Connected", "Closed"}
    <3>1. srv.shake \in Shakes \cup {"Done"} BY DEF RtmpInv, Shape
    <3> QED BY <2>3, <3>1 DEF Stage, Shakes
  <2>5. ~app.publishing BY <2>4 DEF RtmpInv, Publishes
  <2> QED BY <2>4, <2>5
<1> QED BY <1>1, <1>2 DEF RtmpInv, InStep

(* A stream whose publisher closed it is not held open once all that was   *)
(* written is dealt with, also when it was closed before the core had      *)
(* answered (accept_publish, ServerEvent::Unpublish).                      *)
THEOREM TellsTheEnd == Spec => []EndIsTold
BY InStepAlways, EndIsHeard, PTL

-----------------------------------------------------------------------------
(* From the encoder to the core *)

(* The channel's queue: what is due, at the times the core is given.       *)
Given(m) == [m EXCEPT !.ts = NotNegative(@)]
Queue(due) == [i \in DOMAIN due |-> Given(due[i])]
SentMedia == [kind : Media, ts : Nat, body : Seq(Words)]

(* What is told to the core of a message that was sent. *)
LEMMA GivenIs ==
  ASSUME NEW m \in Sent
  PROVE  Given(m) = [kind |-> m.kind, ts |-> NotNegative(m.ts), body |-> m.body] /\ Given(m) \in SentMedia
<1>1. m = [kind |-> m.kind, ts |-> m.ts, body |-> m.body] /\ m.kind \in Media /\ m.ts \in Int /\ m.body \in Seq(Words)
  BY DEF Sent
<1>2. NotNegative(m.ts) \in Nat BY <1>1 DEF NotNegative
<1>3. Given(m) = [kind |-> m.kind, ts |-> NotNegative(m.ts), body |-> m.body] BY <1>1 DEF Given
<1> QED BY <1>1, <1>2, <1>3 DEF SentMedia

(* What the core is to be told: each message due, in turn. *)
LEMMA QueueIs ==
  ASSUME NEW due \in Seq(Sent)
  PROVE  /\ Queue(due) \in Seq(SentMedia) /\ Len(Queue(due)) = Len(due)
         /\ \A i \in 1 .. Len(due) : Queue(due)[i] = Given(due[i])
<1>1. PICK n \in Nat : n = Len(due) /\ DOMAIN due = 1 .. n /\ \A i \in 1 .. n : due[i] \in Sent OBVIOUS
<1>2. PICK q : q = Queue(due) OBVIOUS
<1>3. q = [i \in 1 .. n |-> Given(due[i])] BY <1>1, <1>2 DEF Queue
<1>4. \A i \in 1 .. n : Given(due[i]) \in SentMedia BY <1>1, GivenIs
<1>5. q \in [1 .. n -> SentMedia] BY <1>3, <1>4
<1>6. q \in Seq(SentMedia) /\ Len(q) = n BY <1>5
<1> QED BY <1>1, <1>2, <1>3, <1>6

(* One more message is due, or the first of them is handed over. *)
LEMMA QueueMore ==
  ASSUME NEW due \in Seq(Sent), NEW m \in Sent, NEW more, more = Append(due, m)
  PROVE  /\ Len(Queue(more)) = Len(Queue(due)) + 1
         /\ SubSeq(Queue(more), 1, Len(Queue(due))) = Queue(due)
<1>1. more \in Seq(Sent) /\ IsAppended(more, due, m) BY AppendedIs
<1>2. Len(more) = Len(due) + 1 /\ \A i \in 1 .. Len(due) : more[i] = due[i] BY <1>1 DEF IsAppended
<1>3. PICK q \in Seq(SentMedia), r \in Seq(SentMedia) : q = Queue(due) /\ r = Queue(more) BY <1>1, QueueIs
<1>4. PICK n \in Nat : n = Len(due) OBVIOUS
<1>5. Len(q) = n /\ Len(r) = n + 1 /\ \A i \in 1 .. n : q[i] = Given(due[i])
  BY <1>2, <1>1, <1>3, <1>4, QueueIs
<1>6. \A i \in 1 .. n + 1 : r[i] = Given(more[i]) BY <1>1, <1>2, <1>3, <1>4, QueueIs
<1>7. ASSUME NEW i \in 1 .. n PROVE r[i] = q[i]
  <2>1. i \in 1 .. n + 1 OBVIOUS
  <2> QED BY <1>2, <1>4, <1>5, <1>6, <2>1
<1>8. PICK s : s = SubSeq(r, 1, n) OBVIOUS
<1>9. s \in Seq(SentMedia) /\ Len(s) = n /\ \A i \in 1 .. n : s[i] = r[i]
  <2>1. s = [i \in 1 .. n |-> r[i]]
    <3>1. s = [i \in 1 .. (n - 1) + 1 |-> r[(i + 1) - 1]] BY <1>8
    <3> QED BY <3>1
  <2>2. \A i \in 1 .. n : r[i] \in SentMedia
    <3>1. \A i \in 1 .. n : i \in 1 .. n + 1 OBVIOUS
    <3> QED BY <1>5, <3>1
  <2>3. s \in [1 .. n -> SentMedia] BY <2>1, <2>2
  <2> QED BY <2>1, <2>3
<1>10. s = q BY <1>5, <1>7, <1>9, SeqEqual
<1> QED BY <1>3, <1>5, <1>8, <1>10

(* Without its first it is that of the messages left. *)
LEMMA QueueLess ==
  ASSUME NEW due \in Seq(Sent), due # <<>>
  PROVE  Queue(due) # <<>> /\ Head(Queue(due)) = Given(due[1]) /\ Queue(Tail(due)) = Tail(Queue(due))
<1>1. PICK rest : rest = Tail(due) OBVIOUS
<1>2. IsRest(rest, due) /\ rest \in Seq(Sent) BY <1>1, RestIs
<1>3. PICK q \in Seq(SentMedia), r \in Seq(SentMedia) : q = Queue(due) /\ r = Queue(rest) BY <1>2, QueueIs
<1>4. PICK n \in Nat : n = Len(rest) BY <1>2
<1>5. Len(due) = n + 1 /\ \A i \in 1 .. n : rest[i] = due[i + 1]
  BY <1>2, <1>4 DEF IsRest
<1>6. Len(q) = n + 1 /\ \A i \in 1 .. n + 1 : q[i] = Given(due[i]) BY <1>3, <1>5, QueueIs
<1>7. Len(r) = n /\ \A i \in 1 .. n : r[i] = Given(rest[i]) BY <1>2, <1>3, <1>4, QueueIs
<1>8. q # <<>> /\ Head(q) = q[1] /\ 1 \in 1 .. n + 1 BY <1>6
<1>9. PICK t : t = Tail(q) OBVIOUS
<1>10. t \in Seq(SentMedia) /\ IsRest(t, q) BY <1>8, <1>9, RestIs
<1>11. Len(t) = n /\ \A i \in 1 .. n : t[i] = q[i + 1] BY <1>6, <1>10 DEF IsRest
<1>12. ASSUME NEW i \in 1 .. n PROVE t[i] = r[i]
  <2>1. i + 1 \in 1 .. n + 1 OBVIOUS
  <2> QED BY <1>5, <1>6, <1>7, <1>11, <2>1
<1>13. t = r BY <1>7, <1>10, <1>11, <1>12, SeqEqual
<1> QED BY <1>1, <1>3, <1>6, <1>8, <1>9, <1>13

(* What is recorded of a message is sent, or nothing is. *)
LEMMA RecordsSend ==
  ASSUME EncInv, NEW k \in Media, NEW st \in EncStreams, Records(k, st)
  PROVE  \/ hist' = hist
         \/ /\ \E m \in Sent : hist'.due = Append(hist.due, m)
            /\ hist'.last = hist.last /\ hist'.count = hist.count
<1>1. CASE st.left # <<>> BY <1>1 DEF Records
<1>2. CASE st.left = <<>>
  <2>1. hist = [time |-> hist.time, due |-> hist.due, last |-> hist.last, count |-> hist.count]
    BY DEF EncInv
  <2>2. PICK m : m = [kind |-> k, ts |-> st.t, body |-> st.body] OBVIOUS
  <2>3. m \in Sent BY <2>2 DEF Sent, EncStreams
  <2>4. hist' = [hist EXCEPT !.time[k] = <<st.t>>, !.due = Append(@, m)] BY <1>2, <2>2 DEF Records
  <2>5. hist'.due = Append(hist.due, m) /\ hist'.last = hist.last /\ hist'.count = hist.count BY <2>1, <2>4
  <2> QED BY <2>3, <2>5
<1> QED BY <1>1, <1>2

(* What is written finishes one message or none. *)
LEMMA BeginSends ==
  ASSUME EncInv, NEW k \in Media, Begin(k) \/ GoOn(k)
  PROVE  \/ hist' = hist
         \/ /\ \E m \in Sent : hist'.due = Append(hist.due, m)
            /\ hist'.last = hist.last /\ hist'.count = hist.count
<1>1. WellWritten(enc) /\ enc.size \in Nat \ {0} BY DEF EncInv, WellWritten, Encoders
<1>2. CASE Begin(k)
  <2>1. PICK fmt \in 0 .. 3, t \in Int, body \in Seq(Words), value \in Bits : Chosen(k, fmt, t, body, value)
    BY <1>2, BeginIs
  <2>2. PICK st : st = Begun(value, t, body, enc.size) OBVIOUS
  <2>3. 1 <= Len(body) /\ Len(body) <= 2 /\ Records(k, st) BY <2>1, <2>2 DEF Chosen
  <2>4. IsBegun(st, value, t, body, enc.size) BY <1>1, <2>2, <2>3, BegunIs
  <2>5. st \in EncStreams BY <2>4 DEF IsBegun
  <2> QED BY <2>3, <2>5, RecordsSend
<1>3. CASE GoOn(k)
  <2>1. PICK old : old = enc.streams[k] OBVIOUS
  <2>2. PICK st : st = [old EXCEPT !.left = Rest(@, enc.size)] OBVIOUS
  <2>3. Records(k, st) BY <1>3, <2>1, <2>2, GoOnIs DEF GoesOn
  <2>4. old \in EncStreams /\ Unfinished(enc, old) BY <1>1, <2>1 DEF WellWritten, Encoders
  <2>5. old.left # <<>> BY <1>3, <2>1 DEF GoOn
  <2>6. IsGoneOn(st, old, enc.size) BY <1>1, <2>2, <2>4, <2>5, GoneOnIs
  <2>7. st \in EncStreams BY <2>6 DEF IsGoneOn
  <2> QED BY <2>3, <2>7, RecordsSend
<1> QED BY <1>2, <1>3

(* The channel's parts, of this module's state. *)
LEMMA ToCoreIs ==
  /\ ToCore!Init <=> Queue(hist.due) = <<>> /\ hist.count = 0
  /\ ToCore!Send <=> /\ Len(Queue(hist'.due)) = Len(Queue(hist.due)) + 1
                     /\ SubSeq(Queue(hist'.due), 1, Len(Queue(hist.due))) = Queue(hist.due)
                     /\ hist'.last = hist.last /\ hist'.count = hist.count
  /\ ToCore!Receive <=> /\ Queue(hist.due) # <<>> /\ hist'.last = Head(Queue(hist.due))
                        /\ Queue(hist'.due) = Tail(Queue(hist.due)) /\ hist'.count = hist.count + 1
BY DEF ToCore!Init, ToCore!Send, ToCore!Receive, Queue, Given

(* Every step is one of the channel's or leaves it alone. *)
LEMMA StepIsChannel ==
  ASSUME RtmpInv, [Next]_vars
  PROVE  ToCore!Send \/ ToCore!Receive \/ hist' = hist
<1>1. EncInv /\ hist.due \in Seq(Sent) BY DEF RtmpInv, EncInv
<1>2. ASSUME NEW k \in Media, Begin(k) \/ GoOn(k) PROVE ToCore!Send \/ hist' = hist
  <2>1. CASE hist' = hist BY <2>1
  <2>2. ASSUME NEW m \in Sent, hist'.due = Append(hist.due, m), hist'.last = hist.last,
               hist'.count = hist.count
        PROVE  ToCore!Send
    <3>1. PICK due, more : due = hist.due /\ more = hist'.due OBVIOUS
    <3>2. /\ Len(Queue(more)) = Len(Queue(due)) + 1
          /\ SubSeq(Queue(more), 1, Len(Queue(due))) = Queue(due)
      BY <1>1, <2>2, <3>1, QueueMore, ZenonT(30)
    <3> QED BY <2>2, <3>1, <3>2, ToCoreIs
  <2> QED BY <1>1, <1>2, <2>1, <2>2, BeginSends
<1>3. CASE HandOver
  <2>1. PICK path, m : IsHandedOver(path, m) BY <1>3, HandedOver
  <2>2. PICK due : due = hist.due OBVIOUS
  <2>3. /\ due \in Seq(Sent) /\ due # <<>> /\ m = due[1] /\ m \in Sent /\ hist'.due = Tail(due)
        /\ hist'.count = hist.count + 1
        /\ hist'.last = [kind |-> m.kind, ts |-> NotNegative(m.ts), body |-> m.body]
    BY <1>1, <2>1, <2>2 DEF IsHandedOver
  <2>4. hist'.last = Given(due[1]) BY <2>3, GivenIs
  <2>5. Queue(due) # <<>> /\ Head(Queue(due)) = Given(due[1]) /\ Queue(Tail(due)) = Tail(Queue(due))
    BY <2>3, QueueLess
  <2>6. ToCore!Receive
    <3>1. PICK rest : rest = Tail(due) OBVIOUS
    <3>2. hist'.due = rest /\ Queue(rest) = Tail(Queue(due)) BY <2>3, <2>5, <3>1
    <3> QED BY <2>2, <2>3, <2>4, <2>5, <3>2, ToCoreIs
  <2> QED BY <2>6
<1>4. CASE Hello \/ Receive \/ Close \/ Resize BY <1>4 DEF Hello, Receive, Close, Resize
<1>5. ASSUME NEW k \in Media, GiveUp(k) PROVE hist' = hist BY <1>5 DEF GiveUp
<1>6. CASE Read \/ EndOfRead \/ Accept \/ Reject \/ EndStream \/ Flush
  BY <1>6 DEF Read, EndOfRead, Accept, Reject, EndStream, Flush
<1>7. CASE UNCHANGED vars BY <1>7 DEF vars
<1> QED BY <1>2, <1>3, <1>4, <1>5, <1>6, <1>7 DEF Next, Encoder, Relay

(* Every message of media that an encoder finished comes to the core once, *)
(* in order, whole and at its true time, however chunks of several         *)
(* messages alternate, headers are shortened, the chunk size changes,      *)
(* messages are given up and timestamps wrap (next_chunk,                  *)
(* TsUnwrapper::unwrap): the steps ImplementsChannel asks for, for all     *)
(* sizes, starts, steps and numbers of messages.                           *)
THEOREM MediaComesAsSent ==
  Spec => ToCore!Init /\ [][ToCore!Send \/ ToCore!Receive]_(ToCore!vars)
<1>1. Init => ToCore!Init
  <2> SUFFICES ASSUME Init PROVE ToCore!Init OBVIOUS
  <2>1. hist.due = <<>> /\ hist.count = 0 BY DEF Init
  <2>2. Queue(<<>>) = <<>> BY DEF Queue
  <2> QED BY <2>1, <2>2, ToCoreIs
<1>2. RtmpInv /\ [Next]_vars => [ToCore!Send \/ ToCore!Receive]_(ToCore!vars)
  <2> SUFFICES ASSUME RtmpInv, [Next]_vars, hist' = hist PROVE UNCHANGED ToCore!vars
    BY StepIsChannel
  <2> QED BY DEF ToCore!vars
<1> QED BY <1>1, <1>2, InStepAlways, PTL DEF Spec
=============================================================================
