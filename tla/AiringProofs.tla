---------------------------- MODULE AiringProofs ----------------------------
(***************************************************************************)
(* What holds of the engine for every configuration, whatever the encoder, *)
(* the streamer, the overlay and the connection do: its state is well      *)
(* formed, the slate is up exactly while a change needs it, nothing is     *)
(* sent from after the end of a broadcast, and the slate hides the jump.   *)
(*                                                                         *)
(* One lemma for each operator of DelayEngine says what it leaves alone,   *)
(* and that it leaves the engine well formed.                              *)
(***************************************************************************)
EXTENDS Airing, SequenceTheorems, WellFoundedInduction, TLAPS

Changes ==
  {NoChange} \cup [to : {"GoLiveNow"}, after : Int] \cup [to : {"AfterAir"}, mark : Int]
    \cup [to : {"Reduce"}, delay : Nat]
    \cup [to : {"Mask"}, delay : Nat, started : Nat, anchor : Int, mute : BOOLEAN,
          shown : Int, dump : BOOLEAN]
    \cup [to : {"Dump"}, delay : Nat, started : Nat, from : Int, shown : Int]
    \cup [to : {"Hold", "Replay"}, from : Int, delay : Nat]

Shape(e) ==
  DOMAIN e = {"ring", "syncs", "base", "next", "session", "active", "video", "keep", "up",
              "cursor", "delay", "target", "needSync", "started", "playing", "spliced", "pend",
              "slate", "change", "hold", "mark", "first", "warn"}

(* The buffer, at time t, of a stream of which n messages have come. *)
Buffer(e, t, n) ==
  /\ e.base \in Nat /\ e.next \in Nat /\ e.base <= e.next /\ e.session \in Nat
  /\ DOMAIN e.ring = Buffered(e) /\ e.syncs \subseteq Buffered(e)
  /\ \A s \in Buffered(e) :
       e.ring[s].at \in 0..t /\ e.ring[s].uid \in 1..n /\ e.ring[s].ses \in 0..e.session
  /\ \A s, r \in Buffered(e) :
       s < r => e.ring[s].at <= e.ring[r].at /\ e.ring[s].ses <= e.ring[r].ses

Sending(e) ==
  /\ e.cursor \in Nat /\ e.cursor <= e.next
  /\ e.delay \in Nat /\ e.target \in 0..MaxDelay
  /\ e.pend \in Changes /\ e.started \in BOOLEAN /\ e.needSync \in BOOLEAN
  /\ e.pend # NoChange => e.started
  /\ e.needSync \/ e.started
  /\ e.mark \in Int /\ e.mark >= -1 /\ e.mark < e.next
  /\ e.first \in Int /\ e.first >= -1

Slated(e) == e.slate = Covers(e.pend)

WellFormed(e, t, n) == Shape(e) /\ Buffer(e, t, n) /\ Sending(e) /\ Slated(e)

(* What x, which comes of e, has kept of it. *)
Keeps(e, x) ==
  /\ x.ring = e.ring /\ x.syncs = e.syncs /\ x.base = e.base /\ x.next = e.next
  /\ x.session = e.session /\ x.mark = e.mark /\ x.change = e.change

(* x comes of e, and nothing of the buffer is touched. *)
Turns(e, x, t, n) == WellFormed(x, t, n) /\ Keeps(e, x)

-----------------------------------------------------------------------------
(* Finding things in the buffer *)

(* The greatest and the least of a bounded set of numbers. *)
LEMMA Extremes ==
  ASSUME NEW n \in Nat, NEW S, S \subseteq 0 .. n, S # {}
  PROVE  /\ Min(S) \in S /\ \A x \in S : Min(S) <= x
         /\ Max(S) \in S /\ \A x \in S : Max(S) >= x
<1>1. ASSUME NEW T, T \subseteq Nat, T # {} PROVE \E x \in T : \A y \in T : x <= y
  <2> DEFINE R == OpToRel(<, Nat)
  <2>1. R = {p \in Nat \X Nat : p[1] < p[2]} BY Zenon DEF OpToRel
  <2>2. ASSUME NEW x \in Nat, NEW y \in Nat, y < x PROVE <<y, x>> \in R
    <3>1. <<y, x>> \in Nat \X Nat /\ <<y, x>>[1] = y /\ <<y, x>>[2] = x OBVIOUS
    <3> QED BY <2>1, <2>2, <3>1
  <2>3. IsWellFoundedOn(R, Nat) BY NatLessThanWellFounded
  <2> HIDE DEF R
  <2>4. \E x \in T : \A y \in T : ~ (<<y, x>> \in R) BY <1>1, <2>3, WFMin
  <2>5. PICK x \in T : \A y \in T : ~ (<<y, x>> \in R) BY <2>4
  <2>6. ASSUME NEW y \in T PROVE x <= y
    <3>1. x \in Nat /\ y \in Nat BY <1>1
    <3>2. ~ (y < x) BY <2>2, <2>5, <3>1
    <3> QED BY <3>1, <3>2
  <2> QED BY <2>6
<1>2. \E x \in S : \A y \in S : x <= y
  <2>1. S \subseteq Nat OBVIOUS
  <2> QED BY <1>1, <2>1
<1>3. \E x \in S : \A y \in S : x >= y
  <2> DEFINE T == {n - x : x \in S}
  <2>1. T \subseteq Nat /\ T # {}
    <3>1. \A x \in S : x \in 0 .. n /\ n - x \in Nat OBVIOUS
    <3> QED BY <3>1
  <2>2. PICK t \in T : \A y \in T : t <= y BY <1>1, <2>1
  <2>3. PICK x \in S : t = n - x OBVIOUS
  <2>4. ASSUME NEW y \in S PROVE x >= y
    <3>1. n - y \in T OBVIOUS
    <3>2. n - x <= n - y BY <2>2, <2>3, <3>1
    <3>3. x \in 0 .. n /\ y \in 0 .. n OBVIOUS
    <3> QED BY <3>2, <3>3
  <2> QED BY <2>4
<1>4. Min(S) \in S /\ \A x \in S : Min(S) <= x BY <1>2 DEF Min
<1>5. Max(S) \in S /\ \A x \in S : Max(S) >= x BY <1>3 DEF Max
<1> QED BY <1>4, <1>5

LEMMA Found ==
  ASSUME NEW n \in Nat, NEW S, S \subseteq 0 .. n
  PROVE  /\ NewestOf(S) # None => NewestOf(S) \in S /\ \A x \in S : NewestOf(S) >= x
         /\ OldestOf(S) # None => OldestOf(S) \in S /\ \A x \in S : OldestOf(S) <= x
         /\ NewestOf(S) = None <=> S = {}
         /\ OldestOf(S) = None <=> S = {}
<1>1. CASE S = {} BY <1>1 DEF NewestOf, OldestOf, None
<1>2. CASE S # {}
  <2>1. NewestOf(S) = Max(S) /\ OldestOf(S) = Min(S) BY <1>2 DEF NewestOf, OldestOf
  <2>2. /\ Min(S) \in S /\ \A x \in S : Min(S) <= x
        /\ Max(S) \in S /\ \A x \in S : Max(S) >= x BY <1>2, Extremes
  <2>3. Min(S) # None /\ Max(S) # None BY <2>2 DEF None
  <2> QED BY <1>2, <2>1, <2>2, <2>3
<1> QED BY <1>1, <1>2

(* A place to start from is in the buffer, and not in the future. *)
LEMMA Place ==
  ASSUME NEW e, NEW t \in Nat, NEW n \in Nat, WellFormed(e, t, n), NEW k \in e.syncs
  PROVE  /\ k \in Nat /\ k < e.next /\ k >= e.base /\ k \in Buffered(e)
         /\ Age(e, k, t) \in Nat /\ e.ring[k].at \in Nat /\ k # None
BY SMTT(30) DEF WellFormed, Buffer, Buffered, Age, None

LEMMA Searched ==
  ASSUME NEW e, NEW t \in Nat, NEW n \in Nat, WellFormed(e, t, n), NEW S, S \subseteq e.syncs
  PROVE  /\ NewestOf(S) # None => NewestOf(S) \in S /\ \A x \in S : NewestOf(S) >= x
         /\ OldestOf(S) # None => OldestOf(S) \in S /\ \A x \in S : OldestOf(S) <= x
         /\ NewestOf(S) = None <=> S = {}
         /\ OldestOf(S) = None <=> S = {}
<1>1. S \subseteq 0 .. e.next /\ e.next \in Nat BY DEF WellFormed, Buffer, Buffered
<1> QED BY <1>1, Found

-----------------------------------------------------------------------------
(* Changing what the output does next *)

LEMMA SameBuffer ==
  ASSUME NEW e, NEW x, NEW t, NEW n, Buffer(e, t, n), Keeps(e, x)
  PROVE  Buffer(x, t, n)
BY DEF Buffer, Keeps, Buffered

LEMMA TurnsIf ==
  ASSUME NEW e, NEW x, NEW t, NEW n, WellFormed(e, t, n), Shape(x), Keeps(e, x), Sending(x), Slated(x)
  PROVE  Turns(e, x, t, n)
BY SameBuffer DEF WellFormed, Turns

LEMMA TurnsOn ==
  ASSUME NEW e, NEW x, NEW y, NEW t, NEW n, Keeps(e, x), Turns(x, y, t, n)
  PROVE  Turns(e, y, t, n)
BY DEF Turns, Keeps

LEMMA TurnsNot ==
  ASSUME NEW e, NEW t, NEW n, WellFormed(e, t, n)
  PROVE  Turns(e, e, t, n)
BY DEF Turns, Keeps

(* Of what is not told apart here, any may change. *)
LEMMA Warned ==
  ASSUME NEW e, NEW t \in Nat, NEW n \in Nat, WellFormed(e, t, n), NEW w
  PROVE  Turns(e, [e EXCEPT !.warn = w], t, n)
<1> DEFINE x == [e EXCEPT !.warn = w]
<1>1. Shape(x) /\ Keeps(e, x) BY DEF Shape, WellFormed, Keeps
<1>2. Sending(x) BY DEF Shape, WellFormed, Sending
<1>3. Slated(x) BY DEF Shape, WellFormed, Slated
<1> QED BY <1>1, <1>2, <1>3, TurnsIf

LEMMA HeldIs ==
  ASSUME NEW e, NEW t \in Nat, NEW n \in Nat, WellFormed(e, t, n), NEW h
  PROVE  Turns(e, [e EXCEPT !.hold = h], t, n)
<1> DEFINE x == [e EXCEPT !.hold = h]
<1>1. Shape(x) /\ Keeps(e, x) BY DEF Shape, WellFormed, Keeps
<1>2. Sending(x) BY DEF Shape, WellFormed, Sending
<1>3. Slated(x) BY DEF Shape, WellFormed, Slated
<1> QED BY <1>1, <1>2, <1>3, TurnsIf

LEMMA SplicedTo ==
  ASSUME NEW e, NEW t \in Nat, NEW n \in Nat, WellFormed(e, t, n),
         NEW k \in Nat, k < e.next, NEW d \in Nat
  PROVE  /\ Turns(e, SpliceTo(e, k, d), t, n)
         /\ SpliceTo(e, k, d).pend = e.pend /\ SpliceTo(e, k, d).started = TRUE
<1> DEFINE x == SpliceTo(e, k, d)
<1>1. Shape(x) /\ Keeps(e, x) /\ x.pend = e.pend /\ x.started = TRUE
  BY DEF SpliceTo, Shape, WellFormed, Keeps
<1>3. Sending(x) BY SMTT(30) DEF SpliceTo, Shape, WellFormed, Buffer, Buffered, Sending
<1>4. Slated(x) BY DEF SpliceTo, Shape, WellFormed, Slated
<1> QED BY <1>1, <1>3, <1>4, TurnsIf

LEMMA SplicedIs ==
  ASSUME NEW e, NEW t \in Nat, NEW n \in Nat, WellFormed(e, t, n),
         NEW k \in e.syncs, NEW d \in Nat
  PROVE  /\ Turns(e, SpliceTo(e, k, d), t, n)
         /\ SpliceTo(e, k, d).pend = e.pend /\ SpliceTo(e, k, d).started = TRUE
BY Place, SplicedTo

LEMMA SplicedAt ==
  ASSUME NEW e, NEW t \in Nat, NEW n \in Nat, WellFormed(e, t, n), NEW k \in e.syncs
  PROVE  /\ Turns(e, SpliceTo(e, k, Age(e, k, t)), t, n)
         /\ SpliceTo(e, k, Age(e, k, t)).pend = e.pend
         /\ SpliceTo(e, k, Age(e, k, t)).started = TRUE
<1>1. Age(e, k, t) \in Nat BY Place
<1> QED BY <1>1, SplicedIs

(* Another change takes the place of the one there is. *)
LEMMA PendingIs ==
  ASSUME NEW e, NEW t \in Nat, NEW n \in Nat, WellFormed(e, t, n), NEW p \in Changes,
         p # NoChange => e.started, ~Covers(p)
  PROVE  /\ Turns(e, SetPending(e, p), t, n)
         /\ SetPending(e, p).pend = p /\ SetPending(e, p).started = e.started
<1> DEFINE x == SetPending(e, p)
<1>1. Shape(x) /\ Keeps(e, x) /\ x.pend = p /\ x.started = e.started
  BY DEF SetPending, Shape, WellFormed, Keeps
<1>3. Sending(x) BY DEF SetPending, Shape, WellFormed, Buffer, Buffered, Sending
<1>4. Slated(x)
  <2>1. x.slate = (e.slate /\ ~Covers(e.pend)) BY DEF SetPending, Shape, WellFormed
  <2>2. x.slate = FALSE BY <2>1 DEF WellFormed, Slated
  <2>3. Covers(x.pend) = FALSE BY <1>1 DEF Covers
  <2> QED BY <2>2, <2>3 DEF Slated
<1> QED BY <1>1, <1>3, <1>4, TurnsIf

(* One under the slate puts it up. *)
PutUp(e, p) == [SetPending(e, p) EXCEPT !.change = @ + 1, !.slate = TRUE]

LEMMA CoveredIs ==
  ASSUME NEW e, NEW t \in Nat, NEW n \in Nat, WellFormed(e, t, n), NEW p \in Changes,
         e.started, Covers(p)
  PROVE  LET x == PutUp(e, p)
         IN /\ WellFormed(x, t, n) /\ x.pend = p /\ x.started = e.started
            /\ x.ring = e.ring /\ x.syncs = e.syncs /\ x.base = e.base /\ x.next = e.next
            /\ x.session = e.session /\ x.mark = e.mark /\ x.change = e.change + 1
<1> DEFINE x == PutUp(e, p)
<1>1. Shape(x) /\ x.pend = p /\ x.started = e.started
      /\ x.ring = e.ring /\ x.syncs = e.syncs /\ x.base = e.base /\ x.next = e.next
      /\ x.session = e.session /\ x.mark = e.mark /\ x.slate = TRUE /\ x.change = e.change + 1
  BY DEF PutUp, SetPending, Shape, WellFormed
<1>2. Buffer(x, t, n) BY <1>1 DEF WellFormed, Buffer, Buffered
<1>3. Sending(x)
  <2>1. /\ x.cursor = e.cursor /\ x.delay = e.delay /\ x.target = e.target
        /\ x.needSync = e.needSync /\ x.first = e.first
    BY DEF PutUp, SetPending, Shape, WellFormed
  <2> QED BY <1>1, <2>1 DEF WellFormed, Sending
<1>4. Slated(x) BY <1>1 DEF Slated, Covers
<1> QED BY <1>1, <1>2, <1>3, <1>4 DEF WellFormed

(* What each kind of change says. *)
LEMMA Kinded ==
  ASSUME NEW p \in Changes
  PROVE  /\ p.to = "None" <=> p = NoChange
         /\ p.to = "GoLiveNow" => p.after \in Int
         /\ p.to = "AfterAir" => p.mark \in Int
         /\ p.to = "Reduce" => p.delay \in Nat
         /\ p.to = "Mask" => /\ p.delay \in Nat /\ p.started \in Nat /\ p.anchor \in Int
                             /\ p.mute \in BOOLEAN /\ p.shown \in Int /\ p.dump \in BOOLEAN
         /\ p.to = "Dump" => /\ p.delay \in Nat /\ p.started \in Nat /\ p.from \in Int
                             /\ p.shown \in Int
         /\ p.to \in {"Hold", "Replay"} => p.from \in Int /\ p.delay \in Nat
         /\ p.to \in {"None", "GoLiveNow", "AfterAir", "Reduce", "Mask", "Dump", "Hold", "Replay"}
BY DEF Changes, NoChange

LEMMA Kinds1 ==
  /\ NoChange \in Changes /\ ~Covers(NoChange)
  /\ \A a \in Int : GoLiveNow(a) \in Changes /\ ~Covers(GoLiveNow(a))
  /\ \A a \in Int : AfterAir(a) \in Changes /\ ~Covers(AfterAir(a))
  /\ \A d \in Nat : Reduce(d) \in Changes /\ ~Covers(Reduce(d))
  /\ \A a \in Int, d \in Nat : Hold(a, d) \in Changes /\ ~Covers(Hold(a, d))
  /\ \A a \in Int, d \in Nat : Replay(a, d) \in Changes /\ ~Covers(Replay(a, d))
BY DEF Changes, NoChange, GoLiveNow, AfterAir, Reduce, Hold, Replay, Covers

LEMMA Kinds2 ==
  ASSUME NEW d \in Nat, NEW t \in Nat, NEW a \in Int, NEW m \in BOOLEAN, NEW s \in Int,
         NEW u \in BOOLEAN
  PROVE  /\ Mask(d, t, a, m, s, u) \in Changes /\ Covers(Mask(d, t, a, m, s, u))
         /\ DumpUnder(d, t, a) \in Changes /\ Covers(DumpUnder(d, t, a))
BY DEF Changes, Mask, DumpUnder, Covers, None

(* A change that needs no slate is over. *)
LEMMA OverIs ==
  ASSUME NEW e, NEW t \in Nat, NEW n \in Nat, WellFormed(e, t, n), ~Covers(e.pend),
         NEW p \in Changes, ~Covers(p), p # NoChange => e.started
  PROVE  Turns(e, [e EXCEPT !.pend = p], t, n)
<1> DEFINE x == [e EXCEPT !.pend = p]
<1>1. Shape(x) /\ Keeps(e, x) /\ x.pend = p BY DEF Shape, WellFormed, Keeps
<1>2. Sending(x) BY DEF Shape, WellFormed, Sending
<1>3. Slated(x)
  <2>1. x.slate = e.slate BY DEF Shape, WellFormed
  <2>2. Covers(e.pend) = FALSE /\ Covers(x.pend) = FALSE BY <1>1 DEF Covers
  <2> QED BY <2>1, <2>2 DEF Slated, WellFormed
<1> QED BY <1>1, <1>2, <1>3, TurnsIf

(* One that goes on under the slate may say more. *)
LEMMA GoesOn ==
  ASSUME NEW e, NEW t \in Nat, NEW n \in Nat, WellFormed(e, t, n), Covers(e.pend),
         NEW p \in Changes, Covers(p)
  PROVE  Turns(e, [e EXCEPT !.pend = p], t, n)
<1> DEFINE x == [e EXCEPT !.pend = p]
<1>1. Shape(x) /\ Keeps(e, x) /\ x.pend = p BY DEF Shape, WellFormed, Keeps
<1>2. e.started BY DEF WellFormed, Sending, Covers, NoChange
<1>3. Sending(x) BY <1>2 DEF Shape, WellFormed, Sending
<1>4. Slated(x)
  <2>1. x.slate = e.slate BY DEF Shape, WellFormed
  <2>2. Covers(e.pend) = TRUE /\ Covers(x.pend) = TRUE BY <1>1 DEF Covers
  <2> QED BY <2>1, <2>2 DEF Slated, WellFormed
<1> QED BY <1>1, <1>3, <1>4, TurnsIf

LEMMA DelayIs ==
  ASSUME NEW e, NEW t \in Nat, NEW n \in Nat, WellFormed(e, t, n), NEW d \in Nat
  PROVE  Turns(e, [e EXCEPT !.delay = d], t, n)
<1> DEFINE x == [e EXCEPT !.delay = d]
<1>1. Shape(x) /\ Keeps(e, x) BY DEF Shape, WellFormed, Keeps
<1>2. Sending(x) BY DEF Shape, WellFormed, Sending
<1>3. Slated(x) BY DEF Shape, WellFormed, Slated
<1> QED BY <1>1, <1>2, <1>3, TurnsIf

LEMMA TargetIs ==
  ASSUME NEW e, NEW t \in Nat, NEW n \in Nat, WellFormed(e, t, n), NEW d \in 0..MaxDelay
  PROVE  Turns(e, [e EXCEPT !.target = d], t, n)
<1> DEFINE x == [e EXCEPT !.target = d]
<1>1. Shape(x) /\ Keeps(e, x) BY DEF Shape, WellFormed, Keeps
<1>2. Sending(x) BY DEF Shape, WellFormed, Sending
<1>3. Slated(x) BY DEF Shape, WellFormed, Slated
<1> QED BY <1>1, <1>2, <1>3, TurnsIf

LEMMA CursorIs ==
  ASSUME NEW e, NEW t \in Nat, NEW n \in Nat, WellFormed(e, t, n), NEW c \in Nat, c <= e.next
  PROVE  Turns(e, [e EXCEPT !.cursor = c], t, n)
<1> DEFINE x == [e EXCEPT !.cursor = c]
<1>1. Shape(x) /\ Keeps(e, x) BY DEF Shape, WellFormed, Keeps
<1>2. Sending(x) BY DEF Shape, WellFormed, Sending
<1>3. Slated(x) BY DEF Shape, WellFormed, Slated
<1> QED BY <1>1, <1>2, <1>3, TurnsIf

LEMMA NeedsSync ==
  ASSUME NEW e, NEW t \in Nat, NEW n \in Nat, WellFormed(e, t, n)
  PROVE  Turns(e, [e EXCEPT !.needSync = TRUE], t, n)
<1> DEFINE x == [e EXCEPT !.needSync = TRUE]
<1>1. Shape(x) /\ Keeps(e, x) BY DEF Shape, WellFormed, Keeps
<1>2. Sending(x) BY DEF Shape, WellFormed, Sending
<1>3. Slated(x) BY DEF Shape, WellFormed, Slated
<1> QED BY <1>1, <1>2, <1>3, TurnsIf

LEMMA BackUnder ==
  ASSUME NEW e, NEW t \in Nat, NEW n \in Nat, WellFormed(e, t, n), e.started
  PROVE  Turns(e, BackUnderMax(e), t, n)
<1> DEFINE x == SetPending(e, Reduce(MaxDelay))
           y == [x EXCEPT !.target = Lesser(@, MaxDelay)]
<1>1. CASE e.pend = NoChange /\ e.delay > MaxDelay + KeyInterval
  <2>1. BackUnderMax(e) = y BY <1>1 DEF BackUnderMax
  <2>2. MaxDelay \in Nat BY EngineConstants
  <2>3. Turns(e, x, t, n) BY <2>2, Kinds1, PendingIs
  <2>4. Lesser(x.target, MaxDelay) \in 0..MaxDelay
    BY <2>2, <2>3 DEF Turns, WellFormed, Sending, Lesser
  <2>5. Turns(x, y, t, n) BY <2>3, <2>4, TargetIs DEF Turns
  <2> QED BY <2>1, <2>3, <2>5, TurnsOn DEF Turns
<1>2. CASE ~(e.pend = NoChange /\ e.delay > MaxDelay + KeyInterval)
  BY <1>2, TurnsNot DEF BackUnderMax
<1> QED BY <1>1, <1>2

LEMMA BackToTargetIs ==
  ASSUME NEW e, NEW t \in Nat, NEW n \in Nat, WellFormed(e, t, n), e.started
  PROVE  Turns(e, BackToTarget(e), t, n)
<1>1. e.target \in Nat /\ e.next - 1 \in Int BY DEF WellFormed, Sending, Buffer
<1>2. Turns(e, SetPending(e, GoLiveNow(e.next - 1)), t, n) BY <1>1, Kinds1, PendingIs
<1>3. Turns(e, SetPending(e, Reduce(e.target)), t, n) BY <1>1, Kinds1, PendingIs
<1> QED BY <1>2, <1>3, TurnsNot DEF BackToTarget

-----------------------------------------------------------------------------
(* run_pending() *)

LEMMA GoLiveIs ==
  ASSUME NEW e, NEW t \in Nat, NEW n \in Nat, WellFormed(e, t, n), e.pend.to = "GoLiveNow"
  PROVE  Turns(e, GoLive(e, e.pend, t), t, n)
<1> DEFINE k == NewestOf(e.syncs)
           x == IF k > e.cursor \/ e.needSync THEN SpliceTo(e, k, Age(e, k, t))
                ELSE [e EXCEPT !.delay = Lesser(@, e.target)]
<1>1. CASE k = None \/ k <= e.pend.after BY <1>1, TurnsNot DEF GoLive
<1>2. CASE ~(k = None \/ k <= e.pend.after)
  <2>1. GoLive(e, e.pend, t) = [x EXCEPT !.pend = NoChange] BY <1>2 DEF GoLive
  <2>2. k \in e.syncs BY <1>2, Searched
  <2>3. Turns(e, SpliceTo(e, k, Age(e, k, t)), t, n) /\ SpliceTo(e, k, Age(e, k, t)).pend = e.pend
    BY <2>2, SplicedAt
  <2>4. Lesser(e.delay, e.target) \in Nat BY EngineConstants DEF WellFormed, Sending, Lesser
  <2>5. Turns(e, [e EXCEPT !.delay = Lesser(@, e.target)], t, n) BY <2>4, DelayIs
  <2>6. [e EXCEPT !.delay = Lesser(@, e.target)].pend = e.pend BY DEF WellFormed, Shape
  <2>7. Turns(e, x, t, n) /\ x.pend = e.pend BY <2>3, <2>5, <2>6
  <2>8. ~Covers(x.pend) BY <2>7 DEF Covers
  <2> HIDE DEF x
  <2>9. Turns(x, [x EXCEPT !.pend = NoChange], t, n) BY <2>7, <2>8, OverIs, Kinds1 DEF Turns
  <2> QED BY <2>1, <2>7, <2>9, TurnsOn DEF Turns
<1> QED BY <1>1, <1>2

LEMMA SkipAheadIs ==
  ASSUME NEW e, NEW t \in Nat, NEW n \in Nat, WellFormed(e, t, n), e.pend.to = "Reduce"
  PROVE  Turns(e, SkipAhead(e, e.pend, t), t, n)
<1> DEFINE k == NewestSyncBy(e, t - e.pend.delay)
           x == SpliceTo(e, k, Age(e, k, t))
<1>1. ~Covers(e.pend) BY DEF Covers
<1>2. Turns(e, [e EXCEPT !.pend = NoChange], t, n) BY <1>1, OverIs, Kinds1
<1>3. CASE k = None
  <2>1. ~(k > e.cursor) BY <1>3 DEF None, WellFormed, Sending
  <2> QED BY <1>2, <2>1, TurnsNot DEF SkipAhead
<1>4. CASE k # None
  <2>1. k \in e.syncs
    <3>1. {s \in e.syncs : e.ring[s].at <= t - e.pend.delay} \subseteq e.syncs OBVIOUS
    <3> QED BY <1>4, <3>1, Searched DEF NewestSyncBy
  <2>2. Turns(e, x, t, n) /\ x.pend = e.pend BY <2>1, SplicedAt
  <2>3. Turns(x, [x EXCEPT !.pend = NoChange], t, n) BY <1>1, <2>2, OverIs, Kinds1 DEF Turns
  <2>4. Turns(e, [x EXCEPT !.pend = NoChange], t, n) BY <2>2, <2>3, TurnsOn DEF Turns
  <2> QED BY <1>2, <2>4, TurnsNot DEF SkipAhead
<1> QED BY <1>3, <1>4

LEMMA Anchored ==
  ASSUME NEW p \in Changes, p.to = "Mask", NEW a \in Int
  PROVE  /\ [p EXCEPT !.anchor = a] \in Changes /\ Covers([p EXCEPT !.anchor = a])
         /\ [p EXCEPT !.anchor = a].anchor = a /\ [p EXCEPT !.anchor = a].shown = p.shown
         /\ [p EXCEPT !.anchor = a].to = "Mask"
BY DEF Changes, NoChange, Covers

LEMMA UnderSlateIs ==
  ASSUME NEW e, NEW t \in Nat, NEW n \in Nat, WellFormed(e, t, n), e.pend.to = "Mask"
  PROVE  Turns(e, UnderSlate(e, e.pend, t), t, n)
<1> DEFINE p == e.pend
           stale   == p.shown = None /\ t >= p.started + SlateWait
           waiting == p.anchor = None /\ p.shown = None /\ ~stale
           anchor  == IF p.anchor # None THEN p.anchor ELSE OldestSyncSince(e, SurelyCovered(p))
           warned  == IF p.anchor = None /\ stale THEN [e EXCEPT !.warn = @ \cup {"unconfirmed"}] ELSE e
           found   == [warned EXCEPT !.pend = [p EXCEPT !.anchor = anchor]]
<1>0. p \in Changes /\ Covers(p) BY DEF WellFormed, Sending, Covers
<1>1. Turns(e, warned, t, n) /\ warned.pend = p
  <2>1. Turns(e, [e EXCEPT !.warn = @ \cup {"unconfirmed"}], t, n) BY Warned
  <2>2. [e EXCEPT !.warn = @ \cup {"unconfirmed"}].pend = p BY DEF WellFormed, Shape
  <2> QED BY <2>1, <2>2, TurnsNot
<1>2. Turns(e, SetPending(e, NoChange), t, n) BY Kinds1, PendingIs
<1>3. ASSUME anchor # None, anchor \in Buffered(e) PROVE Turns(e, found, t, n)
  <2>1. anchor \in Int BY <1>3 DEF Buffered
  <2> HIDE DEF anchor, warned, p
  <2>2. [p EXCEPT !.anchor = anchor] \in Changes /\ Covers([p EXCEPT !.anchor = anchor])
    BY <1>0, <2>1, Anchored DEF p
  <2>3. Turns(warned, found, t, n) BY <1>0, <1>1, <2>2, GoesOn DEF Turns
  <2> QED BY <1>1, <2>3, TurnsOn DEF Turns
<1>4. ASSUME anchor # None, anchor \in Buffered(e), OldEnough(e, anchor, p.delay, t)
      PROVE  Turns(e, SetPending(SpliceTo(found, anchor, Age(e, anchor, t)), NoChange), t, n)
  <2> HIDE DEF found, anchor
  <2>1. Turns(e, found, t, n) BY <1>3, <1>4
  <2>2. anchor \in Nat /\ anchor < e.next /\ Age(e, anchor, t) \in Nat
    BY <1>4 DEF WellFormed, Buffer, Buffered, Age
  <2> DEFINE d == Age(e, anchor, t)
  <2>6. WellFormed(found, t, n) /\ anchor < found.next BY <2>1, <2>2 DEF Turns, Keeps
  <2>7. d \in Nat BY <2>2
  <2> HIDE DEF d
  <2>8. Turns(found, SpliceTo(found, anchor, d), t, n) BY <2>2, <2>6, <2>7, SplicedTo
  <2>3. Turns(found, SpliceTo(found, anchor, Age(e, anchor, t)), t, n) BY <2>8 DEF d
  <2>4. Turns(e, SpliceTo(found, anchor, Age(e, anchor, t)), t, n) BY <2>1, <2>3, TurnsOn DEF Turns
  <2>5. Turns(SpliceTo(found, anchor, Age(e, anchor, t)),
              SetPending(SpliceTo(found, anchor, Age(e, anchor, t)), NoChange), t, n)
    BY <2>4, Kinds1, PendingIs DEF Turns
  <2> QED BY <2>4, <2>5, TurnsOn DEF Turns
<1>5. UnderSlate(e, p, t) \in {warned, SetPending(e, NoChange)}
      \/ (anchor # None /\ anchor \in Buffered(e) /\ UnderSlate(e, p, t) = found)
      \/ /\ anchor # None /\ anchor \in Buffered(e) /\ OldEnough(e, anchor, p.delay, t)
         /\ UnderSlate(e, p, t) = SetPending(SpliceTo(found, anchor, Age(e, anchor, t)), NoChange)
  <2> DEFINE back == SetPending(SpliceTo(found, anchor, Age(e, anchor, t)), NoChange)
  <2>1. UnderSlate(e, p, t) =
          CASE waiting \/ anchor = None -> warned
            [] ~waiting /\ anchor # None /\ anchor \notin Buffered(e) -> SetPending(e, NoChange)
            [] ~waiting /\ anchor \in Buffered(e) ->
                 IF OldEnough(e, anchor, p.delay, t) THEN back ELSE found
    BY DEF UnderSlate
  <2>2. anchor \in Buffered(e) => anchor # None
    BY DEF WellFormed, Buffer, Buffered, None
  <2> HIDE DEF waiting, anchor, warned, found, p, back
  <2>3. UnderSlate(e, p, t) \in {warned, SetPending(e, NoChange)}
        \/ (anchor \in Buffered(e) /\ UnderSlate(e, p, t) = found)
        \/ (anchor \in Buffered(e) /\ OldEnough(e, anchor, p.delay, t) /\ UnderSlate(e, p, t) = back)
    BY <2>1, <2>2
  <2> QED BY <2>2, <2>3 DEF back
<1> HIDE DEF p, anchor, warned, found
<1> QED BY <1>1, <1>2, <1>3, <1>4, <1>5 DEF p

LEMMA OverHold ==
  ASSUME NEW e, NEW t \in Nat, NEW n \in Nat, WellFormed(e, t, n), ~Covers(e.pend), NEW w
  PROVE  Turns(e, [e EXCEPT !.pend = NoChange, !.hold = None, !.warn = w], t, n)
<1> DEFINE x == [e EXCEPT !.pend = NoChange, !.hold = None, !.warn = w]
<1>1. Shape(x) /\ Keeps(e, x) /\ x.pend = NoChange BY DEF Shape, WellFormed, Keeps
<1>2. Sending(x) BY Kinds1 DEF Shape, WellFormed, Sending
<1>3. Slated(x)
  <2>1. x.slate = e.slate BY DEF Shape, WellFormed
  <2>2. Covers(e.pend) = FALSE /\ Covers(x.pend) = FALSE BY <1>1, Kinds1 DEF Covers
  <2> QED BY <2>1, <2>2 DEF Slated, WellFormed
<1> QED BY <1>1, <1>2, <1>3, TurnsIf

LEMMA HoldOnIs ==
  ASSUME NEW e, NEW t \in Nat, NEW n \in Nat, WellFormed(e, t, n), e.pend.to = "Hold"
  PROVE  Turns(e, HoldOn(e, e.pend, t), t, n)
<1> DEFINE p == e.pend
           k == OldestOf({s \in e.syncs : s >= p.from /\ (e.mark # None => s <= e.mark)})
           over(x) == [x EXCEPT !.pend = NoChange, !.hold = None, !.warn = @ \ {"coverLost"}]
           x1 == [e EXCEPT !.cursor = Greater(@, e.mark + 1)]
           x2 == SpliceTo(e, k, Age(e, k, t))
<1>1. ASSUME NEW x, Turns(e, x, t, n), x.pend = e.pend PROVE Turns(e, over(x), t, n)
  <2>1. ~Covers(x.pend) BY <1>1 DEF Covers
  <2>2. Turns(x, over(x), t, n) BY <1>1, <2>1, OverHold DEF Turns
  <2> QED BY <1>1, <2>2, TurnsOn DEF Turns
<1>2. Turns(e, over(x1), t, n)
  <2>1. Greater(e.cursor, e.mark + 1) \in Nat /\ Greater(e.cursor, e.mark + 1) <= e.next
    BY DEF WellFormed, Sending, Buffer, Greater
  <2>2. Turns(e, x1, t, n) BY <2>1, CursorIs
  <2>3. x1.pend = e.pend BY DEF WellFormed, Shape
  <2> HIDE DEF over, x1
  <2> QED BY <1>1, <2>2, <2>3
<1>3. k # None => Turns(e, over(x2), t, n)
  <2> SUFFICES ASSUME k # None PROVE Turns(e, over(x2), t, n) OBVIOUS
  <2>1. k \in e.syncs
    <3>1. {s \in e.syncs : s >= p.from /\ (e.mark # None => s <= e.mark)} \subseteq e.syncs OBVIOUS
    <3> QED BY <3>1, Searched
  <2> HIDE DEF k
  <2>2. Turns(e, x2, t, n) /\ x2.pend = e.pend BY <2>1, SplicedAt
  <2> HIDE DEF over, x2
  <2> QED BY <1>1, <2>2
<1>4. HoldOn(e, p, t) = IF k = None THEN IF e.mark = None THEN e ELSE over(x1)
                        ELSE IF OldEnough(e, k, p.delay, t) THEN over(x2) ELSE e
  BY DEF HoldOn
<1> HIDE DEF over, k, x1, x2
<1> QED BY <1>2, <1>3, <1>4, TurnsNot

LEMMA ReplayOnIs ==
  ASSUME NEW e, NEW t \in Nat, NEW n \in Nat, WellFormed(e, t, n), e.pend.to = "Replay"
  PROVE  Turns(e, ReplayOn(e, e.pend, t), t, n)
<1> DEFINE k == OldestOf({s \in e.syncs : s >= e.pend.from})
           x == SpliceTo(e, k, Age(e, k, t))
<1>1. ~Covers(e.pend) BY DEF Covers
<1>2. ASSUME k # None PROVE Turns(e, [x EXCEPT !.pend = NoChange], t, n)
  <2>1. k \in e.syncs
    <3>1. {s \in e.syncs : s >= e.pend.from} \subseteq e.syncs OBVIOUS
    <3> QED BY <1>2, <3>1, Searched
  <2> HIDE DEF k
  <2>2. Turns(e, x, t, n) /\ x.pend = e.pend BY <2>1, SplicedAt
  <2>3. Turns(x, [x EXCEPT !.pend = NoChange], t, n) BY <1>1, <2>2, OverIs, Kinds1 DEF Turns
  <2> QED BY <2>2, <2>3, TurnsOn DEF Turns
<1>3. ReplayOn(e, e.pend, t) \in {e, [x EXCEPT !.pend = NoChange]}
      /\ (k = None => ReplayOn(e, e.pend, t) = e)
  BY DEF ReplayOn
<1> HIDE DEF k, x
<1> QED BY <1>2, <1>3, TurnsNot

LEMMA UnderDump ==
  ASSUME NEW e, NEW t \in Nat, NEW n \in Nat, WellFormed(e, t, n), Covers(e.pend),
         NEW p \in Changes, Covers(p)
  PROVE  Turns(e, [e EXCEPT !.hold = None, !.pend = p], t, n)
<1> DEFINE x == [e EXCEPT !.hold = None, !.pend = p]
<1>1. Shape(x) /\ Keeps(e, x) /\ x.pend = p BY DEF Shape, WellFormed, Keeps
<1>2. e.started BY DEF WellFormed, Sending, Covers, NoChange
<1>3. Sending(x) BY <1>2 DEF Shape, WellFormed, Sending
<1>4. Slated(x)
  <2>1. x.slate = e.slate BY DEF Shape, WellFormed
  <2>2. Covers(e.pend) = TRUE /\ Covers(x.pend) = TRUE BY <1>1 DEF Covers
  <2> QED BY <2>1, <2>2 DEF Slated, WellFormed
<1> QED BY <1>1, <1>3, <1>4, TurnsIf

LEMMA DumpOnIs ==
  ASSUME NEW e, NEW t \in Nat, NEW n \in Nat, WellFormed(e, t, n), e.pend.to = "Dump"
  PROVE  /\ Turns(e, DumpOn(e, e.pend, t), t, n)
         /\ DumpOn(e, e.pend, t).pend.to \in {"Dump", "Mask", "Hold"}
<1> DEFINE p == e.pend
           k == OldestSyncSince(e, p.shown + Margin)
           h == SetPending(e, Hold(p.from, p.delay))
           x1 == [h EXCEPT !.warn = @ \cup {"coverLost"}]
           q == Mask(p.delay, p.started, k, MuteUnderSlate, p.shown, TRUE)
           s == SpliceTo(e, k, Age(e, k, t))
           x2 == [s EXCEPT !.hold = None, !.pend = q]
<1>0. p \in Changes /\ Covers(p) BY DEF WellFormed, Sending, Covers
<1>1. p.from \in Int /\ p.delay \in Nat /\ p.started \in Nat /\ p.shown \in Int BY <1>0, Kinded
<1>2. e.started BY DEF WellFormed, Sending, NoChange
<1>3. Turns(e, x1, t, n) /\ x1.pend.to = "Hold"
  <2>1. Turns(e, h, t, n) /\ h.pend = Hold(p.from, p.delay) BY <1>1, <1>2, Kinds1, PendingIs, ZenonT(30)
  <2> HIDE DEF h
  <2>2. Turns(h, x1, t, n) BY <2>1, Warned DEF Turns
  <2>3. x1.pend = h.pend BY <2>1 DEF Turns, WellFormed, Shape
  <2> QED BY <2>1, <2>2, <2>3, TurnsOn DEF Turns, Hold
<1>4. ASSUME k # None PROVE Turns(e, x2, t, n) /\ x2.pend.to = "Mask"
  <2>1. k \in e.syncs
    <3>1. {r \in e.syncs : e.ring[r].at >= p.shown + Margin} \subseteq e.syncs OBVIOUS
    <3> QED BY <1>4, <3>1, Searched DEF OldestSyncSince
  <2> HIDE DEF k
  <2>7. k \in Nat BY <2>1, Place
  <2>2. k \in Int BY <2>7
  <2>3. Turns(e, s, t, n) /\ s.pend = e.pend BY <2>1, SplicedAt
  <2>4. q \in Changes /\ Covers(q) /\ q.to = "Mask" BY <1>1, <2>2, EngineConstants, Kinds2 DEF Mask
  <2> HIDE DEF s, q
  <2>5. Turns(s, x2, t, n) BY <1>0, <2>3, <2>4, UnderDump DEF Turns
  <2>6. x2.pend = q BY <2>3 DEF Turns, WellFormed, Shape
  <2> QED BY <2>3, <2>4, <2>5, <2>6, TurnsOn DEF Turns
<1>5. DumpOn(e, p, t) = CASE p.shown = None /\ t >= p.started + SlateWait -> x1
                          [] p.shown # None /\ k # None -> x2
                          [] OTHER -> e
  BY DEF DumpOn
<1> HIDE DEF k, x1, x2, h, q, s
<1>6. \/ DumpOn(e, p, t) = x1 \/ DumpOn(e, p, t) = e
      \/ k # None /\ DumpOn(e, p, t) = x2 BY <1>5
<1> QED BY <1>3, <1>4, <1>6, TurnsNot

LEMMA AdvancedIs ==
  ASSUME NEW e, NEW t \in Nat, NEW n \in Nat, WellFormed(e, t, n)
  PROVE  Turns(e, Advanced(e, t), t, n)
<1>1. CASE e.pend.to = "AfterAir" /\ AllAired(e, e.pend.mark)
  <2>1. Advanced(e, t) = [e EXCEPT !.pend = GoLiveNow(e.next - 1)] BY <1>1 DEF Advanced
  <2>2. e.next - 1 \in Int /\ e.started
    BY <1>1 DEF WellFormed, Buffer, Sending, NoChange
  <2>3. ~Covers(e.pend) BY <1>1 DEF Covers
  <2> QED BY <2>1, <2>2, <2>3, Kinds1, OverIs
<1>2. CASE e.pend.to = "Dump"
  <2>1. Advanced(e, t) = DumpOn(e, e.pend, t) BY <1>2 DEF Advanced
  <2> QED BY <1>2, <2>1, DumpOnIs
<1>3. CASE ~(e.pend.to = "AfterAir" /\ AllAired(e, e.pend.mark)) /\ e.pend.to # "Dump"
  <2>1. Advanced(e, t) = e BY <1>3 DEF Advanced
  <2> QED BY <2>1, TurnsNot
<1> QED BY <1>1, <1>2, <1>3

LEMMA RunIs ==
  ASSUME NEW e, NEW t \in Nat, NEW n \in Nat, WellFormed(e, t, n)
  PROVE  Turns(e, RunPending(e, t), t, n)
<1> DEFINE x == Advanced(e, t)
<1>1. Turns(e, x, t, n) BY AdvancedIs
<1> SUFFICES Turns(x, RunPending(e, t), t, n) BY <1>1, TurnsOn DEF Turns
<1>2. WellFormed(x, t, n) /\ x.pend \in Changes BY <1>1 DEF Turns, WellFormed, Sending
<1>3. RunPending(e, t) =
        CASE x.pend.to \in {"None", "AfterAir", "Dump"} -> x
          [] x.pend.to = "GoLiveNow" -> GoLive(x, x.pend, t)
          [] x.pend.to = "Reduce" -> SkipAhead(x, x.pend, t)
          [] x.pend.to = "Mask" -> UnderSlate(x, x.pend, t)
          [] x.pend.to = "Hold" -> HoldOn(x, x.pend, t)
          [] x.pend.to = "Replay" -> ReplayOn(x, x.pend, t)
  BY DEF RunPending
<1> HIDE DEF x
<1>4. x.pend.to \in {"None", "GoLiveNow", "AfterAir", "Reduce", "Mask", "Dump", "Hold", "Replay"}
  BY <1>2, Kinded
<1>5. CASE x.pend.to \in {"None", "AfterAir", "Dump"} BY <1>2, <1>3, <1>5, TurnsNot
<1>6. CASE x.pend.to = "GoLiveNow"
  <2>1. RunPending(e, t) = GoLive(x, x.pend, t) BY <1>3, <1>6
  <2> QED BY <1>2, <1>6, <2>1, GoLiveIs
<1>7. CASE x.pend.to = "Reduce"
  <2>1. RunPending(e, t) = SkipAhead(x, x.pend, t) BY <1>3, <1>7
  <2> QED BY <1>2, <1>7, <2>1, SkipAheadIs
<1>8. CASE x.pend.to = "Mask"
  <2>1. RunPending(e, t) = UnderSlate(x, x.pend, t) BY <1>3, <1>8
  <2> QED BY <1>2, <1>8, <2>1, UnderSlateIs
<1>9. CASE x.pend.to = "Hold"
  <2>1. RunPending(e, t) = HoldOn(x, x.pend, t) BY <1>3, <1>9
  <2> QED BY <1>2, <1>9, <2>1, HoldOnIs
<1>10. CASE x.pend.to = "Replay"
  <2>1. RunPending(e, t) = ReplayOn(x, x.pend, t) BY <1>3, <1>10
  <2> QED BY <1>2, <1>10, <2>1, ReplayOnIs
<1> QED BY <1>4, <1>5, <1>6, <1>7, <1>8, <1>9, <1>10

-----------------------------------------------------------------------------
(* A change under the slate awaits the slate until it has picked the       *)
(* keyframe to go back to.  None of the moves of a change leads to such a  *)
(* wait, and the only way out of it is by a keyframe recorded under the    *)
(* slate, or with a warning.                                               *)

Awaits(e) == e.pend.to = "Mask" /\ e.pend.anchor = None
Waits(e, x) == Awaits(x) => x.pend = e.pend

(* k is surely recorded under the slate that e awaits, or x warns. *)
Sure(e, k, x) ==
  /\ k \in e.syncs /\ e.ring[k].at >= SurelyCovered(e.pend)
  /\ e.pend.shown # None \/ "unconfirmed" \in x.warn
Anchors(e, x) == x.pend.to = "Mask" /\ Sure(e, x.pend.anchor, x)
Jumps(e, x) ==
  /\ x.pend = NoChange /\ x.spliced /\ ~x.needSync
  /\ Sure(e, x.cursor, x) /\ x.playing = e.ring[x.cursor].ses

LEMMA WaitsOn ==
  ASSUME NEW e, NEW x, NEW y, Waits(e, x), Waits(x, y)
  PROVE  Waits(e, y)
BY DEF Waits, Awaits

LEMMA WaitsNot ==
  ASSUME NEW e, NEW x, x.pend \in {e.pend, NoChange} \/ x.pend.to # "Mask" \/ x.pend.anchor # None
  PROVE  Waits(e, x)
BY DEF Waits, Awaits, NoChange

LEMMA Replaces ==
  ASSUME NEW e, Shape(e), NEW p
  PROVE  LET x == SetPending(e, p)
         IN x.pend = p /\ x.cursor = e.cursor /\ x.delay = e.delay /\ x.warn = e.warn
BY DEF Shape, SetPending

LEMMA ReplacesOnly ==
  ASSUME NEW e, Shape(e), NEW p
  PROVE  LET x == SetPending(e, p)
         IN x.needSync = e.needSync /\ x.playing = e.playing /\ x.spliced = e.spliced
BY DEF Shape, SetPending

LEMMA Splices ==
  ASSUME NEW e, Shape(e), NEW k, NEW d
  PROVE  LET x == SpliceTo(e, k, d)
         IN /\ x.pend = e.pend /\ x.cursor = k /\ x.delay = d
            /\ x.spliced /\ ~x.needSync
BY DEF Shape, SpliceTo

LEMMA SplicesOver ==
  ASSUME NEW e, Shape(e), NEW k, NEW d
  PROVE  LET x == SpliceTo(e, k, d)
         IN x.warn = e.warn /\ x.ring = e.ring /\ x.syncs = e.syncs
BY DEF Shape, SpliceTo

LEMMA SplicesIn ==
  ASSUME NEW e, Shape(e), NEW k, NEW d
  PROVE  SpliceTo(e, k, d).playing = e.ring[k].ses
BY DEF Shape, SpliceTo

LEMMA Becomes ==
  ASSUME NEW e, Shape(e), NEW p
  PROVE  LET x == [e EXCEPT !.pend = p]
         IN /\ x.pend = p /\ x.warn = e.warn /\ x.ring = e.ring /\ x.syncs = e.syncs
            /\ x.delay = e.delay
BY DEF Shape

LEMMA Shaped ==
  ASSUME NEW e, Shape(e)
  PROVE  /\ \A p : Shape(SetPending(e, p))
         /\ \A k, d : Shape(SpliceTo(e, k, d))
         /\ \A p : Shape([e EXCEPT !.pend = p])
BY DEF Shape, SetPending, SpliceTo

LEMMA GoLiveWaits ==
  ASSUME NEW e, Shape(e), NEW p, NEW t
  PROVE  Waits(e, GoLive(e, p, t))
<1> DEFINE k == NewestOf(e.syncs)
           x == SpliceTo(e, k, Age(e, k, t))
           y == [e EXCEPT !.delay = Lesser(@, e.target)]
           z == IF k > e.cursor \/ e.needSync THEN x ELSE y
<1>1. Shape(x) BY Shaped
<1>2. Shape(y) BY DEF Shape
<1>3. GoLive(e, p, t) = IF k = None \/ k <= p.after THEN e ELSE [z EXCEPT !.pend = NoChange]
  BY DEF GoLive
<1> HIDE DEF x, y
<1>4. [z EXCEPT !.pend = NoChange].pend = NoChange BY <1>1, <1>2, Becomes
<1> HIDE DEF z, k
<1> QED BY <1>3, <1>4, WaitsNot

LEMMA SkipAheadWaits ==
  ASSUME NEW e, Shape(e), NEW p, NEW t
  PROVE  Waits(e, SkipAhead(e, p, t))
<1> DEFINE k == NewestSyncBy(e, t - p.delay)
           x == SpliceTo(e, k, Age(e, k, t))
<1>1. Shape(x) BY Shaped
<1> HIDE DEF x
<1>2. SkipAhead(e, p, t) \in {e, [e EXCEPT !.pend = NoChange], [x EXCEPT !.pend = NoChange]}
  BY DEF SkipAhead, x
<1>3. [e EXCEPT !.pend = NoChange].pend = NoChange /\ [x EXCEPT !.pend = NoChange].pend = NoChange
  BY <1>1, Becomes
<1> QED BY <1>2, <1>3, WaitsNot

LEMMA HoldOnWaits ==
  ASSUME NEW e, Shape(e), NEW p, NEW t
  PROVE  Waits(e, HoldOn(e, p, t))
<1> DEFINE k == OldestOf({s \in e.syncs : s >= p.from /\ (e.mark # None => s <= e.mark)})
           over(x) == [x EXCEPT !.pend = NoChange, !.hold = None, !.warn = @ \ {"coverLost"}]
           x1 == [e EXCEPT !.cursor = Greater(@, e.mark + 1)]
           x2 == SpliceTo(e, k, Age(e, k, t))
<1>1. Shape(x1) BY DEF Shape
<1>2. Shape(x2) BY Shaped
<1>3. HoldOn(e, p, t) \in {e, over(x1), over(x2)} BY DEF HoldOn
<1> HIDE DEF x1, x2
<1>4. ASSUME NEW x, Shape(x) PROVE over(x).pend = NoChange BY <1>4 DEF Shape
<1>5. over(x1).pend = NoChange /\ over(x2).pend = NoChange BY <1>1, <1>2, <1>4
<1> HIDE DEF over
<1> QED BY <1>3, <1>5, WaitsNot

LEMMA ReplayOnWaits ==
  ASSUME NEW e, Shape(e), NEW p, NEW t
  PROVE  Waits(e, ReplayOn(e, p, t))
<1> DEFINE k == OldestOf({s \in e.syncs : s >= p.from})
           x == SpliceTo(e, k, Age(e, k, t))
<1>1. Shape(x) BY Shaped
<1> HIDE DEF x
<1>2. ReplayOn(e, p, t) \in {e, [x EXCEPT !.pend = NoChange]} BY DEF ReplayOn, x
<1>3. [x EXCEPT !.pend = NoChange].pend = NoChange BY <1>1, Becomes
<1> QED BY <1>2, <1>3, WaitsNot

LEMMA AdvancedWaits ==
  ASSUME NEW e, NEW t \in Nat, NEW n \in Nat, WellFormed(e, t, n)
  PROVE  Waits(e, Advanced(e, t))
<1> DEFINE p == e.pend
           k == OldestSyncSince(e, p.shown + Margin)
           h == SetPending(e, Hold(p.from, p.delay))
           x == [e EXCEPT !.pend = GoLiveNow(e.next - 1)]
           x1 == [h EXCEPT !.warn = @ \cup {"coverLost"}]
           q == Mask(p.delay, p.started, k, MuteUnderSlate, p.shown, TRUE)
           s == SpliceTo(e, k, Age(e, k, t))
           x2 == [s EXCEPT !.hold = None, !.pend = q]
<1>1. Shape(e) BY DEF WellFormed
<1>2. Advanced(e, t) \in {e, x} \/ (p.to = "Dump" /\ Advanced(e, t) = DumpOn(e, p, t)) BY DEF Advanced
<1>3. x.pend.to = "GoLiveNow" BY <1>1 DEF Shape, GoLiveNow
<1>4. DumpOn(e, p, t) \in {e, x1} \/ (k # None /\ DumpOn(e, p, t) = x2) BY DEF DumpOn
<1>5. x1.pend.to = "Hold"
  <2>1. Shape(h) /\ h.pend.to = "Hold" BY <1>1, Shaped, Replaces DEF Hold
  <2> HIDE DEF h
  <2> QED BY <2>1 DEF Shape
<1>6. k # None => x2.pend.anchor # None
  <2>1. Shape(s) BY <1>1, Shaped
  <2>2. q.anchor = k BY DEF Mask
  <2> HIDE DEF s, q, k
  <2>3. x2.pend = q BY <2>1 DEF Shape
  <2> QED BY <2>2, <2>3
<1> HIDE DEF x, x1, x2, k, p
<1> QED BY <1>2, <1>3, <1>4, <1>5, <1>6, WaitsNot

LEMMA Uncovers ==
  ASSUME NEW e, NEW t \in Nat, NEW n \in Nat, WellFormed(e, t, n), e.pend.to = "Mask"
  PROVE  LET x == UnderSlate(e, e.pend, t)
         IN /\ Waits(e, x)
            /\ Awaits(e) => x.pend = e.pend \/ Anchors(e, x) \/ Jumps(e, x)
            /\ e.pend.anchor \in e.syncs =>
                 /\ x.warn = e.warn
                 /\ \/ x.pend.to = "Mask" /\ x.pend.anchor = e.pend.anchor
                    \/ x.pend = NoChange /\ x.spliced /\ x.cursor = e.pend.anchor
<1> DEFINE p == e.pend
           stale   == p.shown = None /\ t >= p.started + SlateWait
           waiting == p.anchor = None /\ p.shown = None /\ ~stale
           since   == {s \in e.syncs : e.ring[s].at >= SurelyCovered(p)}
           anchor  == IF p.anchor # None THEN p.anchor ELSE OldestSyncSince(e, SurelyCovered(p))
           w       == IF p.anchor = None /\ stale THEN e.warn \cup {"unconfirmed"} ELSE e.warn
           warned  == IF p.anchor = None /\ stale THEN [e EXCEPT !.warn = @ \cup {"unconfirmed"}] ELSE e
           found   == [warned EXCEPT !.pend = [p EXCEPT !.anchor = anchor]]
           s       == SpliceTo(found, anchor, Age(e, anchor, t))
           back    == SetPending(s, NoChange)
           gone    == SetPending(e, NoChange)
           x       == UnderSlate(e, p, t)
<1>1. Shape(e) /\ p \in Changes /\ p.to = "Mask" BY DEF WellFormed, Sending
<1>2. Shape(warned) /\ warned.pend = p /\ warned.warn = w /\ warned.ring = e.ring BY <1>1 DEF Shape
<1>3. [p EXCEPT !.anchor = anchor].to = "Mask" /\ [p EXCEPT !.anchor = anchor].anchor = anchor
  <2>1. "anchor" \in DOMAIN p BY <1>1 DEF Changes, NoChange
  <2> HIDE DEF anchor, p
  <2> QED BY <1>1, <2>1
<1>4. /\ Shape(found) /\ found.pend.to = "Mask" /\ found.pend.anchor = anchor /\ found.warn = w
      /\ found.ring = e.ring
  <2> DEFINE q == [p EXCEPT !.anchor = anchor]
  <2>1. found = [warned EXCEPT !.pend = q] OBVIOUS
  <2>2. q.to = "Mask" /\ q.anchor = anchor BY <1>3
  <2> HIDE DEF anchor, warned, p, w, found, q
  <2>3. found.pend = q /\ found.warn = warned.warn /\ found.ring = warned.ring BY <1>2, <2>1, Becomes
  <2>4. Shape(found) BY <1>2, <2>1, Shaped
  <2> QED BY <1>2, <2>2, <2>3, <2>4
<1>5. /\ back.pend = NoChange /\ back.spliced /\ ~back.needSync
      /\ back.cursor = anchor /\ back.playing = e.ring[anchor].ses /\ back.warn = w
  <2> HIDE DEF anchor, found, w
  <2> DEFINE d == Age(e, anchor, t)
  <2>0. s = SpliceTo(found, anchor, d) OBVIOUS
  <2> HIDE DEF s, d
  <2>1. /\ Shape(s) /\ s.spliced /\ ~s.needSync /\ s.cursor = anchor
        /\ s.playing = found.ring[anchor].ses /\ s.warn = found.warn
    <3>1. Shape(found) BY <1>4
    <3>2. Shape(s) BY <2>0, <3>1, Shaped
    <3>3. s.spliced /\ ~s.needSync BY <2>0, <3>1, Splices
    <3>4. s.cursor = anchor BY <2>0, <3>1, Splices
    <3>5. s.warn = found.warn BY <2>0, <3>1, SplicesOver
    <3>6. s.playing = found.ring[anchor].ses BY <2>0, <3>1, SplicesIn
    <3> QED BY <3>2, <3>3, <3>4, <3>5, <3>6
  <2>2. back = SetPending(s, NoChange) OBVIOUS
  <2> HIDE DEF back
  <2>3. back.pend = NoChange /\ back.cursor = s.cursor /\ back.warn = s.warn BY <2>1, <2>2, Replaces
  <2>4. back.spliced = s.spliced /\ back.needSync = s.needSync /\ back.playing = s.playing
    BY <2>1, <2>2, ReplacesOnly
  <2> QED BY <1>4, <2>1, <2>3, <2>4
<1>6. gone.pend = NoChange BY <1>1, Replaces
<1>7. x = CASE waiting \/ anchor = None -> warned
            [] ~waiting /\ anchor # None /\ anchor \notin Buffered(e) -> gone
            [] ~waiting /\ anchor \in Buffered(e) ->
                 IF OldEnough(e, anchor, p.delay, t) THEN back ELSE found
  BY DEF UnderSlate
<1>8. e.syncs \subseteq Buffered(e) /\ None \notin Buffered(e) /\ None \notin e.syncs
  BY DEF WellFormed, Buffer, Buffered, None
<1>9. p.anchor = None /\ anchor # None => anchor \in e.syncs /\ e.ring[anchor].at >= SurelyCovered(p)
  <2>1. since \subseteq e.syncs OBVIOUS
  <2>2. OldestOf(since) # None => OldestOf(since) \in since
    <3> HIDE DEF since
    <3> QED BY <2>1, Searched
  <2>3. p.anchor = None => anchor = OldestOf(since) BY DEF OldestSyncSince
  <2> QED BY <2>2, <2>3
<1>10. \/ x = warned /\ (waiting \/ anchor = None)
       \/ x = gone /\ anchor # None /\ anchor \notin Buffered(e)
       \/ x \in {back, found} /\ ~waiting /\ anchor # None /\ anchor \in Buffered(e)
  <2> HIDE DEF waiting, anchor, warned, found, back, gone, x
  <2> QED BY <1>7, <1>8
<1>11. ~waiting /\ p.anchor = None => p.shown # None \/ "unconfirmed" \in w OBVIOUS
<1>12. p.anchor # None => anchor = p.anchor /\ w = e.warn /\ ~waiting OBVIOUS
<1> HIDE DEF waiting, anchor, warned, found, back, gone, x, w, since, stale
<1> SUFFICES /\ Waits(e, x)
             /\ p.anchor = None => x.pend = p \/ Anchors(e, x) \/ Jumps(e, x)
             /\ p.anchor \in e.syncs =>
                  /\ x.warn = e.warn
                  /\ \/ x.pend.to = "Mask" /\ x.pend.anchor = p.anchor
                     \/ x.pend = NoChange /\ x.spliced /\ x.cursor = p.anchor
  BY <1>1 DEF p, x, Awaits
<1>13. CASE x = warned /\ (waiting \/ anchor = None)
  <2>1. x.pend = p BY <1>2, <1>13
  <2>2. p.anchor \notin e.syncs BY <1>8, <1>12, <1>13
  <2>3. Waits(e, x) BY <2>1, WaitsNot DEF p
  <2> QED BY <2>1, <2>2, <2>3
<1>14. CASE x = gone /\ anchor # None /\ anchor \notin Buffered(e)
  <2>1. p.anchor # None /\ p.anchor \notin e.syncs BY <1>8, <1>9, <1>12, <1>14
  <2>2. Waits(e, x) BY <1>6, <1>14, WaitsNot
  <2> QED BY <2>1, <2>2
<1>15. CASE x = found /\ ~waiting /\ anchor # None
  <2>1. x.pend.to = "Mask" /\ x.pend.anchor = anchor /\ x.warn = w BY <1>4, <1>15
  <2>2. p.anchor = None => Sure(e, x.pend.anchor, x) BY <1>9, <1>11, <1>15, <2>1 DEF Sure, p
  <2>3. Waits(e, x) BY <1>15, <2>1, WaitsNot
  <2>4. p.anchor = None => Anchors(e, x) BY <2>1, <2>2 DEF Anchors
  <2>5. p.anchor \in e.syncs => x.warn = e.warn /\ x.pend.anchor = p.anchor BY <1>8, <1>12, <2>1
  <2> QED BY <2>1, <2>3, <2>4, <2>5
<1>16. CASE x = back /\ ~waiting /\ anchor # None
  <2>1. /\ x.pend = NoChange /\ x.spliced /\ ~x.needSync /\ x.cursor = anchor
        /\ x.playing = e.ring[anchor].ses /\ x.warn = w
    BY <1>5, <1>16
  <2>2. p.anchor = None => Sure(e, x.cursor, x) BY <1>9, <1>11, <1>16, <2>1 DEF Sure, p
  <2>3. Waits(e, x) BY <2>1, WaitsNot
  <2>4. p.anchor = None => Jumps(e, x) BY <2>1, <2>2 DEF Jumps
  <2>5. p.anchor \in e.syncs => x.warn = e.warn /\ x.cursor = p.anchor BY <1>8, <1>12, <2>1
  <2> QED BY <2>1, <2>3, <2>4, <2>5
<1> QED BY <1>10, <1>13, <1>14, <1>15, <1>16

LEMMA RunWaits ==
  ASSUME NEW e, NEW t \in Nat, NEW n \in Nat, WellFormed(e, t, n)
  PROVE  Waits(e, RunPending(e, t))
<1> DEFINE x == Advanced(e, t)
           y == RunPending(e, t)
<1>1. Turns(e, x, t, n) /\ Waits(e, x) BY AdvancedIs, AdvancedWaits
<1>2. WellFormed(x, t, n) /\ Shape(x) /\ x.pend \in Changes BY <1>1 DEF Turns, WellFormed, Sending
<1>3. y = CASE x.pend.to \in {"None", "AfterAir", "Dump"} -> x
            [] x.pend.to = "GoLiveNow" -> GoLive(x, x.pend, t)
            [] x.pend.to = "Reduce" -> SkipAhead(x, x.pend, t)
            [] x.pend.to = "Mask" -> UnderSlate(x, x.pend, t)
            [] x.pend.to = "Hold" -> HoldOn(x, x.pend, t)
            [] x.pend.to = "Replay" -> ReplayOn(x, x.pend, t)
  BY DEF RunPending
<1> HIDE DEF x, y
<1>4. x.pend.to \in {"None", "GoLiveNow", "AfterAir", "Reduce", "Mask", "Dump", "Hold", "Replay"}
  BY <1>2, Kinded
<1>5. \/ y \in {x, GoLive(x, x.pend, t), SkipAhead(x, x.pend, t), HoldOn(x, x.pend, t),
                ReplayOn(x, x.pend, t)}
      \/ x.pend.to = "Mask" /\ y = UnderSlate(x, x.pend, t)
  BY <1>3, <1>4
<1>6. Waits(x, x) BY DEF Waits
<1>7. x.pend.to = "Mask" => Waits(x, UnderSlate(x, x.pend, t)) BY <1>2, Uncovers
<1>8. Waits(x, y)
  BY <1>2, <1>5, <1>6, <1>7, GoLiveWaits, SkipAheadWaits, HoldOnWaits, ReplayOnWaits
<1> QED BY <1>1, <1>8, WaitsOn DEF y

(* A change under the slate moves on only by what the slate allows. *)
LEMMA RunUnderSlate ==
  ASSUME NEW e, NEW t, e.pend.to = "Mask"
  PROVE  RunPending(e, t) = UnderSlate(e, e.pend, t)
<1>1. Advanced(e, t) = e BY DEF Advanced
<1> QED BY <1>1 DEF RunPending

LEMMA RunNothing ==
  ASSUME NEW e, NEW t, e.pend = NoChange
  PROVE  RunPending(e, t) = e
<1>1. e.pend.to = "None" BY DEF NoChange
<1>2. Advanced(e, t) = e BY <1>1 DEF Advanced
<1> QED BY <1>1, <1>2 DEF RunPending

LEMMA RunNever ==
  ASSUME NEW e, NEW t \in Nat, NEW n \in Nat, WellFormed(e, t, n), e.pend.to # "Mask"
  PROVE  ~Awaits(RunPending(e, t))
BY RunWaits DEF Waits, Awaits

(* What a dump leaves: no change, or one for which nothing is recorded yet.*)
Settles(e, x) ==
  \/ x.pend = NoChange /\ x.delay = e.delay
  \/ x.pend.to \in {"Hold", "Replay"} /\ x.mark = None /\ \A s \in x.syncs : ~(s >= x.pend.from)
  \/ x.pend.to = "Dump" /\ x.pend.shown = None /\ x.mark = None /\ x.syncs = {}
Settled(e, x) ==
  x.pend.to \in {"Hold", "Replay", "Dump"} \/ (x.pend = NoChange /\ x.delay = e.delay)

LEMMA RunSettled ==
  ASSUME NEW e, NEW t, NEW x, Shape(x), Settles(e, x)
  PROVE  Settled(e, RunPending(x, t))
<1>1. CASE x.pend = NoChange /\ x.delay = e.delay BY <1>1, RunNothing DEF Settled
<1>2. ASSUME NEW y, y.pend.to \in {"Hold", "Replay"}, y.mark = None,
             \A s \in y.syncs : ~(s >= y.pend.from)
      PROVE  HoldOn(y, y.pend, t) = y /\ ReplayOn(y, y.pend, t) = y
  <2>1. {s \in y.syncs : s >= y.pend.from /\ (y.mark # None => s <= y.mark)} = {}
        /\ {s \in y.syncs : s >= y.pend.from} = {}
    BY <1>2
  <2>2. OldestOf({}) = None BY DEF OldestOf
  <2> QED BY <1>2, <2>1, <2>2 DEF HoldOn, ReplayOn
<1>3. CASE /\ x.pend.to \in {"Hold", "Replay"} /\ x.mark = None
           /\ \A s \in x.syncs : ~(s >= x.pend.from)
  <2>1. Advanced(x, t) = x BY <1>3 DEF Advanced
  <2>2. RunPending(x, t) \in {HoldOn(x, x.pend, t), ReplayOn(x, x.pend, t)}
    BY <1>3, <2>1 DEF RunPending
  <2>3. RunPending(x, t) = x BY <1>2, <1>3, <2>2
  <2> QED BY <1>3, <2>3 DEF Settled
<1>4. CASE x.pend.to = "Dump" /\ x.pend.shown = None /\ x.mark = None /\ x.syncs = {}
  <2> DEFINE y == Advanced(x, t)
             h == SetPending(x, Hold(x.pend.from, x.pend.delay))
             z == [h EXCEPT !.warn = @ \cup {"coverLost"}]
  <2>1. y \in {x, z} BY <1>4 DEF Advanced, DumpOn
  <2>2. z.pend.to = "Hold" /\ z.mark = None /\ z.syncs = {}
    <3>1. Shape(h) /\ h.pend.to = "Hold" BY Shaped, Replaces DEF Hold
    <3>2. h.mark = x.mark /\ h.syncs = x.syncs BY DEF SetPending, Shape
    <3> HIDE DEF h
    <3> QED BY <1>4, <3>1, <3>2 DEF Shape
  <2> HIDE DEF z
  <2>3. y.pend.to \in {"Dump", "Hold"} /\ y.mark = None /\ y.syncs = {} BY <1>4, <2>1, <2>2
  <2>4. RunPending(x, t) = IF y.pend.to = "Dump" THEN y ELSE HoldOn(y, y.pend, t)
    BY <2>3 DEF RunPending
  <2> HIDE DEF y
  <2>5. RunPending(x, t) = y BY <1>2, <2>3, <2>4
  <2> QED BY <2>3, <2>5 DEF Settled
<1> QED BY <1>1, <1>3, <1>4 DEF Settles
-----------------------------------------------------------------------------
(* The buffer changes. *)

(* x comes of e, and is well formed; what it has yet to air is to end      *)
(* where it was to end.                                                    *)
LEMMA DropBufferIs ==
  ASSUME NEW e, NEW t \in Nat, NEW n \in Nat, WellFormed(e, t, n)
  PROVE  LET x == DropBuffer(e)
         IN /\ WellFormed(x, t, n) /\ x.pend = e.pend /\ x.started = e.started /\ x.next = e.next
            /\ x.mark = e.mark /\ x.session = e.session /\ x.change = e.change
            /\ x.delay = e.delay /\ x.target = e.target /\ x.syncs = {}
<1> DEFINE x == DropBuffer(e)
<1>1. /\ Shape(x) /\ x.pend = e.pend /\ x.started = e.started /\ x.next = e.next
      /\ x.mark = e.mark /\ x.session = e.session /\ x.change = e.change
      /\ x.ring = <<>> /\ x.syncs = {} /\ x.base = e.next /\ x.cursor = e.next
      /\ x.needSync = TRUE /\ x.slate = e.slate /\ x.delay = e.delay /\ x.target = e.target
      /\ x.first = e.first
  BY DEF DropBuffer, Shape, WellFormed
<1>2. Buffer(x, t, n)
  <2>1. Buffered(x) = {} BY <1>1 DEF Buffered, WellFormed, Buffer
  <2>2. DOMAIN x.ring = {} BY <1>1
  <2> QED BY <1>1, <2>1, <2>2 DEF WellFormed, Buffer
<1>3. Sending(x)
  <2> HIDE DEF x
  <2>1. Sending(e) /\ e.next \in Nat BY DEF WellFormed, Buffer
  <2>2. x.cursor \in Nat /\ x.cursor <= x.next BY <1>1, <2>1
  <2>3. x.needSync \in BOOLEAN /\ x.needSync BY <1>1
  <2> QED BY <1>1, <2>1, <2>2, <2>3 DEF Sending
<1>4. Slated(x) BY <1>1 DEF WellFormed, Slated
<1> QED BY <1>1, <1>2, <1>3, <1>4 DEF WellFormed

LEMMA ResetIs ==
  ASSUME NEW e, NEW t \in Nat, NEW n \in Nat, Shape(e), Buffer(e, t, n), Slated(e),
         e.target \in 0..MaxDelay, e.first \in Int, e.first >= -1
  PROVE  LET x == OutputReset(e)
         IN /\ WellFormed(x, t, n) /\ x.mark = None /\ x.next = e.next /\ x.base = e.base
            /\ x.pend = NoChange /\ x.started = FALSE /\ x.session = e.session
            /\ x.syncs = e.syncs /\ x.ring = e.ring
<1> DEFINE x == OutputReset(e)
<1>1. /\ Shape(x) /\ x.mark = None /\ x.next = e.next /\ x.pend = NoChange /\ x.started = FALSE
      /\ x.ring = e.ring /\ x.syncs = e.syncs /\ x.base = e.base /\ x.session = e.session
      /\ x.needSync = TRUE /\ x.cursor = e.next /\ x.delay = e.target /\ x.target = e.target
      /\ x.first = e.first /\ x.slate = (e.slate /\ ~Covers(e.pend))
  BY DEF OutputReset, Shape
<1>2. Buffer(x, t, n) BY <1>1 DEF Buffer, Buffered
<1>3. Sending(x)
  <2>1. x.delay \in Nat BY <1>1, EngineConstants
  <2>2. x.cursor \in Nat /\ x.mark < x.next /\ x.mark >= -1 /\ x.mark \in Int
    BY <1>1 DEF Buffer, None
  <2> HIDE DEF x
  <2>3. x.cursor <= x.next /\ x.pend \in Changes /\ x.target \in 0..MaxDelay
    BY <1>1, <2>2, Kinds1
  <2>4. x.needSync \in BOOLEAN /\ x.needSync /\ x.started \in BOOLEAN BY <1>1
  <2>5. x.first \in Int /\ x.first >= -1 /\ (x.pend # NoChange => x.started) BY <1>1
  <2> QED BY <2>1, <2>2, <2>3, <2>4, <2>5 DEF Sending
<1>4. Slated(x)
  <2>1. x.slate = FALSE BY <1>1 DEF Slated
  <2>2. Covers(x.pend) = FALSE BY <1>1, Kinds1 DEF Covers
  <2> QED BY <2>1, <2>2 DEF Slated
<1> QED BY <1>1, <1>2, <1>3, <1>4 DEF WellFormed

LEMMA DiscardIs ==
  ASSUME NEW e, NEW t \in Nat, NEW n \in Nat, WellFormed(e, t, n)
  PROVE  WellFormed(Discard(e), t, n) /\ Discard(e).mark = None /\ Discard(e).pend = NoChange
         /\ Discard(e).next = e.next
<1> DEFINE x == DropBuffer(e)
<1>1. WellFormed(x, t, n) /\ x.next = e.next BY DropBufferIs
<1> HIDE DEF x
<1>2. Shape(x) /\ Buffer(x, t, n) /\ Slated(x) /\ x.target \in 0..MaxDelay /\ x.first \in Int
      /\ x.first >= -1
  BY <1>1 DEF WellFormed, Sending
<1>3. WellFormed(OutputReset(x), t, n) /\ OutputReset(x).mark = None
      /\ OutputReset(x).pend = NoChange /\ OutputReset(x).next = x.next
  BY <1>2, ResetIs
<1> QED BY <1>1, <1>3 DEF Discard, x

(* x is e without what is before a place in its buffer. *)
Trims(e, x) ==
  /\ x.next = e.next /\ x.base >= e.base /\ x.base <= x.next
  /\ x.syncs \subseteq e.syncs /\ \A s \in Buffered(x) : x.ring[s] = e.ring[s]
  /\ x.session = e.session /\ x.mark = e.mark /\ x.change = e.change

LEMMA TrimmedIs ==
  ASSUME NEW e, NEW t \in Nat, NEW n \in Nat, WellFormed(e, t, n), NEW b \in Nat,
         b >= e.base, b <= e.next
  PROVE  LET x == [Keeping(e, b .. e.next - 1) EXCEPT !.base = b]
         IN /\ WellFormed(x, t, n) /\ Trims(e, x) /\ x.pend = e.pend /\ x.started = e.started
            /\ x.base = b
<1> DEFINE x == [Keeping(e, b .. e.next - 1) EXCEPT !.base = b]
<1>1. /\ Shape(x) /\ x.pend = e.pend /\ x.started = e.started /\ x.next = e.next
      /\ x.mark = e.mark /\ x.session = e.session /\ x.change = e.change
      /\ x.ring = [s \in b .. e.next - 1 |-> e.ring[s]] /\ x.base = b
      /\ x.syncs = e.syncs \cap (b .. e.next - 1)
      /\ x.cursor = e.cursor /\ x.needSync = e.needSync /\ x.slate = e.slate
      /\ x.delay = e.delay /\ x.target = e.target /\ x.first = e.first
  BY DEF Keeping, Shape, WellFormed
<1> HIDE DEF x
<1>0. Buffer(e, t, n) /\ Sending(e) /\ Slated(e) BY DEF WellFormed
<1>2. /\ Buffered(x) = b .. e.next - 1 /\ Buffered(x) \subseteq Buffered(e)
      /\ e.next \in Nat /\ e.base \in Nat
  BY <1>0, <1>1 DEF Buffer, Buffered
<1>3. \A s \in Buffered(x) : x.ring[s] = e.ring[s] BY <1>1, <1>2
<1>4. Buffer(x, t, n)
  <2>1. x.base \in Nat /\ x.next \in Nat /\ x.base <= x.next /\ x.session \in Nat
    BY <1>0, <1>1, <1>2 DEF Buffer
  <2>2. DOMAIN x.ring = Buffered(x) /\ x.syncs \subseteq Buffered(x) BY <1>1, <1>2
  <2>3. \A s \in Buffered(x) :
          x.ring[s].at \in 0..t /\ x.ring[s].uid \in 1..n /\ x.ring[s].ses \in 0..x.session
    BY <1>0, <1>1, <1>2, <1>3 DEF Buffer
  <2>4. \A s, r \in Buffered(x) :
          s < r => x.ring[s].at <= x.ring[r].at /\ x.ring[s].ses <= x.ring[r].ses
    BY <1>0, <1>2, <1>3 DEF Buffer
  <2> QED BY <2>1, <2>2, <2>3, <2>4 DEF Buffer
<1>5. Sending(x) BY <1>0, <1>1 DEF Sending
<1>6. Slated(x) BY <1>0, <1>1 DEF Slated
<1>7. Trims(e, x) BY <1>1, <1>2, <1>3 DEF Trims
<1> QED BY <1>1, <1>4, <1>5, <1>6, <1>7 DEF WellFormed, x

LEMMA RestartIs ==
  ASSUME NEW e, NEW t \in Nat, NEW n \in Nat, WellFormed(e, t, n)
  PROVE  LET x == RestartAfterEnd(e)
         IN WellFormed(x, t, n) /\ x.mark = None /\ x.next = e.next /\ x.pend = NoChange
            /\ x.started = FALSE
<1> DEFINE from == IF e.mark = None THEN e.next ELSE e.mark + 1
           b == Greater(e.base, Lesser(from, e.next))
<1>1. from \in Nat /\ from <= e.next /\ b \in Nat /\ b >= e.base /\ b <= e.next
  BY DEF WellFormed, Buffer, Sending, None, Greater, Lesser
<1> HIDE DEF from, b
<1> DEFINE y == [Keeping(e, b .. e.next - 1) EXCEPT !.base = b]
           kept == OutputReset(y)
           c == Greater(from, kept.base)
           x == [kept EXCEPT !.cursor = c]
<1>2. WellFormed(y, t, n) /\ y.next = e.next /\ y.base = b
  <2>1. WellFormed(y, t, n) /\ Trims(e, y) /\ y.base = b BY <1>1, TrimmedIs
  <2> QED BY <2>1 DEF Trims
<1>3. y = DropBefore(e, from) BY DEF DropBefore, from, b
<1> HIDE DEF y
<1>4. /\ WellFormed(kept, t, n) /\ kept.mark = None /\ kept.next = e.next /\ kept.base = b
      /\ kept.pend = NoChange /\ kept.started = FALSE
  <2>1. Shape(y) /\ Buffer(y, t, n) /\ Slated(y) /\ y.target \in 0..MaxDelay /\ y.first \in Int
        /\ y.first >= -1
    BY <1>2 DEF WellFormed, Sending
  <2> QED BY <1>2, <2>1, ResetIs
<1>5. RestartAfterEnd(e) = x BY <1>3 DEF RestartAfterEnd, from
<1> HIDE DEF kept
<1>6. c \in Nat /\ c <= kept.next BY <1>1, <1>4 DEF Greater
<1> HIDE DEF c
<1>7. Turns(kept, x, t, n) BY <1>4, <1>6, CursorIs
<1>8. x.pend = NoChange /\ x.started = FALSE BY <1>4 DEF WellFormed, Shape
<1> QED BY <1>4, <1>5, <1>7, <1>8 DEF Turns, Keeps

LEMMA MemoryIs ==
  ASSUME NEW e, NEW t \in Nat, NEW n \in Nat, WellFormed(e, t, n)
  PROVE  Turns(e, MemoryShort(e, t), t, n)
<1> DEFINE oldest == OldestOf(e.syncs)
           delay  == Greater(0, Age(e, oldest, t) - KeyInterval)
           warned == [e EXCEPT !.warn = @ \cup {"memory"}]
           lower  == \/ e.pend = NoChange
                     \/ e.pend.to = "Reduce" /\ delay < e.pend.delay
           x1 == [warned EXCEPT !.delay = Lesser(@, delay)]
           x2 == SetPending(warned, Reduce(delay))
<1>0. MemoryShort(e, t) =
        CASE oldest = None -> e
          [] oldest # None /\ ~e.started -> x1
          [] oldest # None /\ e.started -> IF lower /\ delay < e.delay THEN x2 ELSE warned
  BY DEF MemoryShort
<1>1. Turns(e, warned, t, n) BY Warned
<1>2. warned.started = e.started /\ warned.delay = e.delay BY DEF WellFormed, Shape
<1>3. e.started \in BOOLEAN /\ e.delay \in Nat BY DEF WellFormed, Sending
<1> HIDE DEF warned, lower
<1>4. ASSUME oldest # None PROVE Turns(e, x1, t, n) /\ (e.started => Turns(e, x2, t, n))
  <2>1. oldest \in e.syncs BY <1>4, Searched
  <2>2. Age(e, oldest, t) \in Nat
    <3> HIDE DEF oldest
    <3> QED BY <2>1, Place
  <2>3. delay \in Nat BY <2>2, EngineConstants DEF Greater
  <2>4. Lesser(warned.delay, delay) \in Nat BY <1>2, <1>3, <2>3 DEF Lesser
  <2> HIDE DEF oldest, delay
  <2>5. Turns(warned, x1, t, n) BY <1>1, <2>4, DelayIs DEF Turns
  <2>6. e.started => Turns(warned, x2, t, n) BY <1>1, <1>2, <2>3, Kinds1, PendingIs DEF Turns
  <2> QED BY <1>1, <2>5, <2>6, TurnsOn DEF Turns
<1> HIDE DEF oldest, x1, x2, delay
<1> QED BY <1>0, <1>1, <1>3, <1>4, TurnsNot

LEMMA EvictedIs ==
  ASSUME NEW e, NEW t \in Nat, NEW n \in Nat, WellFormed(e, t, n)
  PROVE  WellFormed(Evict(e, t), t, n) /\ Trims(e, Evict(e, t))
<1> DEFINE goes(s) == OverRam(e, s) \/ Expired(e, s, t) \/ NotNeeded(e, s, t)
           S == {s \in GroupStarts(e) : s = e.next \/ ~goes(s)}
           b == Min(S)
           lost == {s \in GroupStarts(e) : s < b /\ Unaired(e, s, t)
                                           /\ ~Expired(e, s, t) /\ ~NotNeeded(e, s, t)}
           left == [Keeping(e, b .. e.next - 1) EXCEPT !.base = b]
<1>1. Evict(e, t) = CASE e.base = e.next \/ ~goes(e.base) -> e
                      [] e.base # e.next /\ goes(e.base) ->
                           IF lost # {} THEN MemoryShort(left, t) ELSE left
  BY DEF Evict
<1>2. GroupStarts(e) \subseteq e.base .. e.next /\ e.next \in GroupStarts(e)
      /\ e.next \in Nat /\ e.base \in Nat
  BY DEF GroupStarts, WellFormed, Buffer, Buffered
<1>3. S \subseteq 0 .. e.next /\ S # {} /\ S \subseteq e.base .. e.next
  <2> HIDE DEF goes
  <2> QED BY <1>2
<1> HIDE DEF S, goes
<1>4. b \in Nat /\ b >= e.base /\ b <= e.next
  <2>1. b \in S BY <1>2, <1>3, Extremes
  <2> HIDE DEF b
  <2> QED BY <1>2, <1>3, <2>1
<1> HIDE DEF b
<1>5. WellFormed(left, t, n) /\ Trims(e, left) BY <1>4, TrimmedIs
<1>6. Trims(e, e) BY <1>2 DEF Trims, WellFormed, Buffer
<1> HIDE DEF left, lost
<1>7. Turns(left, MemoryShort(left, t), t, n) BY <1>5, MemoryIs
<1>8. WellFormed(MemoryShort(left, t), t, n) /\ Trims(e, MemoryShort(left, t))
  BY <1>5, <1>7 DEF Turns, Keeps, Trims, Buffered
<1> QED BY <1>1, <1>5, <1>6, <1>8

-----------------------------------------------------------------------------
(* The encoder *)

LEMMA StartIs ==
  ASSUME NEW e, NEW t \in Nat, NEW n \in Nat, WellFormed(e, t, n)
  PROVE  LET x == IngestStart(e)
         IN WellFormed(x, t, n) /\ x.next = e.next /\ x.mark = e.mark /\ x.pend = e.pend
            /\ x.change = e.change
<1> DEFINE y == IF e.started THEN e ELSE DropBuffer(e)
           x == [y EXCEPT !.session = @ + 1, !.active = TRUE, !.video = FALSE]
<1>1. /\ WellFormed(y, t, n) /\ y.next = e.next /\ y.mark = e.mark /\ y.pend = e.pend
      /\ y.change = e.change
  BY DropBufferIs
<1> HIDE DEF y
<1>2. /\ Shape(x) /\ x.ring = y.ring /\ x.syncs = y.syncs /\ x.base = y.base /\ x.next = y.next
      /\ x.session = y.session + 1 /\ x.mark = y.mark /\ x.pend = y.pend /\ x.change = y.change
      /\ x.slate = y.slate
  BY <1>1 DEF Shape, WellFormed
<1>3. Buffer(x, t, n)
  <2>1. Buffer(y, t, n) BY <1>1 DEF WellFormed
  <2>2. Buffered(x) = Buffered(y) BY <1>2 DEF Buffered
  <2>3. x.session \in Nat /\ \A s \in Buffered(x) : x.ring[s].ses \in 0..x.session
    BY <1>2, <2>1, <2>2 DEF Buffer
  <2> HIDE DEF x
  <2> QED BY <1>2, <2>1, <2>2, <2>3 DEF Buffer
<1>4. Sending(x) BY <1>1 DEF Shape, WellFormed, Sending
<1>5. Slated(x) BY <1>1, <1>2 DEF WellFormed, Slated
<1>6. IngestStart(e) = x BY DEF IngestStart, y
<1> QED BY <1>1, <1>2, <1>3, <1>4, <1>5, <1>6 DEF WellFormed

LEMMA StopIs ==
  ASSUME NEW e, NEW t \in Nat, NEW n \in Nat, WellFormed(e, t, n)
  PROVE  Turns(e, IngestEnd(e), t, n) /\ IngestEnd(e).pend = e.pend
<1> DEFINE x == [e EXCEPT !.active = FALSE]
<1>1. Shape(x) /\ Keeps(e, x) /\ x.pend = e.pend BY DEF Shape, WellFormed, Keeps
<1>2. Sending(x) BY DEF Shape, WellFormed, Sending
<1>3. Slated(x) BY DEF Shape, WellFormed, Slated
<1>4. IngestEnd(e) = x BY DEF IngestEnd
<1> QED BY <1>1, <1>2, <1>3, <1>4, TurnsIf

(* One more at the end of the buffer. *)
Grown(e, v, sync, entry) ==
  [e EXCEPT !.video = v, !.next = @ + 1,
            !.syncs = IF sync THEN @ \cup {e.next} ELSE @,
            !.ring = [s \in Buffered(e) \cup {e.next} |-> IF s = e.next THEN entry ELSE e.ring[s]]]

LEMMA GrownIs ==
  ASSUME NEW e, NEW t \in Nat, NEW n \in Nat, WellFormed(e, t, n), NEW v, NEW sync, NEW entry,
         entry.at = t, entry.uid = n + 1, entry.ses = e.session
  PROVE  LET x == Grown(e, v, sync, entry)
         IN WellFormed(x, t, n + 1) /\ x.next = e.next + 1 /\ x.mark = e.mark /\ x.pend = e.pend
            /\ x.change = e.change
<1> DEFINE x == Grown(e, v, sync, entry)
<1>1. /\ Shape(x) /\ x.next = e.next + 1 /\ x.mark = e.mark /\ x.pend = e.pend
      /\ x.change = e.change /\ x.base = e.base /\ x.session = e.session
      /\ x.syncs = (IF sync THEN e.syncs \cup {e.next} ELSE e.syncs)
      /\ x.ring = [s \in Buffered(e) \cup {e.next} |-> IF s = e.next THEN entry ELSE e.ring[s]]
      /\ x.slate = e.slate
  BY DEF Grown, Shape, WellFormed
<1>2. Sending(x)
  <2>1. /\ x.cursor = e.cursor /\ x.delay = e.delay /\ x.target = e.target /\ x.first = e.first
        /\ x.started = e.started /\ x.needSync = e.needSync
    BY DEF Grown, Shape, WellFormed
  <2>2. e.next \in Nat /\ Sending(e) BY DEF WellFormed, Buffer
  <2> HIDE DEF x
  <2> QED BY <1>1, <2>1, <2>2 DEF Sending
<1>3. Slated(x) BY <1>1 DEF WellFormed, Slated
<1> HIDE DEF x
<1>4. Buffer(e, t, n) BY DEF WellFormed
<1>5. e.next \in Nat /\ e.base \in Nat /\ e.base <= e.next BY <1>4 DEF Buffer
<1>6. Buffered(x) = Buffered(e) \cup {e.next} /\ e.next \notin Buffered(e)
  BY <1>1, <1>5 DEF Buffered
<1>7. Buffer(x, t, n + 1)
  <2>1. x.base \in Nat /\ x.next \in Nat /\ x.base <= x.next /\ x.session \in Nat
    BY <1>1, <1>4, <1>5 DEF Buffer
  <2>2. DOMAIN x.ring = Buffered(x) BY <1>1, <1>6
  <2>3. x.syncs \subseteq Buffered(x) BY <1>1, <1>4, <1>6 DEF Buffer
  <2>4. x.ring[e.next] = entry /\ \A s \in Buffered(e) : x.ring[s] = e.ring[s] BY <1>1, <1>6
  <2>5. \A s \in Buffered(e) : /\ e.ring[s].at \in 0..t /\ e.ring[s].uid \in 1..n
                               /\ e.ring[s].ses \in 0..e.session /\ s < e.next
    BY <1>4 DEF Buffer, Buffered
  <2>6. \A s \in Buffered(x) :
          x.ring[s].at \in 0..t /\ x.ring[s].uid \in 1..n + 1 /\ x.ring[s].ses \in 0..x.session
    <3>1. entry.at \in 0..t /\ entry.uid \in 1..n + 1 /\ entry.ses \in 0..e.session
      BY <1>4 DEF Buffer
    <3> QED BY <1>1, <1>6, <2>4, <2>5, <3>1
  <2>7. ASSUME NEW s \in Buffered(x), NEW r \in Buffered(x), s < r
        PROVE  x.ring[s].at <= x.ring[r].at /\ x.ring[s].ses <= x.ring[r].ses
    <3>4. \A q \in Buffered(x) : q \in Int /\ q <= e.next BY <1>1, <1>5 DEF Buffered
    <3>5. s \in Int /\ r \in Int /\ r <= e.next BY <3>4
    <3>6. s # e.next BY <1>5, <2>7, <3>5
    <3>1. s # e.next /\ s \in Buffered(e) BY <1>6, <3>6
    <3>2. CASE r = e.next BY <2>4, <2>5, <3>1, <3>2
    <3>3. CASE r # e.next
      <4>1. r \in Buffered(e) BY <1>6, <3>3
      <4> QED BY <1>4, <2>4, <2>7, <3>1, <4>1 DEF Buffer
    <3> QED BY <3>2, <3>3
  <2> QED BY <2>1, <2>2, <2>3, <2>6, <2>7 DEF Buffer
<1> QED BY <1>1, <1>2, <1>3, <1>7 DEF WellFormed, x

LEMMA IngestIs ==
  ASSUME NEW e, NEW t \in Nat, NEW n \in Nat, WellFormed(e, t, n), e.active,
         NEW m, m.uid = n + 1
  PROVE  LET x == Ingest(e, m, t)
         IN WellFormed(x, t, n + 1) /\ x.next = e.next + 1 /\ x.mark = e.mark
            /\ x.change = e.change
<1> DEFINE video == e.video \/ m.kind # "audio"
           entry == [uid |-> m.uid, at |-> t, ses |-> e.session, kind |-> m.kind, ref |-> m.ref]
           sync  == m.kind = "key" \/ ~video
           x == Grown(e, video, sync, entry)
<1>1. Ingest(e, m, t) = Evict(x, t) BY DEF Ingest, Grown
<1>2. entry.at = t /\ entry.uid = n + 1 /\ entry.ses = e.session OBVIOUS
<1> HIDE DEF video, entry, sync
<1>3. WellFormed(x, t, n + 1) /\ x.next = e.next + 1 /\ x.mark = e.mark /\ x.change = e.change
  BY <1>2, GrownIs
<1> HIDE DEF x
<1>4. n + 1 \in Nat OBVIOUS
<1> QED BY <1>1, <1>3, <1>4, EvictedIs DEF Trims

-----------------------------------------------------------------------------
(* The destination connection *)

LEMMA ConnectedIs ==
  ASSUME NEW e, NEW t \in Nat, NEW n \in Nat, WellFormed(e, t, n)
  PROVE  Turns(e, OutputConnected(e, t), t, n)
<1> DEFINE x == [e EXCEPT !.up = TRUE, !.first = None]
           k == SyncAtOrBefore(x, x.cursor)
           delay == DelayAgain(x, k, t)
           y == SpliceTo(x, k, delay)
           z == [y EXCEPT !.warn = IF delay > x.delay THEN @ \cup {"grew"} ELSE @]
           back == BackUnderMax(z)
           idle == [x EXCEPT !.needSync = TRUE]
<1>0. OutputConnected(e, t) =
        CASE x.pend.to \in {"Hold", "Dump"} \/ (x.started /\ k = None) -> idle
          [] x.pend.to \notin {"Hold", "Dump"} /\ x.started /\ k # None ->
               IF Restore THEN BackToTarget(back) ELSE back
          [] OTHER -> x
  BY DEF OutputConnected
<1>1. Turns(e, x, t, n)
  <2>1. Shape(x) /\ Keeps(e, x) BY DEF Shape, WellFormed, Keeps
  <2>2. Sending(x) BY DEF Shape, WellFormed, Sending, None
  <2>3. Slated(x) BY DEF Shape, WellFormed, Slated
  <2> QED BY <2>1, <2>2, <2>3, TurnsIf
<1> HIDE DEF x
<1>2. Turns(e, idle, t, n) BY <1>1, NeedsSync, TurnsOn DEF Turns
<1>3. ASSUME k # None PROVE Turns(e, back, t, n) /\ Turns(e, BackToTarget(back), t, n)
  <2>1. WellFormed(x, t, n) BY <1>1 DEF Turns
  <2>2. k \in x.syncs
    <3>1. {s \in x.syncs : s <= x.cursor} \subseteq x.syncs OBVIOUS
    <3> QED BY <1>3, <2>1, <3>1, Searched DEF SyncAtOrBefore
  <2> HIDE DEF k
  <2>3. delay \in Nat
    <3>1. Age(x, k, t) \in Nat BY <2>1, <2>2, Place
    <3> QED BY <2>1, <3>1 DEF DelayAgain, Greater, WellFormed, Sending
  <2> HIDE DEF delay
  <2>4. Turns(x, y, t, n) /\ y.started = TRUE BY <2>1, <2>2, <2>3, SplicedIs
  <2> HIDE DEF y
  <2>5. Turns(y, z, t, n) BY <2>4, Warned DEF Turns
  <2>6. z.started = TRUE BY <2>4 DEF Turns, WellFormed, Shape
  <2> HIDE DEF z
  <2>7. Turns(z, back, t, n) BY <2>5, <2>6, BackUnder DEF Turns
  <2>8. back.started = TRUE
    <3>1. BackUnderMax(z).started = z.started
      BY <2>5 DEF BackUnderMax, SetPending, Turns, WellFormed, Shape
    <3> QED BY <2>6, <3>1
  <2> HIDE DEF back
  <2>9. Turns(back, BackToTarget(back), t, n) BY <2>7, <2>8, BackToTargetIs DEF Turns
  <2>10. Turns(e, z, t, n) BY <1>1, <2>4, <2>5, TurnsOn DEF Turns
  <2>11. Turns(e, back, t, n) BY <2>7, <2>10, TurnsOn DEF Turns
  <2> QED BY <2>9, <2>11, TurnsOn DEF Turns
<1> HIDE DEF k, back, idle
<1> QED BY <1>0, <1>1, <1>2, <1>3

LEMMA BackToIs ==
  ASSUME NEW e, NEW t \in Nat, NEW n \in Nat, WellFormed(e, t, n), NEW s \in Int, s >= -1
  PROVE  Turns(e, BackTo(e, s), t, n) /\ BackTo(e, s).pend = e.pend
         /\ BackTo(e, s).started = e.started
<1>1. CASE s = None BY <1>1, TurnsNot DEF BackTo
<1>2. CASE s # None
  <2>1. Lesser(e.cursor, s) \in Nat /\ Lesser(e.cursor, s) <= e.next
    BY <1>2 DEF Lesser, None, WellFormed, Sending, Buffer
  <2>2. Turns(e, [e EXCEPT !.cursor = Lesser(@, s)], t, n) BY <2>1, CursorIs
  <2>3. [e EXCEPT !.cursor = Lesser(@, s)].pend = e.pend
        /\ [e EXCEPT !.cursor = Lesser(@, s)].started = e.started BY DEF WellFormed, Shape
  <2> QED BY <1>2, <2>2, <2>3 DEF BackTo
<1> QED BY <1>1, <1>2

LEMMA ResumeIs ==
  ASSUME NEW e, NEW t \in Nat, NEW n \in Nat, WellFormed(e, t, n), NEW taken \in Int, taken >= -1
  PROVE  Resume(e, taken) \in Int /\ Resume(e, taken) >= -1
BY DEF Resume, WellFormed, Sending, None

LEMMA DisconnectedIs ==
  ASSUME NEW e, NEW t \in Nat, NEW n \in Nat, WellFormed(e, t, n), NEW written \in Int,
         written >= -1
  PROVE  Turns(e, OutputDisconnected(e, written), t, n)
         /\ OutputDisconnected(e, written).pend = e.pend
<1> DEFINE x == [e EXCEPT !.up = FALSE]
<1>1. Turns(e, x, t, n) /\ x.pend = e.pend
  <2>1. Shape(x) /\ Keeps(e, x) /\ x.pend = e.pend BY DEF Shape, WellFormed, Keeps
  <2>2. Sending(x) BY DEF Shape, WellFormed, Sending
  <2>3. Slated(x) BY DEF Shape, WellFormed, Slated
  <2> QED BY <2>1, <2>2, <2>3, TurnsIf
<1> HIDE DEF x
<1>2. Resume(e, written) \in Int /\ Resume(e, written) >= -1 BY ResumeIs
<1>3. Turns(x, BackTo(x, Resume(e, written)), t, n)
      /\ BackTo(x, Resume(e, written)).pend = x.pend
  BY <1>1, <1>2, BackToIs DEF Turns
<1>4. OutputDisconnected(e, written) = BackTo(x, Resume(e, written)) BY DEF OutputDisconnected, x
<1> QED BY <1>1, <1>3, <1>4, TurnsOn DEF Turns

LEMMA UnsentIs ==
  ASSUME NEW e, NEW t \in Nat, NEW n \in Nat, WellFormed(e, t, n), NEW taken \in Int, taken >= -1
  PROVE  Turns(e, Unsend(e, taken), t, n) /\ Unsend(e, taken).pend = e.pend
         /\ Unsend(e, taken).started = e.started
<1>1. Resume(e, taken) \in Int /\ Resume(e, taken) >= -1 BY ResumeIs
<1> QED BY <1>1, BackToIs, TurnsNot DEF Unsend

-----------------------------------------------------------------------------
(* Commands *)

LEMMA ClearedIs ==
  ASSUME NEW e, NEW t \in Nat, NEW n \in Nat, WellFormed(e, t, n)
  PROVE  /\ Turns(e, Cleared(e), t, n) /\ Cleared(e).pend = e.pend
         /\ Cleared(e).started = e.started /\ Cleared(e).delay = e.delay
         /\ Cleared(e).target = e.target /\ Cleared(e).active = e.active
<1>1. Turns(e, Cleared(e), t, n) BY Warned DEF Cleared
<1>2. /\ Cleared(e).pend = e.pend
      /\ Cleared(e).started = e.started /\ Cleared(e).delay = e.delay
      /\ Cleared(e).target = e.target /\ Cleared(e).active = e.active
  BY DEF Cleared, WellFormed, Shape
<1> QED BY <1>1, <1>2

LEMMA DumpDelayIs ==
  ASSUME NEW e, NEW t \in Nat, NEW n \in Nat, WellFormed(e, t, n)
  PROVE  DumpDelay(e) \in 0..MaxDelay
BY EngineConstants DEF DumpDelay, Lesser, WellFormed, Sending

LEMMA CutOffIs ==
  ASSUME NEW e, NEW t \in Nat, NEW n \in Nat, WellFormed(e, t, n), e.mark = None,
         NEW cutAt \in Nat, cutAt = Greater(e.cursor, e.base)
  PROVE  LET x == CutOff(e, cutAt)
         IN /\ WellFormed(x, t, n) /\ x.pend = e.pend /\ x.started = e.started
            /\ x.mark = e.mark /\ x.next = cutAt /\ x.change = e.change
            /\ x.syncs = e.syncs \cap (e.base .. cutAt - 1)
<1> DEFINE x == CutOff(e, cutAt)
<1>1. /\ Shape(x) /\ x.pend = e.pend /\ x.started = e.started /\ x.next = cutAt
      /\ x.mark = e.mark /\ x.session = e.session + 1 /\ x.change = e.change
      /\ x.ring = [s \in e.base .. cutAt - 1 |-> e.ring[s]] /\ x.base = e.base
      /\ x.syncs = e.syncs \cap (e.base .. cutAt - 1)
      /\ x.cursor = e.cursor /\ x.needSync = e.needSync /\ x.slate = e.slate
      /\ x.delay = e.delay /\ x.target = e.target /\ x.first = e.first
  BY DEF CutOff, Keeping, Shape, WellFormed
<1> HIDE DEF x
<1>0. Buffer(e, t, n) /\ Sending(e) /\ Slated(e) BY DEF WellFormed
<1>2. cutAt >= e.base /\ cutAt >= e.cursor /\ cutAt <= e.next /\ e.next \in Nat /\ e.base \in Nat
  BY <1>0 DEF Buffer, Sending, Greater
<1>3. /\ Buffered(x) = e.base .. cutAt - 1 /\ Buffered(x) \subseteq Buffered(e)
  BY <1>1, <1>2 DEF Buffered
<1>4. \A s \in Buffered(x) : x.ring[s] = e.ring[s] BY <1>1, <1>3
<1>5. Buffer(x, t, n)
  <2>1. x.base \in Nat /\ x.next \in Nat /\ x.base <= x.next /\ x.session \in Nat
    BY <1>0, <1>1, <1>2 DEF Buffer
  <2>2. DOMAIN x.ring = Buffered(x) /\ x.syncs \subseteq Buffered(x) BY <1>1, <1>3
  <2>3. \A s \in Buffered(x) :
          x.ring[s].at \in 0..t /\ x.ring[s].uid \in 1..n /\ x.ring[s].ses \in 0..x.session
    BY <1>0, <1>1, <1>3, <1>4, SMTT(30) DEF Buffer
  <2>4. \A s, r \in Buffered(x) :
          s < r => x.ring[s].at <= x.ring[r].at /\ x.ring[s].ses <= x.ring[r].ses
    BY <1>0, <1>3, <1>4 DEF Buffer
  <2> QED BY <2>1, <2>2, <2>3, <2>4 DEF Buffer
<1>6. Sending(x)
  <2>1. x.mark = -1 /\ x.mark < x.next BY <1>1 DEF None
  <2> QED BY <1>0, <1>1, <1>2, <2>1 DEF Sending
<1>7. Slated(x) BY <1>0, <1>1 DEF Slated
<1> QED BY <1>1, <1>5, <1>6, <1>7 DEF WellFormed, x

LEMMA ReplayedIs ==
  ASSUME NEW e, NEW t \in Nat, NEW n \in Nat, WellFormed(e, t, n), e.started, e.mark = None,
         NEW d \in Nat, d > 0, ReplayFrom(e, d, t) # None
  PROVE  LET x == ReplayInstead(e, ReplayFrom(e, d, t), d, t)
         IN /\ WellFormed(x, t, n) /\ x.mark = e.mark /\ x.pend.to = "Replay"
            /\ \A s \in x.syncs : ~(s >= x.pend.from)
<1> DEFINE cutAt == Greater(e.cursor, e.base)
           edge == IF cutAt \in Buffered(e) THEN e.ring[cutAt].at ELSE t
           k == NewestSyncBy(e, edge - d)
           x == CutOff(e, cutAt)
           y == SetPending(x, Replay(cutAt, d))
           a == Age(e, k, t)
<1>1. ReplayFrom(e, d, t) = k /\ k # None BY DEF ReplayFrom
<1>2. cutAt \in Nat /\ cutAt <= e.next /\ e.next \in Nat /\ e.base \in Nat /\ e.base <= cutAt
  BY DEF WellFormed, Buffer, Sending, Greater
<1>3. k \in e.syncs /\ e.ring[k].at <= edge - d
  <2> DEFINE S == {s \in e.syncs : e.ring[s].at <= edge - d}
  <2>1. k = NewestOf(S) BY DEF NewestSyncBy
  <2>2. S \subseteq e.syncs OBVIOUS
  <2> HIDE DEF S, edge
  <2>3. k \in S BY <1>1, <2>1, <2>2, Searched
  <2> QED BY <2>3 DEF S
<1> HIDE DEF cutAt, k
<1>4. k \in Nat /\ k \in Buffered(e) /\ k < e.next /\ a \in Nat /\ e.ring[k].at \in Nat
  BY <1>3, Place
<1>5. k < cutAt
  <2>1. CASE cutAt \in Buffered(e)
    <3>5. edge = e.ring[cutAt].at BY <2>1
    <3> HIDE DEF edge
    <3>4. e.ring[cutAt].at \in Nat BY <2>1 DEF WellFormed, Buffer
    <3>1. e.ring[k].at < e.ring[cutAt].at BY <1>3, <1>4, <3>4, <3>5
    <3>6. cutAt < k => e.ring[cutAt].at <= e.ring[k].at BY <1>4, <2>1 DEF WellFormed, Buffer
    <3>2. ~(cutAt < k) BY <1>4, <3>1, <3>4, <3>6
    <3>3. cutAt # k BY <1>4, <3>1, <3>4
    <3> QED BY <1>2, <1>4, <3>2, <3>3
  <2>2. CASE cutAt \notin Buffered(e) BY <1>2, <1>4, <2>2 DEF Buffered
  <2> QED BY <2>1, <2>2
<1>6. /\ WellFormed(x, t, n) /\ x.started /\ x.mark = e.mark /\ x.next = cutAt
      /\ x.syncs = e.syncs \cap (e.base .. cutAt - 1)
  BY <1>2, CutOffIs DEF cutAt
<1> HIDE DEF x
<1>7. Turns(x, y, t, n) /\ y.pend = Replay(cutAt, d) BY <1>2, <1>6, Kinds1, PendingIs
<1>8. /\ WellFormed(y, t, n) /\ y.mark = e.mark /\ k < y.next
      /\ y.syncs = e.syncs \cap (e.base .. cutAt - 1)
  BY <1>5, <1>6, <1>7 DEF Turns, Keeps
<1> HIDE DEF y
<1>9. Turns(y, SpliceTo(y, k, a), t, n) /\ SpliceTo(y, k, a).pend = y.pend
  <2>1. k \in Nat /\ a \in Nat BY <1>4
  <2> HIDE DEF a
  <2>2. WellFormed(y, t, n) /\ k < y.next BY <1>8
  <2>3. Turns(y, SpliceTo(y, k, a), t, n) BY <2>1, <2>2, SplicedTo
  <2>4. SpliceTo(y, k, a).pend = y.pend BY <2>2 DEF SpliceTo, WellFormed, Shape
  <2> QED BY <2>3, <2>4
<1>10. ReplayInstead(e, k, d, t) = SpliceTo(y, k, a) BY DEF ReplayInstead, y, x, a, cutAt
<1> DEFINE z == ReplayInstead(e, k, d, t)
<1>11. /\ WellFormed(z, t, n) /\ z.mark = e.mark /\ z.pend = Replay(cutAt, d)
       /\ z.syncs = e.syncs \cap (e.base .. cutAt - 1)
  BY <1>7, <1>8, <1>9, <1>10 DEF Turns, Keeps
<1> HIDE DEF z
<1>12. z.pend.to = "Replay" /\ z.pend.from = cutAt BY <1>11 DEF Replay
<1>13. \A s \in z.syncs : ~(s >= z.pend.from) BY <1>2, <1>11, <1>12
<1> QED BY <1>1, <1>11, <1>12, <1>13 DEF z

(* What a dump leaves.  Only one with a replay shortens what there is.     *)
LEMMA DumpIs ==
  ASSUME NEW e, NEW t \in Nat, NEW n \in Nat, WellFormed(e, t, n), CanDump(e),
         NEW mode, NEW cover
  PROVE  LET x == Dump(e, mode, cover, t)
         IN /\ WellFormed(x, t, n) /\ x.mark = e.mark /\ (mode # "Rewind" => x.next = e.next)
            /\ Settles(e, x)
<1> DEFINE d == DumpDelay(e)
           w == e.warn \ {"history"}
           x == [e EXCEPT !.target = d, !.warn = w]
           k == ReplayFrom(x, d, t)
           gone == DropBuffer(x)
           f == AiredKeyframe(x)
           u == [SetPending(gone, DumpUnder(d, t, gone.next)) EXCEPT !.change = @ + 1, !.slate = TRUE]
           h == SetPending(gone, Hold(gone.next, d))
<1>0. Dump(e, mode, cover, t) =
        CASE ~e.started -> DropBuffer(e)
          [] e.started /\ (e.mark # None \/ ~e.active) -> SetPending(DropBuffer(e), NoChange)
          [] e.started /\ e.mark = None /\ e.active ->
               IF mode = "Rewind" /\ k # None THEN ReplayInstead(x, k, d, t)
               ELSE IF cover THEN [u EXCEPT !.hold = f] ELSE [h EXCEPT !.hold = f]
  BY DEF Dump
<1>1. d \in 0..MaxDelay BY DumpDelayIs
<1>2. Turns(e, x, t, n) /\ x.started = e.started
  <2> HIDE DEF d, w
  <2>1. Shape(x) /\ Keeps(e, x) /\ x.started = e.started BY DEF Shape, WellFormed, Keeps
  <2>2. Sending(x) BY <1>1 DEF Shape, WellFormed, Sending
  <2>3. Slated(x) BY DEF Shape, WellFormed, Slated
  <2> QED BY <2>1, <2>2, <2>3, TurnsIf
<1>3. d \in Nat BY <1>1, EngineConstants
<1>4. e.started /\ e.mark = None /\ e.active => d > 0 BY <1>3, EngineConstants DEF CanDump
<1>5. WellFormed(DropBuffer(e), t, n) /\ DropBuffer(e).mark = e.mark
      /\ DropBuffer(e).next = e.next /\ DropBuffer(e).pend = e.pend /\ DropBuffer(e).delay = e.delay
  BY DropBufferIs
<1>6. Turns(DropBuffer(e), SetPending(DropBuffer(e), NoChange), t, n) BY <1>5, Kinds1, PendingIs
<1>17. ~e.started => Settles(e, DropBuffer(e)) BY <1>5 DEF Settles, WellFormed, Sending
<1>18. Settles(e, SetPending(DropBuffer(e), NoChange))
  <2> DEFINE b == DropBuffer(e)
  <2>1. Shape(b) /\ b.delay = e.delay BY <1>5 DEF WellFormed
  <2> HIDE DEF b
  <2>2. SetPending(b, NoChange).pend = NoChange /\ SetPending(b, NoChange).delay = b.delay
    BY <2>1, Replaces
  <2>3. Settles(e, SetPending(b, NoChange)) BY <2>1, <2>2 DEF Settles
  <2> QED BY <2>3 DEF b
<1> HIDE DEF x
<1>7. /\ WellFormed(x, t, n) /\ x.mark = e.mark /\ x.next = e.next
      /\ x.started = e.started
  BY <1>2 DEF Turns, Keeps
<1>8. /\ WellFormed(gone, t, n) /\ gone.mark = e.mark /\ gone.next = e.next
      /\ gone.started = e.started /\ gone.syncs = {}
  BY <1>7, DropBufferIs
<1> HIDE DEF gone, d
<1>9. gone.next \in Nat BY <1>8 DEF WellFormed, Buffer
<1>10. ASSUME e.started
       PROVE  /\ WellFormed(u, t, n) /\ u.mark = e.mark /\ u.next = e.next
              /\ u.syncs = {} /\ u.pend.to = "Dump" /\ u.pend.shown = None
  <2>1. DumpUnder(d, t, gone.next) \in Changes /\ Covers(DumpUnder(d, t, gone.next))
    <3>1. gone.next \in Int /\ FALSE \in BOOLEAN /\ 0 \in Int BY <1>9
    <3> QED BY <1>3, <3>1, Kinds2
  <2> DEFINE q == DumpUnder(d, t, gone.next)
  <2>2. u = PutUp(gone, q) BY DEF PutUp
  <2> HIDE DEF q, u
  <2>3. WellFormed(PutUp(gone, q), t, n) /\ PutUp(gone, q).mark = gone.mark
        /\ PutUp(gone, q).next = gone.next /\ PutUp(gone, q).syncs = gone.syncs
        /\ PutUp(gone, q).pend = q
    <3>1. q \in Changes /\ Covers(q) BY <2>1 DEF q
    <3>2. gone.started /\ WellFormed(gone, t, n) BY <1>8, <1>10
    <3>3. ASSUME NEW g, NEW r \in Changes, WellFormed(g, t, n), g.started, Covers(r)
          PROVE  WellFormed(PutUp(g, r), t, n) /\ PutUp(g, r).mark = g.mark
                 /\ PutUp(g, r).next = g.next /\ PutUp(g, r).syncs = g.syncs
                 /\ PutUp(g, r).pend = r
      BY <3>3, CoveredIs
    <3> QED BY <3>1, <3>2, <3>3
  <2>4. q.to = "Dump" /\ q.shown = None BY DEF q, DumpUnder
  <2> QED BY <1>8, <2>2, <2>3, <2>4
<1>11. ASSUME e.started
       PROVE  /\ WellFormed(h, t, n) /\ h.mark = e.mark /\ h.next = e.next
              /\ h.syncs = {} /\ h.pend.to = "Hold"
  <2>2. gone.next \in Int BY <1>9
  <2>3. Hold(gone.next, d) \in Changes /\ ~Covers(Hold(gone.next, d)) BY <1>3, <2>2, Kinds1
  <2>1. Turns(gone, h, t, n) /\ h.pend = Hold(gone.next, d) BY <1>8, <1>11, <2>3, PendingIs, ZenonT(30)
  <2> QED BY <1>8, <2>1 DEF Turns, Keeps, Hold
<1> HIDE DEF u, h, f
<1>12. ASSUME e.started, NEW y \in {u, h}
       PROVE  WellFormed([y EXCEPT !.hold = f], t, n) /\ [y EXCEPT !.hold = f].mark = e.mark
              /\ [y EXCEPT !.hold = f].next = e.next
              /\ [y EXCEPT !.hold = f].pend = y.pend /\ [y EXCEPT !.hold = f].syncs = {}
  <2>1. WellFormed(y, t, n) /\ y.mark = e.mark /\ y.next = e.next /\ y.syncs = {}
    BY <1>10, <1>11, <1>12
  <2>2. Turns(y, [y EXCEPT !.hold = f], t, n) BY <2>1, HeldIs
  <2>3. [y EXCEPT !.hold = f].pend = y.pend BY <2>1 DEF WellFormed, Shape
  <2> QED BY <2>1, <2>2, <2>3 DEF Turns, Keeps
<1>19. ASSUME e.started, e.mark = None, NEW y \in {u, h}
       PROVE  Settles(e, [y EXCEPT !.hold = f])
  <2> DEFINE z == [y EXCEPT !.hold = f]
  <2>1. z.pend = y.pend /\ z.syncs = {} /\ z.mark = None BY <1>12, <1>19
  <2> HIDE DEF z
  <2>2. y.pend.to = "Hold" \/ (y.pend.to = "Dump" /\ y.pend.shown = None) BY <1>10, <1>11, <1>19
  <2>3. Settles(e, z) BY <2>1, <2>2 DEF Settles
  <2> QED BY <2>3 DEF z
<1>13. ASSUME e.started, e.mark = None, e.active, k # None
       PROVE  /\ WellFormed(ReplayInstead(x, k, d, t), t, n)
              /\ ReplayInstead(x, k, d, t).mark = e.mark
              /\ Settles(e, ReplayInstead(x, k, d, t))
  <2> DEFINE z == ReplayInstead(x, k, d, t)
  <2>1. /\ WellFormed(z, t, n) /\ z.mark = e.mark /\ z.pend.to = "Replay"
        /\ \A s \in z.syncs : ~(s >= z.pend.from)
    BY <1>3, <1>4, <1>7, <1>13, ReplayedIs, ZenonT(30)
  <2> HIDE DEF z
  <2>2. Settles(e, z) BY <1>13, <2>1 DEF Settles
  <2> QED BY <2>1, <2>2 DEF z
<1> HIDE DEF k
<1>14. CASE ~e.started BY <1>0, <1>5, <1>14, <1>17
<1>15. CASE e.started /\ (e.mark # None \/ ~e.active)
  BY <1>0, <1>5, <1>6, <1>15, <1>18 DEF Turns, Keeps
<1>16. CASE e.started /\ e.mark = None /\ e.active
  <2>1. \/ mode = "Rewind" /\ k # None /\ Dump(e, mode, cover, t) = ReplayInstead(x, k, d, t)
        \/ Dump(e, mode, cover, t) = [u EXCEPT !.hold = f]
        \/ Dump(e, mode, cover, t) = [h EXCEPT !.hold = f]
    BY <1>0, <1>16
  <2> QED BY <1>12, <1>13, <1>16, <1>19, <2>1
<1> QED BY <1>14, <1>15, <1>16

LEMMA DumpCommandIs ==
  ASSUME NEW e, NEW t \in Nat, NEW n \in Nat, WellFormed(e, t, n), NEW mode, NEW cover
  PROVE  LET x == DumpCommand(e, mode, cover, t)
         IN /\ WellFormed(x, t, n) /\ x.mark = e.mark /\ (mode # "Rewind" => x.next = e.next)
            /\ Settled(e, x) \/ (x.pend = e.pend /\ x.change = e.change)
<1> DEFINE c == Cleared(e)
           d == Dump(c, mode, cover, t)
<1>1. Turns(e, c, t, n) BY ClearedIs
<1>2. CanDump(c) = CanDump(e)
  <2>1. c.mark = e.mark BY <1>1 DEF Turns, Keeps
  <2>2. c.started = e.started /\ c.active = e.active /\ c.target = e.target /\ c.delay = e.delay
    BY ClearedIs
  <2> HIDE DEF c
  <2> QED BY <2>1, <2>2 DEF CanDump, DumpDelay
<1> HIDE DEF c
<1>3. /\ c.mark = e.mark /\ c.next = e.next /\ WellFormed(c, t, n)
      /\ c.pend = e.pend /\ c.change = e.change /\ c.delay = e.delay
  BY <1>1, ClearedIs DEF Turns, Keeps, c
<1>4. ASSUME CanDump(e)
      PROVE  /\ WellFormed(d, t, n) /\ d.mark = e.mark /\ (mode # "Rewind" => d.next = e.next)
             /\ Settled(e, RunPending(d, t))
  <2>1. CanDump(c) BY <1>2, <1>4
  <2>2. /\ WellFormed(d, t, n) /\ d.mark = c.mark /\ (mode # "Rewind" => d.next = c.next)
        /\ Settles(c, d)
    BY <1>3, <2>1, DumpIs
  <2> HIDE DEF d
  <2>3. Settles(e, d) /\ Shape(d) BY <1>3, <2>2 DEF Settles, WellFormed
  <2> QED BY <1>3, <2>2, <2>3, RunSettled
<1> HIDE DEF d
<1>5. ASSUME CanDump(e) PROVE Turns(d, RunPending(d, t), t, n) BY <1>4, <1>5, RunIs
<1>6. DumpCommand(e, mode, cover, t) = IF CanDump(e) THEN RunPending(d, t) ELSE c
  BY DEF DumpCommand, d, c
<1> QED BY <1>3, <1>4, <1>5, <1>6 DEF Turns, Keeps

LEMMA DumpAfterIs ==
  ASSUME NEW e, NEW t \in Nat, NEW n \in Nat, WellFormed(e, t, n), NEW taken \in Int,
         taken >= -1, NEW mode, NEW cover
  PROVE  LET x == DumpAfter(e, taken, mode, cover, t)
         IN /\ WellFormed(x, t, n) /\ x.mark = e.mark /\ (mode # "Rewind" => x.next = e.next)
            /\ Settled(e, x) \/ (x.pend = e.pend /\ x.change = e.change)
<1> DEFINE u == Unsend(e, taken)
           d == DumpCommand(u, mode, cover, t)
           y == [e EXCEPT !.needSync = TRUE]
<1>1. /\ WellFormed(u, t, n) /\ u.mark = e.mark /\ u.next = e.next
      /\ u.pend = e.pend /\ u.change = e.change
  BY UnsentIs DEF Turns, Keeps
<1>5. u.delay = e.delay
  <2>1. [e EXCEPT !.cursor = Lesser(@, Resume(e, taken))].delay = e.delay BY DEF WellFormed, Shape
  <2> QED BY <2>1 DEF Unsend, BackTo
<1> HIDE DEF u
<1>2. /\ WellFormed(d, t, n) /\ d.mark = e.mark /\ (mode # "Rewind" => d.next = e.next)
      /\ Settled(e, d) \/ (d.pend = e.pend /\ d.change = e.change)
  <2>1. /\ WellFormed(d, t, n) /\ d.mark = u.mark /\ (mode # "Rewind" => d.next = u.next)
        /\ Settled(u, d) \/ (d.pend = u.pend /\ d.change = u.change)
    BY <1>1, DumpCommandIs
  <2> HIDE DEF d
  <2> QED BY <1>1, <1>5, <2>1 DEF Settled
<1>3. /\ WellFormed(y, t, n) /\ y.mark = e.mark /\ y.next = e.next
      /\ y.pend = e.pend /\ y.change = e.change
  <2>1. Turns(e, y, t, n) BY NeedsSync
  <2>2. y.pend = e.pend BY DEF WellFormed, Shape
  <2> QED BY <2>1, <2>2 DEF Turns, Keeps
<1> HIDE DEF d, y
<1>4. DumpAfter(e, taken, mode, cover, t) \in {d, y, e}
  BY DEF DumpAfter, d, u, y
<1> QED BY <1>2, <1>3, <1>4

LEMMA RewindGoes ==
  ASSUME NEW e, Shape(e), NEW d, NEW t
  PROVE  Rewind(e, d, t).pend \in {e.pend, Reduce(d)}
<1> DEFINE newest == NewestSyncBy(e, t - d)
           full   == (e.next - e.base) * 10 >= RamCap * 9
           inside == e.syncs \ {OldestOf(e.syncs)}
           oldest == OldestOf(IF full /\ inside # {} THEN inside ELSE e.syncs)
           k == IF newest # None THEN newest ELSE oldest
           x == IF newest # None THEN e ELSE [e EXCEPT !.warn = @ \cup {"history"}]
           y == SpliceTo(x, k, Age(e, k, t))
           z == SetPending(y, Reduce(d))
<1>1. Shape(x) /\ x.pend = e.pend BY DEF Shape
<1>2. Rewind(e, d, t) \in {x, y, z}
  <2>1. Rewind(e, d, t) =
          IF k = None \/ Age(e, k, t) <= e.delay THEN x
          ELSE IF newest # None /\ GapAfter(e, k, Greater(0, Age(e, k, t) - d)) THEN z ELSE y
    BY DEF Rewind
  <2> HIDE DEF k, newest, x, y, z
  <2> QED BY <2>1
<1> HIDE DEF x, k
<1>3. Shape(y) BY <1>1, Shaped
<1>5. y.pend = e.pend BY <1>1, Splices
<1> HIDE DEF y
<1>4. z.pend = Reduce(d) BY <1>3, Replaces
<1> QED BY <1>1, <1>2, <1>4, <1>5

LEMMA RewindIs ==
  ASSUME NEW e, NEW t \in Nat, NEW n \in Nat, WellFormed(e, t, n), e.started, NEW d \in Nat
  PROVE  Turns(e, Rewind(e, d, t), t, n)
<1> DEFINE newest == NewestSyncBy(e, t - d)
           full   == (e.next - e.base) * 10 >= RamCap * 9
           inside == e.syncs \ {OldestOf(e.syncs)}
           oldest == OldestOf(IF full /\ inside # {} THEN inside ELSE e.syncs)
           k == IF newest # None THEN newest ELSE oldest
           x == IF newest # None THEN e ELSE [e EXCEPT !.warn = @ \cup {"history"}]
           y == SpliceTo(x, k, Age(e, k, t))
           z == SetPending(y, Reduce(d))
<1>0. k = None \/ k \in e.syncs
  <2>1. newest = None \/ newest \in e.syncs
    <3>1. {s \in e.syncs : e.ring[s].at <= t - d} \subseteq e.syncs OBVIOUS
    <3> QED BY <3>1, Searched DEF NewestSyncBy
  <2>2. oldest = None \/ oldest \in e.syncs
    <3> DEFINE S == IF full /\ inside # {} THEN inside ELSE e.syncs
    <3>1. S \subseteq e.syncs OBVIOUS
    <3> HIDE DEF S
    <3> QED BY <3>1, Searched
  <2> HIDE DEF newest, oldest
  <2> QED BY <2>1, <2>2
<1>1. Turns(e, x, t, n) /\ x.started = e.started
  <2>1. Turns(e, [e EXCEPT !.warn = @ \cup {"history"}], t, n) BY Warned
  <2>2. [e EXCEPT !.warn = @ \cup {"history"}].started = e.started BY DEF WellFormed, Shape
  <2> QED BY <2>1, <2>2, TurnsNot
<1>2. Rewind(e, d, t) \in {x, y, z} /\ (k = None => Rewind(e, d, t) = x)
  <2>1. Rewind(e, d, t) =
          IF k = None \/ Age(e, k, t) <= e.delay THEN x
          ELSE IF newest # None /\ GapAfter(e, k, Greater(0, Age(e, k, t) - d)) THEN z ELSE y
    BY DEF Rewind
  <2> HIDE DEF k, newest, x, y, z
  <2> QED BY <2>1
<1> HIDE DEF x, k
<1>3. ASSUME k # None PROVE Turns(e, y, t, n) /\ Turns(e, z, t, n)
  <2>1. k \in e.syncs /\ k \in x.syncs BY <1>0, <1>1, <1>3 DEF Turns, Keeps
  <2>2. Age(e, k, t) \in Nat BY <2>1, Place
  <2>3. Turns(x, y, t, n) /\ y.started = TRUE BY <1>1, <2>1, <2>2, SplicedIs DEF Turns
  <2> HIDE DEF y
  <2>4. Turns(y, z, t, n) BY <2>3, Kinds1, PendingIs DEF Turns
  <2>5. Turns(e, y, t, n) BY <1>1, <2>3, TurnsOn DEF Turns
  <2> QED BY <2>4, <2>5, TurnsOn DEF Turns
<1> HIDE DEF y, z
<1> QED BY <1>1, <1>2, <1>3

(* What a command leaves: the same buffer, to end where it was to end.     *)
Obeys(e, x, t, n) == WellFormed(x, t, n) /\ x.next = e.next /\ x.mark = e.mark

LEMMA ObeysTurn ==
  ASSUME NEW e, NEW x, NEW y, NEW t, NEW n, Obeys(e, x, t, n), Turns(x, y, t, n)
  PROVE  Obeys(e, y, t, n)
BY DEF Obeys, Turns, Keeps

LEMMA GoLiveCommandIs ==
  ASSUME NEW e, NEW t \in Nat, NEW n \in Nat, WellFormed(e, t, n), NEW when
  PROVE  Turns(e, GoLiveCommand(e, when, t), t, n) /\ ~Awaits(GoLiveCommand(e, when, t))
<1> DEFINE c == Cleared(e)
           w == c.warn \ {"history"}
           x == [c EXCEPT !.target = 0, !.warn = w]
           p == IF when = "Now" THEN GoLiveNow(e.next - 1) ELSE AfterAir(e.next - 1)
           x0 == [x EXCEPT !.delay = 0]
           y == IF e.started THEN SetPending(x, p) ELSE SetPending(x0, NoChange)
<1>1. Turns(e, c, t, n) /\ c.started = e.started BY ClearedIs
<1> HIDE DEF c
<1>2. WellFormed(c, t, n) BY <1>1 DEF Turns
<1>3. Turns(c, x, t, n) /\ x.started = c.started
  <2> HIDE DEF w
  <2>1. Shape(x) /\ Keeps(c, x) /\ x.started = c.started BY <1>2 DEF Shape, WellFormed, Keeps
  <2>2. Sending(x)
    <3>1. 0 \in 0..MaxDelay BY EngineConstants
    <3> QED BY <1>2, <3>1 DEF Shape, WellFormed, Sending
  <2>3. Slated(x) BY <1>2 DEF Shape, WellFormed, Slated
  <2> QED BY <1>2, <2>1, <2>2, <2>3, TurnsIf
<1> HIDE DEF x
<1>4. e.started \in BOOLEAN /\ e.next - 1 \in Int BY DEF WellFormed, Sending, Buffer
<1>5. p \in Changes /\ ~Covers(p) BY <1>4, Kinds1
<1> HIDE DEF p
<1>6. e.started => Turns(x, SetPending(x, p), t, n) /\ SetPending(x, p).pend = p
  BY <1>1, <1>3, <1>5, PendingIs DEF Turns
<1>7. Turns(x, x0, t, n) BY <1>3, DelayIs DEF Turns
<1> HIDE DEF x0
<1>8. Turns(x0, SetPending(x0, NoChange), t, n) /\ SetPending(x0, NoChange).pend = NoChange
  BY <1>7, Kinds1, PendingIs DEF Turns
<1>9. Turns(x, SetPending(x0, NoChange), t, n) BY <1>7, <1>8, TurnsOn DEF Turns
<1>10. Turns(x, y, t, n) BY <1>6, <1>9
<1>11. GoLiveCommand(e, when, t) = RunPending(y, t) BY DEF GoLiveCommand, y, x0, x, c, p
<1>15. y.pend.to # "Mask"
  <2>1. y.pend \in {p, NoChange} BY <1>4, <1>6, <1>8
  <2> QED BY <1>5, <2>1 DEF Covers, NoChange
<1> HIDE DEF y
<1>12. Turns(y, RunPending(y, t), t, n) BY <1>10, RunIs DEF Turns
<1>13. Turns(e, x, t, n) BY <1>1, <1>3, TurnsOn DEF Turns
<1>14. Turns(e, y, t, n) BY <1>10, <1>13, TurnsOn DEF Turns
<1>16. ~Awaits(RunPending(y, t)) BY <1>14, <1>15, RunNever DEF Turns
<1> QED BY <1>11, <1>12, <1>14, <1>16, TurnsOn DEF Turns

LEMMA CancelIs ==
  ASSUME NEW e, NEW t \in Nat, NEW n \in Nat, WellFormed(e, t, n)
  PROVE  Turns(e, Cancel(e, t), t, n) /\ Waits(e, Cancel(e, t))
<1> DEFINE d == Lesser(e.delay, MaxDelay)
           g == IF d < Half THEN 0 ELSE d
           s == SetPending(e, NoChange)
           x == [s EXCEPT !.target = g]
           y == IF e.started THEN BackUnderMax(x) ELSE x
<1>0. Cancel(e, t) = IF AfterDump(e.pend) THEN RunPending(e, t) ELSE RunPending(y, t)
  BY DEF Cancel
<1>1. g \in 0..MaxDelay BY EngineConstants DEF WellFormed, Sending, Lesser
<1>2. Turns(e, s, t, n) /\ s.started = e.started /\ s.pend = NoChange BY Kinds1, PendingIs
<1> HIDE DEF g, s
<1>3. Turns(s, x, t, n) BY <1>1, <1>2, TargetIs DEF Turns
<1>4. x.started = e.started /\ x.pend = NoChange BY <1>2 DEF Turns, WellFormed, Shape
<1> HIDE DEF x
<1>13. BackUnderMax(x).pend.to # "Mask"
  <2> DEFINE r == SetPending(x, Reduce(MaxDelay))
  <2>1. Shape(r) /\ r.pend.to = "Reduce" BY <1>3, Shaped, Replaces DEF Turns, WellFormed, Reduce
  <2> HIDE DEF r
  <2>2. [r EXCEPT !.target = Lesser(@, MaxDelay)].pend = r.pend BY <2>1 DEF Shape
  <2>3. BackUnderMax(x) \in {x, [r EXCEPT !.target = Lesser(@, MaxDelay)]} BY DEF BackUnderMax, r
  <2>4. [r EXCEPT !.target = Lesser(@, MaxDelay)].pend.to # "Mask" BY <2>1, <2>2
  <2>5. x.pend.to # "Mask" BY <1>4 DEF NoChange
  <2> DEFINE z == [r EXCEPT !.target = Lesser(@, MaxDelay)]
  <2> HIDE DEF z
  <2> QED BY <2>3, <2>4, <2>5 DEF z
<1>14. y.pend.to # "Mask" BY <1>4, <1>13 DEF NoChange
<1>5. e.started => Turns(x, BackUnderMax(x), t, n) BY <1>3, <1>4, BackUnder DEF Turns
<1>6. Turns(x, x, t, n) BY <1>3, TurnsNot DEF Turns
<1>7. Turns(x, y, t, n) BY <1>5, <1>6
<1> HIDE DEF y
<1>8. Turns(e, x, t, n) BY <1>2, <1>3, TurnsOn DEF Turns
<1>9. Turns(e, y, t, n) BY <1>7, <1>8, TurnsOn DEF Turns
<1>10. Turns(y, RunPending(y, t), t, n) BY <1>9, RunIs DEF Turns
<1>11. Turns(e, RunPending(y, t), t, n) BY <1>9, <1>10, TurnsOn DEF Turns
<1>12. Turns(e, RunPending(e, t), t, n) /\ Waits(e, RunPending(e, t)) BY RunIs, RunWaits
<1>15. Waits(e, RunPending(y, t))
  <2>1. ~Awaits(RunPending(y, t)) BY <1>9, <1>14, RunNever DEF Turns
  <2> QED BY <2>1 DEF Waits
<1> QED BY <1>0, <1>11, <1>12, <1>15

(* The change under way learns something, and stays what it is. *)
LEMMA Learns ==
  ASSUME NEW e, NEW t \in Nat, NEW n \in Nat, WellFormed(e, t, n), NEW p \in Changes,
         p.to = e.pend.to
  PROVE  Turns(e, [e EXCEPT !.pend = p], t, n)
<1> DEFINE x == [e EXCEPT !.pend = p]
<1>1. Shape(x) /\ Keeps(e, x) /\ x.pend = p BY DEF Shape, WellFormed, Keeps
<1>3. Sending(x)
  <2>1. p # NoChange => e.pend # NoChange BY Kinded DEF WellFormed, Sending
  <2> QED BY <2>1 DEF Shape, WellFormed, Sending
<1>4. Slated(x)
  <2>1. x.slate = e.slate BY DEF Shape, WellFormed
  <2>2. Covers(e.pend) = Covers(x.pend) BY <1>1 DEF Covers
  <2> QED BY <2>1, <2>2 DEF Slated, WellFormed
<1> QED BY <1>1, <1>3, <1>4, TurnsIf

LEMMA ShownIs ==
  ASSUME NEW e, NEW t \in Nat, NEW n \in Nat, WellFormed(e, t, n), NEW change
  PROVE  Turns(e, SlateShown(e, change, t), t, n)
<1> DEFINE p == [e.pend EXCEPT !.shown = t]
           x == [e EXCEPT !.pend.shown = t]
           counts == /\ change = e.change
                     /\ e.pend.to = "Dump" \/ (e.pend.to = "Mask" /\ e.pend.anchor = None)
                     /\ e.pend.shown = None
           y == IF counts THEN x ELSE e
<1>1. SlateShown(e, change, t) = RunPending(y, t) BY DEF SlateShown
<1>2. ASSUME counts PROVE Turns(e, x, t, n)
  <2>1. e.pend \in Changes /\ e.pend.to \in {"Mask", "Dump"} BY <1>2 DEF WellFormed, Sending
  <2>2. p \in Changes /\ p.to = e.pend.to
    <3>1. CASE e.pend.to = "Mask" BY <2>1, <3>1 DEF Changes, NoChange
    <3>2. CASE e.pend.to = "Dump" BY <2>1, <3>2 DEF Changes, NoChange
    <3> QED BY <2>1, <3>1, <3>2
  <2>3. x = [e EXCEPT !.pend = p] OBVIOUS
  <2> HIDE DEF p, x
  <2> QED BY <2>2, <2>3, Learns
<1>3. Turns(e, y, t, n) BY <1>2, TurnsNot
<1> HIDE DEF y
<1>4. Turns(y, RunPending(y, t), t, n) BY <1>3, RunIs DEF Turns
<1> QED BY <1>1, <1>3, <1>4, TurnsOn DEF Turns

(* If x awaits the slate, and knows when it showed, so did e. *)
Recalls(e, x) ==
  Awaits(x) /\ x.pend.shown # None
    => Awaits(e) /\ x.pend.shown = e.pend.shown /\ x.change = e.change

LEMMA RecallsIf ==
  ASSUME NEW e, NEW x, Waits(e, x), Awaits(x) => x.change = e.change
  PROVE  Recalls(e, x)
BY DEF Recalls, Waits, Awaits

LEMMA SetDelayIs ==
  ASSUME NEW e, NEW t \in Nat, NEW n \in Nat, WellFormed(e, t, n), NEW d \in 0..MaxDelay,
         NEW wanted
  PROVE  Obeys(e, SetDelay(e, d, wanted, t), t, n) /\ Recalls(e, SetDelay(e, d, wanted, t))
<1> DEFINE mode == IF e.keep THEN wanted ELSE "Mask"
           c == Cleared(e)
           w == c.warn \ {"history"}
           x == [c EXCEPT !.target = d, !.warn = w]
           y == SetPending(x, NoChange)
           x1 == [x EXCEPT !.pend.delay = d]
           y1 == [y EXCEPT !.delay = d]
           m == [SetPending(y, Mask(d, t, None, FALSE, None, FALSE))
                   EXCEPT !.change = @ + 1, !.slate = TRUE]
           r == SetPending(y, Reduce(d))
<1>0. \/ AfterDump(e.pend) /\ SetDelay(e, d, wanted, t) = RunPending(x1, t)
      \/ SetDelay(e, d, wanted, t) \in {c, RunPending(y1, t)}
      \/ e.started /\ SetDelay(e, d, wanted, t) \in
                        {GoLiveCommand(y, "Now", t), RunPending(Rewind(y, d, t), t),
                         RunPending(m, t), RunPending(r, t), RunPending(y, t)}
  <2>1. SetDelay(e, d, wanted, t) =
          CASE d > 0 /\ AfterDump(e.pend) -> RunPending(x1, t)
            [] ~(d > 0 /\ AfterDump(e.pend)) /\ d = e.target /\ mode = "Mask" /\ e.pend.to = "Mask" -> c
            [] OTHER ->
                 IF ~e.started THEN RunPending(y1, t)
                 ELSE IF d = 0 THEN GoLiveCommand(y, "Now", t)
                 ELSE IF d > e.delay /\ mode = "Rewind" THEN RunPending(Rewind(y, d, t), t)
                 ELSE IF d > e.delay THEN RunPending(m, t)
                 ELSE IF d < e.delay THEN RunPending(r, t) ELSE RunPending(y, t)
    BY DEF SetDelay
  <2> HIDE DEF x1, c, y1, y, m, r, mode
  <2> QED BY <2>1
<1>1. Turns(e, c, t, n) /\ c.pend = e.pend /\ c.started = e.started BY ClearedIs
<1> HIDE DEF c
<1>2. WellFormed(c, t, n) BY <1>1 DEF Turns
<1>3. Turns(e, x, t, n) /\ x.pend = e.pend /\ x.started = e.started
  <2> HIDE DEF w
  <2>1. Shape(x) /\ Keeps(c, x) /\ x.pend = c.pend /\ x.started = c.started
    BY <1>2 DEF Shape, WellFormed, Keeps
  <2>2. Sending(x) BY <1>2 DEF Shape, WellFormed, Sending
  <2>3. Slated(x) BY <1>2 DEF Shape, WellFormed, Slated
  <2>4. Turns(c, x, t, n) BY <1>2, <2>1, <2>2, <2>3, TurnsIf
  <2> QED BY <1>1, <2>1, <2>4, TurnsOn DEF Turns
<1> HIDE DEF x
<1>4. d \in Nat BY EngineConstants
<1>5. Turns(x, y, t, n) /\ y.started = e.started /\ y.pend = NoChange
  BY <1>3, Kinds1, PendingIs DEF Turns
<1> HIDE DEF y
<1>6. Obeys(e, x, t, n) /\ Obeys(e, c, t, n) BY <1>1, <1>3 DEF Obeys, Turns, Keeps
<1>7. Obeys(e, y, t, n) BY <1>5, <1>6, ObeysTurn
<1>8. ASSUME NEW z, Obeys(e, z, t, n) PROVE Obeys(e, RunPending(z, t), t, n)
  <2>1. Turns(z, RunPending(z, t), t, n) BY <1>8, RunIs DEF Obeys
  <2> QED BY <1>8, <2>1, ObeysTurn
<1>9. ASSUME AfterDump(e.pend)
      PROVE  /\ Obeys(e, x1, t, n) /\ x1.change = e.change
             /\ Awaits(x1) => Awaits(e) /\ x1.pend.shown = e.pend.shown
  <2> DEFINE p == [e.pend EXCEPT !.delay = d]
  <2>1. e.pend \in Changes /\ e.pend.to \in {"Replay", "Hold", "Dump", "Mask"}
    BY <1>9 DEF WellFormed, Sending, AfterDump
  <2>2. p \in Changes /\ p.to = e.pend.to
    <3>1. CASE e.pend.to = "Mask" BY <1>4, <2>1, <3>1 DEF Changes, NoChange
    <3>2. CASE e.pend.to = "Dump" BY <1>4, <2>1, <3>2 DEF Changes, NoChange
    <3>3. CASE e.pend.to \in {"Replay", "Hold"} BY <1>4, <2>1, <3>3 DEF Changes, NoChange
    <3> QED BY <2>1, <3>1, <3>2, <3>3
  <2>3. x1 = [x EXCEPT !.pend = p] BY <1>3
  <2>5. e.pend.to = "Mask" => p.anchor = e.pend.anchor /\ p.shown = e.pend.shown
    BY <2>1 DEF Changes, NoChange
  <2> HIDE DEF p, x1
  <2>4. Turns(x, [x EXCEPT !.pend = p], t, n) BY <1>3, <2>2, Learns DEF Turns
  <2>6. Turns(e, x1, t, n) BY <1>3, <2>3, <2>4, TurnsOn DEF Turns
  <2>7. x1.pend = p BY <1>3, <2>3 DEF Turns, WellFormed, Shape
  <2>8. x1.change = e.change BY <2>6 DEF Turns, Keeps
  <2> QED BY <1>6, <2>2, <2>3, <2>4, <2>5, <2>7, <2>8, ObeysTurn DEF Awaits
<1>10. Obeys(e, y1, t, n) /\ y1.pend = NoChange
  <2>1. Turns(y, y1, t, n) BY <1>4, <1>5, DelayIs DEF Turns
  <2>2. y1.pend = y.pend BY <1>5 DEF Turns, WellFormed, Shape
  <2> QED BY <1>5, <1>7, <2>1, <2>2, ObeysTurn
<1>11. Obeys(e, GoLiveCommand(y, "Now", t), t, n) /\ ~Awaits(GoLiveCommand(y, "Now", t))
  <2>1. Turns(y, GoLiveCommand(y, "Now", t), t, n) /\ ~Awaits(GoLiveCommand(y, "Now", t))
    BY <1>7, GoLiveCommandIs DEF Obeys
  <2> QED BY <1>7, <2>1, ObeysTurn
<1>12. ASSUME e.started PROVE Obeys(e, Rewind(y, d, t), t, n) /\ Rewind(y, d, t).pend.to # "Mask"
  <2>1. Turns(y, Rewind(y, d, t), t, n) BY <1>4, <1>5, <1>7, <1>12, RewindIs DEF Obeys
  <2>2. Rewind(y, d, t).pend \in {y.pend, Reduce(d)} BY <1>7, RewindGoes DEF Obeys, WellFormed
  <2>3. Rewind(y, d, t).pend.to # "Mask" BY <1>5, <2>2 DEF NoChange, Reduce
  <2> QED BY <1>7, <2>1, <2>3, ObeysTurn
<1>13. ASSUME e.started PROVE Obeys(e, m, t, n) /\ m.pend.shown = None
  <2> DEFINE q == Mask(d, t, None, FALSE, None, FALSE)
  <2>1. q \in Changes /\ Covers(q)
    <3>1. None \in Int /\ FALSE \in BOOLEAN BY DEF None
    <3> QED BY <1>4, <3>1, Kinds2
  <2>2. m = PutUp(y, q) BY DEF PutUp
  <2> HIDE DEF q, m
  <2>3. WellFormed(y, t, n) /\ y.started BY <1>5, <1>7, <1>13 DEF Obeys
  <2>4. WellFormed(PutUp(y, q), t, n) /\ PutUp(y, q).mark = y.mark /\ PutUp(y, q).next = y.next
        /\ PutUp(y, q).pend = q
    BY <2>1, <2>3, CoveredIs
  <2>5. q.shown = None BY DEF q, Mask
  <2> QED BY <1>7, <2>2, <2>4, <2>5 DEF Obeys
<1>14. ASSUME e.started PROVE Obeys(e, r, t, n) /\ r.pend.to # "Mask"
  <2>1. Reduce(d) \in Changes /\ ~Covers(Reduce(d)) BY <1>4, Kinds1
  <2>2. Turns(y, r, t, n) /\ r.pend = Reduce(d) BY <1>5, <1>7, <1>14, <2>1, PendingIs DEF Obeys
  <2> QED BY <1>7, <2>2, ObeysTurn DEF Reduce
<1> HIDE DEF x1, y1, m, r
<1>15. Obeys(e, RunPending(y1, t), t, n) BY <1>8, <1>10
<1>16. AfterDump(e.pend) => Obeys(e, RunPending(x1, t), t, n) BY <1>8, <1>9
<1>17. ASSUME e.started
       PROVE  /\ Obeys(e, RunPending(Rewind(y, d, t), t), t, n)
              /\ Obeys(e, RunPending(m, t), t, n)
              /\ Obeys(e, RunPending(r, t), t, n)
              /\ Obeys(e, RunPending(y, t), t, n)
  <2>1. Obeys(e, Rewind(y, d, t), t, n) /\ Obeys(e, m, t, n) /\ Obeys(e, r, t, n)
    BY <1>12, <1>13, <1>14, <1>17
  <2> QED BY <1>7, <1>8, <2>1
<1>18. ASSUME NEW z, Obeys(e, z, t, n), z.pend.to # "Mask" PROVE Recalls(e, RunPending(z, t))
  <2>1. ~Awaits(RunPending(z, t)) BY <1>18, RunNever DEF Obeys
  <2> QED BY <2>1 DEF Recalls
<1>19. Recalls(e, RunPending(y1, t)) /\ Recalls(e, RunPending(y, t))
  <2>1. y1.pend.to # "Mask" /\ y.pend.to # "Mask" BY <1>5, <1>10 DEF NoChange
  <2> QED BY <1>7, <1>10, <1>18, <2>1
<1>20. ASSUME AfterDump(e.pend) PROVE Recalls(e, RunPending(x1, t))
  <2> DEFINE z == RunPending(x1, t)
  <2>1. Waits(x1, z) /\ z.change = x1.change BY <1>9, <1>20, RunWaits, RunIs DEF Obeys, Turns, Keeps
  <2> HIDE DEF z
  <2>2. Recalls(e, z) BY <1>9, <1>20, <2>1 DEF Recalls, Waits, Awaits
  <2> QED BY <2>2 DEF z
<1>21. ASSUME e.started
       PROVE  /\ Recalls(e, RunPending(Rewind(y, d, t), t)) /\ Recalls(e, RunPending(m, t))
              /\ Recalls(e, RunPending(r, t)) /\ Recalls(e, GoLiveCommand(y, "Now", t))
  <2>1. Waits(m, RunPending(m, t)) BY <1>13, <1>21, RunWaits DEF Obeys
  <2>2. Recalls(e, RunPending(m, t)) BY <1>13, <1>21, <2>1 DEF Recalls, Waits
  <2> QED BY <1>11, <1>12, <1>14, <1>18, <1>21, <2>2 DEF Recalls
<1>22. Recalls(e, c) BY <1>1 DEF Recalls, Awaits, Turns, Keeps
<1>23. /\ Obeys(e, SetDelay(e, d, wanted, t), t, n)
  BY <1>0, <1>6, <1>11, <1>15, <1>16, <1>17
<1>24. Recalls(e, SetDelay(e, d, wanted, t)) BY <1>0, <1>19, <1>20, <1>21, <1>22
<1> QED BY <1>23, <1>24

-----------------------------------------------------------------------------
(* poll_budget() *)

LEMMA ReplayOutIs ==
  ASSUME NEW e, NEW t \in Nat, NEW n \in Nat, WellFormed(e, t, n), e.pend.to = "Replay"
  PROVE  Turns(e, ReplayOut(e, t), t, n) /\ ReplayOut(e, t).pend.to \in {"Replay", "Hold"}
<1> DEFINE f == AiredKeyframe(e)
           h == Hold(e.pend.from, e.pend.delay)
           s == SetPending(e, h)
           x == [s EXCEPT !.hold = f, !.needSync = TRUE]
<1>1. ReplayOut(e, t) \in {e, x} BY DEF ReplayOut
<1>2. e.pend \in Changes /\ e.started BY DEF WellFormed, Sending, NoChange
<1>3. h \in Changes /\ ~Covers(h) /\ h.to = "Hold"
  <2>1. e.pend.from \in Int /\ e.pend.delay \in Nat BY <1>2, Kinded
  <2> QED BY <2>1, Kinds1 DEF Hold
<1> HIDE DEF h
<1>4. Turns(e, s, t, n) /\ s.pend = h BY <1>2, <1>3, PendingIs
<1> HIDE DEF s, f
<1>5. Turns(s, x, t, n) /\ x.pend = s.pend
  <2>1. WellFormed(s, t, n) BY <1>4 DEF Turns
  <2>2. Shape(x) /\ Keeps(s, x) /\ x.pend = s.pend BY <2>1 DEF Shape, WellFormed, Keeps
  <2>3. Sending(x) BY <2>1 DEF Shape, WellFormed, Sending
  <2>4. Slated(x) BY <2>1 DEF Shape, WellFormed, Slated
  <2> QED BY <2>1, <2>2, <2>3, <2>4, TurnsIf
<1> HIDE DEF x
<1>6. Turns(e, x, t, n) BY <1>4, <1>5, TurnsOn DEF Turns
<1> QED BY <1>1, <1>3, <1>4, <1>5, <1>6, TurnsNot

LEMMA BasedIs ==
  ASSUME NEW e, NEW t \in Nat, NEW n \in Nat, WellFormed(e, t, n)
  PROVE  Turns(e, Based(e), t, n) /\ Based(e).pend = e.pend /\ Based(e).started = e.started
<1> DEFINE x == [e EXCEPT !.cursor = e.base, !.needSync = TRUE]
<1>1. Shape(x) /\ Keeps(e, x) /\ x.pend = e.pend /\ x.started = e.started
  BY DEF Shape, WellFormed, Keeps
<1>2. Sending(x) BY DEF Shape, WellFormed, Sending, Buffer
<1>3. Slated(x) BY DEF Shape, WellFormed, Slated
<1>4. Turns(e, x, t, n) BY <1>1, <1>2, <1>3, TurnsIf
<1> QED BY <1>1, <1>4, TurnsNot DEF Based

LEMMA NewSessionIs ==
  ASSUME NEW e, NEW t \in Nat, NEW n \in Nat, WellFormed(e, t, n)
  PROVE  Turns(e, NewSession(e), t, n) /\ NewSession(e).pend = e.pend
         /\ NewSession(e).started = e.started
<1>1. Turns(e, [e EXCEPT !.needSync = TRUE], t, n) BY NeedsSync
<1>2. [e EXCEPT !.needSync = TRUE].pend = e.pend /\ [e EXCEPT !.needSync = TRUE].started = e.started
  BY DEF WellFormed, Shape
<1> QED BY <1>1, <1>2, TurnsNot DEF NewSession

LEMMA SkipDeadIs ==
  ASSUME NEW e, NEW t \in Nat, NEW n \in Nat, WellFormed(e, t, n)
  PROVE  Turns(e, SkipDead(e), t, n) /\ SkipDead(e).pend = e.pend
         /\ SkipDead(e).started = e.started
<1> DEFINE starts == {e.cursor, Greater(e.cursor, e.next)} \cup
                     {s \in Buffered(e) : s > e.cursor /\ e.ring[s].ses # e.ring[s - 1].ses}
           here(c) == \/ c >= e.next
                      \/ Candidates(e, c) # {} \/ e.ring[c].ses = e.session
                      \/ c > e.cursor /\ PastMark([e EXCEPT !.cursor = c])
                      \/ c > e.cursor /\ ReplayOver([e EXCEPT !.cursor = c])
           S == {c \in starts : here(c)}
           x == [e EXCEPT !.cursor = Min(S)]
<1>1. SkipDead(e) = IF e.needSync THEN x ELSE e BY DEF SkipDead
<1>2. e.cursor \in Nat /\ e.next \in Nat /\ e.cursor <= e.next
  BY DEF WellFormed, Sending, Buffer
<1>3. starts \subseteq 0 .. e.next /\ e.next \in starts
  BY <1>2 DEF WellFormed, Buffer, Buffered, Greater
<1>4. S \subseteq 0 .. e.next /\ S # {}
  <2>1. here(e.next) BY <1>2
  <2> HIDE DEF here, starts
  <2> QED BY <1>3, <2>1
<1> HIDE DEF S
<1>5. Min(S) \in S BY <1>2, <1>4, Extremes
<1>6. Min(S) \in Nat /\ Min(S) <= e.next
  <2> DEFINE m == Min(S)
  <2>1. m \in S BY <1>5
  <2> HIDE DEF m
  <2>2. m \in Nat /\ m <= e.next BY <1>2, <1>4, <2>1
  <2> QED BY <2>2 DEF m
<1>7. Turns(e, x, t, n) BY <1>6, CursorIs
<1>8. x.pend = e.pend /\ x.started = e.started BY DEF WellFormed, Shape
<1> QED BY <1>1, <1>7, <1>8, TurnsNot

LEMMA SkippedIs ==
  ASSUME NEW e, NEW t \in Nat, NEW n \in Nat, WellFormed(e, t, n)
  PROVE  Turns(e, Skipped(e), t, n) /\ Skipped(e).pend = e.pend /\ Skipped(e).started = e.started
<1> DEFINE b == Based(e)
           s == NewSession(b)
<1>1. Turns(e, b, t, n) /\ b.pend = e.pend /\ b.started = e.started BY BasedIs
<1> HIDE DEF b
<1>2. Turns(b, s, t, n) /\ s.pend = b.pend /\ s.started = b.started BY <1>1, NewSessionIs DEF Turns
<1> HIDE DEF s
<1>3. Turns(s, SkipDead(s), t, n) /\ SkipDead(s).pend = s.pend /\ SkipDead(s).started = s.started
  BY <1>2, SkipDeadIs DEF Turns
<1>4. Turns(e, s, t, n) BY <1>1, <1>2, TurnsOn DEF Turns
<1>5. Turns(e, SkipDead(s), t, n) BY <1>3, <1>4, TurnsOn DEF Turns
<1>6. Skipped(e) = SkipDead(s) BY DEF Skipped, s, b
<1> QED BY <1>1, <1>2, <1>3, <1>5, <1>6

LEMMA StartFromIs ==
  ASSUME NEW e, NEW t \in Nat, NEW n \in Nat, WellFormed(e, t, n), StartFrom(e, t) # None
  PROVE  StartFrom(e, t) \in e.syncs
<1> DEFINE all == IF e.cursor \in Buffered(e) THEN Candidates(e, e.cursor) ELSE {}
           old == {s \in all : Age(e, s, t) >= e.delay}
<1>1. all \subseteq e.syncs BY DEF Candidates
<1>2. StartFrom(e, t) = IF ~e.started /\ old # {} THEN Max(old) ELSE OldestOf(all) BY DEF StartFrom
<1> HIDE DEF all
<1>3. old \subseteq e.syncs BY <1>1
<1> HIDE DEF old
<1>4. e.syncs \subseteq 0 .. e.next /\ e.next \in Nat BY DEF WellFormed, Buffer, Buffered
<1>5. old # {} => Max(old) \in old
  <2>1. old \subseteq 0 .. e.next BY <1>3, <1>4
  <2> QED BY <1>4, <2>1, Extremes
<1>6. OldestOf(all) # None => OldestOf(all) \in all BY <1>1, Searched
<1> QED BY <1>1, <1>2, <1>3, <1>5, <1>6

LEMMA SyncedIs ==
  ASSUME NEW e, NEW t \in Nat, NEW n \in Nat, WellFormed(e, t, n)
  PROVE  Turns(e, Synced(e, t), t, n)
<1> DEFINE k == StartFrom(e, t)
           delay == DelayAgain(e, k, t)
           lateStart == ~e.started /\ e.pend = NoChange /\ delay >= e.target + Half
           x == SpliceTo(e, k, delay)
           x1 == [e EXCEPT !.cursor = e.mark + 1]
           x2 == SetPending(x, Reduce(e.target))
           x3 == BackUnderMax(x)
<1>0. \/ Synced(e, t) \in {e, x1}
      \/ k # None /\ Synced(e, t) \in {x2, x3}
  <2>1. Synced(e, t) =
          CASE ~e.needSync \/ k = None -> e
            [] e.needSync /\ k # None /\ e.mark # None /\ k > e.mark -> x1
            [] OTHER -> IF Age(e, k, t) < e.delay THEN e ELSE IF lateStart THEN x2 ELSE x3
    BY DEF Synced
  <2> HIDE DEF k, x1, x2, x3, lateStart
  <2>2. CASE ~e.needSync \/ k = None BY <2>1, <2>2
  <2>3. CASE e.needSync /\ k # None /\ e.mark # None /\ k > e.mark BY <2>1, <2>3
  <2>4. CASE ~(~e.needSync \/ k = None) /\ ~(e.needSync /\ k # None /\ e.mark # None /\ k > e.mark)
    <3>1. Synced(e, t) = IF Age(e, k, t) < e.delay THEN e ELSE IF lateStart THEN x2 ELSE x3
      BY <2>1, <2>4
    <3> QED BY <2>4, <3>1
  <2> QED BY <2>2, <2>3, <2>4
<1>1. Turns(e, x1, t, n)
  <2>1. e.mark + 1 \in Nat /\ e.mark + 1 <= e.next BY DEF WellFormed, Sending, Buffer
  <2> QED BY <2>1, CursorIs
<1>2. ASSUME k # None PROVE Turns(e, x2, t, n) /\ Turns(e, x3, t, n)
  <2>1. k \in e.syncs BY <1>2, StartFromIs
  <2> HIDE DEF k
  <2>2. delay \in Nat
    <3>1. Age(e, k, t) \in Nat BY <2>1, Place
    <3> QED BY <3>1 DEF DelayAgain, Greater, WellFormed, Sending
  <2> HIDE DEF delay
  <2>3. Turns(e, x, t, n) /\ x.started = TRUE BY <2>1, <2>2, SplicedIs
  <2> HIDE DEF x
  <2>4. Reduce(e.target) \in Changes /\ ~Covers(Reduce(e.target))
    <3>1. e.target \in Nat BY EngineConstants DEF WellFormed, Sending
    <3> QED BY <3>1, Kinds1
  <2>5. Turns(x, x2, t, n) BY <2>3, <2>4, PendingIs DEF Turns
  <2>6. Turns(x, x3, t, n) BY <2>3, BackUnder DEF Turns
  <2> QED BY <2>3, <2>5, <2>6, TurnsOn DEF Turns
<1> HIDE DEF k, x1, x2, x3
<1> QED BY <1>0, <1>1, <1>2, TurnsNot

LEMMA PositionedIs ==
  ASSUME NEW e, NEW t \in Nat, NEW n \in Nat, WellFormed(e, t, n)
  PROVE  Turns(e, Positioned(e, t), t, n)
<1> DEFINE s == Skipped(e)
           m == Synced(s, t)
           ends == EndsAt(e)
           x == CASE ends = "start" -> e
                  [] ends = "base" -> Based(e)
                  [] ends = "skipped" -> s
                  [] ends = "message" -> m
<1>0. Positioned(e, t) = IF ends \in {"start", "skipped"} /\ ReplayOver(x) THEN ReplayOut(x, t) ELSE x
  BY DEF Positioned
<1>1. ends \in {"start", "base", "skipped", "message"} BY DEF EndsAt
<1>2. Turns(e, s, t, n) BY SkippedIs
<1>3. Turns(e, Based(e), t, n) BY BasedIs
<1> HIDE DEF s
<1>4. Turns(s, m, t, n) BY <1>2, SyncedIs DEF Turns
<1>5. Turns(e, m, t, n) BY <1>2, <1>4, TurnsOn DEF Turns
<1> HIDE DEF m, ends
<1>6. Turns(e, x, t, n) BY <1>1, <1>2, <1>3, <1>5, TurnsNot
<1> HIDE DEF x
<1>7. ASSUME ReplayOver(x) PROVE Turns(e, ReplayOut(x, t), t, n)
  <2>1. x.pend.to = "Replay" BY <1>7 DEF ReplayOver
  <2>2. Turns(x, ReplayOut(x, t), t, n) BY <1>6, <2>1, ReplayOutIs DEF Turns
  <2> QED BY <1>6, <2>2, TurnsOn DEF Turns
<1> QED BY <1>0, <1>6, <1>7

(* A message is taken out of the buffer, and the change goes on. *)
LEMMA HandedIs ==
  ASSUME NEW e, NEW t \in Nat, NEW n \in Nat, WellFormed(e, t, n), e.cursor \in Buffered(e)
  PROVE  LET x == [e EXCEPT !.first = IF @ = None THEN e.cursor ELSE @, !.spliced = FALSE,
                            !.cursor = @ + 1]
             y == [e EXCEPT !.cursor = @ + 1]
         IN Turns(e, x, t, n) /\ Turns(e, y, t, n)
<1> DEFINE c == e.cursor + 1
           f == IF e.first = None THEN e.cursor ELSE e.first
           x == [e EXCEPT !.first = IF @ = None THEN e.cursor ELSE @, !.spliced = FALSE, !.cursor = @ + 1]
           y == [e EXCEPT !.cursor = @ + 1]
<1>1. c \in Nat /\ c <= e.next BY SMTT(30) DEF WellFormed, Sending, Buffer, Buffered
<1>2. Turns(e, y, t, n) BY <1>1, CursorIs
<1>3. Turns(e, x, t, n)
  <2>1. Shape(x) /\ Keeps(e, x) BY DEF Shape, WellFormed, Keeps
  <2>2. Sending(x) BY <1>1 DEF Shape, WellFormed, Sending
  <2>3. Slated(x) BY DEF Shape, WellFormed, Slated
  <2> QED BY <2>1, <2>2, <2>3, TurnsIf
<1> QED BY <1>2, <1>3

LEMMA TakenIs ==
  ASSUME NEW e, NEW t \in Nat, NEW n \in Nat, WellFormed(e, t, n), e.cursor \in Buffered(e)
  PROVE  Turns(e, HandedOver(e, t), t, n) /\ Turns(e, Dropped(e, t), t, n)
<1> DEFINE x == [e EXCEPT !.first = IF @ = None THEN e.cursor ELSE @, !.spliced = FALSE, !.cursor = @ + 1]
           y == [e EXCEPT !.cursor = @ + 1]
<1>1. HandedOver(e, t) = RunPending(x, t) /\ Dropped(e, t) = RunPending(y, t)
  BY DEF HandedOver, Dropped
<1>2. Turns(e, x, t, n) /\ Turns(e, y, t, n) BY HandedIs
<1> HIDE DEF x, y
<1>3. Turns(x, RunPending(x, t), t, n) BY <1>2, RunIs DEF Turns
<1>4. Turns(y, RunPending(y, t), t, n) BY <1>2, RunIs DEF Turns
<1> QED BY <1>1, <1>2, <1>3, <1>4, TurnsOn DEF Turns

LEMMA LookedIs ==
  ASSUME NEW e, NEW t \in Nat, NEW n \in Nat, WellFormed(e, t, n)
  PROVE  LET r == Refreshed(e, t)
             x == Looked(r, t)
         IN /\ WellFormed(r, t, n) /\ Trims(e, r) /\ Turns(r, x, t, n) /\ WellFormed(x, t, n)
            /\ x.next = e.next /\ x.mark = e.mark /\ x.change = e.change
<1> DEFINE v == Evict(e, t)
           r == Refreshed(e, t)
           x == Looked(r, t)
<1>1. WellFormed(v, t, n) /\ Trims(e, v) BY EvictedIs
<1>2. r = RunPending(v, t) BY DEF Refreshed
<1> HIDE DEF v
<1>3. Turns(v, r, t, n) BY <1>1, <1>2, RunIs
<1> HIDE DEF r
<1>4. WellFormed(r, t, n) /\ Trims(e, r) BY <1>1, <1>3 DEF Turns, Keeps, Trims, Buffered
<1>5. Turns(r, x, t, n) BY <1>4, PositionedIs, TurnsNot DEF Looked
<1> HIDE DEF x
<1> QED BY <1>4, <1>5 DEF Turns, Keeps, Trims, r, x

-----------------------------------------------------------------------------
(* What the engine does besides moving its change on never touches one     *)
(* under the slate, and takes no warning back.                             *)

Leaves(e, x) ==
  /\ x.pend = e.pend \/ (x.pend.to # "Mask" /\ e.pend.to # "Mask")
  /\ e.warn \subseteq x.warn

LEMMA LeavesOn ==
  ASSUME NEW e, NEW x, NEW y, Leaves(e, x), Leaves(x, y)
  PROVE  Leaves(e, y)
BY DEF Leaves

LEMMA LeavesWaiting ==
  ASSUME NEW e, NEW x, Leaves(e, x)
  PROVE  Waits(e, x) /\ (e.pend.to = "Mask" => x.pend = e.pend)
BY DEF Leaves, Waits, Awaits

LEMMA ReducesOnly ==
  ASSUME NEW e, Shape(e), NEW d, e.pend = NoChange \/ e.pend.to = "Reduce"
  PROVE  Leaves(e, SetPending(e, Reduce(d)))
<1>1. SetPending(e, Reduce(d)).pend = Reduce(d) /\ SetPending(e, Reduce(d)).warn = e.warn
  BY Replaces
<1>2. Reduce(d).to = "Reduce" BY DEF Reduce
<1>3. NoChange.to = "None" BY DEF NoChange
<1> QED BY <1>1, <1>2, <1>3 DEF Leaves

LEMMA BackUnderLeaves ==
  ASSUME NEW e, Shape(e)
  PROVE  Leaves(e, BackUnderMax(e))
<1> DEFINE r == SetPending(e, Reduce(MaxDelay))
           x == [r EXCEPT !.target = Lesser(@, MaxDelay)]
<1>1. Shape(r) BY Shaped
<1>2. e.pend = NoChange => Leaves(e, r) BY ReducesOnly
<1>3. BackUnderMax(e) = IF e.pend = NoChange /\ e.delay > MaxDelay + KeyInterval THEN x ELSE e
  BY DEF BackUnderMax
<1> HIDE DEF r
<1>4. x.pend = r.pend /\ x.warn = r.warn BY <1>1 DEF Shape
<1> HIDE DEF x
<1> QED BY <1>2, <1>3, <1>4 DEF Leaves

LEMMA BackToTargetLeaves ==
  ASSUME NEW e, Shape(e)
  PROVE  Leaves(e, BackToTarget(e))
<1> DEFINE g == SetPending(e, GoLiveNow(e.next - 1))
           r == SetPending(e, Reduce(e.target))
           free == e.pend = NoChange \/ (e.pend.to = "Reduce" /\ e.pend.delay > e.target)
<1>1. BackToTarget(e) = IF e.delay >= e.target + Half /\ free
                        THEN IF e.target = 0 THEN g ELSE r ELSE e
  <2>1. SetPending(e, IF e.target = 0 THEN GoLiveNow(e.next - 1) ELSE Reduce(e.target))
          = IF e.target = 0 THEN g ELSE r
    OBVIOUS
  <2> HIDE DEF g, r
  <2> QED BY <2>1 DEF BackToTarget
<1>2. free => Leaves(e, r) BY ReducesOnly
<1>3. free => Leaves(e, g)
  <2>1. g.pend = GoLiveNow(e.next - 1) /\ g.warn = e.warn BY Replaces
  <2>2. g.pend.to = "GoLiveNow" BY <2>1 DEF GoLiveNow
  <2>3. NoChange.to = "None" BY DEF NoChange
  <2> HIDE DEF g
  <2> QED BY <2>1, <2>2, <2>3 DEF Leaves
<1> HIDE DEF g, r, free
<1> QED BY <1>1, <1>2, <1>3 DEF Leaves

LEMMA MemoryLeaves ==
  ASSUME NEW e, NEW t, Shape(e)
  PROVE  Leaves(e, MemoryShort(e, t))
<1> DEFINE oldest == OldestOf(e.syncs)
           delay  == Greater(0, Age(e, oldest, t) - KeyInterval)
           w == [e EXCEPT !.warn = @ \cup {"memory"}]
           lower  == \/ e.pend = NoChange
                     \/ e.pend.to = "Reduce" /\ delay < e.pend.delay
           x1 == [w EXCEPT !.delay = Lesser(@, delay)]
           x2 == SetPending(w, Reduce(delay))
<1>1. Shape(w) /\ w.pend = e.pend /\ w.warn = e.warn \cup {"memory"} BY DEF Shape
<1>2. \/ MemoryShort(e, t) \in {e, x1, w}
      \/ lower /\ MemoryShort(e, t) = x2
  <2>1. MemoryShort(e, t) =
          CASE oldest = None -> e
            [] oldest # None /\ ~e.started -> x1
            [] oldest # None /\ e.started -> IF lower /\ delay < e.delay THEN x2 ELSE w
    BY DEF MemoryShort
  <2> HIDE DEF oldest, delay, lower, x1, x2, w
  <2>2. CASE oldest = None BY <2>1, <2>2
  <2>3. CASE oldest # None /\ ~e.started BY <2>1, <2>3
  <2>4. CASE oldest # None /\ e.started BY <2>1, <2>4
  <2> QED BY <2>2, <2>3, <2>4
<1> HIDE DEF w
<1>3. x1.pend = w.pend /\ x1.warn = w.warn BY <1>1 DEF Shape
<1>4. lower => Leaves(w, x2)
  <2>1. lower => w.pend = NoChange \/ w.pend.to = "Reduce" BY <1>1
  <2> HIDE DEF lower, delay
  <2> QED BY <1>1, <2>1, ReducesOnly
<1>5. Leaves(e, w) BY <1>1 DEF Leaves
<1> HIDE DEF x1, x2, lower
<1>6. Leaves(e, e) /\ Leaves(e, x1) BY <1>3, <1>5 DEF Leaves
<1>7. lower => Leaves(e, x2) BY <1>4, <1>5, LeavesOn
<1> QED BY <1>2, <1>5, <1>6, <1>7

LEMMA EvictLeaves ==
  ASSUME NEW e, NEW t \in Nat, NEW n \in Nat, WellFormed(e, t, n)
  PROVE  Leaves(e, Evict(e, t))
<1> DEFINE goes(s) == OverRam(e, s) \/ Expired(e, s, t) \/ NotNeeded(e, s, t)
           b == Min({s \in GroupStarts(e) : s = e.next \/ ~goes(s)})
           left == [Keeping(e, b .. e.next - 1) EXCEPT !.base = b]
<1>1. Evict(e, t) \in {e, left, MemoryShort(left, t)}
  <2> DEFINE lost == {s \in GroupStarts(e) : s < b /\ Unaired(e, s, t)
                                             /\ ~Expired(e, s, t) /\ ~NotNeeded(e, s, t)}
  <2>1. Evict(e, t) = CASE e.base = e.next \/ ~goes(e.base) -> e
                        [] e.base # e.next /\ goes(e.base) ->
                             IF lost # {} THEN MemoryShort(left, t) ELSE left
    BY DEF Evict
  <2> HIDE DEF lost, goes, b, left
  <2> QED BY <2>1
<1> HIDE DEF b
<1>2. Shape(left) /\ left.pend = e.pend /\ left.warn = e.warn
  BY DEF WellFormed, Shape, Keeping
<1> HIDE DEF left
<1>3. Leaves(left, MemoryShort(left, t)) BY <1>2, MemoryLeaves
<1>4. Leaves(e, left) /\ Leaves(e, e) BY <1>2 DEF Leaves
<1>5. Leaves(e, MemoryShort(left, t)) BY <1>3, <1>4, LeavesOn
<1> QED BY <1>1, <1>4, <1>5

LEMMA IngestLeaves ==
  ASSUME NEW e, NEW t \in Nat, NEW n \in Nat, WellFormed(e, t, n), e.active,
         NEW m, m.uid = n + 1
  PROVE  Leaves(e, Ingest(e, m, t))
<1> DEFINE video == e.video \/ m.kind # "audio"
           entry == [uid |-> m.uid, at |-> t, ses |-> e.session, kind |-> m.kind, ref |-> m.ref]
           sync  == m.kind = "key" \/ ~video
           x == Grown(e, video, sync, entry)
<1>1. Ingest(e, m, t) = Evict(x, t) BY DEF Ingest, Grown
<1>2. entry.at = t /\ entry.uid = n + 1 /\ entry.ses = e.session OBVIOUS
<1> HIDE DEF video, entry, sync
<1>3. WellFormed(x, t, n + 1) /\ x.pend = e.pend BY <1>2, GrownIs
<1>4. x.warn = e.warn BY DEF Grown, WellFormed, Shape
<1> HIDE DEF x
<1>5. n + 1 \in Nat OBVIOUS
<1>6. Leaves(x, Evict(x, t)) BY <1>3, <1>5, EvictLeaves
<1> QED BY <1>1, <1>3, <1>4, <1>6 DEF Leaves

LEMMA ConnectedLeaves ==
  ASSUME NEW e, NEW t, Shape(e)
  PROVE  Leaves(e, OutputConnected(e, t))
<1> DEFINE x == [e EXCEPT !.up = TRUE, !.first = None]
           k == SyncAtOrBefore(x, x.cursor)
           delay == DelayAgain(x, k, t)
           y == SpliceTo(x, k, delay)
           w == IF delay > x.delay THEN y.warn \cup {"grew"} ELSE y.warn
           z == [y EXCEPT !.warn = w]
           back == BackUnderMax(z)
           idle == [x EXCEPT !.needSync = TRUE]
<1>1. OutputConnected(e, t) \in {idle, BackToTarget(back), back, x}
  <2>1. z = [y EXCEPT !.warn = IF delay > x.delay THEN @ \cup {"grew"} ELSE @] OBVIOUS
  <2>2. OutputConnected(e, t) =
          CASE x.pend.to \in {"Hold", "Dump"} \/ (x.started /\ k = None) -> idle
            [] x.pend.to \notin {"Hold", "Dump"} /\ x.started /\ k # None ->
                 IF Restore THEN BackToTarget(back) ELSE back
            [] OTHER -> x
    BY <2>1 DEF OutputConnected
  <2> HIDE DEF x, k, idle, back
  <2> QED BY <2>2
<1>2. Shape(x) /\ x.pend = e.pend /\ x.warn = e.warn BY DEF Shape
<1> HIDE DEF x, k, delay
<1>3. Shape(y) /\ y.pend = x.pend /\ y.warn = x.warn BY <1>2, Shaped, Splices, SplicesOver
<1>4. y.warn \subseteq w OBVIOUS
<1> HIDE DEF y, w
<1>5. Shape(z) /\ z.pend = y.pend /\ z.warn = w BY <1>3 DEF Shape
<1> HIDE DEF z
<1>6. Leaves(z, back) /\ Shape(back)
  <2>1. Shape(BackUnderMax(z))
    <3> DEFINE r == SetPending(z, Reduce(MaxDelay))
    <3>1. Shape(r) BY <1>5, Shaped
    <3> HIDE DEF r
    <3>2. Shape([r EXCEPT !.target = Lesser(@, MaxDelay)]) BY <3>1 DEF Shape
    <3> QED BY <1>5, <3>2 DEF BackUnderMax, r
  <2> QED BY <1>5, <2>1, BackUnderLeaves
<1> HIDE DEF back
<1>7. Leaves(back, BackToTarget(back)) BY <1>6, BackToTargetLeaves
<1>8. Leaves(e, x) /\ Leaves(e, z) BY <1>2, <1>3, <1>4, <1>5 DEF Leaves
<1>9. Leaves(e, back) BY <1>6, <1>8, LeavesOn
<1>10. Leaves(e, BackToTarget(back)) BY <1>7, <1>9, LeavesOn
<1>11. Leaves(e, idle)
  <2>1. idle.pend = x.pend /\ idle.warn = x.warn BY <1>2 DEF Shape
  <2> QED BY <1>2, <2>1 DEF Leaves
<1> QED BY <1>1, <1>8, <1>9, <1>10, <1>11

LEMMA ReplayOutLeaves ==
  ASSUME NEW e, NEW t, Shape(e), ReplayOver(e)
  PROVE  Leaves(e, ReplayOut(e, t))
<1> DEFINE f == AiredKeyframe(e)
           s == SetPending(e, Hold(e.pend.from, e.pend.delay))
           x == [s EXCEPT !.hold = f, !.needSync = TRUE]
<1>1. ReplayOut(e, t) \in {e, x} BY DEF ReplayOut
<1>2. Shape(s) /\ s.pend.to = "Hold" /\ s.warn = e.warn BY Shaped, Replaces DEF Hold
<1> HIDE DEF s, f
<1>3. x.pend = s.pend /\ x.warn = s.warn BY <1>2 DEF Shape
<1> HIDE DEF x
<1>4. e.pend.to = "Replay" BY DEF ReplayOver
<1> QED BY <1>1, <1>2, <1>3, <1>4 DEF Leaves

LEMMA SkippedLeaves ==
  ASSUME NEW e, Shape(e)
  PROVE  /\ Shape(Based(e)) /\ Based(e).pend = e.pend /\ Based(e).warn = e.warn
         /\ Shape(Skipped(e)) /\ Skipped(e).pend = e.pend /\ Skipped(e).warn = e.warn
<1> DEFINE b == Based(e)
           s == NewSession(b)
<1>1. Shape(b) /\ b.pend = e.pend /\ b.warn = e.warn BY DEF Based, Shape
<1> HIDE DEF b
<1>2. Shape(s) /\ s.pend = b.pend /\ s.warn = b.warn
  <2> DEFINE y == [b EXCEPT !.needSync = TRUE]
  <2>1. Shape(y) /\ y.pend = b.pend /\ y.warn = b.warn BY <1>1 DEF Shape
  <2>2. s \in {b, y} BY DEF NewSession
  <2> HIDE DEF y, s
  <2> QED BY <1>1, <2>1, <2>2
<1> HIDE DEF s
<1>3. ASSUME NEW c
      PROVE  LET y == [s EXCEPT !.cursor = c]
             IN Shape(y) /\ y.pend = s.pend /\ y.warn = s.warn
  BY <1>2 DEF Shape
<1>4. \E c : SkipDead(s) \in {s, [s EXCEPT !.cursor = c]} BY DEF SkipDead
<1>5. Shape(SkipDead(s)) /\ SkipDead(s).pend = s.pend /\ SkipDead(s).warn = s.warn
  <2>1. PICK c : SkipDead(s) \in {s, [s EXCEPT !.cursor = c]} BY <1>4
  <2> QED BY <1>2, <1>3, <2>1
<1>6. Skipped(e) = SkipDead(s) BY DEF Skipped, s, b
<1> QED BY <1>1, <1>2, <1>5, <1>6 DEF b

LEMMA SyncedLeaves ==
  ASSUME NEW e, NEW t, Shape(e)
  PROVE  Leaves(e, Synced(e, t))
<1> DEFINE k == StartFrom(e, t)
           delay == DelayAgain(e, k, t)
           lateStart == ~e.started /\ e.pend = NoChange /\ delay >= e.target + Half
           x == SpliceTo(e, k, delay)
           x1 == [e EXCEPT !.cursor = e.mark + 1]
           x2 == SetPending(x, Reduce(e.target))
           x3 == BackUnderMax(x)
<1>1. \/ Synced(e, t) \in {e, x1, x3}
      \/ e.pend = NoChange /\ Synced(e, t) = x2
  <2>1. Synced(e, t) =
          CASE ~e.needSync \/ k = None -> e
            [] e.needSync /\ k # None /\ e.mark # None /\ k > e.mark -> x1
            [] OTHER -> IF Age(e, k, t) < e.delay THEN e ELSE IF lateStart THEN x2 ELSE x3
    BY DEF Synced
  <2>5. lateStart => e.pend = NoChange OBVIOUS
  <2> HIDE DEF k, x1, x2, x3, lateStart
  <2>2. CASE ~e.needSync \/ k = None BY <2>1, <2>2
  <2>3. CASE e.needSync /\ k # None /\ e.mark # None /\ k > e.mark BY <2>1, <2>3
  <2>4. CASE ~(~e.needSync \/ k = None) /\ ~(e.needSync /\ k # None /\ e.mark # None /\ k > e.mark)
    <3>1. Synced(e, t) = IF Age(e, k, t) < e.delay THEN e ELSE IF lateStart THEN x2 ELSE x3
      BY <2>1, <2>4
    <3> QED BY <2>5, <3>1
  <2> QED BY <2>2, <2>3, <2>4
<1>2. Leaves(e, e) /\ Leaves(e, x1)
  <2>1. x1.pend = e.pend /\ x1.warn = e.warn BY DEF Shape
  <2> QED BY <2>1 DEF Leaves
<1> HIDE DEF k, delay, x1
<1>3. Shape(x) /\ x.pend = e.pend /\ x.warn = e.warn BY Shaped, Splices, SplicesOver
<1> HIDE DEF x
<1>4. Leaves(x, x3) BY <1>3, BackUnderLeaves
<1>5. e.pend = NoChange => Leaves(x, x2) BY <1>3, ReducesOnly
<1> HIDE DEF x2, x3
<1>6. Leaves(e, x3) /\ (e.pend = NoChange => Leaves(e, x2)) BY <1>3, <1>4, <1>5 DEF Leaves
<1> QED BY <1>1, <1>2, <1>6

LEMMA LookedLeaves ==
  ASSUME NEW e, NEW t, Shape(e)
  PROVE  Leaves(e, Looked(e, t))
<1> DEFINE s == Skipped(e)
           m == Synced(s, t)
           ends == EndsAt(e)
           x == CASE ends = "start" -> e
                  [] ends = "base" -> Based(e)
                  [] ends = "skipped" -> s
                  [] ends = "message" -> m
<1>1. Positioned(e, t) = IF ends \in {"start", "skipped"} /\ ReplayOver(x) THEN ReplayOut(x, t) ELSE x
  BY DEF Positioned
<1>2. ends \in {"start", "base", "skipped", "message"} BY DEF EndsAt
<1>3. /\ Shape(s) /\ s.pend = e.pend /\ s.warn = e.warn
      /\ Based(e).pend = e.pend /\ Based(e).warn = e.warn
  BY SkippedLeaves
<1> HIDE DEF s
<1>4. Leaves(s, m) BY <1>3, SyncedLeaves
<1>5. Leaves(e, m) BY <1>3, <1>4 DEF Leaves
<1> HIDE DEF m, ends
<1>6. Leaves(e, x)
  <2>1. Leaves(e, e) /\ Leaves(e, s) /\ Leaves(e, Based(e)) BY <1>3 DEF Leaves
  <2> QED BY <1>2, <1>5, <2>1
<1>7. ends \in {"start", "skipped"} => x \in {e, s} BY <1>2
<1> HIDE DEF x
<1>8. ASSUME ends \in {"start", "skipped"}, ReplayOver(x) PROVE Leaves(e, ReplayOut(x, t))
  <2>1. Shape(x) BY <1>3, <1>7, <1>8
  <2>2. Leaves(x, ReplayOut(x, t)) BY <1>8, <2>1, ReplayOutLeaves
  <2> QED BY <1>6, <2>2, LeavesOn
<1>9. Leaves(e, Positioned(e, t)) BY <1>1, <1>6, <1>8
<1>10. Leaves(e, e) BY DEF Leaves
<1> QED BY <1>9, <1>10 DEF Looked

(* After a jump the output is where it is to go on. *)
LEMMA StaysPut ==
  ASSUME NEW e, NEW t \in Nat, NEW n \in Nat, WellFormed(e, t, n),
         e.pend = NoChange, ~e.needSync, e.cursor \in e.syncs, e.playing = e.ring[e.cursor].ses
  PROVE  Looked(e, t) = e
<1>1. ~Halted(e) /\ ~ReplayOver(e) BY DEF Halted, ReplayOver, NoChange
<1>2. e.cursor \in Buffered(e) /\ ~(e.cursor < e.base)
  <2>1. e.cursor \in Buffered(e) /\ e.base \in Nat BY DEF WellFormed, Buffer
  <2> QED BY <2>1 DEF Buffered
<1>3. Based(e) = e BY <1>2 DEF Based
<1>4. NewSession(e) = e BY DEF NewSession
<1>5. SkipDead(e) = e BY DEF SkipDead
<1>6. Skipped(e) = e BY <1>3, <1>4, <1>5 DEF Skipped
<1>7. Synced(e, t) = e BY DEF Synced
<1>8. EndsAt(e) \in {"base", "message"} BY <1>1, <1>6, <1>3 DEF EndsAt
<1>9. Positioned(e, t) = e BY <1>3, <1>6, <1>7, <1>8 DEF Positioned
<1> QED BY <1>9 DEF Looked

(* x comes of e, which awaits the slate, within a call: it goes on waiting,*)
(* or is at or past the jump it hides, or has picked where to jump.        *)
Hides(e, x) ==
  \/ x.pend = e.pend
  \/ Anchors(e, x)
  \/ /\ x.pend = NoChange
     /\ Sure(e, IF x.spliced THEN x.cursor ELSE x.cursor - 1, x)

(* What x, which comes of e, has to start from was there in e. *)
Within(e, x) == x.syncs \subseteq e.syncs /\ \A s \in x.syncs : x.ring[s] = e.ring[s]

LEMMA SureOn ==
  ASSUME NEW e, NEW v, NEW k, NEW r, NEW x, Sure(v, k, r), Within(e, v), v.pend = e.pend,
         r.warn \subseteq x.warn
  PROVE  Sure(e, k, x)
BY DEF Sure, Within

(* Nothing is left of the wait, and the jump it was for is hidden. *)
Unmasks(e, x) ==
  \/ x.pend.to = "Mask" /\ x.pend.anchor \in x.syncs /\ Sure(e, x.pend.anchor, x)
  \/ x.pend = NoChange /\ x.spliced /\ Sure(e, x.cursor, x)

LEMMA LookedHides ==
  ASSUME NEW e, NEW t \in Nat, NEW n \in Nat, WellFormed(e, t, n), Awaits(e)
  PROVE  LET x == Looked(Refreshed(e, t), t)
         IN Within(e, x) /\ (x.pend = e.pend \/ Unmasks(e, x))
<1> DEFINE v == Evict(e, t)
           r == RunPending(v, t)
           x == Looked(r, t)
<1>1. WellFormed(v, t, n) /\ Trims(e, v) /\ Leaves(e, v) BY EvictedIs, EvictLeaves
<1>2. v.pend = e.pend /\ v.pend.to = "Mask" BY <1>1, LeavesWaiting DEF Awaits
<1>3. Within(e, v)
  <2>1. v.syncs \subseteq Buffered(v) BY <1>1 DEF WellFormed, Buffer
  <2> QED BY <1>1, <2>1 DEF Trims, Within
<1>4. x = Looked(Refreshed(e, t), t) BY DEF Refreshed
<1> HIDE DEF v
<1>5. r = UnderSlate(v, v.pend, t) BY <1>2, RunUnderSlate
<1>6. Turns(v, r, t, n) BY <1>1, RunIs
<1>7. r.pend = v.pend \/ Anchors(v, r) \/ Jumps(v, r)
  BY <1>1, <1>2, <1>5, Uncovers DEF Awaits
<1> HIDE DEF r
<1>8. WellFormed(r, t, n) /\ Within(v, r) /\ Within(r, v) /\ r.syncs = v.syncs /\ r.ring = v.ring
  BY <1>6 DEF Turns, Keeps, Within
<1>9. Leaves(r, x) BY <1>8, LookedLeaves DEF WellFormed
<1>10. Turns(r, x, t, n) BY <1>8, PositionedIs, TurnsNot DEF Looked
<1>11. Jumps(v, r) => x = r
  <2>1. ASSUME Jumps(v, r) PROVE x = r
    <3>1. r.pend = NoChange /\ ~r.needSync /\ r.cursor \in r.syncs /\ r.playing = r.ring[r.cursor].ses
      BY <1>8, <2>1 DEF Jumps, Sure
    <3> QED BY <1>8, <3>1, StaysPut
  <2> QED BY <2>1
<1> HIDE DEF x
<1>12. x.syncs = v.syncs /\ x.ring = v.ring BY <1>8, <1>10 DEF Turns, Keeps
<1>13. Within(e, x) BY <1>3, <1>12 DEF Within
<1>14. CASE r.pend = v.pend
  <2>1. x.pend = e.pend BY <1>2, <1>9, <1>14, LeavesWaiting
  <2> QED BY <1>4, <1>13, <2>1
<1>15. CASE Anchors(v, r)
  <2>1. r.pend.to = "Mask" /\ Sure(v, r.pend.anchor, r) BY <1>15 DEF Anchors
  <2>2. x.pend = r.pend /\ r.warn \subseteq x.warn BY <1>9, <2>1 DEF Leaves
  <2>3. Sure(e, x.pend.anchor, x) BY <1>2, <1>3, <2>1, <2>2, SureOn
  <2>4. x.pend.anchor \in x.syncs BY <1>12, <2>1, <2>2 DEF Sure
  <2> QED BY <1>4, <1>13, <2>1, <2>2, <2>3, <2>4 DEF Unmasks
<1>16. CASE Jumps(v, r)
  <2>1. r.pend = NoChange /\ r.spliced /\ Sure(v, r.cursor, r) BY <1>16 DEF Jumps
  <2>2. Sure(e, r.cursor, r) BY <1>2, <1>3, <2>1, SureOn
  <2>3. Unmasks(e, r) BY <2>1, <2>2 DEF Unmasks
  <2> QED BY <1>4, <1>11, <1>13, <1>16, <2>3
<1> QED BY <1>7, <1>14, <1>15, <1>16

LEMMA RunHides ==
  ASSUME NEW e, NEW y, NEW t \in Nat, NEW n \in Nat, WellFormed(y, t, n), Within(e, y), Awaits(e),
         y.pend = e.pend \/ (Unmasks(e, y) /\ y.pend.to = "Mask")
  PROVE  Hides(e, RunPending(y, t))
<1> DEFINE x == RunPending(y, t)
<1>1. y.pend.to = "Mask" BY DEF Awaits
<1>2. x = UnderSlate(y, y.pend, t) BY <1>1, RunUnderSlate
<1>3. /\ Awaits(y) => x.pend = y.pend \/ Anchors(y, x) \/ Jumps(y, x)
      /\ y.pend.anchor \in y.syncs =>
           /\ x.warn = y.warn
           /\ \/ x.pend.to = "Mask" /\ x.pend.anchor = y.pend.anchor
              \/ x.pend = NoChange /\ x.spliced /\ x.cursor = y.pend.anchor
  BY <1>1, <1>2, Uncovers
<1> SUFFICES Hides(e, x) BY DEF x
<1> HIDE DEF x
<1>4. CASE y.pend = e.pend
  <2>1. Awaits(y) BY <1>4 DEF Awaits
  <2>2. CASE x.pend = y.pend BY <1>4, <2>2 DEF Hides
  <2>3. CASE Anchors(y, x)
    <3>1. Sure(e, x.pend.anchor, x) BY <1>4, <2>3, SureOn DEF Anchors
    <3> QED BY <2>3, <3>1 DEF Anchors, Hides
  <2>4. CASE Jumps(y, x)
    <3>1. x.pend = NoChange /\ x.spliced /\ Sure(y, x.cursor, x) BY <2>4 DEF Jumps
    <3>2. Sure(e, x.cursor, x) BY <1>4, <3>1, SureOn
    <3> QED BY <3>1, <3>2 DEF Hides
  <2> QED BY <1>3, <2>1, <2>2, <2>3, <2>4
<1>5. CASE Unmasks(e, y) /\ y.pend.to = "Mask"
  <2>1. y.pend.anchor \in y.syncs /\ Sure(e, y.pend.anchor, y) BY <1>5 DEF Unmasks, NoChange
  <2>2. x.warn = y.warn BY <1>3, <2>1
  <2>3. Sure(e, y.pend.anchor, x) BY <2>1, <2>2 DEF Sure
  <2>4. CASE x.pend.to = "Mask" /\ x.pend.anchor = y.pend.anchor
    BY <2>3, <2>4 DEF Anchors, Hides
  <2>5. CASE x.pend = NoChange /\ x.spliced /\ x.cursor = y.pend.anchor
    BY <2>3, <2>5 DEF Hides
  <2> QED BY <1>3, <2>1, <2>4, <2>5
<1> QED BY <1>4, <1>5

LEMMA TakenHides ==
  ASSUME NEW e, NEW x, NEW t \in Nat, NEW n \in Nat, WellFormed(x, t, n), Within(e, x), Awaits(e),
         x.pend = e.pend \/ Unmasks(e, x), x.cursor \in Buffered(x)
  PROVE  Hides(e, HandedOver(x, t)) /\ (x.pend.to = "Mask" => Hides(e, Dropped(x, t)))
<1> DEFINE y == [x EXCEPT !.first = IF @ = None THEN x.cursor ELSE @, !.spliced = FALSE, !.cursor = @ + 1]
           z == [x EXCEPT !.cursor = @ + 1]
<1>1. HandedOver(x, t) = RunPending(y, t) /\ Dropped(x, t) = RunPending(z, t)
  BY DEF HandedOver, Dropped
<1>2. WellFormed(y, t, n) /\ WellFormed(z, t, n) BY HandedIs DEF Turns
<1>3. /\ y.pend = x.pend /\ y.syncs = x.syncs /\ y.ring = x.ring /\ y.warn = x.warn
      /\ y.cursor = x.cursor + 1 /\ ~y.spliced
  BY DEF WellFormed, Shape
<1>4. z.pend = x.pend /\ z.syncs = x.syncs /\ z.ring = x.ring /\ z.warn = x.warn
  BY DEF WellFormed, Shape
<1> HIDE DEF y, z
<1>5. Within(e, y) /\ Within(e, z) BY <1>3, <1>4 DEF Within
<1>6. x.pend.to = "Mask" => Hides(e, RunPending(y, t)) /\ Hides(e, RunPending(z, t))
  <2>1. ASSUME x.pend.to = "Mask", NEW w, WellFormed(w, t, n), Within(e, w), w.pend = x.pend,
               w.syncs = x.syncs, w.warn = x.warn
        PROVE  Hides(e, RunPending(w, t))
    <3>1. w.pend = e.pend \/ (Unmasks(e, w) /\ w.pend.to = "Mask")
      <4>1. CASE x.pend = e.pend BY <2>1, <4>1
      <4>2. CASE Unmasks(e, x)
        <5>1. x.pend.anchor \in x.syncs /\ Sure(e, x.pend.anchor, x) BY <2>1, <4>2 DEF Unmasks, NoChange
        <5>2. Sure(e, w.pend.anchor, w) BY <2>1, <5>1 DEF Sure
        <5> QED BY <2>1, <5>1, <5>2 DEF Unmasks
      <4> QED BY <4>1, <4>2
    <3> QED BY <2>1, <3>1, RunHides
  <2> QED BY <1>2, <1>3, <1>4, <1>5, <2>1
<1>7. CASE x.pend = NoChange /\ x.spliced /\ Sure(e, x.cursor, x)
  <2>1. y.pend = NoChange BY <1>3, <1>7
  <2>2. RunPending(y, t) = y BY <2>1, RunNothing
  <2>3. y.cursor - 1 = x.cursor BY <1>3 DEF WellFormed, Sending
  <2>4. Sure(e, y.cursor - 1, y) BY <1>3, <1>7, <2>3 DEF Sure
  <2>5. Hides(e, y) BY <1>3, <2>1, <2>4 DEF Hides
  <2>6. x.pend.to # "Mask" BY <1>7 DEF NoChange
  <2> QED BY <1>1, <2>2, <2>5, <2>6
<1>8. CASE x.pend.to = "Mask" BY <1>1, <1>6, <1>8
<1>9. x.pend.to = "Mask" \/ (x.pend = NoChange /\ x.spliced /\ Sure(e, x.cursor, x))
  BY DEF Unmasks, Awaits
<1> QED BY <1>7, <1>8, <1>9

-----------------------------------------------------------------------------
(* The whole *)

(* Items of a queue or a log, numbered, or not if they repeat a held frame.*)
Numbered(s) == s \in Seq(ToSet(s)) /\ \A m \in ToSet(s) : m.seq \in Int /\ m.seq >= None
UpTo(s, n) == \A m \in ToSet(s) : m.seq <= n

LEMMA Itself ==
  ASSUME NEW S, NEW s \in Seq(S)
  PROVE  s \in Seq(ToSet(s)) /\ ToSet(s) \subseteq S
<1>1. ToSet(s) = {s[i] : i \in 1 .. Len(s)} BY DEF ToSet
<1>2. Len(s) \in Nat /\ SubSeq(s, 1, Len(s)) = s BY LenProperties, SubSeqFull
<1>3. \A i \in 1 .. Len(s) : s[i] \in ToSet(s) /\ s[i] \in S BY <1>1
<1>4. SubSeq(s, 1, Len(s)) \in Seq(ToSet(s)) BY <1>2, <1>3, SubSeqProperties
<1> QED BY <1>1, <1>2, <1>3, <1>4

LEMMA NoneIs ==
  /\ Numbered(<<>>) /\ \A n : UpTo(<<>>, n)
<1>1. ToSet(<<>>) = {} BY DEF ToSet
<1>2. <<>> \in Seq(ToSet(<<>>)) BY EmptySeq
<1> QED BY <1>1, <1>2 DEF Numbered, UpTo

LEMMA AppendIs ==
  ASSUME NEW s, Numbered(s), NEW m, m.seq \in Int, m.seq >= None
  PROVE  /\ Numbered(Append(s, m))
         /\ \A n : UpTo(s, n) /\ m.seq <= n => UpTo(Append(s, m), n)
<1> DEFINE S == ToSet(s) \cup {m}
<1>1. s \in Seq(S)
  <2>1. ToSet(s) \subseteq S OBVIOUS
  <2> HIDE DEF S
  <2> QED BY <2>1, SeqMonotonic DEF Numbered
<1>2. m \in S OBVIOUS
<1>3. \A x \in S : x = m \/ x \in ToSet(s) OBVIOUS
<1> HIDE DEF S
<1>4. Append(s, m) \in Seq(S) BY <1>1, <1>2
<1>5. Append(s, m) \in Seq(ToSet(Append(s, m))) /\ ToSet(Append(s, m)) \subseteq S BY <1>4, Itself
<1>6. \A x \in ToSet(Append(s, m)) : x = m \/ x \in ToSet(s) BY <1>3, <1>5
<1> QED BY <1>5, <1>6 DEF Numbered, UpTo

(* What is left of a numbered sequence is numbered. *)
LEMMA PartIs ==
  ASSUME NEW s, Numbered(s), NEW r, r \in Seq(ToSet(s))
  PROVE  Numbered(r) /\ \A n : UpTo(s, n) => UpTo(r, n)
<1>1. r \in Seq(ToSet(r)) /\ ToSet(r) \subseteq ToSet(s) BY Itself
<1> QED BY <1>1 DEF Numbered, UpTo

LEMMA PrefixIs ==
  ASSUME NEW s, Numbered(s), NEW k \in 0 .. Len(s)
  PROVE  Numbered(SubSeq(s, 1, k)) /\ \A n : UpTo(s, n) => UpTo(SubSeq(s, 1, k), n)
<1>1. \A i \in 1 .. k : s[i] \in ToSet(s)
  <2>1. Len(s) \in Nat /\ DOMAIN s = 1 .. Len(s) BY LenProperties DEF Numbered
  <2> QED BY <2>1 DEF ToSet
<1>2. SubSeq(s, 1, k) \in Seq(ToSet(s)) BY <1>1, SubSeqProperties
<1> QED BY <1>2, PartIs

LEMMA TailIs ==
  ASSUME NEW s, Numbered(s), s # <<>>
  PROVE  /\ Numbered(Tail(s)) /\ \A n : UpTo(s, n) => UpTo(Tail(s), n)
         /\ Head(s).seq \in Int /\ Head(s).seq >= None
<1>1. Head(s) \in ToSet(s) /\ Tail(s) \in Seq(ToSet(s)) BY HeadTailProperties DEF Numbered
<1> QED BY <1>1, PartIs DEF Numbered

LEMMA WrittenIs ==
  ASSUME NEW s, Numbered(s)
  PROVE  LastWritten(s) \in Int /\ LastWritten(s) >= None
<1> DEFINE numbered == {i \in DOMAIN s : s[i].seq # None}
<1>1. LastWritten(s) = IF numbered = {} THEN None ELSE s[Max(numbered)].seq BY DEF LastWritten
<1>2. Len(s) \in Nat /\ DOMAIN s = 1 .. Len(s) BY LenProperties DEF Numbered
<1>3. numbered \subseteq 0 .. Len(s) /\ numbered \subseteq DOMAIN s BY <1>2
<1>4. \A i \in numbered : s[i].seq \in Int /\ s[i].seq >= None BY <1>3 DEF Numbered, ToSet
<1> HIDE DEF numbered
<1>5. CASE numbered = {} BY <1>1, <1>5 DEF None
<1>6. CASE numbered # {}
  <2>1. Max(numbered) \in numbered BY <1>2, <1>3, <1>6, Extremes
  <2> QED BY <1>1, <1>4, <1>6, <2>1
<1> QED BY <1>5, <1>6

AirInv ==
  /\ WellFormed(eng, now, seen.count)
  /\ now \in Nat /\ seen.count \in Nat
  /\ DOMAIN seen = {"count", "video", "aired", "promise", "painted", "skipped", "doomed",
                    "settled", "back"}
  /\ Numbered(queue) /\ Numbered(log)
  /\ late = <<>> \/ (Len(late) = 1 /\ late[1] \in Int /\ late[1] >= None)
  /\ late # <<>> => queue = <<>>
  /\ UpTo(queue, eng.next - 1)
  /\ eng.mark # None => UpTo(queue, eng.mark)

(* A step that leaves the queue and the connection alone. *)
LEMMA Onward ==
  ASSUME AirInv, WellFormed(eng', now', seen'.count), now' \in Nat, seen'.count \in Nat,
         DOMAIN seen' = DOMAIN seen, queue' = queue, log' = log, late' = late,
         eng'.next >= eng.next, eng'.mark # None => eng'.mark = eng.mark
  PROVE  AirInv'
<1>1. eng.next \in Int /\ eng'.next \in Int BY DEF AirInv, WellFormed, Buffer
<1>2. \A m \in ToSet(queue) : m.seq \in Int BY DEF AirInv, Numbered
<1>3. UpTo(queue, eng'.next - 1) BY <1>1, <1>2, SMTT(30) DEF AirInv, UpTo
<1>4. eng'.mark # None => UpTo(queue, eng'.mark) BY DEF AirInv
<1> QED BY <1>3, <1>4 DEF AirInv

(* One that leaves nothing in the queue. *)
LEMMA Emptied ==
  ASSUME AirInv, WellFormed(eng', now', seen'.count), now' \in Nat, seen'.count \in Nat,
         DOMAIN seen' = DOMAIN seen, queue' = <<>>, Numbered(log'),
         \/ late' = late
         \/ late' = <<>>
         \/ \E n \in Int : n >= None /\ late' = <<n>>
  PROVE  AirInv'
<1>1. late' = <<>> \/ (Len(late') = 1 /\ late'[1] \in Int /\ late'[1] >= None) BY DEF AirInv
<1>2. Numbered(queue') /\ \A n : UpTo(queue', n) BY NoneIs
<1> QED BY <1>1, <1>2 DEF AirInv

LEMMA Later ==
  ASSUME NEW e, NEW t \in Nat, NEW n \in Nat, WellFormed(e, t, n)
  PROVE  WellFormed(e, t + 1, n)
<1>1. \A s \in Buffered(e) : e.ring[s].at \in 0 .. t + 1 BY DEF WellFormed, Buffer
<1> QED BY <1>1 DEF WellFormed, Buffer

LEMMA MarkedIs ==
  ASSUME NEW e, NEW t \in Nat, NEW n \in Nat, WellFormed(e, t, n),
         NEW m \in Int, m >= None, m < e.next
  PROVE  LET x == [e EXCEPT !.mark = m]
         IN WellFormed(x, t, n) /\ x.next = e.next /\ x.mark = m
<1> DEFINE x == [e EXCEPT !.mark = m]
<1>1. Shape(x) /\ x.next = e.next /\ x.mark = m BY DEF WellFormed, Shape
<1>2. Buffer(x, t, n) BY DEF WellFormed, Shape, Buffer, Buffered
<1>3. Sending(x) BY DEF WellFormed, Shape, Sending, None
<1>4. Slated(x) BY DEF WellFormed, Shape, Slated
<1> QED BY <1>1, <1>2, <1>3, <1>4 DEF WellFormed

LEMMA KeptIs ==
  ASSUME NEW e, NEW t \in Nat, NEW n \in Nat, WellFormed(e, t, n)
  PROVE  Turns(e, [e EXCEPT !.keep = ~@], t, n)
<1> DEFINE x == [e EXCEPT !.keep = ~@]
<1>1. Shape(x) /\ Keeps(e, x) BY DEF Shape, WellFormed, Keeps
<1>2. Sending(x) BY DEF Shape, WellFormed, Sending
<1>3. Slated(x) BY DEF Shape, WellFormed, Slated
<1> QED BY <1>1, <1>2, <1>3, TurnsIf

LEMMA TypesIs ==
  ASSUME AirInv
  PROVE  /\ WellFormed(eng, now, seen.count) /\ now \in Nat /\ seen.count \in Nat
         /\ eng.next \in Nat /\ eng.mark \in Int /\ Numbered(queue) /\ Numbered(log)
BY DEF AirInv, WellFormed, Buffer, Sending

LEMMA SteppedIs ==
  ASSUME AirInv, NEW e, NEW p, NEW gone, NEW aired, Step(e, p, gone, aired)
  PROVE  eng' = e /\ seen'.count = seen.count /\ DOMAIN seen' = DOMAIN seen
BY DEF Step, AirInv

LEMMA PumpIs == ASSUME AirInv, Pump PROVE AirInv'
<1> DEFINE r == Refreshed(eng, now)
           x == Looked(r, now)
<1>1. \/ Prepare(x)
      \/ Sends(r, x) /\ (Send(x) \/ Drop(x))
  BY DEF Pump
<1>2. /\ WellFormed(eng, now, seen.count) /\ now \in Nat /\ seen.count \in Nat
      /\ Numbered(queue) /\ Numbered(log)
  BY TypesIs
<1>3. WellFormed(x, now, seen.count) /\ x.next = eng.next /\ x.mark = eng.mark BY <1>2, LookedIs
<1> HIDE DEF r, x
<1>4. CASE Prepare(x)
  <2>1. /\ eng' = x /\ seen'.count = seen.count /\ DOMAIN seen' = DOMAIN seen
        /\ queue' = queue /\ UNCHANGED <<now, log, late>>
    BY <1>4 DEF Prepare, Step, AirInv
  <2> QED BY <1>2, <1>3, <2>1, Onward DEF WellFormed, Buffer
<1>5. ASSUME Sends(r, x) PROVE /\ x.cursor \in Buffered(x) /\ x.cursor \in Int /\ x.cursor >= None
                               /\ x.cursor <= eng.next - 1 /\ (eng.mark # None => x.cursor <= eng.mark)
  <2>1. x.cursor \in Buffered(x) /\ ~PastMark(x) BY <1>5 DEF Sends, Finds, Due
  <2>2. x.base \in Nat /\ x.next \in Nat /\ x.mark \in Int BY <1>3 DEF WellFormed, Buffer, Sending
  <2> QED BY <1>3, <2>1, <2>2 DEF Buffered, PastMark, None
<1>6. CASE Sends(r, x) /\ Drop(x)
  <2>1. /\ eng' = Dropped(x, now) /\ seen'.count = seen.count /\ DOMAIN seen' = DOMAIN seen
        /\ queue' = queue /\ UNCHANGED <<now, log, late>>
    BY <1>6 DEF Drop, Step, AirInv
  <2>2. Turns(x, Dropped(x, now), now, seen.count) BY <1>2, <1>3, <1>5, <1>6, TakenIs
  <2>3. WellFormed(eng', now, seen.count) /\ eng'.next = eng.next /\ eng'.mark = eng.mark
    BY <1>3, <2>1, <2>2 DEF Turns, Keeps
  <2> QED BY <1>2, <2>1, <2>3, Onward DEF WellFormed, Buffer
<1>7. CASE Sends(r, x) /\ Send(x)
  <2>1. /\ eng' = HandedOver(x, now) /\ seen'.count = seen.count /\ DOMAIN seen' = DOMAIN seen
        /\ queue' = (IF late = <<>> THEN Append(queue, Item(x.cursor)) ELSE queue)
        /\ UNCHANGED <<now, log, late>>
    BY <1>7 DEF Send, Step, AirInv
  <2>2. Turns(x, HandedOver(x, now), now, seen.count) BY <1>2, <1>3, <1>5, <1>7, TakenIs
  <2>3. WellFormed(eng', now, seen.count) /\ eng'.next = eng.next /\ eng'.mark = eng.mark
    BY <1>3, <2>1, <2>2 DEF Turns, Keeps
  <2>4. Item(x.cursor).seq = x.cursor BY DEF Item
  <2>5. CASE late # <<>> BY <1>2, <2>1, <2>3, <2>5, Onward DEF WellFormed, Buffer
  <2>6. CASE late = <<>>
    <3>1. Numbered(queue') /\ UpTo(queue', eng.next - 1) /\ (eng.mark # None => UpTo(queue', eng.mark))
      BY <1>2, <1>5, <1>7, <2>1, <2>4, <2>6, AppendIs DEF AirInv
    <3> QED BY <1>2, <2>1, <2>3, <2>6, <3>1 DEF AirInv
  <2> QED BY <2>5, <2>6
<1> QED BY <1>1, <1>4, <1>6, <1>7

LEMMA WriteIs == ASSUME AirInv, Write PROVE AirInv'
<1>1. /\ queue # <<>> /\ log' = Append(log, Head(queue)) /\ queue' = Tail(queue)
      /\ UNCHANGED <<eng, now, late, seen>>
  BY DEF Write
<1>2. Numbered(queue) /\ Numbered(log) BY TypesIs
<1>3. /\ Numbered(queue') /\ \A n : UpTo(queue, n) => UpTo(queue', n)
      /\ Head(queue).seq \in Int /\ Head(queue).seq >= None
  BY <1>1, <1>2, TailIs
<1>4. Numbered(log') BY <1>1, <1>2, <1>3, AppendIs
<1>5. late = <<>> BY <1>1 DEF AirInv
<1> QED BY <1>1, <1>3, <1>4, <1>5 DEF AirInv

LEMMA LostIs == ASSUME AirInv, ConnectionLost PROVE AirInv'
<1>1. late' = <<LastWritten(log)>> /\ queue' = <<>> /\ log' = <<>> /\ UNCHANGED <<eng, now>>
      /\ seen'.count = seen.count /\ DOMAIN seen' = DOMAIN seen
  BY DEF ConnectionLost, Closes, AirInv
<1>2. LastWritten(log) \in Int /\ LastWritten(log) >= None BY TypesIs, WrittenIs
<1> QED BY <1>1, <1>2, TypesIs, NoneIs, Emptied

LEMMA HeldAgainIs == ASSUME AirInv, SendHeld PROVE AirInv'
<1>1. /\ late = <<>> /\ queue' = Append(queue, Held(eng.hold))
      /\ UNCHANGED <<eng, now, log, late, seen>>
  BY DEF SendHeld, Connected
<1>2. Held(eng.hold).seq = None /\ None \in Int BY DEF Held, None
<1>3. eng.next - 1 >= None /\ (eng.mark # None => eng.mark >= None)
  BY DEF AirInv, WellFormed, Buffer, Sending, None
<1>4. Numbered(queue') /\ UpTo(queue', eng.next - 1) /\ (eng.mark # None => UpTo(queue', eng.mark))
  BY <1>1, <1>2, <1>3, AppendIs DEF AirInv
<1> QED BY <1>1, <1>4 DEF AirInv

LEMMA TimeIs == ASSUME AirInv, Tick PROVE AirInv'
<1>1. now' = now + 1 /\ UNCHANGED <<eng, queue, log, late, seen>> BY DEF Tick
<1>2. WellFormed(eng', now', seen'.count) BY <1>1, TypesIs, Later
<1> QED BY <1>1, <1>2, TypesIs, Onward

LEMMA EncoderIs ==
  ASSUME AirInv, EncoderStarts \/ EncoderStops \/ \E kind \in Kinds : Receive(kind)
  PROVE  AirInv'
<1>1. WellFormed(eng, now, seen.count) /\ now \in Nat /\ seen.count \in Nat /\ eng.next \in Nat
  BY TypesIs
<1>2. CASE EncoderStarts
  <2>1. /\ eng' = IngestStart(eng) /\ seen'.count = seen.count /\ DOMAIN seen' = DOMAIN seen
        /\ UNCHANGED <<now, queue, log, late>>
    BY <1>2 DEF EncoderStarts, AirInv
  <2>2. WellFormed(eng', now, seen.count) /\ eng'.next = eng.next /\ eng'.mark = eng.mark
    BY <1>1, <2>1, StartIs
  <2> QED BY <1>1, <2>1, <2>2, Onward
<1>3. CASE EncoderStops
  <2>1. eng' = IngestEnd(eng) /\ UNCHANGED <<now, queue, log, late, seen>> BY <1>3 DEF EncoderStops
  <2>2. Turns(eng, eng', now, seen.count) BY <1>1, <2>1, StopIs
  <2> QED BY <1>1, <2>1, <2>2, Onward DEF Turns, Keeps
<1>4. ASSUME NEW kind \in Kinds, Receive(kind) PROVE AirInv'
  <2> DEFINE m == [uid |-> seen.count + 1, kind |-> kind,
                   ref |-> IF kind = "delta" THEN seen.video ELSE None]
  <2>1. /\ eng.active /\ eng' = Ingest(eng, m, now) /\ seen'.count = seen.count + 1
        /\ DOMAIN seen' = DOMAIN seen /\ UNCHANGED <<now, queue, log, late>>
    BY <1>4 DEF Receive, AirInv
  <2>2. m.uid = seen.count + 1 OBVIOUS
  <2> HIDE DEF m
  <2>3. /\ WellFormed(eng', now, seen.count + 1) /\ eng'.next = eng.next + 1
        /\ eng'.mark = eng.mark
    BY <1>1, <2>1, <2>2, IngestIs
  <2> QED BY <1>1, <2>1, <2>3, Onward
<1> QED BY <1>2, <1>3, <1>4

LEMMA CommandIs ==
  ASSUME AirInv, NEW e, NEW p, Commanded(e, p), Obeys(eng, e, now, seen.count)
  PROVE  AirInv'
<1>1. /\ eng' = e /\ seen'.count = seen.count /\ DOMAIN seen' = DOMAIN seen
      /\ UNCHANGED <<now, queue, log, late>>
  BY DEF Commanded, Step, AirInv
<1> QED BY <1>1, TypesIs, Onward DEF Obeys

LEMMA TurnObeys ==
  ASSUME NEW e, NEW x, NEW t, NEW n, Turns(e, x, t, n)
  PROVE  Obeys(e, x, t, n)
BY DEF Obeys, Turns, Keeps

LEMMA CommandsAre ==
  ASSUME AirInv,
         \/ \E d \in SetDelays, mode \in Modes : ASetDelay(d, mode)
         \/ \E when \in {"Now", "AfterAir"} : AGoLive(when)
         \/ ACancel \/ ASetKeepHistory
         \/ \E change \in 1 .. eng.change : ASlateShown(change)
  PROVE  AirInv'
<1>1. WellFormed(eng, now, seen.count) /\ now \in Nat /\ seen.count \in Nat /\ eng.next \in Nat
  BY TypesIs
<1>2. ASSUME NEW d \in SetDelays, NEW mode \in Modes, ASetDelay(d, mode) PROVE AirInv'
  <2>1. d \in 0 .. MaxDelay BY AiringConstants
  <2>2. Obeys(eng, SetDelay(eng, d, mode, now), now, seen.count) BY <1>1, <2>1, SetDelayIs
  <2> QED BY <1>2, <2>2, CommandIs DEF ASetDelay
<1>3. ASSUME NEW when \in {"Now", "AfterAir"}, AGoLive(when) PROVE AirInv'
  <2> DEFINE e == GoLiveCommand(eng, when, now)
  <2>1. Obeys(eng, e, now, seen.count) BY <1>1, GoLiveCommandIs, TurnObeys
  <2>2. Commanded(e, IF e.pend.to = "AfterAir" THEN seen.promise ELSE 0) BY <1>3 DEF AGoLive
  <2> HIDE DEF e
  <2> QED BY <2>1, <2>2, CommandIs
<1>4. CASE ACancel
  <2>1. Obeys(eng, Cancel(eng, now), now, seen.count) BY <1>1, CancelIs, TurnObeys
  <2> QED BY <1>4, <2>1, CommandIs DEF ACancel
<1>5. CASE ASetKeepHistory
  <2>1. eng' = [eng EXCEPT !.keep = ~@] /\ UNCHANGED <<now, queue, log, late, seen>>
    BY <1>5 DEF ASetKeepHistory
  <2>2. Turns(eng, eng', now, seen.count) BY <1>1, <2>1, KeptIs
  <2> QED BY <1>1, <2>1, <2>2, Onward DEF Turns, Keeps
<1>6. ASSUME NEW change, ASlateShown(change) PROVE AirInv'
  <2>1. /\ eng' = SlateShown(eng, change, now) /\ seen'.count = seen.count
        /\ DOMAIN seen' = DOMAIN seen /\ UNCHANGED <<now, queue, log, late>>
    BY <1>6 DEF ASlateShown, AirInv
  <2>2. Turns(eng, eng', now, seen.count) BY <1>1, <2>1, ShownIs
  <2> QED BY <1>1, <2>1, <2>2, Onward DEF Turns, Keeps
<1> QED BY <1>2, <1>3, <1>4, <1>5, <1>6

LEMMA DumpsAre ==
  ASSUME AirInv,
         \/ \E cover \in BOOLEAN : ADump(cover)
         \/ \E mode \in Modes, cover \in BOOLEAN : StartDump(mode, cover)
         \/ \E n \in 0 .. Len(log) : FinishDump(n)
         \/ FinishDumpUnconnected
  PROVE  AirInv'
<1>1. WellFormed(eng, now, seen.count) /\ now \in Nat /\ seen.count \in Nat /\ eng.next \in Nat
  BY TypesIs
<1>2. ASSUME NEW cover \in BOOLEAN, ADump(cover) PROVE AirInv'
  <2>1. /\ eng' = DumpCommand(eng, "Mask", cover, now) /\ seen'.count = seen.count
        /\ DOMAIN seen' = DOMAIN seen /\ UNCHANGED <<now, queue, log, late>> /\ CanDump(eng)
    BY <1>2 DEF ADump, Dumping, Step, AirInv
  <2>2. WellFormed(eng', now, seen.count) /\ eng'.next = eng.next /\ eng'.mark = eng.mark
    BY <1>1, <2>1, DumpCommandIs
  <2>3. eng'.next >= eng.next /\ (eng'.mark # None => eng'.mark = eng.mark) BY <1>1, <2>2
  <2>4. now' \in Nat /\ seen'.count \in Nat /\ WellFormed(eng', now', seen'.count)
    BY <1>1, <2>1, <2>2
  <2>5. queue' = queue /\ log' = log /\ late' = late /\ DOMAIN seen' = DOMAIN seen BY <2>1
  <2> QED BY <2>3, <2>4, <2>5, Onward, SMTT(30)
<1>3. ASSUME NEW mode \in Modes, NEW cover \in BOOLEAN, StartDump(mode, cover) PROVE AirInv'
  <2>1. PICK k \in {0, 1} : k <= Len(queue) /\ queue' = SubSeq(queue, 1, k) BY <1>3 DEF StartDump
  <2>2. /\ seen'.count = seen.count /\ DOMAIN seen' = DOMAIN seen
        /\ UNCHANGED <<eng, now, log, late>>
    BY <1>3 DEF StartDump, AirInv
  <2>3. Numbered(queue) /\ Len(queue) \in Nat BY TypesIs, LenProperties DEF Numbered
  <2>4. Numbered(queue') /\ \A n : UpTo(queue, n) => UpTo(queue', n) BY <2>1, <2>3, PrefixIs
  <2>5. CASE late = <<>> BY <1>1, <2>2, <2>4, <2>5 DEF AirInv
  <2>6. CASE late # <<>>
    <3>1. queue = <<>> BY <2>6 DEF AirInv
    <3>2. queue' = <<>> BY <2>1, <2>3, <3>1, SubSeqEmpty
    <3> QED BY <1>1, <2>2, <3>2, TypesIs, Emptied
  <2> QED BY <2>5, <2>6
<1>4. ASSUME NEW n \in 0 .. Len(log), FinishDump(n) PROVE AirInv'
  <2> DEFINE taken == LastWritten(SubSeq(log, 1, n))
  <2>1. /\ eng' = DumpAfter(eng, taken, cut.mode, cut.cover, now) /\ seen'.count = seen.count
        /\ DOMAIN seen' = DOMAIN seen /\ queue' = <<>> /\ now' = now
    BY <1>4 DEF FinishDump, Dumping, Step, AirInv
  <2>2. \/ late' = <<LastWritten(log)>> /\ log' = <<>>
        \/ UNCHANGED <<log, late>>
    BY <1>4 DEF FinishDump
  <2>3. Numbered(log) /\ LastWritten(log) \in Int /\ LastWritten(log) >= None BY TypesIs, WrittenIs
  <2>4. taken \in Int /\ taken >= None BY <2>3, PrefixIs, WrittenIs
  <2> HIDE DEF taken
  <2>5. WellFormed(eng', now, seen.count) BY <1>1, <2>1, <2>4, DumpAfterIs DEF None
  <2>6. Numbered(log') BY <2>2, <2>3, NoneIs
  <2>7. now' \in Nat /\ seen'.count \in Nat /\ WellFormed(eng', now', seen'.count)
        /\ DOMAIN seen' = DOMAIN seen /\ queue' = <<>>
    BY <1>1, <2>1, <2>5
  <2>8. late' = late \/ \E m \in Int : m >= None /\ late' = <<m>> BY <2>2, <2>3
  <2> QED BY <2>6, <2>7, <2>8, Emptied, SMTT(30)
<1>5. CASE FinishDumpUnconnected
  <2>1. /\ eng' = DumpAfter(eng, None, "Mask", cut.cover, now) /\ seen'.count = seen.count
        /\ DOMAIN seen' = DOMAIN seen /\ UNCHANGED <<now, queue, log, late>>
    BY <1>5 DEF FinishDumpUnconnected, Dumping, Step, AirInv
  <2>2. WellFormed(eng', now, seen.count) /\ eng'.next = eng.next /\ eng'.mark = eng.mark
    BY <1>1, <2>1, DumpAfterIs DEF None
  <2> QED BY <1>1, <2>1, <2>2, Onward
<1> QED BY <1>2, <1>3, <1>4, <1>5

LEMMA ConnectionIs == ASSUME AirInv, Connect \/ Disconnected PROVE AirInv'
<1>1. WellFormed(eng, now, seen.count) /\ now \in Nat /\ seen.count \in Nat /\ eng.next \in Nat
  BY TypesIs
<1>2. CASE Connect
  <2>1. /\ eng' = OutputConnected(eng, now) /\ seen'.count = seen.count
        /\ DOMAIN seen' = DOMAIN seen /\ queue' = <<>> /\ log' = <<>> /\ UNCHANGED <<now, late>>
    BY <1>2 DEF Connect, Step, AirInv
  <2>2. Turns(eng, eng', now, seen.count) BY <1>1, <2>1, ConnectedIs
  <2> QED BY <1>1, <2>1, <2>2, NoneIs, Emptied DEF Turns
<1>3. CASE Disconnected
  <2>1. /\ late # <<>> /\ late' = <<>> /\ eng' = OutputDisconnected(eng, late[1])
        /\ UNCHANGED <<now, queue, log, seen>>
    BY <1>3 DEF Disconnected
  <2>2. late[1] \in Int /\ late[1] >= None /\ queue = <<>> BY <2>1 DEF AirInv
  <2>3. Turns(eng, eng', now, seen.count) BY <1>1, <2>1, <2>2, DisconnectedIs DEF None
  <2> QED BY <1>1, <2>1, <2>2, <2>3, TypesIs, Emptied DEF Turns
<1> QED BY <1>2, <1>3

LEMMA EndIs ==
  ASSUME AirInv, EndAfterAir \/ CancelEnd \/ RestartedAfterEnd \/ EndNow
  PROVE  AirInv'
<1>1. WellFormed(eng, now, seen.count) /\ now \in Nat /\ seen.count \in Nat /\ eng.next \in Nat
      /\ Numbered(queue) /\ Numbered(log)
  BY TypesIs
<1>2. LastWritten(log) \in Int /\ LastWritten(log) >= None BY <1>1, WrittenIs
<1>3. CASE EndAfterAir
  <2>1. /\ eng.next > 0 /\ eng' = [eng EXCEPT !.mark = eng.next - 1]
        /\ UNCHANGED <<now, queue, log, late, seen>>
    BY <1>3 DEF EndAfterAir
  <2>2. eng.next - 1 \in Int /\ eng.next - 1 >= None /\ eng.next - 1 < eng.next
    BY <1>1, <2>1 DEF None
  <2>3. WellFormed(eng', now, seen.count) /\ eng'.next = eng.next /\ eng'.mark = eng.next - 1
    BY <1>1, <2>1, <2>2, MarkedIs
  <2> QED BY <2>1, <2>3 DEF AirInv
<1>4. CASE CancelEnd
  <2>1. eng' = [eng EXCEPT !.mark = None] /\ UNCHANGED <<now, queue, log, late, seen>>
    BY <1>4 DEF CancelEnd
  <2>2. None \in Int /\ None >= None /\ None < eng.next BY <1>1 DEF None
  <2>3. WellFormed(eng', now, seen.count) /\ eng'.next = eng.next /\ eng'.mark = None
    BY <1>1, <2>1, <2>2, MarkedIs
  <2> QED BY <1>1, <2>1, <2>3, Onward
<1>5. CASE RestartedAfterEnd
  <2>1. /\ late' = <<LastWritten(log)>> /\ queue' = <<>> /\ log' = <<>>
        /\ eng' = RestartAfterEnd(eng) /\ now' = now
        /\ seen'.count = seen.count /\ DOMAIN seen' = DOMAIN seen
    BY <1>5 DEF RestartedAfterEnd, Closes, AirInv
  <2>2. WellFormed(eng', now, seen.count) BY <1>1, <2>1, RestartIs
  <2> QED BY <1>1, <1>2, <2>1, <2>2, NoneIs, Emptied
<1>6. CASE EndNow
  <2>1. /\ eng' = Discard(eng) /\ now' = now
        /\ seen'.count = seen.count /\ DOMAIN seen' = DOMAIN seen
    BY <1>6 DEF EndNow, AirInv
  <2>2. \/ late' = <<LastWritten(log)>> /\ queue' = <<>> /\ log' = <<>>
        \/ UNCHANGED <<queue, log, late>>
    BY <1>6 DEF EndNow, Closes
  <2>3. WellFormed(eng', now, seen.count) /\ eng'.mark = None /\ eng'.next = eng.next
    BY <1>1, <2>1, DiscardIs
  <2>4. CASE late' = <<LastWritten(log)>> /\ queue' = <<>> /\ log' = <<>>
    BY <1>1, <1>2, <2>1, <2>3, <2>4, NoneIs, Emptied
  <2>5. CASE UNCHANGED <<queue, log, late>> BY <1>1, <2>1, <2>3, <2>5, Onward
  <2> QED BY <2>2, <2>4, <2>5
<1> QED BY <1>3, <1>4, <1>5, <1>6

LEMMA FreshIs == ASSUME Init PROVE AirInv
<1>1. PICK keep \in Keep : eng = NewEngine(keep, Initial) BY DEF Init
<1>2. Initial \in Nat /\ Initial \in 0 .. MaxDelay BY AiringConstants, EngineConstants
<1>3. Shape(eng) BY <1>1 DEF NewEngine, Shape
<1>4. Buffer(eng, now, seen.count)
  <2>1. eng.ring = <<>> /\ eng.syncs = {} /\ eng.base = 0 /\ eng.next = 0 /\ eng.session = 0
    BY <1>1 DEF NewEngine
  <2>2. DOMAIN eng.ring = {} BY <2>1
  <2>3. Buffered(eng) = {} BY <2>1 DEF Buffered
  <2> QED BY <2>1, <2>2, <2>3 DEF Buffer
<1>5. Slated(eng)
  <2>1. eng.slate = FALSE /\ eng.pend = NoChange BY <1>1 DEF NewEngine
  <2>2. Covers(eng.pend) = FALSE BY <2>1 DEF Covers, NoChange
  <2> QED BY <2>1, <2>2 DEF Slated
<1>6. Sending(eng)
  <2>1. /\ eng.cursor = 0 /\ eng.next = 0 /\ eng.delay = Initial /\ eng.target = Initial
        /\ eng.pend = NoChange /\ eng.started = FALSE /\ eng.needSync = TRUE
        /\ eng.mark = None /\ eng.first = None
    BY <1>1 DEF NewEngine
  <2>2. NoChange \in Changes /\ Initial \in Nat /\ Initial \in 0 .. MaxDelay BY <1>2, Kinds1
  <2>3. /\ eng.cursor \in Nat /\ eng.cursor <= eng.next /\ eng.delay \in Nat
        /\ eng.target \in 0 .. MaxDelay /\ eng.pend \in Changes
    BY <2>1, <2>2
  <2>4. /\ eng.mark \in Int /\ eng.mark >= -1 /\ eng.mark < eng.next
        /\ eng.first \in Int /\ eng.first >= -1
    BY <2>1 DEF None
  <2> QED BY <2>1, <2>3, <2>4 DEF Sending
<1>7. now \in Nat /\ seen.count \in Nat /\ eng.mark = None BY <1>1 DEF Init, SeenInit, NewEngine
<1>8. /\ Numbered(queue) /\ Numbered(log) /\ late = <<>> /\ UpTo(queue, eng.next - 1)
  BY NoneIs DEF Init
<1> QED BY <1>3, <1>4, <1>5, <1>6, <1>7, <1>8 DEF AirInv, WellFormed, Init, SeenInit

LEMMA StepIs == ASSUME AirInv, [Next]_vars PROVE AirInv'
<1>1. CASE UNCHANGED vars BY <1>1 DEF vars, AirInv
<1>2. CASE Next
  <2>1. CASE Pump BY <2>1, PumpIs
  <2>2. CASE Write BY <2>2, WriteIs
  <2>3. CASE ConnectionLost BY <2>3, LostIs
  <2>4. CASE Happens
    <3>1. \/ SendHeld \/ Tick
          \/ EncoderStarts \/ EncoderStops \/ \E kind \in Kinds : Receive(kind)
          \/ \/ \E d \in SetDelays, mode \in Modes : ASetDelay(d, mode)
             \/ \E when \in {"Now", "AfterAir"} : AGoLive(when)
             \/ ACancel \/ ASetKeepHistory
             \/ \E change \in 1 .. eng.change : ASlateShown(change)
          \/ \/ \E cover \in BOOLEAN : ADump(cover)
             \/ \E mode \in Modes, cover \in BOOLEAN : StartDump(mode, cover)
             \/ \E n \in 0 .. Len(log) : FinishDump(n)
             \/ FinishDumpUnconnected
          \/ Connect \/ Disconnected
          \/ EndAfterAir \/ CancelEnd \/ RestartedAfterEnd \/ EndNow
      BY <2>4 DEF Happens
    <3> QED BY <3>1, HeldAgainIs, TimeIs, EncoderIs, CommandsAre, DumpsAre, ConnectionIs, EndIs
  <2> QED BY <1>2, <2>1, <2>2, <2>3, <2>4 DEF Next
<1> QED BY <1>1, <1>2

LEMMA Invariant == Spec => []AirInv
<1>1. Init => AirInv BY FreshIs
<1>2. AirInv /\ [Next]_vars => AirInv' BY StepIs
<1> QED BY <1>1, <1>2, PTL DEF Spec

(* The engine's state is well formed whatever the encoder, the streamer,   *)
(* the overlay and the connection do: the ring holds what lies between its *)
(* bounds, in the order of arrival, the places to start from are in it, and*)
(* a change is under way only in a broadcast that airs (Engine's fields in *)
(* crates/engine/src/lib.rs, which each of its methods keeps so).          *)
THEOREM WellFormedEngine == Spec => []TypeOK
<1>1. AirInv => TypeOK
  <2>1. ASSUME AirInv PROVE TypeOK
    <3>1. Buffer(eng, now, seen.count) /\ Sending(eng) BY <2>1 DEF AirInv, WellFormed
    <3>2. 0 <= eng.base /\ eng.base <= eng.next BY <3>1 DEF Buffer
    <3>3. eng.delay \in Nat /\ eng.target \in 0..MaxDelay /\ eng.cursor <= eng.next BY <3>1 DEF Sending
    <3> QED BY <3>1, <3>2, <3>3 DEF TypeOK, Buffer, Sending
  <2> QED BY <2>1
<1> QED BY <1>1, Invariant, PTL

(* The overlays are told to show the slate exactly while a change needs it,*)
(* whichever of the commands, the connection, memory, the encoder or the   *)
(* end of the broadcast replaced, gave up or finished that change (the     *)
(* writes of mask_visible in crates/engine/src/lib.rs, which stand apart   *)
(* from those of pending).                                                 *)
THEOREM SlateIsRight == Spec => []SlateWhileCovered
<1>1. AirInv => SlateWhileCovered
  <2>1. ASSUME AirInv PROVE eng.slate = Covers(eng.pend)
    BY <2>1 DEF AirInv, WellFormed, Slated
  <2>2. Covers(eng.pend) \in BOOLEAN BY DEF Covers
  <2> QED BY <2>1, <2>2 DEF SlateWhileCovered
<1> QED BY <1>1, Invariant, PTL

(* Nothing recorded after the point where the streamer ended the broadcast *)
(* waits to be sent, whatever dumps, jumps, outages and new encoder        *)
(* sessions come before it has all aired (end_mark, in poll_budget() and   *)
(* in dump() of crates/engine/src/lib.rs, and the queue of the egress).    *)
THEOREM EndIsKept == Spec => []NothingAfterTheEnd
<1>1. AirInv => NothingAfterTheEnd
  <2>1. ASSUME AirInv, late = <<>>, eng.mark # None, NEW i \in DOMAIN queue
        PROVE  queue[i].seq <= eng.mark
    BY <2>1 DEF AirInv, UpTo, ToSet
  <2> QED BY <2>1 DEF NothingAfterTheEnd
<1> QED BY <1>1, Invariant, PTL

-----------------------------------------------------------------------------
(* The slate hides the jump: when the engine knows that the slate shows    *)
(* for a change that awaits it, it is since an overlay painted it.         *)

PaintedInv ==
  /\ ops \in Nat
  /\ Awaits(eng) /\ eng.pend.shown # None => seen.painted = eng.pend.shown

Hidden ==
  \/ "unconfirmed" \in eng'.warn
  \/ seen'.painted # None /\ Anchor.at >= seen'.painted + Margin

LEMMA PaintedStays ==
  ASSUME PaintedInv, ops' = ops \/ ops' = ops + 1, Recalls(eng, eng'),
         eng'.change = eng.change => seen'.painted = seen.painted
  PROVE  PaintedInv'
<1>1. ops' \in Nat BY DEF PaintedInv
<1>2. Awaits(eng') /\ eng'.pend.shown # None => seen'.painted = eng'.pend.shown
  BY DEF PaintedInv, Recalls
<1> QED BY <1>1, <1>2 DEF PaintedInv, Awaits

LEMMA NotPicked ==
  ASSUME AirInv, PaintedInv,
         \/ ops' = ops + 1
         \/ eng'.pend = eng.pend
         \/ Settled(eng, eng')
         \/ Leaves(eng, eng')
         \/ ~eng'.started
  PROVE  ~Picked
<1>1. SUFFICES ASSUME Picked PROVE FALSE OBVIOUS
<1>2. /\ eng.pend.to = "Mask" /\ eng.pend.anchor = None /\ ops' = ops /\ eng'.started
      /\ \/ eng'.pend.to = "Mask" /\ eng'.pend.anchor # None
         \/ eng'.pend = NoChange /\ eng'.delay > eng.delay
  BY <1>1 DEF Picked
<1>3. NoChange.to = "None" BY DEF NoChange
<1>4. ops' # ops + 1 BY <1>2 DEF PaintedInv
<1>5. eng'.pend # eng.pend BY <1>2, <1>3
<1>6. ~Settled(eng, eng')
  <2>1. eng'.pend.to \notin {"Hold", "Replay", "Dump"} BY <1>2, <1>3
  <2>2. eng.delay \in Nat BY DEF AirInv, WellFormed, Sending
  <2>3. ~(eng'.pend = NoChange /\ eng'.delay = eng.delay) BY <1>2, <1>3, <2>2
  <2> QED BY <2>1, <2>3 DEF Settled
<1>7. ~Leaves(eng, eng') BY <1>2, <1>5 DEF Leaves
<1> QED BY <1>2, <1>4, <1>5, <1>6, <1>7

(* What the engine knows hides the jump that it goes on to make. *)
LEMMA PicksHidden ==
  ASSUME AirInv, PaintedInv, Awaits(eng), Hides(eng, eng'), eng'.pend # eng.pend,
         seen'.painted = seen.painted
  PROVE  Hidden
<1> DEFINE k == IF eng'.pend.to = "Mask" THEN eng'.pend.anchor
                ELSE IF eng'.spliced THEN eng'.cursor ELSE eng'.cursor - 1
<1>1. Sure(eng, k, eng')
  <2>1. CASE Anchors(eng, eng') BY <2>1 DEF Anchors
  <2>2. CASE /\ eng'.pend = NoChange
             /\ Sure(eng, IF eng'.spliced THEN eng'.cursor ELSE eng'.cursor - 1, eng')
    <3>1. eng'.pend.to # "Mask" BY <2>2 DEF NoChange
    <3> QED BY <2>2, <3>1
  <2> QED BY <2>1, <2>2 DEF Hides
<1>2. Anchor = eng.ring[k] BY DEF Anchor
<1> HIDE DEF k
<1>3. CASE eng.pend.shown = None BY <1>1, <1>3 DEF Sure, Hidden
<1>4. CASE eng.pend.shown # None
  <2>1. seen'.painted = eng.pend.shown BY <1>4 DEF PaintedInv
  <2>2. eng.pend.shown \in Int BY Kinded DEF AirInv, WellFormed, Sending, Awaits
  <2>3. eng.ring[k].at >= Margin + eng.pend.shown BY <1>1, <1>4 DEF Sure, SurelyCovered
  <2>4. Anchor.at >= seen'.painted + Margin BY <1>2, <2>1, <2>2, <2>3, EngineConstants
  <2> QED BY <1>4, <2>1, <2>4 DEF Hidden
<1> QED BY <1>3, <1>4

(* The engine alone *)

LEMMA LookedWaits ==
  ASSUME NEW e, NEW t \in Nat, NEW n \in Nat, WellFormed(e, t, n)
  PROVE  Waits(e, Looked(Refreshed(e, t), t))
<1> DEFINE v == Evict(e, t)
           r == Refreshed(e, t)
           x == Looked(r, t)
<1>1. WellFormed(v, t, n) /\ Leaves(e, v) BY EvictedIs, EvictLeaves
<1>2. r = RunPending(v, t) BY DEF Refreshed
<1> HIDE DEF v
<1>3. Waits(v, r) BY <1>1, <1>2, RunWaits
<1>4. Shape(r) BY LookedIs DEF WellFormed
<1> HIDE DEF r
<1>5. Leaves(r, x) BY <1>4, LookedLeaves
<1> HIDE DEF x
<1>6. Waits(e, v) /\ Waits(r, x) BY <1>1, <1>5, LeavesWaiting
<1>7. Waits(e, r) BY <1>3, <1>6, WaitsOn
<1>8. Waits(e, x) BY <1>6, <1>7, WaitsOn
<1> QED BY <1>8 DEF x, r

LEMMA TakenWaits ==
  ASSUME NEW e, NEW t \in Nat, NEW n \in Nat, WellFormed(e, t, n), e.cursor \in Buffered(e)
  PROVE  Waits(e, HandedOver(e, t)) /\ Waits(e, Dropped(e, t))
<1> DEFINE y == [e EXCEPT !.first = IF @ = None THEN e.cursor ELSE @, !.spliced = FALSE, !.cursor = @ + 1]
           z == [e EXCEPT !.cursor = @ + 1]
<1>1. HandedOver(e, t) = RunPending(y, t) /\ Dropped(e, t) = RunPending(z, t)
  BY DEF HandedOver, Dropped
<1>2. WellFormed(y, t, n) /\ WellFormed(z, t, n) BY HandedIs DEF Turns
<1>3. y.pend = e.pend /\ z.pend = e.pend BY DEF WellFormed, Shape
<1> HIDE DEF y, z
<1>4. Waits(y, RunPending(y, t)) /\ Waits(z, RunPending(z, t)) BY <1>2, RunWaits
<1> QED BY <1>1, <1>3, <1>4 DEF Waits

(* What an overlay told the engine, before the change goes on. *)
LEMMA Painted ==
  ASSUME NEW e, NEW t \in Nat, NEW n \in Nat, WellFormed(e, t, n), NEW change
  PROVE  \E y : /\ SlateShown(e, change, t) = RunPending(y, t)
                /\ WellFormed(y, t, n) /\ y.syncs = e.syncs /\ y.ring = e.ring /\ y.change = e.change
                /\ \/ y = e /\ (Awaits(e) /\ change = e.change => e.pend.shown # None)
                   \/ /\ change = e.change /\ (Awaits(y) <=> Awaits(e))
                      /\ y.pend.shown = t
<1> DEFINE p == [e.pend EXCEPT !.shown = t]
           x == [e EXCEPT !.pend.shown = t]
           counts == /\ change = e.change
                     /\ e.pend.to = "Dump" \/ (e.pend.to = "Mask" /\ e.pend.anchor = None)
                     /\ e.pend.shown = None
           y == IF counts THEN x ELSE e
<1>1. SlateShown(e, change, t) = RunPending(y, t) BY DEF SlateShown
<1>2. CASE counts
  <2>1. e.pend \in Changes /\ e.pend.to \in {"Mask", "Dump"} BY <1>2 DEF WellFormed, Sending
  <2>2. p \in Changes /\ p.to = e.pend.to /\ p.shown = t
    <3>1. CASE e.pend.to = "Mask" BY <2>1, <3>1 DEF Changes, NoChange
    <3>2. CASE e.pend.to = "Dump" BY <2>1, <3>2 DEF Changes, NoChange
    <3> QED BY <2>1, <3>1, <3>2
  <2>3. e.pend.to = "Mask" => p.anchor = e.pend.anchor BY <2>1 DEF Changes, NoChange
  <2>4. x = [e EXCEPT !.pend = p] OBVIOUS
  <2>5. x.pend = p BY <2>4 DEF WellFormed, Shape
  <2>6. y = x BY <1>2
  <2> HIDE DEF p, x
  <2>7. Turns(e, x, t, n) BY <2>2, <2>4, Learns
  <2>8. Awaits(x) <=> Awaits(e) BY <2>2, <2>3, <2>5 DEF Awaits
  <2> QED BY <1>1, <1>2, <2>2, <2>5, <2>6, <2>7, <2>8 DEF Turns, Keeps
<1>3. CASE ~counts
  <2>1. y = e BY <1>3
  <2>2. Awaits(e) /\ change = e.change => e.pend.shown # None BY <1>3 DEF Awaits
  <2> QED BY <1>1, <2>1, <2>2
<1> QED BY <1>2, <1>3

(* The whole *)

LEMMA PumpHides ==
  ASSUME AirInv, PaintedInv, Pump
  PROVE  PaintedInv' /\ (Picked => Hidden)
<1> DEFINE r == Refreshed(eng, now)
           x == Looked(r, now)
<1>1. \/ Prepare(x)
      \/ Sends(r, x) /\ (Send(x) \/ Drop(x))
  BY DEF Pump
<1>2. WellFormed(eng, now, seen.count) /\ now \in Nat /\ seen.count \in Nat BY TypesIs
<1>3. WellFormed(x, now, seen.count) /\ x.change = eng.change BY <1>2, LookedIs
<1>4. Waits(eng, x) BY <1>2, LookedWaits
<1>5. Awaits(eng) => Within(eng, x) /\ (x.pend = eng.pend \/ Unmasks(eng, x)) BY <1>2, LookedHides
<1> HIDE DEF r, x
<1>6. Sends(r, x) => x.cursor \in Buffered(x) BY DEF Sends, Finds, Due
<1>7. Muted(x) => x.pend.to = "Mask" BY DEF Muted
<1>8. ASSUME Sends(r, x)
      PROVE  /\ Waits(x, HandedOver(x, now)) /\ Waits(x, Dropped(x, now))
             /\ HandedOver(x, now).change = x.change /\ Dropped(x, now).change = x.change
             /\ Awaits(eng) => /\ Hides(eng, HandedOver(x, now))
                               /\ x.pend.to = "Mask" => Hides(eng, Dropped(x, now))
  <2>1. Waits(x, HandedOver(x, now)) /\ Waits(x, Dropped(x, now)) BY <1>2, <1>3, <1>6, <1>8, TakenWaits
  <2>2. HandedOver(x, now).change = x.change /\ Dropped(x, now).change = x.change
    BY <1>2, <1>3, <1>6, <1>8, TakenIs DEF Turns, Keeps
  <2>3. Awaits(eng) => /\ Hides(eng, HandedOver(x, now))
                       /\ x.pend.to = "Mask" => Hides(eng, Dropped(x, now))
    BY <1>2, <1>3, <1>5, <1>6, <1>8, TakenHides
  <2> QED BY <2>1, <2>2, <2>3
<1>9. Awaits(eng) => Hides(eng, x)
  <2>1. ASSUME Awaits(eng), Unmasks(eng, x) PROVE Hides(eng, x)
    <3>1. CASE x.pend.to = "Mask" /\ Sure(eng, x.pend.anchor, x) BY <3>1 DEF Anchors, Hides
    <3>2. CASE x.pend = NoChange /\ x.spliced /\ Sure(eng, x.cursor, x) BY <3>2 DEF Hides
    <3> QED BY <2>1, <3>1, <3>2 DEF Unmasks
  <2> QED BY <1>5, <2>1 DEF Hides
<1>10. /\ Waits(eng, eng') /\ eng'.change = eng.change /\ ops' = ops
       /\ Awaits(eng) => Hides(eng, eng')
       /\ seen'.painted = seen.painted
  <2>1. ASSUME NEW e, NEW p, NEW gone, NEW aired, Step(e, p, gone, aired), e.change = eng.change
        PROVE  eng' = e /\ seen'.painted = seen.painted
    BY <2>1 DEF Step, AirInv
  <2>2. CASE Prepare(x) BY <1>3, <1>4, <1>9, <2>1, <2>2 DEF Prepare
  <2>3. CASE Sends(r, x) /\ Send(x)
    <3> DEFINE e == HandedOver(x, now)
    <3>1. Step(e, seen.promise, {}, seen.aired) /\ ops' = ops BY <2>3 DEF Send
    <3>2. Waits(x, e) /\ e.change = x.change /\ (Awaits(eng) => Hides(eng, e)) BY <1>8, <2>3
    <3> HIDE DEF e
    <3>3. eng' = e /\ seen'.painted = seen.painted BY <1>3, <2>1, <3>1, <3>2
    <3>4. Waits(eng, e) BY <1>4, <3>2, WaitsOn
    <3> QED BY <1>3, <3>1, <3>2, <3>3, <3>4
  <2>4. CASE Sends(r, x) /\ Drop(x)
    <3> DEFINE e == Dropped(x, now)
    <3>1. Step(e, seen.promise, {}, seen.aired) /\ ops' = ops /\ Muted(x) BY <2>4 DEF Drop
    <3>2. Waits(x, e) /\ e.change = x.change /\ (Awaits(eng) => Hides(eng, e)) BY <1>7, <1>8, <2>4, <3>1
    <3> HIDE DEF e
    <3>3. eng' = e /\ seen'.painted = seen.painted BY <1>3, <2>1, <3>1, <3>2
    <3>4. Waits(eng, e) BY <1>4, <3>2, WaitsOn
    <3> QED BY <1>3, <3>1, <3>2, <3>3, <3>4
  <2> QED BY <1>1, <2>2, <2>3, <2>4
<1>11. PaintedInv'
  <2>1. PICK e : e = eng' OBVIOUS
  <2>2. Recalls(eng, e) BY <1>10, <2>1, RecallsIf
  <2> QED BY <1>10, <2>1, <2>2, PaintedStays
<1>12. ASSUME Picked PROVE Hidden
  <2>1. Awaits(eng) /\ Hides(eng, eng') /\ eng'.pend # eng.pend
    <3>1. Awaits(eng) BY <1>12 DEF Picked, Awaits
    <3>2. eng'.pend # eng.pend BY <1>12, NotPicked
    <3> QED BY <1>10, <3>1, <3>2
  <2> QED BY <1>10, <2>1, PicksHidden
<1> QED BY <1>11, <1>12

LEMMA StaysHidden ==
  ASSUME AirInv, PaintedInv, ops' = ops \/ ops' = ops + 1, Recalls(eng, eng'),
         eng'.change = eng.change => seen'.painted = seen.painted, ~Picked
  PROVE  PaintedInv' /\ (Picked => Hidden)
<1>1. PaintedInv' BY PaintedStays
<1> QED BY <1>1

(* The change under way is left alone. *)
LEMMA SameHides ==
  ASSUME AirInv, PaintedInv, ops' = ops \/ ops' = ops + 1,
         eng'.pend = eng.pend, eng'.change = eng.change, seen'.painted = seen.painted
  PROVE  PaintedInv' /\ (Picked => Hidden)
<1>1. Recalls(eng, eng') BY DEF Recalls, Awaits
<1>2. ~Picked BY NotPicked
<1> QED BY <1>1, <1>2, StaysHidden

LEMMA LeavesHides ==
  ASSUME AirInv, PaintedInv, ops' = ops \/ ops' = ops + 1,
         Leaves(eng, eng'), eng'.change = eng.change, seen'.painted = seen.painted
  PROVE  PaintedInv' /\ (Picked => Hidden)
<1>1. Recalls(eng, eng') BY DEF Leaves, Recalls, Awaits
<1>2. ~Picked BY NotPicked
<1> QED BY <1>1, <1>2, StaysHidden

(* A step of the engine resets what is known of the slate with its change. *)
LEMMA StepRecalls ==
  ASSUME AirInv, NEW e, NEW p, NEW gone, NEW aired, Step(e, p, gone, aired)
  PROVE  eng' = e /\ (e.change = eng.change => seen'.painted = seen.painted)
BY DEF Step, AirInv

LEMMA CommandHides ==
  ASSUME AirInv, PaintedInv, NEW e, NEW p, Commanded(e, p), Recalls(eng, e)
  PROVE  PaintedInv' /\ (Picked => Hidden)
<1>1. Step(e, p, {}, seen.aired) /\ ops' = ops + 1 BY DEF Commanded, Counted
<1>2. eng' = e /\ (e.change = eng.change => seen'.painted = seen.painted) BY <1>1, StepRecalls
<1>3. Recalls(eng, eng') BY <1>2
<1>4. ~Picked BY <1>1, NotPicked
<1> QED BY <1>1, <1>2, <1>3, <1>4, StaysHidden

LEMMA EncoderHides ==
  ASSUME AirInv, PaintedInv,
         EncoderStarts \/ EncoderStops \/ \E kind \in Kinds : Receive(kind)
  PROVE  PaintedInv' /\ (Picked => Hidden)
<1>1. WellFormed(eng, now, seen.count) /\ now \in Nat /\ seen.count \in Nat BY TypesIs
<1>2. CASE EncoderStarts
  <2>1. eng' = IngestStart(eng) /\ seen'.painted = seen.painted /\ ops' = ops
    BY <1>2 DEF EncoderStarts, AirInv
  <2>2. eng'.pend = eng.pend /\ eng'.change = eng.change BY <1>1, <2>1, StartIs
  <2> QED BY <2>1, <2>2, SameHides
<1>3. CASE EncoderStops
  <2>1. eng' = IngestEnd(eng) /\ seen' = seen /\ ops' = ops BY <1>3 DEF EncoderStops
  <2>2. eng'.pend = eng.pend /\ eng'.change = eng.change BY <1>1, <2>1, StopIs DEF Turns, Keeps
  <2> QED BY <2>1, <2>2, SameHides
<1>4. ASSUME NEW kind \in Kinds, Receive(kind) PROVE PaintedInv' /\ (Picked => Hidden)
  <2> DEFINE m == [uid |-> seen.count + 1, kind |-> kind,
                   ref |-> IF kind = "delta" THEN seen.video ELSE None]
  <2>1. /\ eng.active /\ eng' = Ingest(eng, m, now) /\ seen'.painted = seen.painted /\ ops' = ops
    BY <1>4 DEF Receive, AirInv
  <2>2. m.uid = seen.count + 1 OBVIOUS
  <2> HIDE DEF m
  <2>3. eng'.change = eng.change BY <1>1, <2>1, <2>2, IngestIs
  <2>4. Leaves(eng, eng') BY <1>1, <2>1, <2>2, IngestLeaves
  <2> QED BY <2>1, <2>3, <2>4, LeavesHides
<1> QED BY <1>2, <1>3, <1>4

LEMMA CommandsHide ==
  ASSUME AirInv, PaintedInv,
         \/ \E d \in SetDelays, mode \in Modes : ASetDelay(d, mode)
         \/ \E when \in {"Now", "AfterAir"} : AGoLive(when)
         \/ ACancel \/ ASetKeepHistory
  PROVE  PaintedInv' /\ (Picked => Hidden)
<1>1. WellFormed(eng, now, seen.count) /\ now \in Nat /\ seen.count \in Nat BY TypesIs
<1>2. ASSUME NEW d \in SetDelays, NEW mode \in Modes, ASetDelay(d, mode)
      PROVE  PaintedInv' /\ (Picked => Hidden)
  <2>1. d \in 0 .. MaxDelay BY AiringConstants
  <2>2. Recalls(eng, SetDelay(eng, d, mode, now)) BY <1>1, <2>1, SetDelayIs
  <2> QED BY <1>2, <2>2, CommandHides DEF ASetDelay
<1>3. ASSUME NEW when \in {"Now", "AfterAir"}, AGoLive(when)
      PROVE  PaintedInv' /\ (Picked => Hidden)
  <2> DEFINE e == GoLiveCommand(eng, when, now)
  <2>1. Recalls(eng, e) BY <1>1, GoLiveCommandIs DEF Recalls
  <2>2. Commanded(e, IF e.pend.to = "AfterAir" THEN seen.promise ELSE 0) BY <1>3 DEF AGoLive
  <2> HIDE DEF e
  <2> QED BY <2>1, <2>2, CommandHides
<1>4. CASE ACancel
  <2> DEFINE e == Cancel(eng, now)
  <2>1. Waits(eng, e) /\ Turns(eng, e, now, seen.count) BY <1>1, CancelIs
  <2>2. Commanded(e, seen.promise) BY <1>4 DEF ACancel
  <2> HIDE DEF e
  <2>3. e.change = eng.change \/ ~Awaits(e) BY <2>1 DEF Turns, Keeps
  <2> QED BY <2>1, <2>2, <2>3, RecallsIf, CommandHides
<1>5. CASE ASetKeepHistory
  <2>1. eng' = [eng EXCEPT !.keep = ~@] /\ seen' = seen /\ ops' = ops + 1
    BY <1>5 DEF ASetKeepHistory, Counted
  <2>2. eng'.pend = eng.pend /\ eng'.change = eng.change BY <1>1, <2>1 DEF WellFormed, Shape
  <2> QED BY <2>1, <2>2, SameHides
<1> QED BY <1>2, <1>3, <1>4, <1>5

LEMMA ShownHides ==
  ASSUME AirInv, PaintedInv, NEW change, ASlateShown(change)
  PROVE  PaintedInv' /\ (Picked => Hidden)
<1>1. WellFormed(eng, now, seen.count) /\ now \in Nat /\ seen.count \in Nat BY TypesIs
<1>2. /\ seen.painted = None /\ eng' = SlateShown(eng, change, now) /\ ops' = ops
      /\ seen'.painted = IF change = eng.change THEN now ELSE seen.painted
  BY DEF ASlateShown, AirInv
<1>3. PICK y : /\ SlateShown(eng, change, now) = RunPending(y, now)
               /\ WellFormed(y, now, seen.count) /\ y.syncs = eng.syncs /\ y.ring = eng.ring
               /\ y.change = eng.change
               /\ \/ y = eng /\ (Awaits(eng) /\ change = eng.change => eng.pend.shown # None)
                  \/ /\ change = eng.change /\ (Awaits(y) <=> Awaits(eng))
                     /\ y.pend.shown = now
  BY <1>1, Painted, SMTT(30)
<1>4. PICK x : x = RunPending(y, now) OBVIOUS
<1>5. x = eng' BY <1>2, <1>3, <1>4
<1>6. Waits(y, x) BY <1>1, <1>3, <1>4, RunWaits
<1>7. Awaits(y) => Awaits(eng) /\ (y.pend.shown = None \/ y.pend.shown = seen'.painted)
  <2>1. CASE y = eng BY <1>2, <2>1 DEF PaintedInv
  <2>2. CASE change = eng.change /\ (Awaits(y) <=> Awaits(eng)) /\ y.pend.shown = now
    BY <1>2, <2>2
  <2> QED BY <1>3, <2>1, <2>2
<1>8. PaintedInv'
  <2>1. Awaits(x) => Awaits(y) /\ x.pend = y.pend BY <1>6 DEF Waits, Awaits
  <2>2. Awaits(x) /\ x.pend.shown # None => seen'.painted = x.pend.shown BY <1>7, <2>1
  <2> QED BY <1>2, <1>5, <2>2 DEF PaintedInv, Awaits
<1>9. ASSUME Picked PROVE Hidden
  <2>1. Awaits(eng) BY <1>9 DEF Picked, Awaits
  <2>2. Awaits(y) BY <1>3, <2>1
  <2>3. x = UnderSlate(y, y.pend, now) BY <1>4, <2>2, RunUnderSlate DEF Awaits
  <2>4. x.pend = y.pend \/ Anchors(y, x) \/ Jumps(y, x)
    BY <1>1, <1>3, <2>2, <2>3, Uncovers DEF Awaits
  <2>5. x.pend # y.pend
    <3>1. \/ x.pend.to = "Mask" /\ x.pend.anchor # None
          \/ x.pend = NoChange
      BY <1>5, <1>9 DEF Picked
    <3> QED BY <2>2, <3>1 DEF Awaits, NoChange
  <2> DEFINE k == IF x.pend.to = "Mask" THEN x.pend.anchor
                  ELSE IF x.spliced THEN x.cursor ELSE x.cursor - 1
  <2>6. Sure(y, k, x)
    <3>1. CASE Anchors(y, x) BY <3>1 DEF Anchors
    <3>2. CASE Jumps(y, x)
      <4>1. x.pend.to # "Mask" /\ x.spliced /\ Sure(y, x.cursor, x) BY <3>2 DEF Jumps, NoChange
      <4> QED BY <4>1
    <3> QED BY <2>4, <2>5, <3>1, <3>2
  <2>7. Anchor = eng.ring[k] BY <1>5 DEF Anchor
  <2> HIDE DEF k
  <2>8. CASE y.pend.shown = None BY <1>5, <2>6, <2>8 DEF Sure, Hidden
  <2>9. CASE y.pend.shown # None
    <3>1. seen'.painted = y.pend.shown BY <1>7, <2>2, <2>9
    <3>2. y.pend.shown \in Int BY <1>3, <2>2, Kinded DEF WellFormed, Sending, Awaits
    <3>3. y.ring[k].at >= Margin + y.pend.shown BY <2>6, <2>9 DEF Sure, SurelyCovered
    <3>4. Anchor.at >= seen'.painted + Margin BY <1>3, <2>7, <3>1, <3>2, <3>3, EngineConstants
    <3> QED BY <2>9, <3>1, <3>4 DEF Hidden
  <2> QED BY <2>8, <2>9
<1> QED BY <1>8, <1>9

LEMMA DumpsHide ==
  ASSUME AirInv, PaintedInv,
         \/ \E cover \in BOOLEAN : ADump(cover)
         \/ \E mode \in Modes, cover \in BOOLEAN : StartDump(mode, cover)
         \/ \E n \in 0 .. Len(log) : FinishDump(n)
         \/ FinishDumpUnconnected
  PROVE  PaintedInv' /\ (Picked => Hidden)
<1>1. WellFormed(eng, now, seen.count) /\ now \in Nat /\ seen.count \in Nat /\ Numbered(log)
  BY TypesIs
<1>2. ASSUME NEW e, NEW p, NEW gone, NEW got, Step(e, p, gone, got), ops' = ops \/ ops' = ops + 1,
             Settled(eng, e) \/ (e.pend = eng.pend /\ e.change = eng.change)
      PROVE  PaintedInv' /\ (Picked => Hidden)
  <2>1. eng' = e /\ (e.change = eng.change => seen'.painted = seen.painted) BY <1>2, StepRecalls
  <2>2. CASE Settled(eng, e)
    <3>1. ~Awaits(e) BY <2>2 DEF Settled, Awaits, NoChange
    <3>2. Recalls(eng, eng') BY <2>1, <3>1 DEF Recalls
    <3>3. Settled(eng, eng') BY <2>1, <2>2
    <3>4. ~Picked BY <3>3, NotPicked
    <3> QED BY <1>2, <2>1, <3>2, <3>4, StaysHidden
  <2>3. CASE e.pend = eng.pend /\ e.change = eng.change BY <1>2, <2>1, <2>3, SameHides
  <2> QED BY <1>2, <2>2, <2>3
<1>3. ASSUME NEW cover \in BOOLEAN, ADump(cover) PROVE PaintedInv' /\ (Picked => Hidden)
  <2> DEFINE e == DumpCommand(eng, "Mask", cover, now)
  <2>1. Settled(eng, e) \/ (e.pend = eng.pend /\ e.change = eng.change) BY <1>1, DumpCommandIs
  <2>2. Dumping(e, seen.aired, {}) /\ ops' = ops + 1 BY <1>3 DEF ADump, Counted
  <2> HIDE DEF e
  <2> QED BY <1>2, <2>1, <2>2 DEF Dumping
<1>4. ASSUME NEW mode \in Modes, NEW cover \in BOOLEAN, StartDump(mode, cover)
      PROVE  PaintedInv' /\ (Picked => Hidden)
  <2>1. eng' = eng /\ seen'.painted = seen.painted /\ ops' = ops + 1
    BY <1>4 DEF StartDump, Counted, AirInv
  <2> QED BY <2>1, SameHides
<1>5. ASSUME NEW n \in 0 .. Len(log), FinishDump(n) PROVE PaintedInv' /\ (Picked => Hidden)
  <2> DEFINE taken == LastWritten(SubSeq(log, 1, n))
             e == DumpAfter(eng, taken, cut.mode, cut.cover, now)
             got  == seen.aired \cup Uids(SubSeq(log, 1, n))
             lost == seen.back \cup Uids(SubSeq(log, n + 1, Len(log)))
  <2>1. Dumping(e, got, lost) /\ ops' = ops BY <1>5 DEF FinishDump
  <2>2. taken \in Int /\ taken >= None BY <1>1, PrefixIs, WrittenIs
  <2> HIDE DEF taken, got, lost
  <2>3. Settled(eng, e) \/ (e.pend = eng.pend /\ e.change = eng.change)
    BY <1>1, <2>2, DumpAfterIs DEF None
  <2> HIDE DEF e
  <2> QED BY <1>2, <2>1, <2>3 DEF Dumping
<1>6. CASE FinishDumpUnconnected
  <2> DEFINE e == DumpAfter(eng, None, "Mask", cut.cover, now)
  <2>1. Dumping(e, seen.aired, {}) /\ ops' = ops BY <1>6 DEF FinishDumpUnconnected
  <2>2. Settled(eng, e) \/ (e.pend = eng.pend /\ e.change = eng.change)
    BY <1>1, DumpAfterIs DEF None
  <2> HIDE DEF e
  <2> QED BY <1>2, <2>1, <2>2 DEF Dumping
<1> QED BY <1>3, <1>4, <1>5, <1>6

LEMMA ConnectionHides ==
  ASSUME AirInv, PaintedInv, Connect \/ Disconnected \/ ConnectionLost
  PROVE  PaintedInv' /\ (Picked => Hidden)
<1>1. WellFormed(eng, now, seen.count) /\ now \in Nat /\ seen.count \in Nat BY TypesIs
<1>2. CASE Connect
  <2> DEFINE e == OutputConnected(eng, now)
  <2>1. Leaves(eng, e) BY <1>1, ConnectedLeaves DEF WellFormed
  <2>2. Turns(eng, e, now, seen.count) BY <1>1, ConnectedIs
  <2>3. Step(e, seen.promise, {}, seen.aired) /\ ops' = ops BY <1>2 DEF Connect
  <2> HIDE DEF e
  <2>4. eng' = e /\ e.change = eng.change /\ seen'.painted = seen.painted
    BY <2>2, <2>3, StepRecalls DEF Turns, Keeps
  <2>5. Leaves(eng, eng') BY <2>1, <2>4
  <2> QED BY <2>3, <2>4, <2>5, LeavesHides
<1>3. CASE Disconnected
  <2>1. late # <<>> /\ eng' = OutputDisconnected(eng, late[1]) /\ seen' = seen /\ ops' = ops
    BY <1>3 DEF Disconnected
  <2>2. late[1] \in Int /\ late[1] >= None BY <2>1 DEF AirInv
  <2>3. eng'.pend = eng.pend /\ eng'.change = eng.change
    BY <1>1, <2>1, <2>2, DisconnectedIs, ZenonT(30) DEF None, Turns, Keeps
  <2> QED BY <2>1, <2>3, SameHides
<1>4. CASE ConnectionLost
  <2>1. eng' = eng /\ seen'.painted = seen.painted /\ ops' = ops + 1
    BY <1>4 DEF ConnectionLost, Counted, AirInv
  <2> QED BY <2>1, SameHides
<1> QED BY <1>2, <1>3, <1>4

LEMMA EndHides ==
  ASSUME AirInv, PaintedInv, EndAfterAir \/ CancelEnd \/ RestartedAfterEnd \/ EndNow
  PROVE  PaintedInv' /\ (Picked => Hidden)
<1>1. WellFormed(eng, now, seen.count) /\ now \in Nat /\ seen.count \in Nat BY TypesIs
<1>2. CASE EndAfterAir \/ CancelEnd
  <2>1. PICK m : eng' = [eng EXCEPT !.mark = m] /\ seen' = seen /\ ops' = ops + 1
    BY <1>2 DEF EndAfterAir, CancelEnd, Counted
  <2>2. eng'.pend = eng.pend /\ eng'.change = eng.change BY <1>1, <2>1 DEF WellFormed, Shape
  <2> QED BY <2>1, <2>2, SameHides
<1>3. ASSUME eng'.pend = NoChange, ops' = ops \/ ops' = ops + 1, ~Picked
      PROVE  PaintedInv' /\ (Picked => Hidden)
  <2>1. eng'.pend.to # "Mask" BY <1>3 DEF NoChange
  <2> QED BY <1>3, <2>1 DEF PaintedInv, Awaits
<1>4. CASE RestartedAfterEnd
  <2>1. eng' = RestartAfterEnd(eng) /\ ops' = ops BY <1>4 DEF RestartedAfterEnd
  <2>2. eng'.pend = NoChange /\ ~eng'.started BY <1>1, <2>1, RestartIs
  <2>3. ~Picked BY <2>2, NotPicked
  <2> QED BY <1>3, <2>1, <2>2, <2>3
<1>5. CASE EndNow
  <2>1. eng' = Discard(eng) /\ ops' = ops + 1 BY <1>5 DEF EndNow, Counted
  <2>2. eng'.pend = NoChange BY <1>1, <2>1, DiscardIs
  <2>3. ~Picked BY <2>1, NotPicked
  <2> QED BY <1>3, <2>1, <2>2, <2>3
<1> QED BY <1>2, <1>4, <1>5

LEMMA NextHides ==
  ASSUME AirInv, PaintedInv, Next
  PROVE  PaintedInv' /\ (Picked => Hidden)
<1>1. CASE Pump BY <1>1, PumpHides
<1>2. CASE Write \/ SendHeld \/ Tick
  <2>1. eng' = eng /\ seen' = seen /\ ops' = ops BY <1>2 DEF Write, SendHeld, Tick
  <2> QED BY <2>1, SameHides
<1>3. CASE ConnectionLost BY <1>3, ConnectionHides
<1>4. CASE Happens
  <2>1. \/ SendHeld \/ Tick
        \/ EncoderStarts \/ EncoderStops \/ \E kind \in Kinds : Receive(kind)
        \/ \/ \E d \in SetDelays, mode \in Modes : ASetDelay(d, mode)
           \/ \E when \in {"Now", "AfterAir"} : AGoLive(when)
           \/ ACancel \/ ASetKeepHistory
        \/ \E change \in 1 .. eng.change : ASlateShown(change)
        \/ \/ \E cover \in BOOLEAN : ADump(cover)
           \/ \E mode \in Modes, cover \in BOOLEAN : StartDump(mode, cover)
           \/ \E n \in 0 .. Len(log) : FinishDump(n)
           \/ FinishDumpUnconnected
        \/ Connect \/ Disconnected
        \/ EndAfterAir \/ CancelEnd \/ RestartedAfterEnd \/ EndNow
    BY <1>4 DEF Happens
  <2> QED
    BY <1>2, <2>1, EncoderHides, CommandsHide, ShownHides, DumpsHide, ConnectionHides, EndHides
<1> QED BY <1>1, <1>2, <1>3, <1>4 DEF Next

(* A delay that is raised under the slate is reached by going back to a    *)
(* keyframe recorded once the slate surely showed, or the state says that  *)
(* the engine could not tell; whatever the encoder, the overlays, memory,  *)
(* the connection and other commands do while it waits (run_pending() and  *)
(* mask_shown() in crates/engine/src/lib.rs; the overlay's report counts   *)
(* only for the change under way).                                         *)
THEOREM SlateHidesTheJump == Spec => MaskHidesJump
<1>1. Init => PaintedInv
  <2>1. ASSUME Init PROVE PaintedInv
    <3>1. PICK keep \in Keep : eng = NewEngine(keep, Initial) BY <2>1 DEF Init
    <3>2. eng.pend = NoChange BY <3>1 DEF NewEngine
    <3>3. ops = 0 /\ ~Awaits(eng) BY <2>1, <3>2 DEF Init, Awaits, NoChange
    <3> QED BY <3>3 DEF PaintedInv
  <2> QED BY <2>1
<1>2. AirInv /\ PaintedInv /\ [Next]_vars => PaintedInv'
  <2>1. ASSUME PaintedInv, UNCHANGED vars PROVE PaintedInv' BY <2>1 DEF vars, PaintedInv, Awaits
  <2> QED BY <2>1, NextHides
<1>3. AirInv /\ PaintedInv /\ [Next]_vars
        => [Picked => Hidden]_vars
  BY NextHides
<1>4. MaskHidesJump <=> [][Picked => Hidden]_vars BY DEF MaskHidesJump, Hidden
<1>5. Spec => []PaintedInv BY <1>1, <1>2, Invariant, PTL DEF Spec
<1> QED BY <1>3, <1>4, <1>5, Invariant, PTL DEF Spec
=============================================================================
