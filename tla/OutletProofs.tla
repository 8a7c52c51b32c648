---------------------------- MODULE OutletProofs ----------------------------
(***************************************************************************)
(* The core and the egress together are the outlet the core relies on: for *)
(* any number of messages, dumps, connections and broadcasts, and any      *)
(* limits, messages leave in order and without a gap, and nothing leaves   *)
(* that was taken back.                                                    *)
(***************************************************************************)
EXTENDS Link, FiniteSetTheorems, WellFoundedInduction, TLAPS

Cores ==
  [on : BOOLEAN, starts : Nat, up : BOOLEAN, gen : Nat, cut : Nat, dump : {"No", "Raised", "Asked"},
   cursor : Nat \ {0}, base : Nat \ {0}, edge : Nat, first : Nat, mark : Nat]
Control == [kind : {"Start", "Stop", "Abort"}] \cup [kind : {"Cut"}, cut : Nat]
Event ==
  [kind : {"Connected"}] \cup [kind : {"Disconnected"}, last : Nat]
    \cup [kind : {"CutDone"}, cut : Nat, reset : BOOLEAN, delivered : Nat]
Phases == {"Idle", "Connecting", "Backoff", "Waiting", "Live", "Writing", "Closing"}
Entry == Nat \X Nat
Egresses ==
  [phase : Phases, reply : Nat, gen : Nat, last : Nat, log : Seq(Entry), total : Nat, taken : Nat,
   batch : Seq(Nat), put : Nat]
Quad == Nat \X Nat \X Nat
Types ==
  /\ core \in Cores /\ eg \in Egresses
  /\ ctl \in Seq(Control) /\ media \in Seq(Quad) /\ events \in Seq(Event)
  /\ os \in [wire : Seq(Nat), flight : Seq(Nat), linger : Seq(Nat)]
  /\ hist \in [left : SUBSET Nat, acked : SUBSET Nat, wrote : SUBSET Nat, done : SUBSET Entry,
               tail : Nat, back : Nat]

-----------------------------------------------------------------------------
(* A connection that is up has a number; it goes on while the egress has   *)
(* not been told to end it.                                                *)
OnConnection == eg.phase \in {"Live", "Writing", "Closing"}
Numbered == OnConnection \/ (eg.phase = "Waiting" /\ eg.reply # None)
Ends(c) == c.kind \in {"Stop", "Abort"}
ToldToEnd == \E i \in DOMAIN ctl : Ends(ctl[i])
Going == Numbered /\ eg.phase # "Closing" /\ ~ToldToEnd

IsCut(c) == c.kind = "Cut"
IsAnswer(e) == e.kind = "CutDone"
Asking == \E i \in DOMAIN ctl : IsCut(ctl[i]) /\ ctl[i].cut = core.cut

Ranges ==
  /\ core.base <= core.cursor /\ core.cursor <= core.edge + 1
  /\ hist.back < core.base /\ hist.tail <= core.edge

(* Numbers of connections and dumps only rise, and a dump that waits has   *)
(* media of its number only after its end: so what is wanted is the end of *)
(* the queue.                                                              *)
Here(q) == q[1] = core.gen /\ q[2] = core.cut
Queued ==
  /\ \A i \in DOMAIN media : media[i][1] <= core.gen /\ media[i][2] <= core.cut
  /\ core.dump # "No" => \A i \in DOMAIN media : media[i][2] < core.cut
FromHere(k) == \A i \in DOMAIN media : Here(media[i]) <=> i >= k
LastHere == \E k \in 1 .. Len(media) + 1 : FromHere(k)

(* Each dump is asked for once, in turn, and answered once. *)
CutsAsked ==
  /\ \A i \in DOMAIN ctl : IsCut(ctl[i]) =>
       /\ ctl[i].cut <= core.cut
       /\ (core.dump = "Raised" => ctl[i].cut < core.cut)
       /\ (core.dump = "Raised" \/ Asking)
  /\ \A i, j \in DOMAIN ctl : IsCut(ctl[i]) /\ IsCut(ctl[j]) /\ i < j => ctl[i].cut < ctl[j].cut
CutsAnswered ==
  \A i \in DOMAIN events : IsAnswer(events[i]) =>
    /\ events[i].cut <= core.cut
    /\ (core.dump = "Raised" => events[i].cut < core.cut)
    /\ (events[i].cut = core.cut => ~Asking)

(* The two tasks mean the same connection, and nothing about another is    *)
(* still on its way to the core.                                           *)
InTouch ==
  /\ OnConnection => eg.gen = core.gen
  /\ eg.phase = "Waiting" /\ eg.reply # None => eg.reply = core.gen
  /\ Numbered => \A i \in DOMAIN events : IsAnswer(events[i])
  /\ \A i \in DOMAIN events :
       events[i].kind = "Connected" => (eg.phase = "Waiting" /\ eg.reply = None /\ i = Len(events))
NothingYet ==
  /\ ~OnConnection =>
       /\ eg.log = <<>> /\ eg.total = 0 /\ eg.last = None
       /\ os.wire = <<>> /\ os.flight = <<>>
  /\ eg.phase # "Writing" => eg.batch = <<>> /\ eg.put = 0
  /\ eg.put <= Len(eg.batch)

(* The core means the broadcast to be on, and knows of the connection,     *)
(* unless the egress is told to end it.                                    *)
Agreed ==
  /\ \A i \in DOMAIN ctl :
       ctl[i].kind = "Start" /\ (\A j \in DOMAIN ctl : j > i => ~Ends(ctl[j])) => core.on
  /\ eg.phase \notin {"Idle", "Closing"} /\ ~ToldToEnd => core.on
  /\ Going => core.up

-----------------------------------------------------------------------------
(* What is on the wire and in the batch is one row, which goes on from     *)
(* what left last, or from what was taken back.                            *)
InRow(s) == \A i \in DOMAIN s : s[i] = s[1] + i - 1
After(t) == 1 + Greater(t, hist.back)
Between(s) == \A i \in DOMAIN s : hist.back < s[i] /\ s[i] <= core.edge
Sending ==
  /\ InRow(os.wire) /\ Between(os.wire)
  /\ InRow(eg.batch) /\ Between(eg.batch)
  /\ os.wire # <<>> /\ hist.tail # 0 => os.wire[1] = After(hist.tail)
  /\ eg.batch # <<>> /\ os.wire # <<>> => os.wire[1] + Len(os.wire) = eg.batch[1] + eg.put
  /\ eg.batch # <<>> /\ os.wire = <<>> /\ hist.tail # 0 => After(hist.tail) = eg.batch[1] + eg.put
  /\ eg.batch # <<>> /\ os.wire = <<>> /\ hist.tail = 0 => eg.put = 0

(* Once a dump's answer is on its way nothing from before it waits. *)
Emptied == core.dump = "Asked" /\ ~Asking => os.wire = <<>> /\ eg.batch = <<>>

(* What is wanted of the queue is a row, too, up to the cursor. *)
Queue ==
  Going =>
    \A i \in DOMAIN media : Here(media[i]) =>
      core.base <= media[i][3] /\ media[i][3] + (Len(media) - i) + 1 = core.cursor

(* The next message this connection is to write is n: it continues what is *)
(* before it, or after a dump that has not reached the egress, the dump.   *)
Comes(n) == \E k \in 1 .. Len(media) + 1 : FromHere(k) /\ core.cursor = n + (Len(media) + 1 - k)
AllBelow(s) == \A i \in DOMAIN s : s[i] < core.base
Jumps ==
  /\ Comes(core.base)
  /\ eg.phase # "Waiting" => hist.tail < core.base
  /\ AllBelow(os.wire) /\ AllBelow(eg.batch)
Follows ==
  /\ eg.batch # <<>> => Comes(eg.batch[1] + Len(eg.batch))
  /\ eg.batch = <<>> /\ os.wire # <<>> => Comes(os.wire[1] + Len(os.wire))
  /\ eg.batch = <<>> /\ os.wire = <<>> /\ hist.tail # 0 /\ eg.phase # "Waiting" => Comes(After(hist.tail))
NextUp == Going /\ core.dump = "No" => IF Asking THEN Jumps ELSE Follows

(* A dump that took too long and has not reached the egress: a connection  *)
(* that is lost before it does goes on from the dump, no earlier.          *)
Lost(e) == e.kind = "Disconnected"
LossTold == \E i \in DOMAIN events : Lost(events[i])
Reported == core.up => Numbered \/ LossTold
Lasts ==
  /\ core.first <= core.edge /\ eg.last <= core.edge
  /\ \A i \in DOMAIN events : Lost(events[i]) => events[i].last <= core.edge
Restarts(last) ==
  /\ last < core.base
  /\ last = None => IF core.first = None THEN core.cursor = core.base ELSE core.first <= core.base
Ready ==
  core.dump = "No" /\ Asking =>
    /\ \A i \in DOMAIN events : Lost(events[i]) => Restarts(events[i].last)
    /\ Numbered => Restarts(eg.last)
    /\ ~Numbered /\ ~LossTold => core.cursor = core.base

OutletInv ==
  /\ Types /\ Ranges /\ Queued /\ LastHere /\ CutsAsked /\ CutsAnswered /\ InTouch /\ NothingYet
  /\ Agreed /\ Sending /\ Emptied /\ Queue /\ NextUp /\ Reported /\ Lasts /\ Ready

-----------------------------------------------------------------------------
(* The greatest and the least of a set of places in a sequence. *)
LEMMA Ends1 ==
  ASSUME NEW n \in Nat, NEW S, S \subseteq 1 .. n, S # {}
  PROVE  /\ Min(S) \in S /\ \A x \in S : Min(S) <= x
         /\ Max(S) \in S /\ \A x \in S : Max(S) >= x
<1>1. ASSUME NEW T, T \subseteq Nat, T # {} PROVE \E x \in T : \A y \in T : x <= y
  <2> DEFINE R == OpToRel(<, Nat)
  <2>1. R = {p \in Nat \X Nat : p[1] < p[2]} BY Zenon DEF OpToRel
  <2>2. ASSUME NEW x \in Nat, NEW y \in Nat, y < x PROVE <<y, x>> \in R
    <3>1. <<y, x>> \in Nat \X Nat /\ <<y, x>>[1] = y /\ <<y, x>>[2] = x OBVIOUS
    <3> QED BY <2>1, <2>2, <3>1
  <2>3. IsWellFoundedOn(R, Nat) BY NatLessThanWellFounded
  <2> HIDE DEF R
  <2>4. \E x \in T : \A y \in T : ~ (<<y, x>> \in R) BY <1>1, <2>3, WFMin
  <2>5. PICK x \in T : \A y \in T : ~ (<<y, x>> \in R) BY <2>4
  <2>6. ASSUME NEW y \in T PROVE x <= y
    <3>1. x \in Nat /\ y \in Nat BY <1>1
    <3>2. ~ (y < x) BY <2>2, <2>5, <3>1
    <3> QED BY <3>1, <3>2
  <2> QED BY <2>6
<1>2. \E x \in S : \A y \in S : x <= y
  <2>1. S \subseteq Nat OBVIOUS
  <2> QED BY <1>1, <2>1
<1>3. \E x \in S : \A y \in S : x >= y
  <2> DEFINE T == {n - x : x \in S}
  <2>1. T \subseteq Nat /\ T # {}
    <3>1. \A x \in S : x \in 1 .. n /\ n - x \in Nat OBVIOUS
    <3> QED BY <3>1
  <2>2. PICK t \in T : \A y \in T : t <= y BY <1>1, <2>1
  <2>3. PICK x \in S : t = n - x OBVIOUS
  <2>4. ASSUME NEW y \in S PROVE x >= y
    <3>1. n - y \in T OBVIOUS
    <3>2. n - x <= n - y BY <2>2, <2>3, <3>1
    <3>3. x \in 1 .. n /\ y \in 1 .. n OBVIOUS
    <3> QED BY <3>2, <3>3
  <2> QED BY <2>4
<1>4. Min(S) \in S /\ \A x \in S : Min(S) <= x BY <1>2 DEF Min
<1>5. Max(S) \in S /\ \A x \in S : Max(S) >= x BY <1>3 DEF Max
<1> QED BY <1>4, <1>5

(* What is taken for a batch, if what is wanted is at the end. *)
LEMMA WantsTheEnd ==
  ASSUME NEW s \in Seq(Quad), NEW k \in 1 .. Len(s) + 1,
         \A i \in DOMAIN s : Wanted(s[i]) <=> i >= k
  PROVE  /\ Wants(s) \in Seq(Nat) /\ Len(Wants(s)) = Len(s) + 1 - k
         /\ \A n \in 1 .. Len(s) + 1 - k : Wants(s)[n] = s[k + n - 1][3]
<1> DEFINE here == {i \in DOMAIN s : Wanted(s[i])}
           c == Len(s) + 1 - k
<1>1. here = k .. Len(s) OBVIOUS
<1>2. Cardinality(here) = c
  <2>1. k \in Int /\ Len(s) \in Int /\ k <= Len(s) + 1 OBVIOUS
  <2>2. Cardinality(k .. Len(s)) = IF k > Len(s) THEN 0 ELSE Len(s) - k + 1 BY ONLY <2>1, FS_Interval
  <2>3. Cardinality(here) = Cardinality(k .. Len(s)) BY ONLY <1>1
  <2> HIDE DEF here
  <2> QED BY <2>1, <2>2, <2>3
<1>3. ASSUME NEW n \in 1 .. c PROVE Nth(here, n) = k + n - 1
  <2>1. ASSUME NEW x \in here PROVE Cardinality({j \in here : j < x}) = x - k
    <3>1. x \in k .. Len(s) BY <1>1
    <3>2. {j \in here : j < x} = k .. x - 1 BY <1>1, <3>1
    <3>3. k \in Int /\ x \in Int /\ x - 1 \in Int BY <3>1
    <3>4. Cardinality(k .. x - 1) = IF k > x - 1 THEN 0 ELSE (x - 1) - k + 1 BY ONLY <3>3, FS_Interval
    <3>5. k <= x BY <3>1
    <3>6. Cardinality({j \in here : j < x}) = Cardinality(k .. x - 1) BY ONLY <3>2
    <3> HIDE DEF here
    <3> QED BY <3>3, <3>4, <3>5, <3>6
  <2>2. k + n - 1 \in here BY <1>1
  <2>3. Cardinality({j \in here : j < k + n - 1}) = n - 1 BY <2>1, <2>2
  <2>4. Nth(here, n) \in here /\ Cardinality({j \in here : j < Nth(here, n)}) = n - 1
    BY <2>2, <2>3 DEF Nth
  <2>5. Nth(here, n) \in k .. Len(s) /\ Nth(here, n) - k = n - 1 BY <1>1, <2>1, <2>4
  <2> QED BY <2>5
<1>4. Wants(s) = [n \in 1 .. Cardinality(here) |-> s[Nth(here, n)][3]] BY DEF Wants
<1> HIDE DEF here
<1>5. Wants(s) = [n \in 1 .. c |-> s[Nth(here, n)][3]] BY <1>2, <1>4
<1>6. c \in Nat OBVIOUS
<1>7. \A n \in 1 .. c : s[k + n - 1][3] \in Nat BY DEF Quad
<1>8. \A n \in 1 .. c : Wants(s)[n] = s[k + n - 1][3] BY <1>3, <1>5
<1>9. Wants(s) \in [1 .. c -> Nat] BY <1>3, <1>5, <1>7, ZenonT(30)
<1>10. Wants(s) \in Seq(Nat) /\ Len(Wants(s)) = c
  <2> HIDE DEF c
  <2>1. ASSUME NEW w \in [1 .. c -> Nat] PROVE w \in Seq(Nat) /\ Len(w) = c BY <1>6
  <2> QED BY <1>9, <2>1
<1> QED BY <1>8, <1>10

-----------------------------------------------------------------------------
(* Types *)
LEMMA Unconnecteds == ASSUME NEW p \in Phases PROVE In(p) \in Egresses
<1>1. <<>> \in Seq(Entry) /\ <<>> \in Seq(Nat) OBVIOUS
<1>2. NoConnection \in Egresses BY <1>1 DEF NoConnection, None, Egresses, Phases
<1> QED BY <1>2 DEF In, Egresses

LEMMA Messages ==
  /\ Start \in Control /\ Stop \in Control /\ Abort \in Control /\ Connected \in Event
  /\ \A n \in Nat : Cut(n) \in Control /\ Disconnected(n) \in Event
  /\ \A n, d \in Nat, r \in BOOLEAN : CutDone(n, r, d) \in Event
BY DEF Start, Stop, Abort, Connected, Cut, Disconnected, CutDone, Control, Event

LEMMA ToldIs ==
  ASSUME Types, NEW k, Told(k)
  PROVE  /\ ctl # <<>> /\ ctl' = Tail(ctl) /\ ctl' \in Seq(Control) /\ Head(ctl) = ctl[1]
         /\ ctl[1] \in Control /\ ctl[1].kind = k /\ (k = "Cut" => ctl[1].cut \in Nat)
<1>1. ctl \in Seq(Control) /\ ctl # <<>> /\ ctl' = Tail(ctl) /\ Head(ctl).kind = k BY DEF Types, Told
<1>2. Head(ctl) = ctl[1] /\ ctl[1] \in Control /\ Tail(ctl) \in Seq(Control) BY <1>1
<1> QED BY <1>1, <1>2 DEF Control

LEMMA SentIsNat == ASSUME Types, NEW u \in Nat PROVE SurelySent(u) \in Nat
<1> DEFINE sent == {i \in DOMAIN eg.log : eg.log[i][2] + u <= eg.total}
<1>1. eg.log \in Seq(Entry) BY DEF Types, Egresses
<1>2. CASE sent = {} BY <1>2 DEF SurelySent, None
<1>3. CASE sent # {}
  <2>1. Len(eg.log) \in Nat /\ sent \subseteq 1 .. Len(eg.log) BY <1>1
  <2>2. Max(sent) \in sent BY <1>3, <2>1, Ends1
  <2>3. SurelySent(u) = eg.log[Max(sent)][1] BY <1>3 DEF SurelySent
  <2>4. Max(sent) \in DOMAIN eg.log BY <2>2
  <2> HIDE DEF sent
  <2>5. eg.log[Max(sent)] \in Entry BY <1>1, <2>4
  <2> QED BY <2>3, <2>5 DEF Entry
<1> QED BY <1>2, <1>3

LEMMA LoggedIs ==
  ASSUME NEW log \in Seq(Entry), NEW total \in Nat, eg.batch \in Seq(Nat), eg.batch # <<>>
  PROVE  LET all == Append(log, <<Last(eg.batch), total>>)
         IN \E f \in 1 .. Len(log) + 1 : /\ Logged(log, total) = SubSeq(all, f, Len(log) + 1)
                                        /\ Logged(log, total) \in Seq(Entry)
                                        /\ \A i \in 1 .. f - 1 : ~ (total - all[i][2] <= Kept)
<1> DEFINE last == <<Last(eg.batch), total>>
           all == Append(log, last)
           young == {i \in DOMAIN all : total - all[i][2] <= Kept}
<1>1. last \in Entry
  <2>1. Last(eg.batch) \in Nat BY DEF Last
  <2> QED BY <2>1 DEF Entry
<1>2. all \in Seq(Entry) /\ Len(all) = Len(log) + 1 /\ all[Len(all)] = last BY <1>1
<1>3. Len(all) \in young
  <2>1. last[2] = total /\ Kept \in Nat BY LinkConstants
  <2>2. Len(all) \in DOMAIN all BY <1>2
  <2> QED BY <1>2, <2>1, <2>2
<1>4. young \subseteq 1 .. Len(all) /\ Len(all) \in Nat BY <1>2
<1>5. Min(young) \in young BY <1>3, <1>4, Ends1
<1>6. Min(young) \in 1 .. Len(all) BY <1>4, <1>5
<1>7. Logged(log, total) = SubSeq(all, Min(young), Len(all)) BY DEF Logged
<1>9. \A i \in 1 .. Min(young) - 1 : i \in DOMAIN all /\ i \notin young
  <2>1. \A i \in young : Min(young) <= i BY <1>3, <1>4, Ends1
  <2>2. DOMAIN all = 1 .. Len(all) BY <1>2
  <2> HIDE DEF all, young
  <2> QED BY <1>4, <1>6, <2>1, <2>2
<1>10. \A i \in 1 .. Min(young) - 1 : ~ (total - all[i][2] <= Kept) BY <1>9
<1> HIDE DEF all, young
<1>8. SubSeq(all, Min(young), Len(all)) \in Seq(Entry) BY <1>2, <1>6
<1> QED BY <1>2, <1>6, <1>7, <1>8, <1>10 DEF all

LEMMA Constants == /\ Batch \in Nat \ {0} /\ OsHolds \in Nat \ {0} /\ HeldAtMost \in Nat \ {0}
                   /\ Kept \in Nat \ {0} /\ HeldAtMost >= OsHolds
BY LinkConstants

LEMMA HeldIs ==
  ASSUME Types, NEW blind \in Blind
  PROVE  /\ Held(blind) \in Nat
         /\ Held(blind) = HeldAtMost \/ Held(blind) = Len(os.wire) + Len(os.flight)
BY Constants DEF Types, Held

(* What is taken for a batch of what is wanted from place k on. *)
FirstOf(k, n) == IF k <= n THEN k ELSE n + 1
LEMMA Taken ==
  ASSUME Types, InTouch, OnConnection, NEW n \in 1 .. Len(media),
         NEW k \in 1 .. Len(media) + 1, FromHere(k)
  PROVE  LET w == Wants(SubSeq(media, 1, n))
         IN /\ w \in Seq(Nat) /\ Len(w) = n + 1 - FirstOf(k, n)
            /\ \A i \in 1 .. n + 1 - FirstOf(k, n) : w[i] = media[FirstOf(k, n) + i - 1][3]
<1> DEFINE q == SubSeq(media, 1, n)
           f == FirstOf(k, n)
<1>1. media \in Seq(Quad) /\ Len(media) \in Nat /\ eg.gen = core.gen BY DEF Types, InTouch
<1>2. q \in Seq(Quad) /\ Len(q) = n /\ \A i \in 1 .. n : q[i] = media[i] BY <1>1
<1>3. f \in 1 .. n + 1 BY DEF FirstOf
<1>4. \A i \in 1 .. n : Wanted(q[i]) <=> i >= f BY <1>1, <1>2 DEF FromHere, Here, Wanted, FirstOf
<1> HIDE DEF q, f
<1>5. /\ Wants(q) \in Seq(Nat) /\ Len(Wants(q)) = n + 1 - f
      /\ \A i \in 1 .. n + 1 - f : Wants(q)[i] = q[f + i - 1][3]
  <2>1. f \in 1 .. Len(q) + 1 BY <1>2, <1>3
  <2>2. \A i \in DOMAIN q : Wanted(q[i]) <=> i >= f BY <1>2, <1>4
  <2>3. /\ Wants(q) \in Seq(Nat) /\ Len(Wants(q)) = Len(q) + 1 - f
        /\ \A i \in 1 .. Len(q) + 1 - f : Wants(q)[i] = q[f + i - 1][3]
    BY ONLY <1>2, <2>1, <2>2, WantsTheEnd
  <2> QED BY <1>2, <2>3
<1>6. \A i \in 1 .. n + 1 - f : f + i - 1 \in 1 .. n BY <1>3
<1>7. \A i \in 1 .. n + 1 - f : Wants(q)[i] = media[f + i - 1][3] BY <1>2, <1>5, <1>6
<1> QED BY <1>5, <1>7 DEF q, f

LEMMA TypesInit == Init => Types
<1> SUFFICES ASSUME Init PROVE Types OBVIOUS
<1>1. /\ <<>> \in Seq(Control) /\ <<>> \in Seq(Quad) /\ <<>> \in Seq(Event) /\ <<>> \in Seq(Nat)
  OBVIOUS
<1>2. core \in Cores BY DEF Init, None, Cores
<1>3. eg \in Egresses BY Unconnecteds DEF Init, Phases
<1>4. hist \in [left : SUBSET Nat, acked : SUBSET Nat, wrote : SUBSET Nat, done : SUBSET Entry,
                tail : Nat, back : Nat]
  BY DEF Init, HistInit
<1>5. os \in [wire : Seq(Nat), flight : Seq(Nat), linger : Seq(Nat)] BY <1>1 DEF Init
<1> QED BY <1>1, <1>2, <1>3, <1>4, <1>5 DEF Init, Types

LEMMA TypesNext == OutletInv /\ [Next]_vars => Types'
<1> SUFFICES ASSUME OutletInv, [Next]_vars PROVE Types' OBVIOUS
<1>i. Types /\ Ranges /\ InTouch /\ LastHere BY DEF OutletInv
<1> DEFINE Oses == [wire : Seq(Nat), flight : Seq(Nat), linger : Seq(Nat)]
           Hists == [left : SUBSET Nat, acked : SUBSET Nat, wrote : SUBSET Nat, done : SUBSET Entry,
                     tail : Nat, back : Nat]
<1>t. /\ core \in Cores /\ eg \in Egresses
      /\ ctl \in Seq(Control) /\ media \in Seq(Quad) /\ events \in Seq(Event)
      /\ os \in Oses /\ hist \in Hists
  BY <1>i DEF Types
<1>b. ASSUME core' \in Cores, hist' = [hist EXCEPT !.back = core'.base - 1] PROVE hist' \in Hists
  <2>1. core'.base - 1 \in Nat BY <1>b DEF Cores
  <2> QED BY ONLY <1>t, <1>b, <2>1 DEF Hists
<1> HIDE DEF Oses, Hists
<1>n. core.edge + 1 \in Nat \ {0} /\ core.cursor + 1 \in Nat \ {0} /\ core.gen + 1 \in Nat /\ core.cut + 1 \in Nat
  BY <1>t, SMTT(30) DEF Cores
<1>k. <<>> \in Seq(Nat) /\ <<>> \in Seq(Quad) /\ <<>> \in Seq(Event) OBVIOUS
<1>f. ASSUME FinishDump PROVE core' \in Cores BY <1>t, <1>n, <1>f DEF FinishDump, Cores
<1>d. Discarded(core) \in Cores BY <1>t, <1>n DEF Discarded, Cores, None
<1>1. CASE Core
  <2>1. CASE Emit
    <3>1. core' \in Cores
      <4>1. Greater(core.edge, core.cursor) \in Nat /\ core.cursor \in Nat BY <1>t DEF Greater, Cores
      <4> QED BY <1>t, <1>n, <2>1, <4>1 DEF Emit, Cores
    <3>2. <<core.gen, core.cut, core.cursor>> \in Quad BY <1>t DEF Cores, Quad
    <3>3. media' \in Seq(Quad) BY <1>t, <2>1, <3>2 DEF Emit
    <3> QED BY <1>t, <2>1, <3>1, <3>3 DEF Emit, Types, Oses, Hists
  <2>2. CASE StartEgress \/ StopEgress \/ EndNow \/ EndAtMark \/ AskCut
    <3>1. core' \in Cores
      <4>1. CASE StartEgress
        <5>1. core.starts + 1 \in Nat BY <1>t DEF Cores
        <5> QED BY <1>t, <4>1, <5>1 DEF StartEgress, Cores
      <4>2. CASE StopEgress BY <1>t, <4>2 DEF StopEgress, Cores
      <4>5. CASE AskCut BY <1>t, <4>5 DEF AskCut, Cores
      <4>3. CASE EndNow \/ EndAtMark BY <1>d, <4>3 DEF EndNow, EndAtMark, Cores
      <4> QED BY <2>2, <4>1, <4>2, <4>3, <4>5
    <3>2. Cut(core.cut) \in Control BY <1>t, Messages DEF Cores
    <3>3. PICK c \in Control : ctl' = Append(ctl, c)
      BY <2>2, <3>2, Messages DEF StartEgress, StopEgress, EndNow, EndAtMark, AskCut
    <3>4. ctl' \in Seq(Control) BY <1>t, <3>3
    <3> QED BY <1>t, <2>2, <3>1, <3>4
      DEF StartEgress, StopEgress, EndNow, EndAtMark, AskCut, Types, Oses, Hists
  <2>3. CASE EndAfterAir \/ RaiseCut \/ DumpUnlinked
    <3>1. core' \in Cores
      <4>1. CASE EndAfterAir BY <1>t, <4>1 DEF EndAfterAir, Cores
      <4>2. CASE RaiseCut BY <1>t, <1>n, <4>2 DEF RaiseCut, Cores
      <4>3. CASE DumpUnlinked BY <1>f, <4>3 DEF DumpUnlinked
      <4> QED BY <2>3, <4>1, <4>2, <4>3
    <3> QED BY <1>t, <2>3, <3>1 DEF EndAfterAir, RaiseCut, DumpUnlinked, Types, Oses, Hists
  <2>4. CASE CheckDump
    <3>1. core' \in Cores BY <1>f, <2>4 DEF CheckDump
    <3>3. hist' \in Hists BY <1>t, <1>b, <2>4, <3>1 DEF CheckDump, TakenBack
    <3> QED BY <1>t, <2>4, <3>1, <3>3 DEF CheckDump, Types, Oses, Hists
  <2>5. CASE HandleEvent
    <3> DEFINE e == Head(events)
    <3>1. /\ events # <<>> /\ events' = Tail(events)
          /\ HandleCutDone(e) \/ HandleConnected(e) \/ HandleDisconnected(e)
          /\ UNCHANGED <<backlog, ctl, media, os>>
      BY <2>5 DEF HandleEvent
    <3>2. e \in Event /\ events' \in Seq(Event) BY <1>t, <3>1
    <3> HIDE DEF e
    <3>3. CASE HandleCutDone(e)
      <4>1. core' \in Cores BY <1>t, <1>f, <3>3 DEF HandleCutDone
      <4>3. hist' \in Hists BY <1>t, <1>b, <3>3, <4>1 DEF HandleCutDone, TakenBack
      <4> QED BY <1>t, <3>1, <3>2, <3>3, <4>1, <4>3 DEF HandleCutDone, Types, Oses, Hists
    <3>4. CASE HandleConnected(e)
      <4>1. core' \in Cores
        <5>1. PICK k \in {core.cursor, core.cursor - 1} :
                /\ k >= core.base
                /\ core' = [core EXCEPT !.up = TRUE, !.gen = @ + 1, !.cursor = k, !.first = None]
          BY <3>4 DEF HandleConnected
        <5>2. k \in Nat \ {0} BY <1>t, <5>1 DEF Cores
        <5> QED BY <1>t, <1>n, <5>1, <5>2 DEF Cores, None
      <4>2. eg' \in Egresses BY <1>t, <1>n, <3>4 DEF HandleConnected, Egresses
      <4> QED BY <1>t, <3>1, <3>2, <3>4, <4>1, <4>2 DEF HandleConnected, Types, Oses, Hists
    <3>5. CASE HandleDisconnected(e)
      <4>1. e.last \in Nat BY <3>2, <3>5 DEF HandleDisconnected, Event
      <4>2. Resume(e.last) \in Nat BY <1>t, <4>1 DEF Resume, Cores, None
      <4>3. Greater(core.base, Lesser(core.cursor, Resume(e.last))) \in Nat \ {0}
        BY <1>t, <4>2 DEF Cores, Greater, Lesser
      <4>4. core' \in Cores BY <1>t, <3>5, <4>3 DEF HandleDisconnected, Cores
      <4> QED BY <1>t, <3>1, <3>2, <3>5, <4>4 DEF HandleDisconnected, Types, Oses, Hists
    <3> QED BY <3>1, <3>3, <3>4, <3>5
  <2> QED BY <1>1, <2>1, <2>2, <2>3, <2>4, <2>5 DEF Core
<1>2. CASE Egress
  <2>l. Disconnected(eg.last) \in Event BY <1>t, Messages DEF Egresses
  <2>m. \A p \in Phases : In(p) \in Egresses BY Unconnecteds
  <2>h. ASSUME core' = core, hist' = [hist EXCEPT !.done = {}, !.back = core.base - 1] \/ TakenBack \/ hist' = hist
        PROVE  hist' \in Hists
    <3>1. core.base - 1 \in Nat BY <1>t DEF Cores
    <3> QED BY <1>t, <2>h, <3>1 DEF Hists, TakenBack
  <2>o. Close \/ Reset \/ os' = os => os' \in Oses
    <3>1. os.linger \o os.wire \in Seq(Nat) BY <1>t DEF Oses
    <3> QED BY <1>t, <1>k, <3>1 DEF Close, Reset, Oses
  <2>s. ASSUME NEW k, Told(k) PROVE ctl' \in Seq(Control) BY <1>i, <2>s, ToldIs
  <2>1. CASE TakeStart
    <3>1. eg' \in Egresses /\ events' \in Seq(Event) BY <1>t, <2>1, <2>m DEF TakeStart, Again, Phases
    <3> QED BY <1>t, <2>1, <2>s, <3>1 DEF TakeStart, Types, Oses, Hists
  <2>2. CASE StopUnconnected
    <3>1. eg' \in Egresses /\ events' \in Seq(Event) /\ media' \in Seq(Quad)
      BY <1>t, <1>k, <2>2, <2>m DEF StopUnconnected, Stopped, Phases
    <3>2. ctl' \in Seq(Control) BY <2>2, <2>s DEF StopUnconnected
    <3>3. hist' \in Hists BY <2>2, <2>h DEF StopUnconnected
    <3> QED BY <1>t, <2>2, <3>1, <3>2, <3>3 DEF StopUnconnected, Types, Oses, Hists
  <2>3. CASE CutUnconnected \/ CutLive
    <3>1. Told("Cut") BY <2>3 DEF CutUnconnected, CutLive
    <3>2. ctl' \in Seq(Control) /\ Head(ctl).cut \in Nat BY <1>i, <3>1, ToldIs
    <3>3. CutDone(Head(ctl).cut, FALSE, None) \in Event /\ CutDone(Head(ctl).cut, FALSE, eg.last) \in Event
      BY <1>t, <3>2, Messages DEF Egresses, None
    <3>4. PICK e \in Event : events' = Append(events, e) BY <2>3, <3>3 DEF CutUnconnected, CutLive
    <3>6. events' \in Seq(Event) BY <1>t, <3>4
    <3>5. hist' \in Hists BY <2>3, <2>h DEF CutUnconnected, CutLive
    <3> QED BY <1>t, <2>3, <3>2, <3>5, <3>6 DEF CutUnconnected, CutLive, Types, Oses, Hists
  <2>4. CASE DropQueued
    <3>1. media' \in Seq(Quad) BY <1>t, <2>4 DEF DropQueued
    <3> QED BY <1>t, <2>4, <3>1 DEF DropQueued, Types, Oses, Hists
  <2>5. CASE ConnectOk \/ ConnectFails \/ BackoffOver
    <3>1. eg' \in Egresses BY <2>5, <2>m DEF ConnectOk, ConnectFails, BackoffOver, Retry, Again, Phases
    <3>2. events' = Append(events, Connected) \/ events' = events \o <<>>
      BY <2>5 DEF ConnectOk, ConnectFails, BackoffOver, Retry, Again
    <3>4. Append(events, Connected) \in Seq(Event) /\ events \o <<>> \in Seq(Event) BY <1>t, <1>k, Messages
    <3>3. events' \in Seq(Event) BY <3>2, <3>4
    <3> QED BY <1>t, <2>5, <3>1, <3>3 DEF ConnectOk, ConnectFails, BackoffOver, Types, Oses, Hists
  <2>6. CASE Publish
    <3>1. eg' \in Egresses
      <4>1. In("Live") \in Egresses BY <2>m DEF Phases
      <4> QED BY <1>t, <2>6, <4>1 DEF Publish, Egresses
    <3>2. hist' \in Hists BY <1>t, <2>6 DEF Publish, Hists
    <3> QED BY <1>t, <2>6, <3>1, <3>2 DEF Publish, Types, Oses, Hists
  <2>7. CASE TakeBatch
    <3>1. PICK n \in 1 .. Lesser(Batch, Len(media)) :
            /\ eg' = [eg EXCEPT !.phase = "Writing", !.taken = n, !.put = 0,
                                !.batch = Wants(SubSeq(media, 1, n))]
            /\ media' = SubSeq(media, n + 1, Len(media))
      BY <2>7 DEF TakeBatch
    <3>2. n \in Nat /\ n <= Len(media) /\ Len(media) \in Nat BY <1>t, Constants DEF Lesser
    <3>3. media' \in Seq(Quad) /\ SubSeq(media, 1, n) \in Seq(Quad) BY <1>t, <3>1, <3>2
    <3>6. PICK k \in 1 .. Len(media) + 1 : FromHere(k) BY <1>i DEF LastHere
    <3>7. OnConnection BY <2>7 DEF TakeBatch, OnConnection
    <3>4. Wants(SubSeq(media, 1, n)) \in Seq(Nat) BY <1>i, <3>2, <3>6, <3>7, Taken
    <3>5. eg' \in Egresses BY <1>t, <3>1, <3>2, <3>4 DEF Egresses, Phases
    <3> QED BY <1>t, <2>7, <3>3, <3>5 DEF TakeBatch, Types, Oses, Hists
  <2>8. CASE Accept
    <3>1. eg.put + 1 \in Nat /\ eg.put + 1 \in DOMAIN eg.batch /\ eg.batch \in Seq(Nat)
      BY <1>t, <2>8, SMTT(30) DEF Accept, Egresses
    <3>2. eg.batch[eg.put + 1] \in Nat BY <3>1
    <3>3. eg' \in Egresses BY <1>t, <2>8, <3>1 DEF Accept, Egresses
    <3>6. Append(os.wire, eg.batch[eg.put + 1]) \in Seq(Nat) BY <1>t, <3>2 DEF Oses
    <3>4. os' \in Oses BY <1>t, <2>8, <3>6 DEF Accept, Oses
    <3>5. hist' \in Hists BY <1>t, <2>8, <3>2 DEF Accept, Hists
    <3> QED BY <1>t, <2>8, <3>3, <3>4, <3>5 DEF Accept, Types, Oses, Hists
  <2>9. CASE BatchDone
    <3>1. eg.batch \in Seq(Nat) /\ eg.log \in Seq(Entry) /\ eg.total + Len(eg.batch) \in Nat
      BY <1>t DEF Egresses
    <3>2. Done \in Egresses BY <1>t, <1>k DEF Done, Egresses, Phases
    <3>3. CASE eg.batch = <<>>
      BY <1>t, <2>9, <3>2, <3>3 DEF BatchDone, Types, Oses, Hists
    <3>4. CASE eg.batch # <<>>
      <4> DEFINE total == eg.total + Len(eg.batch)
      <4>1. /\ eg' = [Done EXCEPT !.total = total, !.last = Last(eg.batch), !.log = Logged(@, total)]
            /\ hist' = [hist EXCEPT !.done = @ \cup {<<Last(eg.batch), total>>}]
        BY <2>9, <3>4 DEF BatchDone
      <4>2. Last(eg.batch) \in Nat BY <3>1, <3>4 DEF Last
      <4>3. Logged(eg.log, total) \in Seq(Entry) BY <3>1, <3>4, LoggedIs
      <4>4. Done.log = eg.log BY <1>t DEF Done, Egresses
      <4>5. <<Last(eg.batch), total>> \in Entry BY <3>1, <4>2 DEF Entry
      <4> HIDE DEF total
      <4>6. total \in Nat BY <3>1 DEF total
      <4>7. eg' \in Egresses BY <3>2, <4>1, <4>2, <4>3, <4>4, <4>6 DEF Egresses
      <4>8. hist' \in Hists BY <1>t, <4>1, <4>5 DEF Hists
      <4> QED BY <1>t, <2>9, <4>7, <4>8 DEF BatchDone, Types, Oses, Hists
    <3> QED BY <3>3, <3>4
  <2>10. CASE CutReset
    <3>1. PICK blind \in Blind :
            Again(<<CutDone(Head(ctl).cut, TRUE, SurelySent(Held(blind))), Disconnected(eg.last)>>)
      BY <2>10 DEF CutReset
    <3>2. Told("Cut") /\ Reset BY <2>10 DEF CutReset
    <3>3. ctl' \in Seq(Control) /\ Head(ctl).cut \in Nat BY <1>i, <3>2, ToldIs
    <3>4. Held(blind) \in Nat /\ SurelySent(Held(blind)) \in Nat BY <1>i, HeldIs, SentIsNat
    <3>5. CutDone(Head(ctl).cut, TRUE, SurelySent(Held(blind))) \in Event BY <3>3, <3>4, Messages
    <3> DEFINE reports == <<CutDone(Head(ctl).cut, TRUE, SurelySent(Held(blind))), Disconnected(eg.last)>>
    <3>6. reports \in Seq(Event)
      <4>1. ASSUME NEW a \in Event, NEW b \in Event PROVE <<a, b>> \in Seq(Event) OBVIOUS
      <4> QED BY <2>l, <3>5, <4>1
    <3>9. eg' = In("Connecting") /\ events' = events \o reports BY <3>1 DEF Again
    <3> HIDE DEF reports
    <3>7. events' \in Seq(Event) /\ eg' \in Egresses BY <1>t, <2>m, <3>6, <3>9 DEF Phases
    <3>8. hist' \in Hists BY <2>10, <2>h DEF CutReset
    <3>10. core' = core /\ media' = media BY <2>10 DEF CutReset
    <3>11. os' \in Oses BY <2>o, <3>2
    <3> QED BY <1>t, <3>3, <3>7, <3>8, <3>10, <3>11 DEF Types, Oses, Hists
  <2>11. CASE StopLive
    <3>1. Told("Stop") /\ eg' \in Egresses BY <1>t, <2>11 DEF StopLive, Egresses, Phases
    <3> QED BY <1>t, <2>11, <2>s, <3>1 DEF StopLive, Types, Oses, Hists
  <2>12. CASE Closed \/ StopWriting \/ AbortPublishing
    <3>1. /\ Ended(Close) \/ Ended(Reset)
          /\ UNCHANGED ctl \/ Told("Stop") \/ Told("Abort")
      BY <2>12 DEF Closed, StopWriting, AbortPublishing
    <3>2. /\ Stopped(<<Disconnected(eg.last)>>) /\ (Close \/ Reset)
          /\ hist' = [hist EXCEPT !.done = {}, !.back = core.base - 1] /\ core' = core
      BY <3>1 DEF Ended
    <3>3. hist' \in Hists BY <2>h, <3>2
    <3>4. ctl' \in Seq(Control) BY <1>t, <2>s, <3>1
    <3>5. <<Disconnected(eg.last)>> \in Seq(Event) BY <2>l
    <3>6. eg' \in Egresses /\ events' \in Seq(Event) /\ media' \in Seq(Quad)
      BY <1>t, <1>k, <2>m, <3>2, <3>5 DEF Stopped, Phases
    <3>7. os' \in Oses BY <2>o, <3>2
    <3> QED BY <1>t, <3>2, <3>3, <3>4, <3>6, <3>7 DEF Types, Oses, Hists
  <2>13. CASE Fail
    <3>1. /\ Retry(<<Disconnected(eg.last)>>) /\ Reset /\ hist' = [hist EXCEPT !.done = {}]
          /\ UNCHANGED <<core, ctl, media>>
      BY <2>13 DEF Fail
    <3>2. hist' \in Hists BY <1>t, <3>1 DEF Hists
    <3>3. <<Disconnected(eg.last)>> \in Seq(Event) BY <2>l
    <3>4. eg' \in Egresses /\ events' \in Seq(Event) BY <1>t, <2>m, <3>1, <3>3 DEF Retry, Phases
    <3>5. os' \in Oses BY <2>o, <3>1
    <3> QED BY <1>t, <3>1, <3>2, <3>4, <3>5 DEF Types, Oses, Hists
  <2> QED
    BY <1>2, <2>1, <2>2, <2>3, <2>4, <2>5, <2>6, <2>7, <2>8, <2>9, <2>10, <2>11, <2>12, <2>13 DEF Egress
<1>3. CASE Leave
  <2>1. Head(os.wire) \in Nat /\ Tail(os.wire) \in Seq(Nat) BY <1>t, <1>3 DEF Leave, Oses
  <2>2. Append(os.flight, Head(os.wire)) \in Seq(Nat) BY <1>t, <2>1 DEF Oses
  <2>3. os' \in Oses /\ hist' \in Hists BY <1>t, <1>3, <2>1, <2>2 DEF Leave, Oses, Hists
  <2> QED BY <1>t, <1>3, <2>3 DEF Leave, Types, Oses, Hists
<1>4. CASE Acknowledge
  <2>1. Head(os.flight) \in Nat /\ Tail(os.flight) \in Seq(Nat) BY <1>t, <1>4 DEF Acknowledge, Oses
  <2>2. os' \in Oses /\ hist' \in Hists BY <1>t, <1>4, <2>1 DEF Acknowledge, Oses, Hists
  <2> QED BY <1>t, <1>4, <2>2 DEF Acknowledge, Types, Oses, Hists
<1>5. CASE Linger
  <2>1. Head(os.linger) \in Nat /\ Tail(os.linger) \in Seq(Nat) BY <1>t, <1>5 DEF Linger, Oses
  <2>2. os' \in Oses /\ hist' \in Hists BY <1>t, <1>5, <2>1 DEF Linger, Oses, Hists
  <2> QED BY <1>t, <1>5, <2>2 DEF Linger, Types, Oses, Hists
<1>6. CASE UNCHANGED vars BY <1>t, <1>6 DEF vars, Types, Oses, Hists
<1> QED BY <1>1, <1>2, <1>3, <1>4, <1>5, <1>6 DEF Next

-----------------------------------------------------------------------------
(* What the core's steps do to what matters here. *)
LEMMA EmitDoes ==
  ASSUME Types, Emit
  PROVE  /\ core.up /\ core.dump = "No"
         /\ core'.cursor = core.cursor + 1 /\ core'.edge = Greater(core.edge, core.cursor)
         /\ core'.first = IF core.first = None THEN core.cursor ELSE core.first
         /\ core'.on = core.on /\ core'.up = core.up /\ core'.gen = core.gen /\ core'.cut = core.cut
         /\ core'.dump = core.dump /\ core'.base = core.base
         /\ media' = Append(media, <<core.gen, core.cut, core.cursor>>)
         /\ Len(media') = Len(media) + 1
         /\ \A i \in 1 .. Len(media) : media'[i] = media[i]
         /\ media'[Len(media) + 1] = <<core.gen, core.cut, core.cursor>>
         /\ UNCHANGED <<ctl, events, eg, os, hist>>
<1>1. <<core.gen, core.cut, core.cursor>> \in Quad /\ media \in Seq(Quad) BY DEF Types, Cores, Quad
<1>2. media' = Append(media, <<core.gen, core.cut, core.cursor>>) BY DEF Emit
<1>3. /\ Len(media') = Len(media) + 1
      /\ \A i \in 1 .. Len(media) : media'[i] = media[i]
      /\ media'[Len(media) + 1] = <<core.gen, core.cut, core.cursor>>
  BY <1>1, <1>2
<1>4. core' = [core EXCEPT !.cursor = core.cursor + 1, !.edge = Greater(core.edge, core.cursor),
                           !.first = IF core.first = None THEN core.cursor ELSE core.first]
  BY DEF Emit
<1>5. core \in Cores BY DEF Types
<1> QED BY <1>2, <1>3, <1>4, <1>5 DEF Emit, Cores

LEMMA ConnectedDoes ==
  ASSUME Types, NEW e, HandleConnected(e)
  PROVE  /\ core'.cursor \in {core.cursor, core.cursor - 1} /\ core'.cursor >= core.base
         /\ core'.up = TRUE /\ core'.gen = core.gen + 1 /\ core'.first = None
         /\ core'.on = core.on /\ core'.cut = core.cut /\ core'.dump = core.dump
         /\ core'.base = core.base /\ core'.edge = core.edge
         /\ e.kind = "Connected" /\ hist' = hist /\ eg' = [eg EXCEPT !.reply = core.gen + 1]
<1>1. PICK k \in {core.cursor, core.cursor - 1} :
        /\ k >= core.base
        /\ core' = [core EXCEPT !.up = TRUE, !.gen = @ + 1, !.cursor = k, !.first = None]
  BY DEF HandleConnected
<1>2. core \in Cores BY DEF Types
<1>3. e.kind = "Connected" /\ hist' = hist /\ eg' = [eg EXCEPT !.reply = core.gen + 1] BY DEF HandleConnected
<1> QED BY <1>1, <1>2, <1>3 DEF Cores

LEMMA DisconnectedDoes ==
  ASSUME Types, NEW e, HandleDisconnected(e)
  PROVE  /\ core'.cursor = Greater(core.base, Lesser(core.cursor, Resume(e.last))) /\ core'.up = FALSE
         /\ core'.gen = core.gen /\ core'.first = core.first
         /\ core'.on = core.on /\ core'.cut = core.cut /\ core'.dump = core.dump
         /\ core'.base = core.base /\ core'.edge = core.edge
         /\ e.kind = "Disconnected" /\ hist' = hist /\ eg' = eg
BY DEF HandleDisconnected, Types, Cores

LEMMA FinishDoes ==
  ASSUME Types, FinishDump
  PROVE  /\ core'.dump = "No" /\ core'.base = core.edge + 1 /\ core'.cursor = core.edge + 1
         /\ core'.up = core.up /\ core'.gen = core.gen /\ core'.first = core.first
         /\ core'.on = core.on /\ core'.cut = core.cut /\ core'.edge = core.edge
BY DEF FinishDump, Types, Cores

(* The end of a broadcast, at once or at the mark. *)
LEMMA EndDoes ==
  ASSUME Types, EndNow \/ EndAtMark
  PROVE  /\ core'.base = core.edge + 1 /\ core'.cursor = core.edge + 1
         /\ core'.up = FALSE /\ core'.on = FALSE
         /\ core'.gen = core.gen /\ core'.first = core.first /\ core'.dump = core.dump
         /\ core'.cut = core.cut /\ core'.edge = core.edge
         /\ \E c \in Control : Ends(c) /\ ctl' = Append(ctl, c)
         /\ UNCHANGED <<media, events, eg, os, hist>>
<1>1. core \in Cores BY DEF Types
<1>2. Stop \in Control /\ Ends(Stop) /\ Abort \in Control /\ Ends(Abort) BY Messages DEF Ends, Stop, Abort
<1>3. core' = [Discarded(core) EXCEPT !.on = FALSE] BY DEF EndNow, EndAtMark
<1>4. \E c \in Control : Ends(c) /\ ctl' = Append(ctl, c) BY <1>2 DEF EndNow, EndAtMark
<1> QED BY <1>1, <1>3, <1>4 DEF EndNow, EndAtMark, Discarded, Cores

(* Steps that throw nothing away and hand nothing over. *)
LEMMA PlainDoes ==
  ASSUME Types, StartEgress \/ StopEgress \/ EndAfterAir \/ RaiseCut \/ AskCut
  PROVE  /\ core'.base = core.base /\ core'.cursor = core.cursor /\ core'.edge = core.edge
         /\ core'.up = core.up /\ core'.gen = core.gen /\ core'.first = core.first
         /\ UNCHANGED <<media, events, eg, os, hist>>
         /\ StartEgress =>
              core'.on = TRUE /\ ctl' = Append(ctl, Start) /\ core'.cut = core.cut /\ core'.dump = core.dump
         /\ StopEgress =>
              core'.on = FALSE /\ ctl' = Append(ctl, Stop) /\ core'.cut = core.cut /\ core'.dump = core.dump
         /\ EndAfterAir =>
              core'.on = core.on /\ ctl' = ctl /\ core'.cut = core.cut /\ core'.dump = core.dump
         /\ RaiseCut =>
              /\ core'.on = core.on /\ ctl' = ctl /\ core'.cut = core.cut + 1
              /\ core.dump = "No" /\ core'.dump = "Raised"
         /\ AskCut =>
              /\ core'.on = core.on /\ ctl' = Append(ctl, Cut(core.cut)) /\ core'.cut = core.cut
              /\ core.dump = "Raised" /\ core'.dump = "Asked"
<1>1. core \in Cores BY DEF Types
<1>2. CASE StartEgress BY <1>1, <1>2 DEF StartEgress, StopEgress, EndAfterAir, RaiseCut, AskCut, Cores
<1>3. CASE StopEgress BY <1>1, <1>3 DEF StartEgress, StopEgress, EndAfterAir, RaiseCut, AskCut, Cores
<1>4. CASE EndAfterAir BY <1>1, <1>4 DEF StartEgress, StopEgress, EndAfterAir, RaiseCut, AskCut, Cores
<1>5. CASE RaiseCut BY <1>1, <1>5 DEF StartEgress, StopEgress, EndAfterAir, RaiseCut, AskCut, Cores
<1>6. CASE AskCut BY <1>1, <1>6, ZenonT(30) DEF StartEgress, StopEgress, EndAfterAir, RaiseCut, AskCut, Cores
<1> QED BY <1>2, <1>3, <1>4, <1>5, <1>6

LEMMA HandleDoes ==
  ASSUME Types, HandleEvent
  PROVE  /\ core.dump # "Raised" /\ events # <<>> /\ events' = Tail(events)
         /\ events[1] \in Event /\ UNCHANGED <<ctl, media, os>>
         /\ \/ HandleCutDone(events[1]) \/ HandleConnected(events[1]) \/ HandleDisconnected(events[1])
<1>1. events \in Seq(Event) /\ events # <<>> BY DEF Types, HandleEvent
<1>2. Head(events) = events[1] /\ events[1] \in Event BY <1>1
<1> QED BY <1>1, <1>2 DEF HandleEvent, Free

LEMMA BackDoes ==
  ASSUME Types, hist' = [hist EXCEPT !.back = core'.base - 1]
  PROVE  /\ hist'.back = core'.base - 1 /\ hist'.tail = hist.tail /\ hist'.left = hist.left
         /\ hist'.acked = hist.acked /\ hist'.wrote = hist.wrote
BY DEF Types

LEMMA CutDoneDoes ==
  ASSUME Types, NEW e, HandleCutDone(e)
  PROVE  /\ e.kind = "CutDone" /\ eg' = eg
         /\ \/ core' = core /\ hist' = hist
            \/ Answers(e) /\ FinishDump /\ hist' = [hist EXCEPT !.back = core'.base - 1]
BY DEF HandleCutDone, TakenBack

LEMMA CheckDoes ==
  ASSUME Types, CheckDump
  PROVE  /\ core.dump = "Asked" /\ FinishDump /\ UNCHANGED <<ctl, media, events, eg, os>>
         /\ \/ Asking /\ hist' = hist
            \/ ~Asking /\ hist' = [hist EXCEPT !.back = core'.base - 1]
<1>1. ctl \in Seq(Control) BY DEF Types
<1>2. Cut(core.cut) \in ToSet(ctl) => Asking
  BY <1>1 DEF ToSet, Asking, IsCut, Cut
<1>3. Asking => Cut(core.cut) \in ToSet(ctl)
  <2>1. SUFFICES ASSUME Asking PROVE Cut(core.cut) \in ToSet(ctl) OBVIOUS
  <2>2. PICK i \in DOMAIN ctl : IsCut(ctl[i]) /\ ctl[i].cut = core.cut BY <2>1 DEF Asking
  <2>3. ctl[i] \in Control BY <1>1
  <2>4. ctl[i] = Cut(core.cut) BY <2>2, <2>3 DEF IsCut, Cut, Control
  <2> QED BY <2>4 DEF ToSet
<1> QED BY <1>2, <1>3 DEF CheckDump, TakenBack

LEMMA UnlinkedDoes ==
  ASSUME Types, DumpUnlinked
  PROVE  core.dump = "No" /\ ~core.on /\ FinishDump /\ UNCHANGED <<ctl, media, events, eg, os, hist>>
BY DEF DumpUnlinked

-----------------------------------------------------------------------------
(* What the egress's and the system's steps do. *)
LEMMA InIs ==
  ASSUME NEW p
  PROVE  /\ In(p).phase = p /\ In(p).reply = None /\ In(p).log = <<>> /\ In(p).total = 0
         /\ In(p).last = None /\ In(p).batch = <<>> /\ In(p).put = 0
BY DEF In, NoConnection

LEMMA TailIs ==
  ASSUME NEW S, NEW s \in Seq(S), s # <<>>
  PROVE  /\ Tail(s) \in Seq(S) /\ Len(Tail(s)) = Len(s) - 1 /\ Len(s) \in Nat \ {0}
         /\ \A i \in 1 .. Len(s) - 1 : Tail(s)[i] = s[i + 1]
         /\ Head(s) = s[1] /\ s[1] \in S
OBVIOUS

LEMMA AppendIs ==
  ASSUME NEW S, NEW s \in Seq(S), NEW x \in S
  PROVE  /\ Append(s, x) \in Seq(S) /\ Len(Append(s, x)) = Len(s) + 1 /\ Len(s) \in Nat
         /\ \A i \in 1 .. Len(s) : Append(s, x)[i] = s[i]
         /\ Append(s, x)[Len(s) + 1] = x
BY SMTT(30)

LEMMA EgressCore == Egress \/ Leave \/ Acknowledge \/ Linger => core' = core
BY DEF Egress, TakeStart, StopUnconnected, CutUnconnected, DropQueued, ConnectOk, ConnectFails, BackoffOver,
       Publish, TakeBatch, Accept, BatchDone, CutLive, CutReset, StopLive, Closed, StopWriting,
       AbortPublishing, Ended, Fail, Leave, Acknowledge, Linger

(* A connection is over: p is where the egress goes, r what it reports.    *)
Over(p, r) ==
  /\ eg.phase \in {"Live", "Writing", "Closing"} /\ eg' = In(p) /\ p \in {"Connecting", "Idle", "Backoff"}
  /\ os'.wire = <<>> /\ os'.flight = <<>>
  /\ events' = events \o r
Ending == Closed \/ StopWriting \/ AbortPublishing
LEMMA OverDoes ==
  ASSUME Types
  PROVE  /\ CutReset => /\ Told("Cut") /\ media' = media
                        /\ hist' = [hist EXCEPT !.done = {}, !.back = core.base - 1]
                        /\ \E blind \in Blind :
                             Over("Connecting", <<CutDone(Head(ctl).cut, TRUE, SurelySent(Held(blind))),
                                                  Disconnected(eg.last)>>)
         /\ Fail => /\ Over("Backoff", <<Disconnected(eg.last)>>) /\ ctl = <<>> /\ ctl' = ctl /\ media' = media
                    /\ hist' = [hist EXCEPT !.done = {}]
         /\ Ending => /\ Over("Idle", <<Disconnected(eg.last)>>) /\ media' = <<>>
                      /\ hist' = [hist EXCEPT !.done = {}, !.back = core.base - 1]
                      /\ \/ eg.phase = "Closing" /\ ctl' = ctl
                         \/ Told("Stop") \/ Told("Abort")
<1>1. Reset \/ Close => os'.wire = <<>> /\ os'.flight = <<>> BY DEF Types, Reset, Close
<1>2. CutReset => /\ Told("Cut") /\ media' = media
                 /\ hist' = [hist EXCEPT !.done = {}, !.back = core.base - 1]
                 /\ \E blind \in Blind :
                      Over("Connecting", <<CutDone(Head(ctl).cut, TRUE, SurelySent(Held(blind))),
                                           Disconnected(eg.last)>>)
  BY <1>1 DEF CutReset, Publishing, Over, Again
<1>3. Fail => /\ Over("Backoff", <<Disconnected(eg.last)>>) /\ ctl = <<>> /\ ctl' = ctl /\ media' = media
             /\ hist' = [hist EXCEPT !.done = {}]
  BY <1>1 DEF Fail, Publishing, Over, Retry
<1>4. Ending => Ended(Close) \/ Ended(Reset)
  BY DEF Ending, Closed, StopWriting, AbortPublishing
<1>5. Ending => /\ eg.phase \in {"Live", "Writing", "Closing"}
               /\ ((eg.phase = "Closing" /\ ctl' = ctl) \/ Told("Stop") \/ Told("Abort"))
  BY DEF Ending, Closed, StopWriting, AbortPublishing, Publishing
<1>6. Ended(Close) \/ Ended(Reset) =>
        /\ eg' = In("Idle") /\ events' = events \o <<Disconnected(eg.last)>> /\ media' = <<>>
        /\ os'.wire = <<>> /\ os'.flight = <<>>
        /\ hist' = [hist EXCEPT !.done = {}, !.back = core.base - 1]
  BY <1>1 DEF Ended, Stopped
<1>7. ASSUME Ending PROVE Over("Idle", <<Disconnected(eg.last)>>)
  <2>1. eg' = In("Idle") /\ events' = events \o <<Disconnected(eg.last)>>
        /\ os'.wire = <<>> /\ os'.flight = <<>>
    BY <1>4, <1>6, <1>7
  <2>2. eg.phase \in {"Live", "Writing", "Closing"} BY <1>5, <1>7
  <2> QED BY <2>1, <2>2 DEF Over
<1> QED BY <1>2, <1>3, <1>4, <1>5, <1>6, <1>7

LEMMA OverIs ==
  ASSUME Types, CutReset \/ Fail \/ Ending
  PROVE  /\ eg.phase \in {"Live", "Writing", "Closing"} /\ (CutReset \/ Fail => eg.phase # "Closing")
         /\ eg'.phase \in {"Connecting", "Idle", "Backoff"}
         /\ eg'.reply = None /\ eg'.batch = <<>> /\ eg'.put = 0 /\ eg'.last = None
         /\ eg'.log = <<>> /\ eg'.total = 0
         /\ os'.wire = <<>> /\ os'.flight = <<>>
<1>1. /\ eg' \in {In("Connecting"), In("Idle"), In("Backoff")} /\ eg.phase \in {"Live", "Writing", "Closing"}
      /\ os'.wire = <<>> /\ os'.flight = <<>>
  BY OverDoes DEF Over
<1>2. CutReset \/ Fail => eg.phase # "Closing" BY DEF CutReset, Fail, Publishing
<1> QED BY <1>1, <1>2, InIs

LEMMA EgressDoes ==
  ASSUME Types
  PROVE  /\ TakeStart => /\ eg.phase = "Idle" /\ Told("Start") /\ eg' = In("Connecting")
                         /\ UNCHANGED <<media, events, os, hist>>
         /\ StopUnconnected => /\ eg.phase \in {"Connecting", "Backoff"} /\ eg' = In("Idle") /\ media' = <<>>
                               /\ Told("Stop") \/ Told("Abort")
                               /\ hist' = [hist EXCEPT !.back = core.base - 1]
                               /\ UNCHANGED <<events, os>>
         /\ CutUnconnected => /\ eg.phase \in {"Idle", "Connecting", "Backoff"} /\ Told("Cut")
                              /\ events' = Append(events, CutDone(Head(ctl).cut, FALSE, None))
                              /\ hist' = [hist EXCEPT !.back = core.base - 1]
                              /\ UNCHANGED <<media, eg, os>>
         /\ DropQueued => /\ eg.phase \in {"Idle", "Backoff"} /\ media # <<>> /\ media' = Tail(media)
                          /\ UNCHANGED <<ctl, events, eg, os, hist>>
         /\ ConnectOk => /\ eg.phase = "Connecting" /\ ctl = <<>> /\ eg' = In("Waiting")
                         /\ events' = Append(events, Connected)
                         /\ UNCHANGED <<ctl, media, os, hist>>
         /\ ConnectFails \/ BackoffOver => /\ eg.phase \in {"Connecting", "Backoff"}
                                           /\ \E p \in {"Connecting", "Backoff"} : eg' = In(p)
                                           /\ UNCHANGED <<ctl, media, events, os, hist>>
         /\ Publish => /\ eg.phase = "Waiting" /\ eg.reply # None /\ eg'.phase = "Live" /\ eg'.gen = eg.reply
                       /\ eg'.reply = None /\ eg'.log = <<>> /\ eg'.total = 0 /\ eg'.last = None
                       /\ eg'.batch = <<>> /\ eg'.put = 0
                       /\ hist'.tail = 0 /\ hist'.back = hist.back /\ hist'.left = hist.left
                       /\ hist'.acked = hist.acked /\ hist'.wrote = hist.wrote
                       /\ UNCHANGED <<ctl, media, events, os>>
         /\ CutLive => /\ eg.phase = "Live" /\ os.wire = <<>> /\ Told("Cut")
                       /\ events' = Append(events, CutDone(Head(ctl).cut, FALSE, eg.last))
                       /\ hist' = [hist EXCEPT !.back = core.base - 1]
                       /\ UNCHANGED <<media, eg, os>>
         /\ StopLive => /\ eg.phase = "Live" /\ Told("Stop") /\ eg' = [eg EXCEPT !.phase = "Closing"]
                        /\ UNCHANGED <<media, events, os, hist>>
<1>1. events \o <<>> = events BY DEF Types
<1>2. TakeStart => /\ eg.phase = "Idle" /\ Told("Start") /\ eg' = In("Connecting")
                   /\ UNCHANGED <<media, events, os, hist>>
  BY <1>1 DEF TakeStart, Again
<1>3. StopUnconnected => /\ eg.phase \in {"Connecting", "Backoff"} /\ eg' = In("Idle") /\ media' = <<>>
                         /\ Told("Stop") \/ Told("Abort")
                         /\ hist' = [hist EXCEPT !.back = core.base - 1]
                         /\ UNCHANGED <<events, os>>
  BY <1>1 DEF StopUnconnected, Stopped, TakenBack
<1>4. CutUnconnected => /\ eg.phase \in {"Idle", "Connecting", "Backoff"} /\ Told("Cut")
                        /\ events' = Append(events, CutDone(Head(ctl).cut, FALSE, None))
                        /\ hist' = [hist EXCEPT !.back = core.base - 1]
                        /\ UNCHANGED <<media, eg, os>>
  BY DEF CutUnconnected, Unconnected, TakenBack
<1>5. ConnectFails \/ BackoffOver => /\ eg.phase \in {"Connecting", "Backoff"}
                                     /\ \E p \in {"Connecting", "Backoff"} : eg' = In(p)
                                     /\ UNCHANGED <<ctl, media, events, os, hist>>
  BY <1>1 DEF ConnectFails, BackoffOver, Retry, Again
<1>6. Publish => /\ eg.phase = "Waiting" /\ eg.reply # None /\ eg'.phase = "Live" /\ eg'.gen = eg.reply
                 /\ eg'.reply = None /\ eg'.log = <<>> /\ eg'.total = 0 /\ eg'.last = None
                 /\ eg'.batch = <<>> /\ eg'.put = 0
                 /\ hist'.tail = 0 /\ hist'.back = hist.back /\ hist'.left = hist.left
                 /\ hist'.acked = hist.acked /\ hist'.wrote = hist.wrote
                 /\ UNCHANGED <<ctl, media, events, os>>
  BY DEF Publish, Types, In, NoConnection
<1>7. CutLive => /\ eg.phase = "Live" /\ os.wire = <<>> /\ Told("Cut")
                 /\ events' = Append(events, CutDone(Head(ctl).cut, FALSE, eg.last))
                 /\ hist' = [hist EXCEPT !.back = core.base - 1]
                 /\ UNCHANGED <<media, eg, os>>
  BY DEF CutLive, Unsent, TakenBack, Types
<1>8. DropQueued => /\ eg.phase \in {"Idle", "Backoff"} /\ media # <<>> /\ media' = Tail(media)
                    /\ UNCHANGED <<ctl, events, eg, os, hist>>
  BY DEF DropQueued
<1>9. ConnectOk => /\ eg.phase = "Connecting" /\ ctl = <<>> /\ eg' = In("Waiting")
                   /\ events' = Append(events, Connected)
                   /\ UNCHANGED <<ctl, media, os, hist>>
  BY DEF ConnectOk
<1>10. StopLive => /\ eg.phase = "Live" /\ Told("Stop") /\ eg' = [eg EXCEPT !.phase = "Closing"]
                   /\ UNCHANGED <<media, events, os, hist>>
  BY DEF StopLive
<1> QED BY <1>2, <1>3, <1>4, <1>5, <1>6, <1>7, <1>8, <1>9, <1>10

LEMMA BatchDoes ==
  ASSUME Types
  PROVE  /\ TakeBatch =>
              /\ eg.phase = "Live" /\ ctl = <<>> /\ eg'.phase = "Writing" /\ eg'.put = 0
              /\ eg'.gen = eg.gen /\ eg'.reply = eg.reply /\ eg'.log = eg.log /\ eg'.total = eg.total
              /\ eg'.last = eg.last
              /\ UNCHANGED <<ctl, events, os, hist>>
              /\ \E n \in 1 .. Len(media) : /\ eg'.batch = Wants(SubSeq(media, 1, n))
                                            /\ media' = SubSeq(media, n + 1, Len(media))
         /\ Accept =>
              /\ eg.phase = "Writing" /\ ctl = <<>> /\ eg.put < Len(eg.batch)
              /\ Len(os.wire) + Len(os.flight) < OsHolds
              /\ eg'.put = eg.put + 1 /\ eg'.phase = "Writing" /\ eg'.batch = eg.batch
              /\ eg'.gen = eg.gen /\ eg'.reply = eg.reply /\ eg'.log = eg.log /\ eg'.total = eg.total
              /\ eg'.last = eg.last
              /\ os'.wire = Append(os.wire, eg.batch[eg.put + 1]) /\ os'.flight = os.flight
              /\ hist'.wrote = hist.wrote \cup {eg.batch[eg.put + 1]} /\ hist'.left = hist.left
              /\ hist'.acked = hist.acked /\ hist'.tail = hist.tail /\ hist'.back = hist.back
              /\ UNCHANGED <<ctl, media, events>>
         /\ BatchDone =>
              /\ eg.phase = "Writing" /\ ctl = <<>> /\ eg.put = Len(eg.batch)
              /\ eg'.phase = "Live" /\ eg'.batch = <<>> /\ eg'.put = 0
              /\ eg'.gen = eg.gen /\ eg'.reply = eg.reply
              /\ eg.batch = <<>> => eg'.log = eg.log /\ eg'.total = eg.total /\ eg'.last = eg.last
              /\ eg.batch # <<>> => /\ eg'.total = eg.total + Len(eg.batch) /\ eg'.last = Last(eg.batch)
                                    /\ eg'.log = Logged(eg.log, eg.total + Len(eg.batch))
              /\ hist'.left = hist.left /\ hist'.wrote = hist.wrote
              /\ hist'.acked = hist.acked /\ hist'.tail = hist.tail /\ hist'.back = hist.back
              /\ UNCHANGED <<ctl, media, events, os>>
         /\ Leave =>
              /\ os.wire # <<>> /\ os'.wire = Tail(os.wire) /\ os'.flight = Append(os.flight, Head(os.wire))
              /\ hist'.left = hist.left \cup {Head(os.wire)} /\ hist'.tail = Head(os.wire)
              /\ hist'.wrote = hist.wrote /\ hist'.acked = hist.acked /\ hist'.back = hist.back
              /\ UNCHANGED <<ctl, media, events, eg>>
         /\ Acknowledge \/ Linger =>
              /\ os'.wire = os.wire /\ hist'.tail = hist.tail /\ hist'.wrote = hist.wrote /\ hist'.back = hist.back
              /\ UNCHANGED <<ctl, media, events, eg>>
<1>t. Len(media) \in Nat /\ eg \in Egresses /\ hist = hist BY DEF Types
<1>1. ASSUME TakeBatch
      PROVE  /\ eg.phase = "Live" /\ ctl = <<>> /\ eg'.phase = "Writing" /\ eg'.put = 0
             /\ eg'.gen = eg.gen /\ eg'.reply = eg.reply /\ eg'.log = eg.log /\ eg'.total = eg.total
             /\ eg'.last = eg.last
             /\ UNCHANGED <<ctl, events, os, hist>>
             /\ \E n \in 1 .. Len(media) : /\ eg'.batch = Wants(SubSeq(media, 1, n))
                                           /\ media' = SubSeq(media, n + 1, Len(media))
  <2>1. PICK n \in 1 .. Lesser(Batch, Len(media)) :
          /\ eg' = [eg EXCEPT !.phase = "Writing", !.taken = n, !.put = 0,
                              !.batch = Wants(SubSeq(media, 1, n))]
          /\ media' = SubSeq(media, n + 1, Len(media))
    BY <1>1 DEF TakeBatch
  <2>2. n \in 1 .. Len(media) BY <1>t, Constants DEF Lesser
  <2> QED BY <1>1, <1>t, <2>1, <2>2 DEF TakeBatch, Egresses
<1>2. ASSUME Accept
      PROVE  /\ eg.phase = "Writing" /\ ctl = <<>> /\ eg.put < Len(eg.batch)
             /\ Len(os.wire) + Len(os.flight) < OsHolds
             /\ eg'.put = eg.put + 1 /\ eg'.phase = "Writing" /\ eg'.batch = eg.batch
             /\ eg'.gen = eg.gen /\ eg'.reply = eg.reply /\ eg'.log = eg.log /\ eg'.total = eg.total
             /\ eg'.last = eg.last
             /\ os'.wire = Append(os.wire, eg.batch[eg.put + 1]) /\ os'.flight = os.flight
             /\ hist'.wrote = hist.wrote \cup {eg.batch[eg.put + 1]} /\ hist'.left = hist.left
             /\ hist'.acked = hist.acked /\ hist'.tail = hist.tail /\ hist'.back = hist.back
             /\ UNCHANGED <<ctl, media, events>>
  BY <1>2 DEF Accept, Types, Egresses
<1>3. ASSUME BatchDone
      PROVE  /\ eg.phase = "Writing" /\ ctl = <<>> /\ eg.put = Len(eg.batch)
             /\ eg'.phase = "Live" /\ eg'.batch = <<>> /\ eg'.put = 0
             /\ eg'.gen = eg.gen /\ eg'.reply = eg.reply
             /\ eg.batch = <<>> => eg'.log = eg.log /\ eg'.total = eg.total /\ eg'.last = eg.last
             /\ eg.batch # <<>> => /\ eg'.total = eg.total + Len(eg.batch) /\ eg'.last = Last(eg.batch)
                                   /\ eg'.log = Logged(eg.log, eg.total + Len(eg.batch))
             /\ hist'.left = hist.left /\ hist'.wrote = hist.wrote
             /\ hist'.acked = hist.acked /\ hist'.tail = hist.tail /\ hist'.back = hist.back
             /\ UNCHANGED <<ctl, media, events, os>>
  <2>1. CASE eg.batch = <<>> BY <1>3, <1>t, <2>1, ZenonT(30) DEF BatchDone, Done, Egresses
  <2>2. CASE eg.batch # <<>> BY <1>3, <1>t, <2>2, ZenonT(30) DEF BatchDone, Done, Egresses, Types
  <2> QED BY <2>1, <2>2
<1>4. ASSUME Leave
      PROVE  /\ os.wire # <<>> /\ os'.wire = Tail(os.wire) /\ os'.flight = Append(os.flight, Head(os.wire))
             /\ hist'.left = hist.left \cup {Head(os.wire)} /\ hist'.tail = Head(os.wire)
             /\ hist'.wrote = hist.wrote /\ hist'.acked = hist.acked /\ hist'.back = hist.back
             /\ UNCHANGED <<ctl, media, events, eg>>
  BY <1>4 DEF Leave, Types
<1>5. ASSUME Acknowledge \/ Linger
      PROVE  /\ os'.wire = os.wire /\ hist'.tail = hist.tail /\ hist'.wrote = hist.wrote /\ hist'.back = hist.back
             /\ UNCHANGED <<ctl, media, events, eg>>
  BY <1>5 DEF Acknowledge, Linger, Types
<1> QED BY <1>1, <1>2, <1>3, <1>4, <1>5

(* What the steps of the egress and the system leave of the queue is its   *)
(* end, and what they do to the history.                                   *)
Dropped(n) ==
  /\ Len(media') = Len(media) - n
  /\ \A i \in 1 .. Len(media) - n : media'[i] = media[i + n]
LEMMA Rest ==
  ASSUME Types, Egress \/ Leave \/ Acknowledge \/ Linger
  PROVE  /\ core' = core
         /\ \E n \in 0 .. Len(media) : Dropped(n)
         /\ hist'.back = hist.back \/ hist'.back = core.base - 1
         /\ hist'.tail = hist.tail \/ hist'.tail = 0 \/ (Leave /\ hist'.tail = os.wire[1])
<1>t. media \in Seq(Quad) /\ Len(media) \in Nat /\ os.wire \in Seq(Nat) BY DEF Types
<1>0. core' = core BY EgressCore
<1>h. \A d : LET h == [hist EXCEPT !.done = d, !.back = core.base - 1]
             IN h.back = core.base - 1 /\ h.tail = hist.tail
  BY DEF Types
<1>g. \A d : LET h == [hist EXCEPT !.done = d] IN h.back = hist.back /\ h.tail = hist.tail
  BY DEF Types
<1>b. LET h == [hist EXCEPT !.back = core.base - 1] IN h.back = core.base - 1 /\ h.tail = hist.tail
  BY DEF Types
<1>1. ASSUME media' = media PROVE Dropped(0) BY <1>t, <1>1 DEF Dropped
<1>2. ASSUME media' = <<>> PROVE Dropped(Len(media)) BY <1>t, <1>2 DEF Dropped
<1>3. ASSUME media # <<>>, media' = Tail(media) PROVE Dropped(1) BY <1>t, <1>3 DEF Dropped
<1>4. ASSUME NEW n \in 1 .. Len(media), media' = SubSeq(media, n + 1, Len(media)) PROVE Dropped(n)
  BY <1>t, <1>4 DEF Dropped
<1>5. \E n \in 0 .. Len(media) : Dropped(n)
  <2>1. media' = media \/ media' = <<>> \/ (media # <<>> /\ media' = Tail(media))
          \/ \E n \in 1 .. Len(media) : media' = SubSeq(media, n + 1, Len(media))
    BY EgressDoes, BatchDoes, OverDoes DEF Egress, Ending
  <2>2. CASE media' = media BY <1>1, <1>t, <2>2
  <2>3. CASE media' = <<>> BY <1>2, <1>t, <2>3
  <2>4. CASE media # <<>> /\ media' = Tail(media) BY <1>3, <1>t, <2>4
  <2>5. CASE \E n \in 1 .. Len(media) : media' = SubSeq(media, n + 1, Len(media)) BY <1>4, <1>t, <2>5
  <2> QED BY <2>1, <2>2, <2>3, <2>4, <2>5
<1>6. /\ hist'.back = hist.back \/ hist'.back = core.base - 1
      /\ hist'.tail = hist.tail \/ hist'.tail = 0 \/ (Leave /\ hist'.tail = os.wire[1])
  <2>1. CASE CutReset \/ Fail \/ Ending BY <1>h, <1>g, <2>1, OverDoes
  <2>2. CASE TakeBatch \/ Accept \/ BatchDone \/ Acknowledge \/ Linger BY <2>2, BatchDoes
  <2>3. CASE Leave
    <3>1. Head(os.wire) = os.wire[1] BY <1>t, <2>3, BatchDoes, TailIs
    <3> QED BY <2>3, <3>1, BatchDoes
  <2>4. CASE TakeStart \/ StopUnconnected \/ CutUnconnected \/ DropQueued \/ ConnectOk \/ ConnectFails
               \/ BackoffOver \/ Publish \/ CutLive \/ StopLive
    BY <1>b, <2>4, EgressDoes
  <2> QED BY <2>1, <2>2, <2>3, <2>4 DEF Egress, Ending
<1> QED BY <1>0, <1>5, <1>6

LEMMA RangesNext == OutletInv /\ [Next]_vars => Ranges'
<1> SUFFICES ASSUME OutletInv, [Next]_vars PROVE Ranges' OBVIOUS
<1>i. Types /\ Ranges /\ Sending /\ Types' BY TypesNext DEF OutletInv
<1>t. /\ core.base \in Nat \ {0} /\ core.cursor \in Nat \ {0} /\ core.edge \in Nat
      /\ hist.back \in Nat /\ hist.tail \in Nat
  BY <1>i DEF Types, Cores
<1>r. /\ core.base <= core.cursor /\ core.cursor <= core.edge + 1
      /\ hist.back < core.base /\ hist.tail <= core.edge
  BY <1>i DEF Ranges
<1>f. ASSUME FinishDump, hist' = hist \/ hist' = [hist EXCEPT !.back = core'.base - 1] PROVE Ranges'
  <2>1. core'.base = core.edge + 1 /\ core'.cursor = core.edge + 1 /\ core'.edge = core.edge
    BY <1>f, <1>i, FinishDoes
  <2>2. hist'.tail = hist.tail /\ (hist'.back = hist.back \/ hist'.back = core'.base - 1) BY <1>f, <1>i, BackDoes
  <2> QED BY <1>t, <1>r, <2>1, <2>2 DEF Ranges
<1>1. CASE Emit
  <2>1. core'.cursor = core.cursor + 1 /\ core'.edge = Greater(core.edge, core.cursor) /\ core'.base = core.base
        /\ hist' = hist
    BY <1>1, <1>i, EmitDoes
  <2> QED BY <1>t, <1>r, <2>1 DEF Ranges, Greater
<1>2. CASE EndNow \/ EndAtMark
  <2>1. core'.base = core.edge + 1 /\ core'.cursor = core.edge + 1 /\ core'.edge = core.edge /\ hist' = hist
    BY <1>2, <1>i, EndDoes
  <2> QED BY <1>t, <1>r, <2>1 DEF Ranges
<1>3. CASE StartEgress \/ StopEgress \/ EndAfterAir \/ RaiseCut \/ AskCut
  BY <1>3, <1>i, PlainDoes DEF Ranges
<1>4. CASE CheckDump \/ DumpUnlinked BY <1>4, <1>i, <1>f, CheckDoes, UnlinkedDoes
<1>5. CASE HandleEvent
  <2>1. CASE HandleCutDone(events[1])
    <3>1. CASE core' = core /\ hist' = hist BY <1>r, <3>1 DEF Ranges
    <3>2. CASE FinishDump /\ hist' = [hist EXCEPT !.back = core'.base - 1] BY <1>f, <3>2
    <3> QED BY <1>i, <2>1, <3>1, <3>2, CutDoneDoes
  <2>2. CASE HandleConnected(events[1])
    <3>1. /\ core'.cursor \in {core.cursor, core.cursor - 1} /\ core'.cursor >= core.base
          /\ core'.base = core.base /\ core'.edge = core.edge /\ hist' = hist
      BY <1>i, <2>2, ConnectedDoes
    <3> QED BY <1>t, <1>r, <3>1 DEF Ranges
  <2>3. CASE HandleDisconnected(events[1])
    <3>1. /\ core'.cursor = Greater(core.base, Lesser(core.cursor, Resume(events[1].last)))
          /\ core'.base = core.base /\ core'.edge = core.edge /\ hist' = hist
          /\ events[1].kind = "Disconnected"
      BY <1>i, <2>3, DisconnectedDoes
    <3>2. events[1].last \in Nat BY <1>i, <1>5, <3>1, HandleDoes DEF Event
    <3>4. core.first \in Nat BY <1>i DEF Types, Cores
    <3>3. Resume(events[1].last) \in Nat BY <1>t, <3>2, <3>4 DEF Resume, None
    <3> QED BY <1>t, <1>r, <3>1, <3>3 DEF Ranges, Greater, Lesser
  <2> QED BY <1>5, <1>i, <2>1, <2>2, <2>3, HandleDoes
<1>6. CASE Egress \/ Leave \/ Acknowledge \/ Linger
  <2>1. /\ core' = core /\ (hist'.back = hist.back \/ hist'.back = core.base - 1)
        /\ hist'.tail = hist.tail \/ hist'.tail = 0 \/ (Leave /\ hist'.tail = os.wire[1])
    BY <1>6, <1>i, Rest
  <2>2. Leave => os.wire[1] <= core.edge
    <3>1. Leave => os.wire # <<>> BY <1>i, BatchDoes
    <3>2. os.wire \in Seq(Nat) BY <1>i DEF Types
    <3> QED BY <1>i, <3>1, <3>2 DEF Sending, Between
  <2> QED BY <1>t, <1>r, <2>1, <2>2 DEF Ranges
<1>7. CASE UNCHANGED vars BY <1>r, <1>7 DEF Ranges, vars
<1> QED BY <1>1, <1>2, <1>3, <1>4, <1>5, <1>6, <1>7 DEF Next, Core

LEMMA MediaIs ==
  ASSUME Types
  PROVE  /\ media \in Seq(Quad) /\ Len(media) \in Nat /\ DOMAIN media = 1 .. Len(media)
         /\ \A i \in DOMAIN media : media[i][1] \in Nat /\ media[i][2] \in Nat /\ media[i][3] \in Nat
<1>1. \A q \in Quad : q[1] \in Nat /\ q[2] \in Nat /\ q[3] \in Nat BY DEF Quad
<1>2. media \in Seq(Quad) /\ Len(media) \in Nat /\ DOMAIN media = 1 .. Len(media) BY DEF Types
<1>3. \A i \in DOMAIN media : media[i] \in Quad BY <1>2
<1> QED BY <1>1, <1>2, <1>3

LEMMA DroppedIs ==
  ASSUME Types, Types', NEW n \in 0 .. Len(media), Dropped(n)
  PROVE  /\ DOMAIN media' = 1 .. Len(media) - n /\ Len(media') = Len(media) - n
         /\ \A i \in 1 .. Len(media) - n : media'[i] = media[i + n] /\ i + n \in DOMAIN media
<1>1. Len(media) \in Nat /\ DOMAIN media = 1 .. Len(media) BY DEF Types
<1>2. DOMAIN media' = 1 .. Len(media') BY DEF Types
<1> QED BY <1>1, <1>2 DEF Dropped

LEMMA QueuedNext == OutletInv /\ [Next]_vars => Queued'
<1> SUFFICES ASSUME OutletInv, [Next]_vars PROVE Queued' OBVIOUS
<1>i. Types /\ Queued /\ Types' BY TypesNext DEF OutletInv
<1>t. /\ core.gen \in Nat /\ core.cut \in Nat /\ media \in Seq(Quad) /\ Len(media) \in Nat /\ DOMAIN media = 1 .. Len(media)
      /\ \A i \in DOMAIN media : media[i][1] \in Nat /\ media[i][2] \in Nat
  BY <1>i, MediaIs DEF Types, Cores
<1>q. \A i \in DOMAIN media : media[i][1] <= core.gen /\ media[i][2] <= core.cut BY <1>i DEF Queued
<1>s. ASSUME media' = media, core'.gen \in {core.gen, core.gen + 1}, core'.cut = core.cut,
             core'.dump \in {core.dump, "No"}
      PROVE  Queued'
  BY <1>i, <1>t, <1>q, <1>s DEF Queued
<1>1. CASE Emit
  <2>1. /\ core'.gen = core.gen /\ core'.cut = core.cut /\ core'.dump = "No" /\ Len(media') = Len(media) + 1
        /\ \A i \in 1 .. Len(media) : media'[i] = media[i]
        /\ media'[Len(media) + 1] = <<core.gen, core.cut, core.cursor>>
    BY <1>1, <1>i, EmitDoes
  <2>2. DOMAIN media' = 1 .. Len(media) + 1 BY <1>i, <1>t, <2>1 DEF Types
  <2> QED BY <1>t, <1>q, <2>1, <2>2 DEF Queued
<1>2. CASE EndNow \/ EndAtMark BY <1>2, <1>i, <1>s, EndDoes
<1>3. CASE StartEgress \/ StopEgress \/ EndAfterAir BY <1>3, <1>i, <1>s, PlainDoes
<1>8. CASE RaiseCut
  <2>1. core'.gen = core.gen /\ core'.cut = core.cut + 1 /\ media' = media BY <1>8, <1>i, PlainDoes
  <2> QED BY <1>t, <1>q, <2>1 DEF Queued
<1>9. CASE AskCut
  <2>1. core'.gen = core.gen /\ core'.cut = core.cut /\ media' = media /\ core.dump = "Raised"
    BY <1>9, <1>i, PlainDoes
  <2> QED BY <1>i, <1>t, <2>1 DEF Queued
<1>4. CASE CheckDump \/ DumpUnlinked BY <1>4, <1>i, <1>s, CheckDoes, UnlinkedDoes, FinishDoes
<1>5. CASE HandleEvent
  <2>0. media' = media BY <1>5, <1>i, HandleDoes
  <2>1. CASE HandleCutDone(events[1]) BY <2>0, <1>i, <1>s, <2>1, CutDoneDoes, FinishDoes
  <2>2. CASE HandleConnected(events[1]) BY <2>0, <1>i, <1>s, <2>2, ConnectedDoes
  <2>3. CASE HandleDisconnected(events[1]) BY <2>0, <1>i, <1>s, <2>3, DisconnectedDoes
  <2> QED BY <1>5, <1>i, <2>1, <2>2, <2>3, HandleDoes
<1>6. CASE Egress \/ Leave \/ Acknowledge \/ Linger
  <2>1. PICK n \in 0 .. Len(media) : Dropped(n) BY <1>6, <1>i, Rest
  <2>2. core' = core BY <1>6, <1>i, Rest
  <2>3. ASSUME NEW i \in DOMAIN media' PROVE \E j \in DOMAIN media : media'[i] = media[j]
    <3>1. media'[i] = media[i + n] /\ i + n \in DOMAIN media BY <1>i, <2>1, DroppedIs
    <3> QED BY <3>1
  <2> QED BY <1>i, <2>2, <2>3 DEF Queued
<1>7. CASE UNCHANGED vars BY <1>s, <1>7 DEF vars
<1> QED BY <1>1, <1>2, <1>3, <1>4, <1>5, <1>6, <1>7, <1>8, <1>9 DEF Next, Core

LEMMA LastHereNext == OutletInv /\ [Next]_vars => LastHere'
<1> SUFFICES ASSUME OutletInv, [Next]_vars PROVE LastHere' OBVIOUS
<1>i. Types /\ Queued /\ LastHere /\ Types' BY TypesNext DEF OutletInv
<1>t. /\ core.gen \in Nat /\ core.cut \in Nat /\ media \in Seq(Quad) /\ Len(media) \in Nat
      /\ DOMAIN media = 1 .. Len(media)
      /\ \A i \in DOMAIN media : media[i][1] \in Nat /\ media[i][2] \in Nat
  BY <1>i, MediaIs DEF Types, Cores
<1>q. \A i \in DOMAIN media : media[i][1] <= core.gen /\ media[i][2] <= core.cut BY <1>i DEF Queued
<1>k. PICK k \in 1 .. Len(media) + 1 : FromHere(k) BY <1>i DEF LastHere
<1>s. ASSUME media' = media, core'.gen = core.gen, core'.cut = core.cut PROVE LastHere'
  BY <1>k, <1>s DEF LastHere, FromHere, Here
<1>n. ASSUME media' = media, core'.gen = core.gen + 1 \/ core'.cut = core.cut + 1 PROVE LastHere'
  <2>1. FromHere(Len(media) + 1)' BY <1>t, <1>q, <1>n DEF FromHere, Here
  <2> QED BY <1>n, <1>t, <2>1 DEF LastHere
<1>1. CASE Emit
  <2>1. /\ core'.gen = core.gen /\ core'.cut = core.cut /\ Len(media') = Len(media) + 1
        /\ \A i \in 1 .. Len(media) : media'[i] = media[i]
        /\ media'[Len(media) + 1] = <<core.gen, core.cut, core.cursor>>
    BY <1>1, <1>i, EmitDoes
  <2>2. DOMAIN media' = 1 .. Len(media) + 1 BY <1>i, <1>t, <2>1 DEF Types
  <2>3. FromHere(k)' BY <1>t, <1>k, <2>1, <2>2 DEF FromHere, Here
  <2>4. k \in 1 .. Len(media') + 1 BY <1>t, <2>1
  <2> QED BY <2>3, <2>4 DEF LastHere
<1>2. CASE EndNow \/ EndAtMark BY <1>2, <1>i, <1>s, EndDoes
<1>3. CASE StartEgress \/ StopEgress \/ EndAfterAir \/ RaiseCut \/ AskCut BY <1>3, <1>i, <1>s, <1>n, PlainDoes
<1>4. CASE CheckDump \/ DumpUnlinked BY <1>4, <1>i, <1>s, CheckDoes, UnlinkedDoes, FinishDoes
<1>5. CASE HandleEvent
  <2>0. media' = media BY <1>5, <1>i, HandleDoes
  <2>1. CASE HandleCutDone(events[1]) BY <2>0, <1>i, <1>s, <2>1, CutDoneDoes, FinishDoes
  <2>2. CASE HandleConnected(events[1]) BY <2>0, <1>i, <1>n, <2>2, ConnectedDoes
  <2>3. CASE HandleDisconnected(events[1]) BY <2>0, <1>i, <1>s, <2>3, DisconnectedDoes
  <2> QED BY <1>5, <1>i, <2>1, <2>2, <2>3, HandleDoes
<1>6. CASE Egress \/ Leave \/ Acknowledge \/ Linger
  <2>1. PICK n \in 0 .. Len(media) : Dropped(n) BY <1>6, <1>i, Rest
  <2>2. core' = core BY <1>6, <1>i, Rest
  <2>3. /\ DOMAIN media' = 1 .. Len(media) - n
        /\ \A i \in 1 .. Len(media) - n : media'[i] = media[i + n] /\ i + n \in DOMAIN media
    BY <1>i, <2>1, DroppedIs
  <2>4. \A i \in 1 .. Len(media) - n : Here(media[i])' <=> i + n >= k
    BY <1>k, <2>2, <2>3 DEF FromHere, Here
  <2>5. CASE k > n
    <3>1. FromHere(k - n)' BY <1>t, <2>3, <2>4, <2>5 DEF FromHere
    <3>2. k - n \in 1 .. Len(media') + 1 BY <1>t, <2>1, <2>5 DEF Dropped
    <3> QED BY <3>1, <3>2 DEF LastHere
  <2>6. CASE k <= n
    <3>1. FromHere(1)' BY <1>t, <2>3, <2>4, <2>6 DEF FromHere
    <3>2. 1 \in 1 .. Len(media') + 1 BY <1>t, <2>1 DEF Dropped
    <3> QED BY <3>1, <3>2 DEF LastHere
  <2> QED BY <2>5, <2>6
<1>7. CASE UNCHANGED vars BY <1>s, <1>7 DEF vars
<1> QED BY <1>1, <1>2, <1>3, <1>4, <1>5, <1>6, <1>7 DEF Next, Core

-----------------------------------------------------------------------------
(* Control messages *)
LEMMA CtlIs ==
  ASSUME Types
  PROVE  /\ Len(ctl) \in Nat /\ DOMAIN ctl = 1 .. Len(ctl)
         /\ \A i \in DOMAIN ctl : ctl[i] \in Control /\ (IsCut(ctl[i]) => ctl[i].cut \in Nat)
         /\ core.cut \in Nat
<1>1. Len(ctl) \in Nat /\ DOMAIN ctl = 1 .. Len(ctl) /\ \A i \in DOMAIN ctl : ctl[i] \in Control BY DEF Types
<1>2. \A c \in Control : IsCut(c) => c.cut \in Nat BY DEF Control, IsCut
<1> QED BY <1>1, <1>2 DEF Types, Cores

LEMMA CtlTail ==
  ASSUME Types, ctl # <<>>, ctl' = Tail(ctl)
  PROVE  /\ 1 \in DOMAIN ctl /\ Head(ctl) = ctl[1] /\ DOMAIN ctl' = 1 .. Len(ctl) - 1
         /\ \A i \in 1 .. Len(ctl) - 1 : ctl'[i] = ctl[i + 1] /\ i + 1 \in DOMAIN ctl
BY DEF Types

LEMMA CtlMore ==
  ASSUME Types, NEW c \in Control, ctl' = Append(ctl, c)
  PROVE  /\ DOMAIN ctl' = 1 .. Len(ctl) + 1 /\ ctl'[Len(ctl) + 1] = c
         /\ \A i \in 1 .. Len(ctl) : ctl'[i] = ctl[i] /\ i \in DOMAIN ctl
BY DEF Types

LEMMA CtlMoves ==
  ASSUME Types, Egress \/ Leave \/ Acknowledge \/ Linger
  PROVE  ctl' = ctl \/ (ctl # <<>> /\ ctl' = Tail(ctl))
BY EgressDoes, BatchDoes, OverDoes DEF Egress, Ending, Told

(* What the egress adds to the events.                                     *)
LEMMA EventsMove ==
  ASSUME Types, Types', Egress \/ Leave \/ Acknowledge \/ Linger
  PROVE  /\ DOMAIN events = 1 .. Len(events) /\ Len(events) \in Nat /\ Len(events') >= Len(events)
         /\ DOMAIN events' = 1 .. Len(events')
         /\ \A i \in DOMAIN events : i \in DOMAIN events' /\ events'[i] = events[i]
         /\ \A i \in DOMAIN events' : i \notin DOMAIN events =>
              \/ events'[i].kind = "Disconnected" /\ events'[i].last = eg.last /\ (CutReset \/ Fail \/ Ending)
              \/ events'[i].kind = "Connected" /\ ConnectOk /\ i = Len(events) + 1
                   /\ Len(events') = Len(events) + 1
              \/ /\ events'[i].kind = "CutDone" /\ Told("Cut") /\ events'[i].cut = Head(ctl).cut
                 /\ \/ CutUnconnected /\ events'[i].delivered = None
                    \/ CutLive /\ ~events'[i].reset /\ events'[i].delivered = eg.last
                    \/ CutReset /\ events'[i].reset
                         /\ \E blind \in Blind : events'[i].delivered = SurelySent(Held(blind))
<1>t. /\ events \in Seq(Event) /\ Len(events) \in Nat /\ DOMAIN events = 1 .. Len(events)
      /\ events' \in Seq(Event) /\ Len(events') \in Nat /\ DOMAIN events' = 1 .. Len(events')
  BY SMTT(30) DEF Types
<1>a. ASSUME NEW e, events' = Append(events, e)
      PROVE  /\ Len(events') = Len(events) + 1
             /\ \A i \in DOMAIN events : i \in DOMAIN events' /\ events'[i] = events[i]
             /\ \A i \in DOMAIN events' : i \notin DOMAIN events => i = Len(events) + 1 /\ events'[i] = e
  <2>1. Len(events') = Len(events) + 1 BY <1>a, <1>t
  <2>2. \A i \in DOMAIN events : i \in DOMAIN events' /\ events'[i] = events[i] BY <1>a, <1>t
  <2>3. events'[Len(events) + 1] = e BY <1>a, <1>t
  <2> QED BY <1>t, <2>1, <2>2, <2>3
<1>b. ASSUME NEW e, events' = events \o <<e>>
      PROVE  /\ Len(events') = Len(events) + 1
             /\ \A i \in DOMAIN events : i \in DOMAIN events' /\ events'[i] = events[i]
             /\ \A i \in DOMAIN events' : i \notin DOMAIN events => events'[i] = e
  <2>1. events' = Append(events, e) BY <1>b, <1>t
  <2> QED BY <1>a, <2>1
<1>c. ASSUME NEW d, NEW e, events' = events \o <<d, e>>
      PROVE  /\ Len(events') = Len(events) + 2
             /\ \A i \in DOMAIN events : i \in DOMAIN events' /\ events'[i] = events[i]
             /\ \A i \in DOMAIN events' : i \notin DOMAIN events => events'[i] = d \/ events'[i] = e
  <2>1. Len(events') = Len(events) + 2 BY <1>c, <1>t
  <2>2. \A i \in DOMAIN events : i \in DOMAIN events' /\ events'[i] = events[i] BY <1>c, <1>t
  <2>3. events'[Len(events) + 1] = d /\ events'[Len(events) + 2] = e BY <1>c, <1>t
  <2>4. \A i \in DOMAIN events' : i \notin DOMAIN events => i = Len(events) + 1 \/ i = Len(events) + 2
    BY <1>t, <2>1
  <2> QED BY <2>1, <2>2, <2>3, <2>4
<1>d. Disconnected(eg.last).kind = "Disconnected" /\ Disconnected(eg.last).last = eg.last BY DEF Disconnected
<1>1. CASE ConnectOk
  <2>1. events' = Append(events, Connected) BY <1>1, EgressDoes
  <2> QED BY <1>t, <1>a, <1>1, <2>1 DEF Connected
<1>2. CASE CutUnconnected
  <2>1. events' = Append(events, CutDone(Head(ctl).cut, FALSE, None)) /\ Told("Cut") BY <1>2, EgressDoes
  <2> QED BY <1>t, <1>a, <1>2, <2>1 DEF CutDone
<1>3. CASE CutLive
  <2>1. events' = Append(events, CutDone(Head(ctl).cut, FALSE, eg.last)) /\ Told("Cut") BY <1>3, EgressDoes
  <2> QED BY <1>t, <1>a, <1>3, <2>1 DEF CutDone
<1>4. CASE CutReset
  <2>1. PICK blind \in Blind :
          events' = events \o <<CutDone(Head(ctl).cut, TRUE, SurelySent(Held(blind))), Disconnected(eg.last)>>
    BY <1>4, OverDoes DEF Over
  <2>2. Told("Cut") BY <1>4, OverDoes
  <2> DEFINE d == CutDone(Head(ctl).cut, TRUE, SurelySent(Held(blind)))
  <2>3. d.kind = "CutDone" /\ d.cut = Head(ctl).cut /\ d.reset /\ d.delivered = SurelySent(Held(blind))
    BY DEF CutDone
  <2> HIDE DEF d
  <2>4. events' = events \o <<d, Disconnected(eg.last)>> BY <2>1 DEF d
  <2>5. \A i \in DOMAIN events' : i \notin DOMAIN events => events'[i] = d \/ events'[i] = Disconnected(eg.last)
    BY <1>c, <2>4
  <2>6. Len(events') >= Len(events) /\ \A i \in DOMAIN events : i \in DOMAIN events' /\ events'[i] = events[i]
    BY <1>c, <1>t, <2>4
  <2> QED BY <1>t, <1>d, <1>4, <2>2, <2>3, <2>5, <2>6
<1>5. CASE Fail \/ Ending
  <2>1. Over("Backoff", <<Disconnected(eg.last)>>) \/ Over("Idle", <<Disconnected(eg.last)>>)
    BY <1>5, OverDoes
  <2>2. events' = events \o <<Disconnected(eg.last)>> BY ONLY <2>1, SMTT(30) DEF Over
  <2> QED BY <1>t, <1>b, <1>d, <1>5, <2>2
<1>6. CASE TakeStart \/ StopUnconnected \/ DropQueued \/ ConnectFails \/ BackoffOver \/ Publish \/ StopLive
             \/ TakeBatch \/ Accept \/ BatchDone \/ Leave \/ Acknowledge \/ Linger
  <2>1. events' = events BY <1>6, EgressDoes, BatchDoes
  <2>2. DOMAIN events' = DOMAIN events /\ Len(events') >= Len(events) /\ DOMAIN events = 1 .. Len(events)
    BY <1>t, <2>1
  <2>3. \A i \in DOMAIN events : i \in DOMAIN events' /\ events'[i] = events[i] BY <2>1
  <2>4. \A i \in DOMAIN events' : i \in DOMAIN events BY <2>2
  <2> QED BY <1>t, <2>2, <2>3, <2>4
<1> QED BY <1>1, <1>2, <1>3, <1>4, <1>5, <1>6 DEF Egress, Ending

LEMMA EventsTail ==
  ASSUME Types, HandleEvent
  PROVE  /\ DOMAIN events = 1 .. Len(events) /\ Len(events) \in Nat /\ 1 \in DOMAIN events
         /\ DOMAIN events' = 1 .. Len(events) - 1 /\ Len(events') = Len(events) - 1
         /\ \A i \in DOMAIN events' : events'[i] = events[i + 1] /\ i + 1 \in DOMAIN events
<1>1. events # <<>> /\ events' = Tail(events) BY HandleDoes
<1> QED BY <1>1 DEF Types

LEMMA CutsAskedNext == OutletInv /\ [Next]_vars => CutsAsked'
<1> SUFFICES ASSUME OutletInv, [Next]_vars PROVE CutsAsked' OBVIOUS
<1>i. Types /\ CutsAsked /\ Types' BY TypesNext DEF OutletInv
<1>t. /\ Len(ctl) \in Nat /\ DOMAIN ctl = 1 .. Len(ctl) /\ core.cut \in Nat
      /\ \A i \in DOMAIN ctl : IsCut(ctl[i]) => ctl[i].cut \in Nat
  BY <1>i, CtlIs
<1>c. /\ \A i \in DOMAIN ctl : IsCut(ctl[i]) =>
           /\ ctl[i].cut <= core.cut
           /\ (core.dump = "Raised" => ctl[i].cut < core.cut)
           /\ (core.dump = "Raised" \/ Asking)
      /\ \A i, j \in DOMAIN ctl : IsCut(ctl[i]) /\ IsCut(ctl[j]) /\ i < j => ctl[i].cut < ctl[j].cut
  BY <1>i DEF CutsAsked
<1>s. ASSUME ctl' = ctl, core'.cut = core.cut, core'.dump = core.dump \/ (core.dump # "Raised" /\ core'.dump = "No")
      PROVE  CutsAsked'
  BY <1>c, <1>s DEF CutsAsked, Asking
<1>a. ASSUME NEW c \in Control, ~IsCut(c), ctl' = Append(ctl, c), core'.cut = core.cut, core'.dump = core.dump
      PROVE  CutsAsked'
  <2>1. /\ DOMAIN ctl' = 1 .. Len(ctl) + 1 /\ ~IsCut(ctl'[Len(ctl) + 1])
        /\ \A i \in 1 .. Len(ctl) : ctl'[i] = ctl[i] /\ i \in DOMAIN ctl
    BY <1>a, <1>i, CtlMore
  <2>2. Asking => Asking' BY <1>a, <1>t, <2>1 DEF Asking
  <2>3. \A i \in DOMAIN ctl' : IsCut(ctl'[i]) => i \in DOMAIN ctl /\ ctl'[i] = ctl[i] BY <1>t, <2>1
  <2> QED BY <1>a, <1>c, <2>2, <2>3 DEF CutsAsked
<1>m. ~IsCut(Start) /\ ~IsCut(Stop) /\ Start \in Control /\ Stop \in Control
  BY Messages DEF IsCut, Start, Stop
<1>1. CASE Emit BY <1>1, <1>i, <1>s, EmitDoes
<1>2. CASE EndNow \/ EndAtMark
  <2>1. PICK c \in Control : Ends(c) /\ ctl' = Append(ctl, c) BY <1>2, <1>i, EndDoes
  <2>2. ~IsCut(c) BY <2>1 DEF Ends, IsCut
  <2>3. core'.cut = core.cut /\ core'.dump = core.dump BY <1>2, <1>i, EndDoes
  <2> QED BY <1>a, <2>1, <2>2, <2>3
<1>3. CASE StartEgress \/ StopEgress BY <1>3, <1>i, <1>a, <1>m, PlainDoes
<1>10. CASE EndAfterAir BY <1>10, <1>i, <1>s, PlainDoes
<1>8. CASE RaiseCut
  <2>1. ctl' = ctl /\ core'.cut = core.cut + 1 /\ core'.dump = "Raised" BY <1>8, <1>i, PlainDoes
  <2> QED BY <1>t, <1>c, <2>1 DEF CutsAsked
<1>9. CASE AskCut
  <2>0. /\ ctl' = Append(ctl, Cut(core.cut)) /\ Cut(core.cut) \in Control
        /\ core'.cut = core.cut /\ core.dump = "Raised" /\ core'.dump = "Asked"
    BY <1>9, <1>t, <1>i, PlainDoes, Messages
  <2>1. /\ DOMAIN ctl' = 1 .. Len(ctl) + 1 /\ ctl'[Len(ctl) + 1] = Cut(core.cut)
        /\ \A i \in 1 .. Len(ctl) : ctl'[i] = ctl[i] /\ i \in DOMAIN ctl
    BY <2>0, <1>i, CtlMore
  <2>2. Asking'
    <3>1. Len(ctl) + 1 \in DOMAIN ctl' BY <1>t, <2>1
    <3> QED BY <2>0, <2>1, <3>1 DEF Asking, IsCut, Cut
  <2>3. \A i \in DOMAIN ctl' : i \in DOMAIN ctl \/ i = Len(ctl) + 1 BY <1>t, <2>1
  <2>4. Cut(core.cut).cut = core.cut BY DEF Cut
  <2> QED BY <1>t, <1>c, <2>0, <2>1, <2>2, <2>3, <2>4 DEF CutsAsked
<1>4. CASE CheckDump \/ DumpUnlinked BY <1>4, <1>i, <1>s, CheckDoes, UnlinkedDoes, FinishDoes
<1>5. CASE HandleEvent
  <2>0. ctl' = ctl /\ core.dump # "Raised" BY <1>5, <1>i, HandleDoes
  <2>1. CASE HandleCutDone(events[1]) BY <2>0, <1>i, <1>s, <2>1, CutDoneDoes, FinishDoes
  <2>2. CASE HandleConnected(events[1]) BY <2>0, <1>i, <1>s, <2>2, ConnectedDoes
  <2>3. CASE HandleDisconnected(events[1]) BY <2>0, <1>i, <1>s, <2>3, DisconnectedDoes
  <2> QED BY <1>5, <1>i, <2>1, <2>2, <2>3, HandleDoes
<1>6. CASE Egress \/ Leave \/ Acknowledge \/ Linger
  <2>1. core' = core BY <1>6, EgressCore
  <2>2. CASE ctl' = ctl BY <1>s, <2>1, <2>2
  <2>3. CASE ctl # <<>> /\ ctl' = Tail(ctl)
    <3>1. /\ 1 \in DOMAIN ctl /\ DOMAIN ctl' = 1 .. Len(ctl) - 1
          /\ \A i \in 1 .. Len(ctl) - 1 : ctl'[i] = ctl[i + 1] /\ i + 1 \in DOMAIN ctl
      BY <1>i, <2>3, CtlTail
    <3>2. ASSUME NEW i \in DOMAIN ctl', NEW j \in DOMAIN ctl', IsCut(ctl'[i]), IsCut(ctl'[j]), i < j
          PROVE  ctl'[i].cut < ctl'[j].cut
      <4>1. /\ i + 1 \in DOMAIN ctl /\ j + 1 \in DOMAIN ctl /\ i + 1 < j + 1
            /\ ctl'[i] = ctl[i + 1] /\ ctl'[j] = ctl[j + 1]
        BY <1>t, <3>1, <3>2
      <4> QED BY <1>c, <3>2, <4>1
    <3>3. ASSUME NEW i \in DOMAIN ctl', IsCut(ctl'[i]), core.dump # "Raised" PROVE Asking'
      <4>1. i + 1 \in DOMAIN ctl /\ IsCut(ctl[i + 1]) /\ 1 < i + 1 BY <1>t, <3>1, <3>3
      <4>2. PICK j \in DOMAIN ctl : IsCut(ctl[j]) /\ ctl[j].cut = core.cut BY <1>c, <3>3, <4>1 DEF Asking
      <4>3. j # 1
        <5>1. SUFFICES ASSUME j = 1 PROVE FALSE OBVIOUS
        <5>2. ctl[1].cut < ctl[i + 1].cut BY <1>c, <4>1, <4>2, <5>1
        <5>3. ctl[i + 1].cut <= core.cut BY <1>c, <4>1
        <5> QED BY <1>t, <4>1, <4>2, <5>1, <5>2, <5>3
      <4>4. j - 1 \in DOMAIN ctl' /\ ctl'[j - 1] = ctl[j] BY <1>t, <3>1, <4>2, <4>3
      <4> QED BY <2>1, <4>2, <4>4 DEF Asking
    <3> QED BY <1>c, <2>1, <3>1, <3>2, <3>3 DEF CutsAsked
  <2> QED BY <1>6, <1>i, <2>2, <2>3, CtlMoves
<1>7. CASE UNCHANGED vars BY <1>s, <1>7 DEF vars
<1> QED BY <1>1, <1>2, <1>3, <1>4, <1>5, <1>6, <1>7, <1>8, <1>9, <1>10 DEF Next, Core

LEMMA CutsAnsweredNext == OutletInv /\ [Next]_vars => CutsAnswered'
<1> SUFFICES ASSUME OutletInv, [Next]_vars PROVE CutsAnswered' OBVIOUS
<1>i. Types /\ CutsAsked /\ CutsAnswered /\ Types' BY TypesNext DEF OutletInv
<1>t. /\ Len(ctl) \in Nat /\ DOMAIN ctl = 1 .. Len(ctl) /\ core.cut \in Nat
      /\ \A i \in DOMAIN ctl : IsCut(ctl[i]) => ctl[i].cut \in Nat
      /\ \A i \in DOMAIN events : IsAnswer(events[i]) => events[i].cut \in Nat
  <2>1. \A e \in Event : IsAnswer(e) => e.cut \in Nat BY DEF Event, IsAnswer
  <2>2. \A i \in DOMAIN events : events[i] \in Event
    <3>1. events \in Seq(Event) BY <1>i DEF Types
    <3> QED BY ONLY <3>1
  <2> QED BY <1>i, <2>1, <2>2, CtlIs
<1>c. /\ \A i \in DOMAIN ctl : IsCut(ctl[i]) =>
           /\ ctl[i].cut <= core.cut
           /\ (core.dump = "Raised" => ctl[i].cut < core.cut)
      /\ \A i, j \in DOMAIN ctl : IsCut(ctl[i]) /\ IsCut(ctl[j]) /\ i < j => ctl[i].cut < ctl[j].cut
  BY <1>i DEF CutsAsked
<1>e. \A i \in DOMAIN events : IsAnswer(events[i]) =>
        /\ events[i].cut <= core.cut
        /\ (core.dump = "Raised" => events[i].cut < core.cut)
        /\ (events[i].cut = core.cut => ~Asking)
  BY <1>i DEF CutsAnswered
<1>s. ASSUME events' = events, core'.cut = core.cut, core'.dump = core.dump \/ core'.dump = "No", Asking' => Asking
      PROVE  CutsAnswered'
  BY <1>e, <1>s DEF CutsAnswered
<1>u. ASSUME ctl' = ctl, core'.cut = core.cut PROVE Asking' => Asking
  BY <1>u DEF Asking
<1>a. ASSUME NEW c \in Control, ~IsCut(c), ctl' = Append(ctl, c), core'.cut = core.cut PROVE Asking' => Asking
  <2>1. /\ DOMAIN ctl' = 1 .. Len(ctl) + 1 /\ ~IsCut(ctl'[Len(ctl) + 1])
        /\ \A i \in 1 .. Len(ctl) : ctl'[i] = ctl[i] /\ i \in DOMAIN ctl
    BY <1>a, <1>i, CtlMore
  <2>3. \A i \in DOMAIN ctl' : IsCut(ctl'[i]) => i \in DOMAIN ctl /\ ctl'[i] = ctl[i] BY <1>t, <2>1
  <2> QED BY <1>a, <2>3 DEF Asking
<1>m. ~IsCut(Start) /\ ~IsCut(Stop) /\ Start \in Control /\ Stop \in Control
  BY Messages DEF IsCut, Start, Stop
<1>1. CASE Emit BY <1>1, <1>i, <1>s, <1>u, EmitDoes
<1>2. CASE EndNow \/ EndAtMark
  <2>1. PICK c \in Control : Ends(c) /\ ctl' = Append(ctl, c) BY <1>2, <1>i, EndDoes
  <2>2. ~IsCut(c) BY <2>1 DEF Ends, IsCut
  <2>3. core'.cut = core.cut /\ core'.dump = core.dump /\ events' = events BY <1>2, <1>i, EndDoes
  <2> QED BY <1>a, <1>s, <2>1, <2>2, <2>3
<1>3. CASE StartEgress \/ StopEgress
  <2>1. core'.cut = core.cut /\ core'.dump = core.dump /\ events' = events BY <1>3, <1>i, PlainDoes
  <2>2. Asking' => Asking BY <1>3, <1>i, <1>a, <1>m, PlainDoes
  <2> QED BY <1>s, <2>1, <2>2
<1>10. CASE EndAfterAir BY <1>10, <1>i, <1>s, <1>u, PlainDoes
<1>8. CASE RaiseCut
  <2>1. events' = events /\ core'.cut = core.cut + 1 /\ ctl' = ctl BY <1>8, <1>i, PlainDoes
  <2> QED BY <1>t, <1>e, <2>1 DEF CutsAnswered
<1>9. CASE AskCut
  <2>0. events' = events /\ core'.cut = core.cut /\ core.dump = "Raised" /\ core'.dump = "Asked"
    BY <1>9, <1>i, PlainDoes
  <2> QED BY <1>t, <1>e, <2>0 DEF CutsAnswered
<1>4. CASE CheckDump \/ DumpUnlinked
  <2>1. core'.cut = core.cut /\ core'.dump = "No" /\ events' = events /\ ctl' = ctl
    BY <1>4, <1>i, CheckDoes, UnlinkedDoes, FinishDoes
  <2> QED BY <1>s, <1>u, <2>1
<1>5. CASE HandleEvent
  <2>0. ctl' = ctl /\ core.dump # "Raised" BY <1>5, <1>i, HandleDoes
  <2>4. core'.cut = core.cut /\ core'.dump \in {core.dump, "No"}
    <3>1. CASE HandleCutDone(events[1]) BY <1>i, <3>1, CutDoneDoes, FinishDoes
    <3>2. CASE HandleConnected(events[1]) BY <1>i, <3>2, ConnectedDoes
    <3>3. CASE HandleDisconnected(events[1]) BY <1>i, <3>3, DisconnectedDoes
    <3> QED BY <1>5, <1>i, <3>1, <3>2, <3>3, HandleDoes
  <2>5. \A i \in DOMAIN events' : events'[i] = events[i + 1] /\ i + 1 \in DOMAIN events
    BY <1>5, <1>i, EventsTail
  <2> QED BY <1>e, <1>u, <2>0, <2>4, <2>5 DEF CutsAnswered
<1>6. CASE Egress \/ Leave \/ Acknowledge \/ Linger
  <2>1. core' = core BY <1>6, EgressCore
  <2>2. Asking' => Asking
    <3>1. CASE ctl' = ctl BY <1>u, <2>1, <3>1
    <3>2. CASE ctl # <<>> /\ ctl' = Tail(ctl)
      <4>1. \A i \in DOMAIN ctl' : ctl'[i] = ctl[i + 1] /\ i + 1 \in DOMAIN ctl BY <1>i, <3>2, CtlTail
      <4> QED BY <2>1, <4>1 DEF Asking
    <3> QED BY <1>6, <1>i, <3>1, <3>2, CtlMoves
  <2>3. ASSUME NEW i \in DOMAIN events', IsAnswer(events'[i]), i \notin DOMAIN events
        PROVE  /\ events'[i].cut <= core.cut
               /\ (core.dump = "Raised" => events'[i].cut < core.cut)
               /\ (events'[i].cut = core.cut => ~Asking')
    <3>1. Told("Cut") /\ events'[i].cut = Head(ctl).cut BY <1>6, <1>i, <2>3, EventsMove DEF IsAnswer
    <3>2. /\ ctl # <<>> /\ ctl' = Tail(ctl) /\ IsCut(Head(ctl)) BY <3>1 DEF Told, IsCut
    <3>3. /\ 1 \in DOMAIN ctl /\ Head(ctl) = ctl[1] /\ DOMAIN ctl' = 1 .. Len(ctl) - 1
          /\ \A j \in 1 .. Len(ctl) - 1 : ctl'[j] = ctl[j + 1] /\ j + 1 \in DOMAIN ctl
      BY <1>i, <3>2, CtlTail
    <3>4. ctl[1].cut = core.cut => ~Asking'
      <4>1. SUFFICES ASSUME ctl[1].cut = core.cut, Asking' PROVE FALSE OBVIOUS
      <4>2. PICK j \in DOMAIN ctl' : IsCut(ctl'[j]) /\ ctl'[j].cut = core.cut BY <2>1, <4>1 DEF Asking
      <4>3. j + 1 \in DOMAIN ctl /\ ctl[j + 1] = ctl'[j] /\ 1 < j + 1 BY <1>t, <3>3, <4>2
      <4>4. ctl[1].cut < ctl[j + 1].cut BY <1>c, <3>2, <3>3, <4>2, <4>3
      <4> QED BY <1>t, <4>1, <4>2, <4>3, <4>4
    <3> QED BY <1>c, <3>1, <3>2, <3>3, <3>4
  <2>4. \A i \in DOMAIN events : events'[i] = events[i] BY <1>6, <1>i, EventsMove
  <2> QED BY <1>e, <2>1, <2>2, <2>3, <2>4 DEF CutsAnswered
<1>7. CASE UNCHANGED vars BY <1>s, <1>u, <1>7 DEF vars
<1> QED BY <1>1, <1>2, <1>3, <1>4, <1>5, <1>6, <1>7, <1>8, <1>9, <1>10 DEF Next, Core

-----------------------------------------------------------------------------
(* The two tasks *)
LEMMA InTouchNext == OutletInv /\ [Next]_vars => InTouch'
<1> SUFFICES ASSUME OutletInv, [Next]_vars PROVE InTouch' OBVIOUS
<1>i. Types /\ InTouch /\ Types' BY TypesNext DEF OutletInv
<1>n. /\ OnConnection => eg.gen = core.gen
      /\ eg.phase = "Waiting" /\ eg.reply # None => eg.reply = core.gen
      /\ Numbered => \A i \in DOMAIN events : IsAnswer(events[i])
      /\ \A i \in DOMAIN events :
           events[i].kind = "Connected" => (eg.phase = "Waiting" /\ eg.reply = None /\ i = Len(events))
  BY <1>i DEF InTouch
<1>s. ASSUME eg' = eg, events' = events, core'.gen = core.gen PROVE InTouch'
  BY <1>n, <1>s DEF InTouch, OnConnection, Numbered
<1>1. CASE Emit BY <1>1, <1>i, <1>s, EmitDoes
<1>2. CASE EndNow \/ EndAtMark BY <1>2, <1>i, <1>s, EndDoes
<1>3. CASE StartEgress \/ StopEgress \/ EndAfterAir \/ RaiseCut \/ AskCut BY <1>3, <1>i, <1>s, PlainDoes
<1>4. CASE CheckDump \/ DumpUnlinked BY <1>4, <1>i, <1>s, CheckDoes, UnlinkedDoes, FinishDoes
<1>5. CASE HandleEvent
  <2>0. /\ 1 \in DOMAIN events /\ Len(events) \in Nat /\ DOMAIN events = 1 .. Len(events)
        /\ Len(events') = Len(events) - 1 /\ DOMAIN events' = 1 .. Len(events) - 1
        /\ \A i \in DOMAIN events' : events'[i] = events[i + 1] /\ i + 1 \in DOMAIN events
    BY <1>5, <1>i, EventsTail
  <2>1. ASSUME eg' = eg, core'.gen = core.gen PROVE InTouch'
    <3>1. Numbered' = Numbered /\ OnConnection' = OnConnection BY <2>1 DEF Numbered, OnConnection
    <3>2. \A i \in DOMAIN events' : events'[i].kind = "Connected" =>
            (eg.phase = "Waiting" /\ eg.reply = None /\ i = Len(events'))
      BY <1>n, <2>0
    <3> QED BY <1>n, <2>0, <2>1, <3>1, <3>2 DEF InTouch
  <2>2. CASE HandleCutDone(events[1])
    <3>1. eg' = eg /\ core'.gen = core.gen BY <1>i, <2>2, CutDoneDoes, FinishDoes
    <3> QED BY <2>1, <3>1
  <2>3. CASE HandleConnected(events[1])
    <3>1. events[1].kind = "Connected" /\ core'.gen = core.gen + 1 /\ eg' = [eg EXCEPT !.reply = core.gen + 1]
      BY <1>i, <2>3, ConnectedDoes
    <3>2. eg.phase = "Waiting" /\ Len(events) = 1 BY <1>n, <2>0, <3>1
    <3>3. eg'.phase = "Waiting" /\ eg'.reply = core'.gen BY <1>i, <3>1, <3>2 DEF Types, Egresses
    <3>4. DOMAIN events' = {} BY <2>0, <3>2
    <3> QED BY <3>3, <3>4 DEF InTouch, OnConnection, Numbered
  <2>4. CASE HandleDisconnected(events[1])
    <3>1. eg' = eg /\ core'.gen = core.gen BY <1>i, <2>4, DisconnectedDoes
    <3> QED BY <2>1, <3>1
  <2> QED BY <1>5, <1>i, <2>2, <2>3, <2>4, HandleDoes
<1>6. CASE Egress \/ Leave \/ Acknowledge \/ Linger
  <2>1. core' = core BY <1>6, EgressCore
  <2>2. /\ DOMAIN events = 1 .. Len(events) /\ Len(events) \in Nat
        /\ \A i \in DOMAIN events : i \in DOMAIN events' /\ events'[i] = events[i]
    BY <1>6, <1>i, EventsMove
  <2>3. ASSUME NEW i \in DOMAIN events', i \notin DOMAIN events
        PROVE  \/ events'[i].kind = "Disconnected" /\ (CutReset \/ Fail \/ Ending)
               \/ events'[i].kind = "Connected" /\ ConnectOk /\ i = Len(events')
               \/ events'[i].kind = "CutDone" /\ (CutUnconnected \/ CutLive \/ CutReset)
    BY <1>6, <1>i, <2>2, <2>3, EventsMove
  <2>a. ASSUME eg'.phase \in {"Connecting", "Idle", "Backoff"}, eg.phase # "Waiting", ~ConnectOk PROVE InTouch'
    <3>1. ASSUME NEW i \in DOMAIN events' PROVE events'[i].kind # "Connected"
      BY <1>n, <2>2, <2>3, <2>a, <3>1
    <3> QED BY <2>a, <3>1 DEF InTouch, OnConnection, Numbered
  <2>b. ASSUME eg'.phase \in {"Live", "Writing", "Closing"}, OnConnection, eg'.gen = eg.gen,
               ~CutReset, ~Fail, ~Ending, ~ConnectOk PROVE InTouch'
    <3>1. Numbered BY <2>b DEF Numbered
    <3>2. \A i \in DOMAIN events' : IsAnswer(events'[i]) BY <1>n, <2>2, <2>3, <2>b, <3>1 DEF IsAnswer
    <3> QED BY <1>n, <2>1, <2>b, <3>2 DEF InTouch, OnConnection, IsAnswer
  <2>c. ASSUME eg'.phase = "Waiting", eg'.reply = None, ConnectOk PROVE InTouch'
    <3>1. eg.phase = "Connecting" BY <1>i, <2>c, EgressDoes
    <3>2. ~CutReset /\ ~CutUnconnected /\ ~CutLive /\ ~Fail /\ ~Ending
      <4>1. ctl = <<>> BY <1>i, <2>c, EgressDoes
      <4> QED BY <1>i, <3>1, <4>1, OverDoes, EgressDoes DEF Over, Told
    <3>3. \A i \in DOMAIN events' : events'[i].kind = "Connected" => i = Len(events')
      BY <1>n, <2>2, <2>3, <3>1
    <3> QED BY <2>c, <3>3 DEF InTouch, OnConnection, Numbered
  <2>d. ASSUME Publish PROVE InTouch'
    <3>1. /\ eg.phase = "Waiting" /\ eg.reply # None /\ eg'.phase = "Live" /\ eg'.gen = eg.reply
          /\ events' = events
      BY <1>i, <2>d, EgressDoes
    <3> QED BY <1>n, <2>1, <3>1 DEF InTouch, OnConnection, Numbered, IsAnswer
  <2>e. \A p : In(p).phase = p /\ In(p).reply = None BY InIs
  <2>4. CASE Publish BY <2>4, <2>d
  <2>5. CASE ConnectOk BY <1>i, <2>5, <2>c, <2>e, EgressDoes
  <2>6. CASE eg' = eg /\ events' = events BY <1>s, <2>1, <2>6
  <2>7. CASE TakeStart \/ StopUnconnected \/ ConnectFails \/ BackoffOver
    <3>1. eg'.phase \in {"Connecting", "Idle", "Backoff"} /\ eg.phase # "Waiting" /\ events' = events
      BY <1>i, <2>7, <2>e, EgressDoes
    <3>2. \A i \in DOMAIN events' : events'[i].kind # "Connected" BY <1>n, <3>1
    <3> QED BY <3>1, <3>2 DEF InTouch, OnConnection, Numbered
  <2>8. CASE CutUnconnected
    <3>1. eg'.phase \in {"Connecting", "Idle", "Backoff"} /\ eg.phase # "Waiting" /\ Told("Cut")
      BY <1>i, <2>8, EgressDoes
    <3>2. ~ConnectOk BY <1>i, <3>1, EgressDoes DEF Told
    <3> QED BY <2>a, <3>1, <3>2
  <2>9. CASE CutReset \/ Fail \/ Ending
    <3>1. eg'.phase \in {"Connecting", "Idle", "Backoff"} /\ eg.phase \in {"Live", "Writing", "Closing"}
      BY <1>i, <2>9, <2>e, OverDoes DEF Over
    <3>2. ~ConnectOk BY <1>i, <3>1, EgressDoes
    <3> QED BY <2>a, <3>1, <3>2
  <2>10. CASE TakeBatch \/ Accept \/ BatchDone \/ StopLive \/ CutLive
    <3>1. /\ eg'.phase \in {"Live", "Writing", "Closing"} /\ OnConnection /\ eg'.gen = eg.gen
          /\ eg.phase # "Connecting"
      BY <1>i, <2>10, BatchDoes, EgressDoes DEF OnConnection, Types, Egresses
    <3>2. ~ConnectOk BY <1>i, <3>1, EgressDoes
    <3>3. ~CutReset /\ ~Fail /\ ~Ending
      <4>1. CutReset \/ Fail \/ Ending => eg'.phase \in {"Connecting", "Idle", "Backoff"}
        BY <1>i, <2>e, OverDoes DEF Over
      <4> QED BY <3>1, <4>1
    <3> QED BY <2>b, <3>1, <3>2, <3>3
  <2> QED BY <1>6, <1>i, <2>4, <2>5, <2>6, <2>7, <2>8, <2>9, <2>10, EgressDoes, BatchDoes DEF Egress, Ending
<1>7. CASE UNCHANGED vars BY <1>s, <1>7 DEF vars
<1> QED BY <1>1, <1>2, <1>3, <1>4, <1>5, <1>6, <1>7 DEF Next, Core

LEMMA NothingYetNext == OutletInv /\ [Next]_vars => NothingYet'
<1> SUFFICES ASSUME OutletInv, [Next]_vars PROVE NothingYet' OBVIOUS
<1>i. Types /\ NothingYet /\ InTouch /\ Types' BY TypesNext DEF OutletInv
<1>n. /\ ~OnConnection =>
           /\ eg.log = <<>> /\ eg.total = 0 /\ eg.last = None
           /\ os.wire = <<>> /\ os.flight = <<>>
      /\ eg.phase # "Writing" => eg.batch = <<>> /\ eg.put = 0
      /\ eg.put <= Len(eg.batch) /\ eg.put \in Nat /\ Len(eg.batch) \in Nat
  BY <1>i DEF NothingYet, Types, Egresses
<1>s. ASSUME eg' = eg, os' = os PROVE NothingYet' BY <1>n, <1>s DEF NothingYet, OnConnection
<1>l. Len(<<>>) = 0 OBVIOUS
<1>1. CASE Emit BY <1>1, <1>i, <1>s, EmitDoes DEF Emit
<1>2. CASE EndNow \/ EndAtMark BY <1>2, <1>i, <1>s, EndDoes
<1>3. CASE StartEgress \/ StopEgress \/ EndAfterAir \/ RaiseCut \/ AskCut BY <1>3, <1>i, <1>s, PlainDoes
<1>4. CASE CheckDump \/ DumpUnlinked BY <1>4, <1>i, <1>s, CheckDoes, UnlinkedDoes
<1>5. CASE HandleEvent
  <2>0. os' = os BY <1>5, <1>i, HandleDoes
  <2>1. CASE eg' = eg BY <1>s, <2>0, <2>1
  <2>2. CASE eg' = [eg EXCEPT !.reply = core.gen + 1]
    BY <1>i, <1>n, <2>0, <2>2 DEF NothingYet, OnConnection, Types, Egresses
  <2> QED BY <1>5, <1>i, <2>1, <2>2, HandleDoes, CutDoneDoes, ConnectedDoes, DisconnectedDoes
<1>6. CASE Egress \/ Leave \/ Acknowledge \/ Linger
  <2>1. CASE TakeStart \/ StopUnconnected \/ ConnectOk \/ ConnectFails \/ BackoffOver
    <3>1. eg.phase \in {"Idle", "Connecting", "Backoff"} /\ os' = os /\ \E p : eg' = In(p) /\ p # "Writing"
      BY <1>i, <2>1, EgressDoes
    <3>2. os'.wire = <<>> /\ os'.flight = <<>> BY <1>n, <3>1 DEF OnConnection
    <3> QED BY <1>l, <3>1, <3>2, InIs DEF NothingYet
  <2>2. CASE CutReset \/ Fail \/ Ending
    <3>1. os'.wire = <<>> /\ os'.flight = <<>> /\ eg' \in {In("Connecting"), In("Idle"), In("Backoff")}
      BY <1>i, <2>2, OverDoes DEF Over
    <3> QED BY <1>l, <3>1, InIs DEF NothingYet
  <2>3. CASE Publish
    <3>1. eg'.phase = "Live" /\ eg'.batch = <<>> /\ eg'.put = 0 BY <1>i, <2>3, EgressDoes
    <3> QED BY <1>l, <3>1 DEF NothingYet, OnConnection
  <2>4. CASE TakeBatch
    <3>1. eg'.phase = "Writing" /\ eg'.put = 0 BY <1>i, <2>4, BatchDoes
    <3>2. Len(eg'.batch) \in Nat BY <1>i DEF Types, Egresses
    <3> QED BY <3>1, <3>2 DEF NothingYet, OnConnection
  <2>5. CASE Accept
    <3>1. eg'.phase = "Writing" /\ eg'.put = eg.put + 1 /\ eg.put < Len(eg.batch) /\ eg'.batch = eg.batch
      BY <1>i, <2>5, BatchDoes
    <3> QED BY <1>n, <3>1 DEF NothingYet, OnConnection
  <2>6. CASE BatchDone
    <3>1. eg'.phase = "Live" /\ eg'.batch = <<>> /\ eg'.put = 0 BY <1>i, <2>6, BatchDoes
    <3> QED BY <1>l, <3>1 DEF NothingYet, OnConnection
  <2>7. CASE StopLive
    <3>1. eg.phase = "Live" /\ eg' = [eg EXCEPT !.phase = "Closing"] BY <1>i, <2>7, EgressDoes
    <3>2. eg'.phase = "Closing" /\ eg'.batch = eg.batch /\ eg'.put = eg.put BY <1>i, <3>1 DEF Types, Egresses
    <3> QED BY <1>n, <3>1, <3>2 DEF NothingYet, OnConnection
  <2>8. CASE CutUnconnected \/ CutLive \/ DropQueued BY <1>i, <1>s, <2>8, EgressDoes
  <2>9. CASE Leave
    <3>1. eg' = eg /\ os.wire # <<>> BY <1>i, <2>9, BatchDoes
    <3>2. OnConnection BY <1>n, <3>1
    <3> QED BY <1>n, <3>1, <3>2 DEF NothingYet, OnConnection
  <2>10. CASE Acknowledge \/ Linger
    <3>1. eg' = eg /\ os'.wire = os.wire BY <1>i, <2>10, BatchDoes
    <3>2. os.flight = <<>> => os'.flight = <<>> BY <1>i, <2>10 DEF Acknowledge, Linger, Types
    <3> QED BY <1>n, <3>1, <3>2 DEF NothingYet, OnConnection
  <2> QED BY <1>6, <2>1, <2>2, <2>3, <2>4, <2>5, <2>6, <2>7, <2>8, <2>9, <2>10 DEF Egress, Ending
<1>7. CASE UNCHANGED vars BY <1>s, <1>7 DEF vars
<1> QED BY <1>1, <1>2, <1>3, <1>4, <1>5, <1>6, <1>7 DEF Next, Core

(* What the core's steps leave alone: what it is asking for, what it told  *)
(* the egress to end, and the connection.                                  *)
LEMMA CoreDoes ==
  ASSUME Types, Types', Core
  PROVE  /\ ToldToEnd => ToldToEnd'
         /\ EndNow \/ EndAtMark \/ StopEgress => ToldToEnd'
         /\ RaiseCut \/ AskCut => core'.dump # "No"
         /\ ~RaiseCut /\ ~AskCut => core'.cut = core.cut /\ (Asking' <=> Asking)
         /\ os' = os /\ hist'.tail = hist.tail
         /\ hist'.acked = hist.acked /\ hist'.left = hist.left /\ hist'.wrote = hist.wrote
         /\ eg'.phase = eg.phase /\ eg'.batch = eg.batch /\ eg'.put = eg.put /\ eg'.last = eg.last
         /\ eg'.log = eg.log /\ eg'.total = eg.total /\ eg'.gen = eg.gen
         /\ \A i \in DOMAIN ctl : i \in DOMAIN ctl' /\ ctl'[i] = ctl[i]
         /\ (HandleEvent /\ HandleConnected(events[1])) \/ eg' = eg
<1>t. Len(ctl) \in Nat /\ DOMAIN ctl = 1 .. Len(ctl) /\ core.cut \in Nat BY CtlIs
<1> DEFINE Same == /\ os' = os /\ hist'.tail = hist.tail
                   /\ hist'.acked = hist.acked /\ hist'.left = hist.left /\ hist'.wrote = hist.wrote
                   /\ eg'.phase = eg.phase /\ eg'.batch = eg.batch /\ eg'.put = eg.put /\ eg'.last = eg.last
                   /\ eg'.log = eg.log /\ eg'.total = eg.total /\ eg'.gen = eg.gen
           Kept_ == \A i \in DOMAIN ctl : i \in DOMAIN ctl' /\ ctl'[i] = ctl[i]
<1>a. ASSUME NEW c \in Control, ctl' = Append(ctl, c)
      PROVE  /\ Kept_ /\ (ToldToEnd => ToldToEnd') /\ (Ends(c) => ToldToEnd')
             /\ ~IsCut(c) /\ core'.cut = core.cut => (Asking' <=> Asking)
  <2>1. /\ DOMAIN ctl' = 1 .. Len(ctl) + 1 /\ ctl'[Len(ctl) + 1] = c
        /\ \A i \in 1 .. Len(ctl) : ctl'[i] = ctl[i] /\ i \in DOMAIN ctl
    BY <1>a, CtlMore
  <2>2. Kept_ BY <1>t, <2>1
  <2>3. ToldToEnd => ToldToEnd' BY <2>2 DEF ToldToEnd
  <2>4. Len(ctl) + 1 \in DOMAIN ctl' BY <1>t, <2>1
  <2>5. Ends(c) => ToldToEnd' BY <2>1, <2>4 DEF ToldToEnd
  <2>6. ASSUME ~IsCut(c), core'.cut = core.cut PROVE Asking' <=> Asking
    <3>1. Asking => Asking' BY <2>2, <2>6 DEF Asking
    <3>2. \A i \in DOMAIN ctl' : IsCut(ctl'[i]) => i \in DOMAIN ctl /\ ctl'[i] = ctl[i] BY <1>t, <2>1, <2>6
    <3>3. Asking' => Asking BY <2>6, <3>2 DEF Asking
    <3> QED BY <3>1, <3>3
  <2> QED BY <2>2, <2>3, <2>5, <2>6
<1>b. ASSUME ctl' = ctl
      PROVE  /\ Kept_ /\ (ToldToEnd => ToldToEnd') /\ (core'.cut = core.cut => (Asking' <=> Asking))
  BY <1>b DEF ToldToEnd, Asking
<1>e. eg' = eg /\ os' = os /\ hist' = hist => Same OBVIOUS
<1>m. /\ ~IsCut(Start) /\ ~IsCut(Stop) /\ Start \in Control /\ Stop \in Control /\ Ends(Stop)
      /\ Cut(core.cut) \in Control
  BY <1>t, Messages DEF IsCut, Start, Stop, Ends
<1>x. RaiseCut \/ AskCut => core'.dump # "No" BY PlainDoes
<1>y. ~HandleEvent => ctl' = ctl \/ \E c \in Control : ctl' = Append(ctl, c)
  BY <1>m, EmitDoes, EndDoes, PlainDoes, CheckDoes, UnlinkedDoes DEF Core
<1>c. EndNow \/ EndAtMark \/ StopEgress => ToldToEnd'
  <2>1. EndNow \/ EndAtMark \/ StopEgress => \E c \in Control : Ends(c) /\ ctl' = Append(ctl, c)
    BY <1>m, EndDoes, PlainDoes
  <2> QED BY <1>a, <2>1
<1>1. CASE ~HandleEvent
  <2>1. Kept_ /\ (ToldToEnd => ToldToEnd') BY <1>1, <1>a, <1>b, <1>y
  <2>2. ~RaiseCut /\ ~AskCut => core'.cut = core.cut /\ (Asking' <=> Asking)
    <3>1. CASE Emit \/ EndAfterAir \/ CheckDump \/ DumpUnlinked
      BY <1>b, <3>1, EmitDoes, PlainDoes, CheckDoes, UnlinkedDoes, FinishDoes
    <3>2. CASE StartEgress \/ StopEgress BY <1>a, <1>m, <3>2, PlainDoes
    <3>3. CASE EndNow \/ EndAtMark
      <4>1. PICK c \in Control : Ends(c) /\ ctl' = Append(ctl, c) BY <3>3, EndDoes
      <4>2. ~IsCut(c) BY <4>1 DEF Ends, IsCut
      <4> QED BY <1>a, <3>3, <4>1, <4>2, EndDoes
    <3> QED BY <1>1, <3>1, <3>2, <3>3 DEF Core
  <2>3. Same /\ eg' = eg
    <3>1. hist' = hist \/ hist' = [hist EXCEPT !.back = core'.base - 1]
      BY <1>1, EmitDoes, EndDoes, PlainDoes, CheckDoes, UnlinkedDoes DEF Core
    <3>2. eg' = eg /\ os' = os BY <1>1, EmitDoes, EndDoes, PlainDoes, CheckDoes, UnlinkedDoes DEF Core
    <3> QED BY <3>1, <3>2, BackDoes
  <2> QED BY <1>c, <1>x, <2>1, <2>2, <2>3
<1>2. CASE HandleEvent
  <2>0. ctl' = ctl /\ os' = os BY <1>2, HandleDoes
  <2>1. CASE HandleCutDone(events[1])
    <3>1. Same /\ eg' = eg /\ core'.cut = core.cut BY <2>0, <2>1, CutDoneDoes, FinishDoes, BackDoes
    <3> QED BY <1>b, <1>2, <2>0, <3>1, <1>x, <1>c
  <2>2. CASE HandleConnected(events[1])
    <3>1. hist' = hist /\ core'.cut = core.cut /\ eg' = [eg EXCEPT !.reply = core.gen + 1]
      BY <2>2, ConnectedDoes
    <3>2. Same BY <2>0, <3>1 DEF Types, Egresses
    <3> QED BY <1>b, <1>2, <2>0, <2>2, <3>1, <3>2, <1>x, <1>c
  <2>3. CASE HandleDisconnected(events[1])
    <3>1. Same /\ eg' = eg /\ core'.cut = core.cut BY <2>0, <2>3, DisconnectedDoes
    <3> QED BY <1>b, <1>2, <2>0, <3>1, <1>x, <1>c
  <2> QED BY <1>2, <2>1, <2>2, <2>3, HandleDoes
<1> QED BY <1>1, <1>2

(* A connection is not begun anew, and what was told is not untold.        *)
LEMMA Turns ==
  ASSUME Types, Types', Egress \/ Leave \/ Acknowledge \/ Linger
  PROVE  /\ Asking' => Asking
         /\ ToldToEnd' => ToldToEnd
         /\ ~ToldToEnd' /\ ToldToEnd => StopUnconnected \/ StopLive \/ Ending
         /\ Numbered' => Numbered
         /\ Going' => Going
         /\ Numbered /\ ~Numbered' => CutReset \/ Fail \/ Ending
<1>c. core' = core BY EgressCore
<1>m. ctl' = ctl \/ (ctl # <<>> /\ ctl' = Tail(ctl)) BY CtlMoves
<1>t. ctl # <<>> /\ ctl' = Tail(ctl) =>
        /\ 1 \in DOMAIN ctl /\ Head(ctl) = ctl[1] /\ DOMAIN ctl' = 1 .. Len(ctl) - 1
        /\ \A i \in 1 .. Len(ctl) - 1 : ctl'[i] = ctl[i + 1] /\ i + 1 \in DOMAIN ctl
  BY CtlTail
<1>1. Asking' => Asking BY <1>c, <1>m, <1>t DEF Asking
<1>2. ToldToEnd' => ToldToEnd BY <1>m, <1>t DEF ToldToEnd
<1>3. ASSUME ToldToEnd, ~ToldToEnd' PROVE StopUnconnected \/ StopLive \/ Ending
  <2>1. ctl # <<>> /\ ctl' = Tail(ctl) BY <1>3, <1>m DEF ToldToEnd
  <2>2. PICK i \in DOMAIN ctl : Ends(ctl[i]) BY <1>3 DEF ToldToEnd
  <2>3. Len(ctl) \in Nat /\ DOMAIN ctl = 1 .. Len(ctl) BY CtlIs
  <2>4. i = 1
    <3>1. SUFFICES ASSUME i # 1 PROVE FALSE OBVIOUS
    <3>2. i - 1 \in DOMAIN ctl' /\ ctl'[i - 1] = ctl[i] BY <1>t, <2>1, <2>2, <2>3, <3>1
    <3> QED BY <1>3, <2>2, <3>2 DEF ToldToEnd
  <2>5. Ends(Head(ctl)) /\ ctl' # ctl
    <3>1. ctl \in Seq(Control) /\ Len(Tail(ctl)) = Len(ctl) - 1 BY <2>1, TailIs DEF Types
    <3>4. ASSUME NEW n \in Nat, NEW m, m = n - 1 PROVE m # n
      <4>1. n - 1 # n BY ONLY n \in Nat, SMTT(30)
      <4> QED BY ONLY <3>4, <4>1
    <3>3. Len(Tail(ctl)) # Len(ctl) BY ONLY <2>3, <3>1, <3>4
    <3>2. ctl' # ctl BY ONLY <2>1, <3>3
    <3> QED BY <1>t, <2>1, <2>2, <2>4, <3>2
  <2>6. ~Told("Start") /\ ~Told("Cut") BY <2>5 DEF Told, Ends
  <2>7. ~TakeStart /\ ~CutUnconnected /\ ~CutLive BY <2>6, EgressDoes
  <2>8. ~CutReset BY <2>6, OverDoes
  <2>9. ~DropQueued /\ ~ConnectOk /\ ~ConnectFails /\ ~BackoffOver /\ ~Publish BY <2>5, EgressDoes
  <2>10. ~Fail /\ ~TakeBatch /\ ~Accept /\ ~BatchDone /\ ~Leave /\ ~Acknowledge /\ ~Linger
    BY <2>5, OverDoes, BatchDoes
  <2> QED BY <2>7, <2>8, <2>9, <2>10 DEF Egress, Ending
<1>p. \A p : In(p).phase = p /\ In(p).reply = None BY InIs
<1>4. CASE TakeStart \/ StopUnconnected \/ ConnectOk \/ ConnectFails \/ BackoffOver
  <2>1. eg'.phase \notin {"Live", "Writing", "Closing"} /\ eg'.reply = None BY <1>4, <1>p, EgressDoes
  <2>2. eg.phase \in {"Idle", "Connecting", "Backoff"} BY <1>4, EgressDoes
  <2> QED BY <1>1, <1>2, <1>3, <2>1, <2>2 DEF Numbered, OnConnection, Going
<1>5. CASE CutReset \/ Fail \/ Ending
  <2>1. eg'.phase \notin {"Live", "Writing", "Closing"} /\ eg'.reply = None BY <1>5, OverIs
  <2> QED BY <1>1, <1>2, <1>3, <1>5, <2>1 DEF Numbered, OnConnection, Going
<1>6. CASE StopLive
  <2>1. eg.phase = "Live" /\ eg'.phase = "Closing" BY <1>6, EgressDoes DEF Types, Egresses
  <2> QED BY <1>1, <1>2, <1>3, <2>1 DEF Numbered, OnConnection, Going
<1>7. CASE Publish
  <2>1. eg.phase = "Waiting" /\ eg.reply # None /\ eg'.phase = "Live" /\ ctl' = ctl BY <1>7, EgressDoes
  <2> QED BY <1>1, <1>2, <1>3, <2>1 DEF Numbered, OnConnection, Going, ToldToEnd
<1>8. CASE TakeBatch \/ Accept \/ BatchDone
  <2>1. eg.phase \in {"Live", "Writing"} /\ eg'.phase \in {"Live", "Writing"} /\ ctl' = ctl BY <1>8, BatchDoes
  <2> QED BY <1>1, <1>2, <1>3, <2>1 DEF Numbered, OnConnection, Going, ToldToEnd
<1>9. CASE CutUnconnected \/ CutLive \/ DropQueued \/ Leave \/ Acknowledge \/ Linger
  <2>1. eg' = eg BY <1>9, BatchDoes, EgressDoes
  <2>2. ~ToldToEnd' => ~ToldToEnd
    <3>1. eg'.phase # "Closing" \/ eg.phase = "Closing" BY <2>1
    <3>2. (~StopUnconnected /\ ~StopLive /\ ~Ending) \/ ctl' = ctl \/ Told("Cut")
      BY <1>9, EgressDoes, BatchDoes
    <3>3. Told("Cut") => ~StopUnconnected /\ ~StopLive /\ ~Ending
      <4>1. Told("Cut") => ~Told("Stop") /\ ~Told("Abort") BY DEF Told
      <4>2. ~Ending
        <5>1. Ending => eg.phase # eg'.phase BY OverIs
        <5> QED BY <2>1, <5>1
      <4> QED BY <4>1, <4>2, EgressDoes
    <3> QED BY <1>3, <3>2, <3>3 DEF ToldToEnd
  <2> QED BY <1>1, <1>2, <1>3, <2>1, <2>2 DEF Numbered, OnConnection, Going
<1> QED BY <1>4, <1>5, <1>6, <1>7, <1>8, <1>9 DEF Egress, Ending

LEMMA AgreedNext == OutletInv /\ [Next]_vars => Agreed'
<1> SUFFICES ASSUME OutletInv, [Next]_vars PROVE Agreed' OBVIOUS
<1>i. Types /\ Agreed /\ InTouch /\ Types' BY TypesNext DEF OutletInv
<1>t. Len(ctl) \in Nat /\ DOMAIN ctl = 1 .. Len(ctl) BY <1>i, CtlIs
<1> DEFINE Started == \A i \in DOMAIN ctl :
             ctl[i].kind = "Start" /\ (\A j \in DOMAIN ctl : j > i => ~Ends(ctl[j])) => core.on
<1>n. Started /\ (eg.phase \notin {"Idle", "Closing"} /\ ~ToldToEnd => core.on) /\ (Going => core.up)
  BY <1>i DEF Agreed
<1>q. SUFFICES Started' /\ (eg'.phase \notin {"Idle", "Closing"} /\ ~ToldToEnd' => core'.on) /\ (Going' => core'.up)
  BY DEF Agreed
<1>s. ASSUME ctl' = ctl, eg'.phase = eg.phase, core'.on = core.on, Going' => Going, core.up => core'.up
      PROVE  Started' /\ (eg'.phase \notin {"Idle", "Closing"} /\ ~ToldToEnd' => core'.on) /\ (Going' => core'.up)
  BY <1>n, <1>s DEF ToldToEnd
<1>a. ASSUME NEW c \in Control, Ends(c), ctl' = Append(ctl, c)
      PROVE  Started' /\ (eg'.phase \notin {"Idle", "Closing"} /\ ~ToldToEnd' => core'.on) /\ (Going' => core'.up)
  <2>1. DOMAIN ctl' = 1 .. Len(ctl) + 1 /\ ctl'[Len(ctl) + 1] = c BY <1>a, <1>i, CtlMore
  <2>2. Len(ctl) + 1 \in DOMAIN ctl' BY <1>t, <2>1
  <2>3. ToldToEnd' BY <1>a, <2>1, <2>2 DEF ToldToEnd
  <2>4. Started'
    <3>1. SUFFICES ASSUME NEW i \in DOMAIN ctl', ctl'[i].kind = "Start",
                          \A j \in DOMAIN ctl' : j > i => ~Ends(ctl'[j])
                   PROVE FALSE
      OBVIOUS
    <3>2. i # Len(ctl) + 1 BY <1>a, <2>1, <3>1 DEF Ends
    <3>3. Len(ctl) + 1 > i BY <1>t, <2>1, <3>2
    <3> QED BY <1>a, <2>1, <2>2, <3>1, <3>3
  <2> QED BY <2>3, <2>4 DEF Going
<1>g. ASSUME eg' = eg, ToldToEnd => ToldToEnd' PROVE Going' => Going BY <1>g DEF Going, Numbered, OnConnection
<1>1. CASE Core
  <2>0. (ToldToEnd => ToldToEnd') /\ eg'.phase = eg.phase BY <1>1, <1>i, CoreDoes
  <2>1. CASE EndNow \/ EndAtMark BY <1>a, <1>i, <2>1, EndDoes
  <2>2. CASE StopEgress
    <3>1. ctl' = Append(ctl, Stop) /\ Stop \in Control /\ Ends(Stop)
      BY <1>i, <2>2, PlainDoes, Messages DEF Stop, Ends
    <3> QED BY <1>a, <3>1
  <2>3. CASE StartEgress
    <3>1. core'.on /\ core'.up = core.up /\ eg' = eg BY <1>i, <2>3, PlainDoes
    <3> QED BY <1>n, <1>g, <2>0, <3>1
  <2>4. CASE AskCut
    <3>1. /\ ctl' = Append(ctl, Cut(core.cut)) /\ Cut(core.cut) \in Control /\ core'.on = core.on
          /\ core'.up = core.up /\ eg' = eg
      BY <1>i, <2>4, PlainDoes, Messages DEF Types, Cores
    <3>2. /\ DOMAIN ctl' = 1 .. Len(ctl) + 1 /\ ctl'[Len(ctl) + 1] = Cut(core.cut)
          /\ \A i \in 1 .. Len(ctl) : ctl'[i] = ctl[i] /\ i \in DOMAIN ctl
      BY <1>i, <3>1, CtlMore
    <3>3. Started'
      <4>1. SUFFICES ASSUME NEW i \in DOMAIN ctl', ctl'[i].kind = "Start",
                            \A j \in DOMAIN ctl' : j > i => ~Ends(ctl'[j])
                     PROVE core'.on
        OBVIOUS
      <4>2. i # Len(ctl) + 1 BY <3>2, <4>1 DEF Cut
      <4>3. i \in DOMAIN ctl /\ ctl[i].kind = "Start" BY <1>t, <3>2, <4>1, <4>2
      <4>4. \A j \in DOMAIN ctl : j > i => ~Ends(ctl[j]) BY <1>t, <3>2, <4>1
      <4> QED BY <1>n, <3>1, <4>3, <4>4
    <3> QED BY <1>n, <1>g, <2>0, <3>1, <3>3
  <2>5. CASE Emit \/ EndAfterAir \/ RaiseCut \/ CheckDump \/ DumpUnlinked
    <3>1. ctl' = ctl /\ core'.on = core.on /\ core'.up = core.up /\ eg' = eg
      BY <1>i, <2>5, EmitDoes, PlainDoes, CheckDoes, UnlinkedDoes, FinishDoes
    <3> QED BY <1>s, <1>g, <2>0, <3>1
  <2>6. CASE HandleEvent
    <3>0. ctl' = ctl BY <1>i, <2>6, HandleDoes
    <3>1. CASE HandleCutDone(events[1])
      <4>1. core'.on = core.on /\ core'.up = core.up /\ eg' = eg BY <1>i, <3>1, CutDoneDoes, FinishDoes
      <4> QED BY <1>s, <1>g, <2>0, <3>0, <4>1
    <3>2. CASE HandleConnected(events[1])
      <4>1. core'.on = core.on /\ core'.up = TRUE BY <1>i, <3>2, ConnectedDoes
      <4> QED BY <1>n, <2>0, <3>0, <4>1 DEF ToldToEnd
    <3>3. CASE HandleDisconnected(events[1])
      <4>1. core'.on = core.on /\ eg' = eg /\ ~IsAnswer(events[1])
        BY <1>i, <3>3, DisconnectedDoes DEF IsAnswer
      <4>2. ~Numbered BY <1>i, <2>6, <4>1, EventsTail DEF InTouch
      <4>3. ~Going' BY <4>1, <4>2 DEF Going, Numbered, OnConnection
      <4> QED BY <1>n, <2>0, <3>0, <4>1, <4>3 DEF ToldToEnd
    <3> QED BY <1>i, <2>6, <3>1, <3>2, <3>3, HandleDoes
  <2> QED BY <1>1, <2>1, <2>2, <2>3, <2>4, <2>5, <2>6 DEF Core
<1>2. CASE Egress \/ Leave \/ Acknowledge \/ Linger
  <2>1. core' = core BY <1>2, EgressCore
  <2>2. /\ Going' => Going
        /\ ~ToldToEnd' /\ ToldToEnd => StopUnconnected \/ StopLive \/ Ending
    BY <1>2, <1>i, Turns
  <2>3. Started'
    <3>1. CASE ctl' = ctl BY <1>n, <2>1, <3>1
    <3>2. CASE ctl # <<>> /\ ctl' = Tail(ctl)
      <4>1. /\ 1 \in DOMAIN ctl /\ DOMAIN ctl' = 1 .. Len(ctl) - 1
            /\ \A i \in 1 .. Len(ctl) - 1 : ctl'[i] = ctl[i + 1] /\ i + 1 \in DOMAIN ctl
        BY <1>i, <3>2, CtlTail
      <4>2. SUFFICES ASSUME NEW i \in DOMAIN ctl', ctl'[i].kind = "Start",
                            \A j \in DOMAIN ctl' : j > i => ~Ends(ctl'[j])
                     PROVE core.on
        BY <2>1
      <4>3. i + 1 \in DOMAIN ctl /\ ctl[i + 1].kind = "Start" BY <4>1, <4>2
      <4>4. ASSUME NEW j \in DOMAIN ctl, j > i + 1 PROVE ~Ends(ctl[j])
        <5>1. j - 1 \in DOMAIN ctl' /\ j - 1 > i /\ ctl'[j - 1] = ctl[j] BY <1>t, <4>1, <4>4
        <5> QED BY <4>2, <5>1
      <4> QED BY <1>n, <4>3, <4>4
    <3> QED BY <1>2, <1>i, <3>1, <3>2, CtlMoves
  <2>4. ASSUME eg'.phase \notin {"Idle", "Closing"}, ~ToldToEnd' PROVE core.on
    <3>p. \A p : In(p).phase = p BY InIs
    <3>1. CASE TakeStart
      <4>1. Told("Start") BY <1>i, <3>1, EgressDoes
      <4>2. ctl # <<>> /\ ctl' = Tail(ctl) /\ Head(ctl).kind = "Start" BY <4>1 DEF Told
      <4>3. /\ 1 \in DOMAIN ctl /\ Head(ctl) = ctl[1] /\ DOMAIN ctl' = 1 .. Len(ctl) - 1
            /\ \A i \in 1 .. Len(ctl) - 1 : ctl'[i] = ctl[i + 1] /\ i + 1 \in DOMAIN ctl
        BY <1>i, <4>2, CtlTail
      <4>4. ASSUME NEW j \in DOMAIN ctl, j > 1 PROVE ~Ends(ctl[j])
        <5>1. j - 1 \in DOMAIN ctl' /\ ctl'[j - 1] = ctl[j] BY <1>t, <4>3, <4>4
        <5> QED BY <2>4, <5>1 DEF ToldToEnd
      <4> QED BY <1>n, <4>2, <4>3, <4>4
    <3>2. CASE ~TakeStart
      <4>1. ~StopUnconnected /\ ~StopLive /\ ~Ending
        <5>1. StopUnconnected => eg'.phase = "Idle" BY <1>i, <3>p, EgressDoes
        <5>2. StopLive => eg'.phase = "Closing" BY <1>i, EgressDoes DEF Types, Egresses
        <5>3. Ending => eg'.phase = "Idle" BY <1>i, <3>p, OverDoes DEF Over
        <5> QED BY <2>4, <5>1, <5>2, <5>3
      <4>2. ~ToldToEnd BY <2>2, <2>4, <4>1
      <4>3. eg.phase \notin {"Idle", "Closing"}
        <5>1. CASE CutReset \/ Fail
          BY <1>i, <5>1, OverIs
        <5>2. CASE DropQueued \/ CutUnconnected
          <6>1. eg' = eg BY <1>i, <5>2, EgressDoes
          <6> QED BY <2>4, <6>1
        <5>3. CASE ConnectOk \/ ConnectFails \/ BackoffOver \/ Publish \/ CutLive
          BY <1>i, <5>3, EgressDoes
        <5>4. CASE TakeBatch \/ Accept \/ BatchDone BY <1>i, <5>4, BatchDoes
        <5>5. CASE Leave \/ Acknowledge \/ Linger
          <6>1. eg' = eg BY <1>i, <5>5, BatchDoes
          <6> QED BY <2>4, <6>1
        <5> QED BY <1>2, <3>2, <4>1, <5>1, <5>2, <5>3, <5>4, <5>5 DEF Egress, Ending
      <4> QED BY <1>n, <4>2, <4>3
    <3> QED BY <3>1, <3>2
  <2> QED BY <1>n, <2>1, <2>2, <2>3, <2>4
<1>3. CASE UNCHANGED vars
  <2>1. Going' => Going BY <1>3 DEF vars, Going, Numbered, OnConnection, ToldToEnd
  <2> QED BY <1>s, <1>3, <2>1 DEF vars
<1> QED BY <1>1, <1>2, <1>3 DEF Next

-----------------------------------------------------------------------------
(* What is sent *)
LEMMA TakeDoes ==
  ASSUME OutletInv, TakeBatch
  PROVE  \E n \in 1 .. Len(media), k \in 1 .. Len(media) + 1 :
           /\ FromHere(k) /\ Dropped(n)
           /\ k > n => eg'.batch = <<>>
           /\ k <= n => /\ core.dump = "No" /\ Going /\ ~Asking
                        /\ Len(eg'.batch) = n + 1 - k /\ DOMAIN eg'.batch = 1 .. n + 1 - k
                        /\ \A i \in 1 .. n + 1 - k : eg'.batch[i] = media[k + i - 1][3]
                        /\ \A i \in k .. Len(media) : Here(media[i])
<1>i. Types /\ InTouch /\ LastHere /\ Queued BY DEF OutletInv
<1>t. media \in Seq(Quad) /\ Len(media) \in Nat /\ DOMAIN media = 1 .. Len(media) BY <1>i, MediaIs
<1>1. PICK n \in 1 .. Len(media) : /\ eg'.batch = Wants(SubSeq(media, 1, n))
                                   /\ media' = SubSeq(media, n + 1, Len(media))
  BY <1>i, BatchDoes
<1>2. PICK k \in 1 .. Len(media) + 1 : FromHere(k) BY <1>i DEF LastHere
<1>3. eg.phase = "Live" /\ ctl = <<>> BY <1>i, BatchDoes
<1>4. OnConnection BY <1>3 DEF OnConnection
<1> DEFINE w == eg'.batch
           f == FirstOf(k, n)
<1>5. /\ w \in Seq(Nat) /\ Len(w) = n + 1 - f
      /\ \A i \in 1 .. n + 1 - f : w[i] = media[f + i - 1][3]
  BY <1>i, <1>1, <1>2, <1>4, Taken
<1>m. media \in Seq(Quad) /\ Len(media) \in Nat BY <1>t
<1>6. Dropped(n) BY ONLY <1>m, <1>1, n \in 1 .. Len(media) DEF Dropped
<1>7. ASSUME k > n PROVE w = <<>>
  <2>1. f = n + 1 BY <1>7 DEF FirstOf
  <2> HIDE DEF w, f
  <2>2. Len(w) = 0 BY <1>5, <2>1
  <2> QED BY <1>5, <2>2
<1>8. ASSUME k <= n
      PROVE  /\ core.dump = "No" /\ Going /\ ~Asking
             /\ Len(w) = n + 1 - k /\ DOMAIN w = 1 .. n + 1 - k
             /\ \A i \in 1 .. n + 1 - k : w[i] = media[k + i - 1][3]
             /\ \A i \in k .. Len(media) : Here(media[i])
  <2>1. f = k BY <1>8 DEF FirstOf
  <2> HIDE DEF w, f
  <2>2. Going /\ ~Asking BY <1>3, <1>4 DEF Going, Numbered, ToldToEnd, Asking
  <2>3. \A i \in k .. Len(media) : Here(media[i]) BY <1>t, <1>2 DEF FromHere
  <2>4. core.dump = "No"
    <3>1. k \in DOMAIN media /\ Here(media[k]) BY <1>t, <1>8, <2>3
    <3>2. media[k][2] = core.cut BY <3>1 DEF Here
    <3>3. core.cut \in Nat BY <1>i, CtlIs
    <3> QED BY <1>i, <3>1, <3>2, <3>3 DEF Queued
  <2>5. DOMAIN w = 1 .. n + 1 - k BY <1>5, <2>1
  <2> QED BY <1>5, <2>1, <2>2, <2>3, <2>4, <2>5
<1> QED BY <1>2, <1>6, <1>7, <1>8

(* Where what is wanted begins is one place, so is what comes next.        *)
LEMMA ComesIs ==
  ASSUME Types, NEW k \in 1 .. Len(media) + 1, FromHere(k), NEW n \in Nat, Comes(n)
  PROVE  core.cursor = n + (Len(media) + 1 - k)
<1>1. PICK j \in 1 .. Len(media) + 1 : FromHere(j) /\ core.cursor = n + (Len(media) + 1 - j) BY DEF Comes
<1>2. Len(media) \in Nat /\ DOMAIN media = 1 .. Len(media) BY MediaIs
<1>3. j = k
  <2>1. ~ (j < k)
    <3>1. SUFFICES ASSUME j < k PROVE FALSE OBVIOUS
    <3>2. j \in DOMAIN media BY <1>2, <3>1
    <3> QED BY <1>1, <3>1, <3>2 DEF FromHere
  <2>2. ~ (k < j)
    <3>1. SUFFICES ASSUME k < j PROVE FALSE OBVIOUS
    <3>2. k \in DOMAIN media BY <1>2, <3>1
    <3> QED BY <1>1, <3>1, <3>2 DEF FromHere
  <2> QED BY <2>1, <2>2
<1> QED BY <1>1, <1>3

LEMMA WireIs ==
  ASSUME Types
  PROVE  /\ Len(os.wire) \in Nat /\ DOMAIN os.wire = 1 .. Len(os.wire)
         /\ \A i \in DOMAIN os.wire : os.wire[i] \in Nat
         /\ Len(eg.batch) \in Nat /\ DOMAIN eg.batch = 1 .. Len(eg.batch)
         /\ \A i \in DOMAIN eg.batch : eg.batch[i] \in Nat
         /\ eg.put \in Nat /\ hist.tail \in Nat /\ hist.back \in Nat /\ core.edge \in Nat
         /\ core.base \in Nat /\ core.base > 0 /\ core.cursor \in Nat /\ core.cursor > 0
<1>1. os.wire \in Seq(Nat) /\ eg.batch \in Seq(Nat) BY DEF Types, Egresses
<1>2. ASSUME NEW s \in Seq(Nat)
      PROVE  Len(s) \in Nat /\ DOMAIN s = 1 .. Len(s) /\ \A i \in DOMAIN s : s[i] \in Nat
  OBVIOUS
<1>3. eg.put \in Nat BY DEF Types, Egresses
<1>4. hist.tail \in Nat /\ hist.back \in Nat BY DEF Types
<1>5. /\ core.edge \in Nat
      /\ core.base \in Nat /\ core.base > 0 /\ core.cursor \in Nat /\ core.cursor > 0
  BY SMTT(30) DEF Types, Cores
<1> QED BY <1>1, <1>2, <1>3, <1>4, <1>5

LEMMA EmptyIs ==
  ASSUME Types
  PROVE  /\ (os.wire = <<>>) = (Len(os.wire) = 0)
         /\ (eg.batch = <<>>) = (Len(eg.batch) = 0)
<1>1. os.wire \in Seq(Nat) /\ eg.batch \in Seq(Nat) BY DEF Types, Egresses
<1>2. ASSUME NEW s \in Seq(Nat) PROVE (s = <<>>) = (Len(s) = 0) OBVIOUS
<1> QED BY <1>1, <1>2

LEMMA FirstIs ==
  ASSUME Types
  PROVE  /\ eg.batch # <<>> => eg.batch[1] \in Nat /\ 1 \in DOMAIN eg.batch /\ eg.batch[1] + Len(eg.batch) \in Nat
         /\ os.wire # <<>> => os.wire[1] \in Nat /\ 1 \in DOMAIN os.wire /\ os.wire[1] + Len(os.wire) \in Nat
         /\ After(hist.tail) = 1 + Greater(hist.tail, hist.back) /\ After(hist.tail) \in Nat
<1>1. os.wire \in Seq(Nat) /\ eg.batch \in Seq(Nat) BY DEF Types, Egresses
<1>2. ASSUME NEW s \in Seq(Nat), s # <<>>
      PROVE  s[1] \in Nat /\ 1 \in DOMAIN s /\ s[1] + Len(s) \in Nat
  <2>1. Len(s) \in Nat \ {0} /\ DOMAIN s = 1 .. Len(s) BY <1>2
  <2>2. 1 \in DOMAIN s BY ONLY <2>1
  <2>3. s[1] \in Nat BY <2>2
  <2> QED BY ONLY <2>1, <2>2, <2>3
<1>3. hist.tail \in Nat /\ hist.back \in Nat BY DEF Types
<1>4. Greater(hist.tail, hist.back) \in Nat BY <1>3 DEF Greater
<1>5. 1 + Greater(hist.tail, hist.back) \in Nat BY ONLY <1>4
<1> QED BY <1>1, <1>2, <1>5 DEF After

(* Rows grow at the end and shrink at the front.                           *)
LEMMA RowGrows ==
  ASSUME NEW s \in Seq(Nat), InRow(s), NEW n \in Nat, s # <<>> => s[1] + Len(s) = n
  PROVE  /\ InRow(Append(s, n)) /\ Append(s, n) # <<>>
         /\ Append(s, n)[1] + Len(Append(s, n)) = n + 1
         /\ Append(s, n)[1] = IF s = <<>> THEN n ELSE s[1]
<1> DEFINE r == Append(s, n)
<1>1. /\ r \in Seq(Nat) /\ Len(r) = Len(s) + 1 /\ Len(s) \in Nat
      /\ \A i \in 1 .. Len(s) : r[i] = s[i]
      /\ r[Len(s) + 1] = n
  BY AppendIs
<1>2. DOMAIN r = 1 .. Len(s) + 1 /\ DOMAIN s = 1 .. Len(s) /\ r # <<>> BY <1>1
<1>3. \A i \in 1 .. Len(s) : s[i] = s[1] + i - 1 BY <1>2 DEF InRow
<1> HIDE DEF r
<1>4. CASE s = <<>>
  <2>1. Len(s) = 0 BY <1>4
  <2> QED BY <1>1, <1>2, <1>4, <2>1 DEF InRow, r
<1>5. CASE s # <<>>
  <2>1. Len(s) >= 1 /\ s[1] \in Nat BY <1>5
  <2>2. r[1] = s[1] BY <1>1, <2>1
  <2>3. n = s[1] + Len(s) BY <1>5
  <2>4. ASSUME NEW i \in 1 .. Len(s) + 1 PROVE r[i] = s[1] + i - 1
    <3>1. CASE i \in 1 .. Len(s) BY <1>1, <1>3, <3>1
    <3>2. CASE i = Len(s) + 1 BY <1>1, <2>1, <2>3, <3>2
    <3> QED BY <1>1, <2>4, <3>1, <3>2
  <2>5. InRow(r) BY <1>2, <2>2, <2>4 DEF InRow
  <2>7. Len(r) = Len(s) + 1 /\ Len(s) \in Nat BY <1>1
  <2>8. \A a, b \in Nat : n = a + b => a + (b + 1) = n + 1 OBVIOUS
  <2>9. s[1] + (Len(s) + 1) = n + 1 BY <2>1, <2>3, <2>7, <2>8
  <2>6. r[1] + Len(r) = n + 1 BY <2>2, <2>7, <2>9
  <2> QED BY <1>2, <1>5, <2>2, <2>5, <2>6 DEF r
<1> QED BY <1>4, <1>5

LEMMA RowShrinks ==
  ASSUME NEW s \in Seq(Nat), InRow(s), s # <<>>
  PROVE  /\ InRow(Tail(s)) /\ s[1] \in Nat /\ Head(s) = s[1]
         /\ Tail(s) = <<>> => s[1] + Len(s) = s[1] + 1
         /\ Tail(s) # <<>> => /\ Tail(s)[1] = s[1] + 1
                              /\ Tail(s)[1] + Len(Tail(s)) = s[1] + Len(s)
         /\ \A i \in DOMAIN Tail(s) : Tail(s)[i] = s[i + 1] /\ i + 1 \in DOMAIN s
<1> DEFINE r == Tail(s)
<1>1. /\ r \in Seq(Nat) /\ Len(r) = Len(s) - 1 /\ Len(s) \in Nat /\ Len(s) >= 1
      /\ \A i \in 1 .. Len(s) - 1 : r[i] = s[i + 1]
      /\ s[1] \in Nat /\ Head(s) = s[1]
  BY TailIs
<1>8. DOMAIN r = 1 .. Len(r) /\ (r = <<>>) = (Len(r) = 0)
  <2>1. r \in Seq(Nat) BY <1>1
  <2>2. ASSUME NEW q \in Seq(Nat) PROVE DOMAIN q = 1 .. Len(q) /\ (q = <<>>) = (Len(q) = 0) OBVIOUS
  <2> HIDE DEF r
  <2> QED BY ONLY <2>1, <2>2
<1>2. DOMAIN r = 1 .. Len(s) - 1 /\ DOMAIN s = 1 .. Len(s) /\ (r = <<>> => Len(s) = 1)
      /\ (r # <<>> => Len(s) >= 2)
  <2>1. DOMAIN s = 1 .. Len(s) OBVIOUS
  <2> HIDE DEF r
  <2> QED BY <1>1, <1>8, <2>1
<1>3. \A i \in 1 .. Len(s) : s[i] = s[1] + i - 1 BY <1>2 DEF InRow
<1> HIDE DEF r
<1>4. \A i \in 1 .. Len(s) - 1 : r[i] = s[1] + i /\ i + 1 \in DOMAIN s
  BY <1>1, <1>2, <1>3
<1>5. r # <<>> => r[1] = s[1] + 1 BY <1>1, <1>2, <1>4
<1>6. InRow(r)
  <2>1. ASSUME NEW i \in DOMAIN r PROVE r[i] = r[1] + i - 1
    <3>1. 1 \in 1 .. Len(s) - 1 BY <1>1, <1>2, <2>1
    <3>2. r[1] = s[1] + 1 /\ r[i] = s[1] + i BY <1>2, <1>4, <2>1, <3>1
    <3>3. i \in Nat BY <1>2, <2>1
    <3> QED BY <1>1, <3>2, <3>3
  <2> QED BY <2>1 DEF InRow
<1>7. r # <<>> => r[1] + Len(r) = s[1] + Len(s) BY <1>1, <1>5, SMTT(30)
<1> QED BY <1>1, <1>2, <1>4, <1>5, <1>6, <1>7 DEF r

LEMMA SendingNext == OutletInv /\ [Next]_vars => Sending'
<1> SUFFICES ASSUME OutletInv, [Next]_vars PROVE Sending' OBVIOUS
<1>i. Types /\ Ranges /\ NothingYet /\ Sending /\ Types' BY TypesNext DEF OutletInv
<1>t. /\ Len(os.wire) \in Nat /\ DOMAIN os.wire = 1 .. Len(os.wire)
      /\ \A i \in DOMAIN os.wire : os.wire[i] \in Nat
      /\ Len(eg.batch) \in Nat /\ DOMAIN eg.batch = 1 .. Len(eg.batch)
      /\ \A i \in DOMAIN eg.batch : eg.batch[i] \in Nat
      /\ eg.put \in Nat /\ hist.tail \in Nat /\ hist.back \in Nat /\ core.edge \in Nat
      /\ core.base \in Nat /\ core.base > 0 /\ core.cursor \in Nat /\ core.cursor > 0
  BY <1>i, WireIs
<1>z. (os.wire = <<>>) = (Len(os.wire) = 0) /\ (eg.batch = <<>>) = (Len(eg.batch) = 0)
  BY <1>i, EmptyIs
<1>w. os.wire \in Seq(Nat) BY <1>i DEF Types
<1>g. /\ InRow(os.wire) /\ Between(os.wire)
      /\ InRow(eg.batch) /\ Between(eg.batch)
      /\ os.wire # <<>> /\ hist.tail # 0 => os.wire[1] = After(hist.tail)
      /\ eg.batch # <<>> /\ os.wire # <<>> => os.wire[1] + Len(os.wire) = eg.batch[1] + eg.put
      /\ eg.batch # <<>> /\ os.wire = <<>> /\ hist.tail # 0 => After(hist.tail) = eg.batch[1] + eg.put
      /\ eg.batch # <<>> /\ os.wire = <<>> /\ hist.tail = 0 => eg.put = 0
  BY <1>i DEF Sending
<1>r. core'.edge >= core.edge /\ core'.edge \in Nat
  <2>1. core'.edge \in Nat BY <1>i DEF Types, Cores
  <2>2. CASE Emit
    <3>1. core'.edge = Greater(core.edge, core.cursor) BY <1>i, <2>2, EmitDoes
    <3> QED BY <1>t, <3>1 DEF Greater
  <2>3. CASE Core /\ ~Emit
    <3>1. core'.edge = core.edge
      <4>1. CASE HandleEvent
        BY <1>i, <4>1, HandleDoes, CutDoneDoes, FinishDoes, ConnectedDoes, DisconnectedDoes
      <4>2. CASE ~HandleEvent
        BY <1>i, <2>3, <4>2, EndDoes, PlainDoes, CheckDoes, UnlinkedDoes, FinishDoes DEF Core
      <4> QED BY <4>1, <4>2
    <3> QED BY <1>t, <3>1
  <2>4. CASE ~Core
    <3>1. core' = core BY <2>4, EgressCore DEF Next, vars
    <3> QED BY <1>t, <3>1
  <2> QED BY <2>1, <2>2, <2>3, <2>4
<1>o. ASSUME hist'.back = hist.back
      PROVE  /\ \A i \in DOMAIN os.wire : hist'.back < os.wire[i] /\ os.wire[i] <= core'.edge
             /\ \A i \in DOMAIN eg.batch : hist'.back < eg.batch[i] /\ eg.batch[i] <= core'.edge
  <2>1. \A i \in DOMAIN os.wire : os.wire[i] \in Nat /\ hist.back < os.wire[i] /\ os.wire[i] <= core.edge
    BY <1>g, <1>t DEF Between
  <2>2. \A i \in DOMAIN eg.batch : eg.batch[i] \in Nat /\ hist.back < eg.batch[i] /\ eg.batch[i] <= core.edge
    BY <1>g, <1>t DEF Between
  <2>3. core.edge \in Nat BY <1>t
  <2> QED BY ONLY <1>o, <1>r, <2>1, <2>2, <2>3
<1>s. ASSUME os'.wire = os.wire, eg'.batch = eg.batch, eg'.put = eg.put, hist'.tail = hist.tail, hist'.back = hist.back
      PROVE  Sending'
  <2>1. \A s : InRow(s) => InRow(s)' BY DEF InRow
  <2>2. Between(os.wire)' /\ Between(eg.batch)' BY <1>s, <1>o DEF Between
  <2>3. InRow(os.wire)' /\ InRow(eg.batch)' BY <1>g, <1>s DEF InRow
  <2> QED BY <1>g, <1>s, <2>2, <2>3 DEF Sending, After
<1>e. ASSUME os'.wire = <<>>, eg'.batch = <<>> PROVE Sending'
  BY <1>e DEF Sending, InRow, Between
<1>1. CASE Core
  <2>1. os' = os /\ eg'.batch = eg.batch /\ eg'.put = eg.put /\ hist'.tail = hist.tail BY <1>1, <1>i, CoreDoes
  <2>2. CASE hist'.back = hist.back BY <1>s, <2>1, <2>2
  <2>3. CASE hist'.back # hist.back
    <3>1. core.dump = "Asked" /\ ~Asking
      <4>1. CASE HandleEvent
        <5>1. HandleCutDone(events[1]) /\ Answers(events[1]) /\ events[1].kind = "CutDone"
          BY <1>i, <2>3, <4>1, HandleDoes, CutDoneDoes, ConnectedDoes, DisconnectedDoes
        <5>2. 1 \in DOMAIN events BY <1>i, <4>1, EventsTail
        <5>3. CutsAnswered BY DEF OutletInv
        <5> QED BY <5>1, <5>2, <5>3 DEF Answers, CutsAnswered, IsAnswer
      <4>2. CASE ~HandleEvent
        BY <1>1, <1>i, <2>3, <4>2, EmitDoes, EndDoes, PlainDoes, CheckDoes, UnlinkedDoes DEF Core
      <4> QED BY <4>1, <4>2
    <3>2. os.wire = <<>> /\ eg.batch = <<>> BY <3>1 DEF OutletInv, Emptied
    <3> QED BY <1>e, <2>1, <3>2
  <2> QED BY <2>2, <2>3
<1>2. CASE TakeBatch
  <2>0. eg.phase = "Live" /\ os' = os /\ hist' = hist /\ eg'.put = 0 /\ core' = core
    BY <1>2, <1>i, BatchDoes, EgressCore DEF Egress
  <2>1. PICK n \in 1 .. Len(media), k \in 1 .. Len(media) + 1 :
          /\ FromHere(k) /\ Dropped(n)
          /\ k > n => eg'.batch = <<>>
          /\ k <= n => /\ core.dump = "No" /\ Going /\ ~Asking
                       /\ Len(eg'.batch) = n + 1 - k /\ DOMAIN eg'.batch = 1 .. n + 1 - k
                       /\ \A i \in 1 .. n + 1 - k : eg'.batch[i] = media[k + i - 1][3]
                       /\ \A i \in k .. Len(media) : Here(media[i])
    BY <1>2, TakeDoes
  <2>2. InRow(os.wire)' /\ Between(os.wire)'
    BY <1>g, <2>0 DEF InRow, Between
  <2>3. CASE k > n
    <3>1. eg'.batch = <<>> BY <2>1, <2>3
    <3>2. InRow(eg.batch)' /\ Between(eg.batch)' BY <3>1 DEF InRow, Between
    <3> QED BY <1>g, <2>0, <2>2, <3>1, <3>2 DEF Sending, After
  <2>4. CASE k <= n
    <3>m. Len(media) \in Nat /\ DOMAIN media = 1 .. Len(media) /\ \A i \in DOMAIN media : media[i][3] \in Nat
      BY <1>i, MediaIs
    <3>1. /\ core.dump = "No" /\ Going /\ ~Asking
          /\ Len(eg'.batch) = n + 1 - k /\ DOMAIN eg'.batch = 1 .. n + 1 - k
          /\ \A i \in 1 .. n + 1 - k : eg'.batch[i] = media[k + i - 1][3]
          /\ \A i \in k .. Len(media) : Here(media[i])
      BY <2>1, <2>4
    <3>2. \A i \in k .. Len(media) :
            core.base <= media[i][3] /\ media[i][3] + (Len(media) - i) + 1 = core.cursor
      <4>1. Queue BY DEF OutletInv
      <4>2. \A i \in k .. Len(media) : i \in DOMAIN media BY <3>m
      <4> QED BY <3>1, <4>1, <4>2 DEF Queue
    <3>3. ASSUME NEW i \in 1 .. n + 1 - k
          PROVE  /\ eg'.batch[i] = media[k][3] + i - 1 /\ hist.back < eg'.batch[i] /\ eg'.batch[i] <= core.edge
      <4>1. k + i - 1 \in k .. Len(media) /\ k \in k .. Len(media) BY <3>m, <2>4
      <4>2. /\ core.base <= media[k + i - 1][3]
            /\ media[k + i - 1][3] + (Len(media) - (k + i - 1)) + 1 = core.cursor
            /\ media[k][3] + (Len(media) - k) + 1 = core.cursor
        BY <3>2, <4>1
      <4>3. media[k + i - 1][3] \in Nat /\ media[k][3] \in Nat BY <3>m, <4>1, SMTT(30)
      <4>4. eg'.batch[i] = media[k + i - 1][3] BY <3>1
      <4>5. k + i - 1 <= Len(media) BY <4>1
      <4> DEFINE a == media[k + i - 1][3]
                 b == media[k][3]
                 l == Len(media)
      <4>10. /\ a \in Nat /\ b \in Nat /\ l \in Nat /\ k \in Nat /\ i \in Nat /\ core.cursor \in Nat
             /\ a + (l - (k + i - 1)) + 1 = core.cursor /\ b + (l - k) + 1 = core.cursor
             /\ k + i - 1 <= l
        BY <1>t, <3>m, <4>2, <4>3, <4>5
      <4> HIDE DEF a, b, l
      <4>11. a = b + i - 1 /\ a < core.cursor BY ONLY <4>10
      <4>6. eg'.batch[i] = media[k][3] + i - 1 BY <4>4, <4>11 DEF a, b
      <4>7. media[k + i - 1][3] < core.cursor BY <4>11 DEF a
      <4>8. hist.back < core.base /\ core.cursor <= core.edge + 1 BY <1>i DEF Ranges
      <4>9. /\ hist.back \in Nat /\ core.base \in Nat /\ core.cursor \in Nat /\ core.edge \in Nat
        BY <1>t
      <4>12. core.base <= a /\ a \in Nat /\ a < core.cursor BY <4>2, <4>3, <4>7 DEF a
      <4>13. hist.back < a /\ a <= core.edge BY ONLY <4>8, <4>9, <4>12, SMTT(30)
      <4> QED BY <4>4, <4>6, <4>13 DEF a
    <3>4. 1 \in 1 .. n + 1 - k BY <2>4
    <3>5. eg'.batch[1] = media[k][3] /\ media[k][3] \in Nat
      <4>1. k \in DOMAIN media BY <3>m, <2>4
      <4>2. k + 1 - 1 = k BY <3>m, <2>4
      <4>3. media[k][3] \in Nat BY <3>m, <4>1
      <4>4. eg'.batch[1] = media[k + 1 - 1][3] BY <3>1, <3>4
      <4> QED BY ONLY <4>2, <4>3, <4>4
    <3>6. InRow(eg.batch)' /\ Between(eg.batch)'
      BY <2>0, <3>1, <3>3, <3>5 DEF InRow, Between
    <3>7. \A x \in Nat : Comes(x) => x = media[k][3]
      <4>1. SUFFICES ASSUME NEW x \in Nat, Comes(x) PROVE x = media[k][3] OBVIOUS
      <4>2. core.cursor = x + (Len(media) + 1 - k) BY <1>i, <2>1, <4>1, ComesIs
      <4>3. k \in k .. Len(media) BY <3>m, <2>4
      <4>4. media[k][3] + (Len(media) - k) + 1 = core.cursor BY <3>2, <4>3
      <4> QED BY <3>m, <3>5, <4>2, <4>4
    <3>8. eg.batch = <<>> /\ eg.phase # "Waiting" BY <1>i, <2>0 DEF NothingYet
    <3>9. Follows BY <3>1 DEF OutletInv, NextUp
    <3>10. os.wire # <<>> => os.wire[1] + Len(os.wire) = media[k][3]
      <4>1. os.wire # <<>> => Comes(os.wire[1] + Len(os.wire)) BY <3>8, <3>9 DEF Follows
      <4>3. os.wire # <<>> => os.wire[1] + Len(os.wire) \in Nat BY <1>i, FirstIs
      <4> QED BY ONLY <3>7, <4>1, <4>3
    <3>11. os.wire = <<>> /\ hist.tail # 0 => After(hist.tail) = media[k][3]
      <4>2. After(hist.tail) \in Nat BY <1>i, FirstIs
      <4> QED BY <3>7, <3>8, <3>9, <4>2 DEF Follows
    <3> QED BY <1>g, <1>t, <2>0, <2>2, <3>5, <3>6, <3>10, <3>11 DEF Sending, After
  <2> QED BY <2>1, <2>3, <2>4
<1>3. CASE Accept
  <2> DEFINE n == eg.batch[eg.put + 1]
  <2>0. /\ eg.put < Len(eg.batch) /\ eg'.put = eg.put + 1 /\ eg'.batch = eg.batch
        /\ os'.wire = Append(os.wire, n) /\ hist'.tail = hist.tail /\ hist'.back = hist.back /\ core' = core
    BY <1>3, <1>i, BatchDoes, EgressCore DEF Egress
  <2>1. eg.put + 1 \in DOMAIN eg.batch /\ eg.batch # <<>> BY <1>t, <2>0, SMTT(30)
  <2>2. n \in Nat /\ n = eg.batch[1] + eg.put /\ hist.back < n /\ n <= core.edge /\ eg.batch[1] \in Nat
    <3>1. 1 \in DOMAIN eg.batch BY <1>t, <2>0
    <3>2. eg.batch[1] \in Nat /\ n \in Nat BY <1>t, <2>1, <3>1
    <3>3. n = eg.batch[1] + (eg.put + 1) - 1 BY <1>g, <2>1 DEF InRow
    <3>4. hist.back < n /\ n <= core.edge BY <1>g, <2>1 DEF Between
    <3> QED BY <1>t, <3>2, <3>3, <3>4
  <2> HIDE DEF n
  <2>3. os.wire # <<>> => os.wire[1] + Len(os.wire) = n BY <1>g, <2>1, <2>2
  <2>4. InRow(eg.batch)' /\ Between(eg.batch)' BY <1>g, <2>0 DEF InRow, Between
  <2>5. Between(os.wire)'
    <3>1. /\ DOMAIN os'.wire = 1 .. Len(os.wire) + 1 /\ os'.wire[Len(os.wire) + 1] = n
          /\ \A i \in 1 .. Len(os.wire) : os'.wire[i] = os.wire[i]
      BY <1>w, <2>0, <2>2, AppendIs
    <3>2. \A i \in DOMAIN os'.wire : i \in DOMAIN os.wire \/ i = Len(os.wire) + 1 BY <1>t, <3>1
    <3> QED BY <1>g, <1>t, <2>0, <2>2, <3>1, <3>2 DEF Between
  <2>6. /\ InRow(os'.wire) /\ os'.wire # <<>>
        /\ os'.wire[1] + Len(os'.wire) = n + 1
        /\ os'.wire[1] = IF os.wire = <<>> THEN n ELSE os.wire[1]
    <3>1. InRow(os.wire) BY <1>g
    <3>2. n \in Nat BY <2>2
    <3>3. /\ InRow(Append(os.wire, n)) /\ Append(os.wire, n) # <<>>
          /\ Append(os.wire, n)[1] + Len(Append(os.wire, n)) = n + 1
          /\ Append(os.wire, n)[1] = IF os.wire = <<>> THEN n ELSE os.wire[1]
      BY ONLY <1>w, <2>3, <3>1, <3>2, RowGrows
    <3> QED BY ONLY <2>0, <3>3
  <2>7. InRow(os.wire)' BY <2>6 DEF InRow
  <2>8. hist.tail # 0 => os'.wire[1] = After(hist.tail) BY <1>g, <2>1, <2>2, <2>6
  <2>9. os'.wire[1] + Len(os'.wire) = eg.batch[1] + (eg.put + 1)
    <3>1. eg.put \in Nat /\ eg.batch[1] \in Nat BY <1>t, <2>2
    <3>2. n \in Nat /\ n = eg.batch[1] + eg.put BY <2>2
    <3>3. \A a, b, c \in Nat : c = a + b => c + 1 = a + (b + 1) OBVIOUS
    <3>4. n + 1 = eg.batch[1] + (eg.put + 1) BY ONLY <3>1, <3>2, <3>3
    <3> QED BY <2>6, <3>4
  <2> QED BY <2>0, <2>4, <2>5, <2>6, <2>7, <2>8, <2>9 DEF Sending, After
<1>4. CASE BatchDone
  <2>0. /\ os' = os /\ eg'.batch = <<>> /\ hist'.tail = hist.tail /\ hist'.back = hist.back /\ core' = core
    BY <1>4, <1>i, BatchDoes, EgressCore DEF Egress
  <2> QED BY <1>g, <2>0 DEF Sending, InRow, Between, After
<1>5. CASE Leave
  <2>0. /\ os.wire # <<>> /\ os'.wire = Tail(os.wire) /\ hist'.tail = Head(os.wire) /\ hist'.back = hist.back
        /\ eg' = eg /\ core' = core
    BY <1>5, <1>i, BatchDoes, EgressCore
  <2>1. /\ InRow(os'.wire) /\ os.wire[1] \in Nat /\ hist'.tail = os.wire[1]
        /\ os'.wire = <<>> => os.wire[1] + Len(os.wire) = os.wire[1] + 1
        /\ os'.wire # <<>> => /\ os'.wire[1] = os.wire[1] + 1
                              /\ os'.wire[1] + Len(os'.wire) = os.wire[1] + Len(os.wire)
        /\ \A i \in DOMAIN os'.wire : os'.wire[i] = os.wire[i + 1] /\ i + 1 \in DOMAIN os.wire
    BY <1>g, <1>w, <2>0, RowShrinks
  <2>2. hist.back < os.wire[1]
    <3>1. 1 \in DOMAIN os.wire BY <1>z, <1>t, <2>0
    <3> QED BY <1>g, <3>1 DEF Between
  <2>4. InRow(os.wire)' BY <2>1 DEF InRow
  <2>5. Between(os.wire)' BY <1>g, <2>0, <2>1 DEF Between
  <2>6. InRow(eg.batch)' /\ Between(eg.batch)' BY <1>g, <2>0 DEF InRow, Between
  <2>9. 1 + Greater(hist'.tail, hist'.back) = os.wire[1] + 1 /\ hist'.tail # 0
    BY <1>t, <2>0, <2>1, <2>2 DEF Greater
  <2>10. eg.batch # <<>> => os.wire[1] + Len(os.wire) = eg.batch[1] + eg.put BY <1>g, <2>0
  <2>11. After(hist.tail)' = os.wire[1] + 1 BY <2>9 DEF After
  <2> QED BY <2>0, <2>1, <2>4, <2>5, <2>6, <2>9, <2>10, <2>11 DEF Sending
<1>6. CASE StopLive
  <2>1. os' = os /\ hist' = hist /\ eg'.batch = eg.batch /\ eg'.put = eg.put
    BY <1>6, <1>i, EgressDoes DEF Types, Egresses
  <2> QED BY <1>s, <2>1
<1>7. CASE Acknowledge \/ Linger BY <1>7, <1>i, <1>s, BatchDoes
<1>8. CASE CutReset \/ Fail \/ Ending BY <1>8, <1>i, <1>e, OverIs
<1>9. CASE TakeStart \/ StopUnconnected \/ CutUnconnected \/ DropQueued \/ ConnectOk \/ ConnectFails
             \/ BackoffOver \/ Publish
  <2>1. os' = os /\ eg.phase \in {"Idle", "Connecting", "Backoff", "Waiting"} BY <1>9, <1>i, EgressDoes
  <2>2. os.wire = <<>> /\ eg.batch = <<>> BY <1>i, <2>1 DEF NothingYet, OnConnection
  <2>3. eg'.batch = <<>>
    <3>1. CASE TakeStart \/ StopUnconnected \/ ConnectOk \/ ConnectFails \/ BackoffOver
      BY <1>i, <3>1, EgressDoes, InIs
    <3>2. CASE Publish BY <1>i, <3>2, EgressDoes
    <3>3. CASE CutUnconnected \/ DropQueued BY <1>i, <2>2, <3>3, EgressDoes
    <3> QED BY <1>9, <3>1, <3>2, <3>3
  <2> QED BY <1>e, <2>1, <2>2, <2>3
<1>10. CASE CutLive
  <2>1. eg.phase = "Live" /\ os.wire = <<>> /\ eg' = eg /\ os' = os BY <1>10, <1>i, EgressDoes
  <2>2. eg.batch = <<>> BY <1>i, <2>1 DEF NothingYet
  <2> QED BY <1>e, <2>1, <2>2
<1>11. CASE UNCHANGED vars BY <1>11, <1>s DEF vars
<1> QED BY <1>1, <1>2, <1>3, <1>4, <1>5, <1>6, <1>7, <1>8, <1>9, <1>10, <1>11 DEF Next, Egress, Ending

LEMMA EmptiedNext == OutletInv /\ [Next]_vars => Emptied'
<1> SUFFICES ASSUME OutletInv, [Next]_vars PROVE Emptied' OBVIOUS
<1>i. Types /\ NothingYet /\ Emptied /\ CutsAnswered /\ Types' BY TypesNext DEF OutletInv
<1>n. ~OnConnection => os.wire = <<>> /\ eg.batch = <<>> BY <1>i DEF NothingYet, OnConnection
<1>s. ASSUME os'.wire = os.wire, eg'.batch = eg.batch, core'.dump = "Asked" => core.dump = "Asked", Asking => Asking'
      PROVE  Emptied'
  BY <1>i, <1>s DEF Emptied
<1>e. ASSUME os'.wire = <<>>, eg'.batch = <<>> PROVE Emptied' BY <1>e DEF Emptied
<1>1. CASE Core
  <2>1. os' = os /\ eg'.batch = eg.batch /\ (~RaiseCut /\ ~AskCut => (Asking' <=> Asking)) BY <1>1, <1>i, CoreDoes
  <2>2. CASE RaiseCut
    <3>1. core'.dump = "Raised" BY <1>i, <2>2, PlainDoes
    <3> QED BY <3>1 DEF Emptied
  <2>3. CASE AskCut
    <3>1. /\ ctl' = Append(ctl, Cut(core.cut)) /\ Cut(core.cut) \in Control /\ core'.cut = core.cut
      BY <1>i, <2>3, CtlIs, PlainDoes, Messages
    <3>2. DOMAIN ctl' = 1 .. Len(ctl) + 1 /\ ctl'[Len(ctl) + 1] = Cut(core.cut) /\ Len(ctl) \in Nat
      BY <1>i, <3>1, CtlMore, CtlIs
    <3>3. Len(ctl) + 1 \in DOMAIN ctl' BY <3>2
    <3>4. Asking' BY <3>1, <3>2, <3>3 DEF Asking, IsCut, Cut
    <3> QED BY <3>4 DEF Emptied
  <2>4. CASE ~RaiseCut /\ ~AskCut
    <3>1. core'.dump = core.dump \/ core'.dump = "No"
      <4>1. CASE HandleEvent
        BY <1>i, <4>1, HandleDoes, CutDoneDoes, FinishDoes, ConnectedDoes, DisconnectedDoes
      <4>2. CASE ~HandleEvent
        BY <1>1, <1>i, <2>4, <4>2, EmitDoes, EndDoes, PlainDoes, CheckDoes, UnlinkedDoes, FinishDoes DEF Core
      <4> QED BY <4>1, <4>2
    <3> QED BY <1>s, <2>1, <2>4, <3>1
  <2> QED BY <2>2, <2>3, <2>4
<1>2. CASE CutReset \/ Fail \/ Ending BY <1>2, <1>i, <1>e, OverIs
<1>3. CASE TakeStart \/ StopUnconnected \/ CutUnconnected \/ DropQueued \/ ConnectOk \/ ConnectFails
             \/ BackoffOver \/ Publish
  <2>1. os' = os /\ eg.phase \in {"Idle", "Connecting", "Backoff", "Waiting"} BY <1>3, <1>i, EgressDoes
  <2>2. os.wire = <<>> /\ eg.batch = <<>> BY <1>n, <2>1 DEF OnConnection
  <2>3. eg'.batch = <<>>
    <3>1. CASE TakeStart \/ StopUnconnected \/ ConnectOk \/ ConnectFails \/ BackoffOver
      BY <1>i, <3>1, EgressDoes, InIs
    <3>2. CASE Publish BY <1>i, <3>2, EgressDoes
    <3>3. CASE CutUnconnected \/ DropQueued BY <1>i, <2>2, <3>3, EgressDoes
    <3> QED BY <1>3, <3>1, <3>2, <3>3
  <2> QED BY <1>e, <2>1, <2>2, <2>3
<1>4. CASE CutLive
  <2>1. eg.phase = "Live" /\ os.wire = <<>> /\ eg' = eg /\ os' = os BY <1>4, <1>i, EgressDoes
  <2>2. eg.batch = <<>> BY <1>i, <2>1 DEF NothingYet
  <2> QED BY <1>e, <2>1, <2>2
<1>5. CASE StopLive
  <2>1. os' = os /\ eg'.batch = eg.batch /\ core' = core /\ Told("Stop")
    BY <1>5, <1>i, EgressDoes, EgressCore DEF Types, Egresses, Egress
  <2>2. ctl # <<>> /\ ctl' = Tail(ctl) /\ ~IsCut(Head(ctl)) BY <2>1 DEF Told, IsCut
  <2>3. /\ 1 \in DOMAIN ctl /\ Head(ctl) = ctl[1] /\ DOMAIN ctl' = 1 .. Len(ctl) - 1
        /\ \A i \in 1 .. Len(ctl) - 1 : ctl'[i] = ctl[i + 1] /\ i + 1 \in DOMAIN ctl
    BY <1>i, <2>2, CtlTail
  <2>4. ASSUME Asking PROVE Asking'
    <3>1. PICK j \in DOMAIN ctl : IsCut(ctl[j]) /\ ctl[j].cut = core.cut BY <2>4 DEF Asking
    <3>2. j # 1 BY <2>2, <2>3, <3>1
    <3>3. Len(ctl) \in Nat /\ DOMAIN ctl = 1 .. Len(ctl) BY <1>i, CtlIs
    <3>4. j - 1 \in DOMAIN ctl' /\ ctl'[j - 1] = ctl[j] BY <2>3, <3>1, <3>2, <3>3
    <3> QED BY <2>1, <3>1, <3>4 DEF Asking
  <2> QED BY <1>s, <2>1, <2>4
<1>6. CASE TakeBatch
  <2>1. os' = os /\ core' = core /\ ctl' = ctl /\ eg.phase = "Live" BY <1>6, <1>i, BatchDoes, EgressCore DEF Egress
  <2>2. eg'.batch = <<>> \/ core.dump = "No" BY <1>6, TakeDoes
  <2>3. Asking' = Asking BY <2>1 DEF Asking
  <2> QED BY <1>i, <2>1, <2>2, <2>3 DEF Emptied
<1>7. CASE Accept
  <2>1. core' = core /\ ctl' = ctl /\ eg.put < Len(eg.batch) BY <1>7, <1>i, BatchDoes, EgressCore DEF Egress
  <2>2. eg.batch # <<>> BY <1>i, <2>1, WireIs
  <2> QED BY <1>i, <2>1, <2>2 DEF Emptied, Asking
<1>8. CASE BatchDone
  <2>1. core' = core /\ ctl' = ctl /\ os' = os /\ eg'.batch = <<>> BY <1>8, <1>i, BatchDoes, EgressCore DEF Egress
  <2> QED BY <1>i, <2>1 DEF Emptied, Asking
<1>9. CASE Leave
  <2>1. core' = core /\ ctl' = ctl /\ os.wire # <<>> BY <1>9, <1>i, BatchDoes, EgressCore
  <2> QED BY <1>i, <2>1 DEF Emptied, Asking
<1>10. CASE Acknowledge \/ Linger
  <2>1. core' = core /\ ctl' = ctl /\ os'.wire = os.wire /\ eg' = eg BY <1>10, <1>i, BatchDoes, EgressCore
  <2> QED BY <1>i, <2>1 DEF Emptied, Asking
<1>11. CASE UNCHANGED vars BY <1>i, <1>11 DEF vars, Emptied, Asking
<1> QED BY <1>1, <1>2, <1>3, <1>4, <1>5, <1>6, <1>7, <1>8, <1>9, <1>10, <1>11 DEF Next, Egress, Ending

LEMMA QueueNext == OutletInv /\ [Next]_vars => Queue'
<1> SUFFICES ASSUME OutletInv, [Next]_vars PROVE Queue' OBVIOUS
<1>i. Types /\ Ranges /\ Queued /\ InTouch /\ Agreed /\ Queue /\ Types' BY TypesNext DEF OutletInv
<1>m. /\ Len(media) \in Nat /\ DOMAIN media = 1 .. Len(media) /\ core.gen \in Nat /\ core.cut \in Nat
      /\ \A i \in DOMAIN media : media[i][1] \in Nat /\ media[i][2] \in Nat /\ media[i][3] \in Nat
  BY <1>i, MediaIs DEF Types, Cores
<1>c. core.base \in Nat /\ core.cursor \in Nat BY <1>i, WireIs
<1>s. ASSUME media' = media, core'.base = core.base, core'.cursor = core.cursor, core'.gen = core.gen,
             core'.cut = core.cut, Going' => Going
      PROVE  Queue'
  BY <1>i, <1>s DEF Queue, Here
<1>h. ASSUME media' = media, \A i \in DOMAIN media : ~Here(media[i])' PROVE Queue'
  BY <1>h DEF Queue
<1>1. CASE Core
  <2>0. /\ (ToldToEnd => ToldToEnd') /\ eg'.phase = eg.phase /\ (eg' = eg => (Going' => Going))
        /\ (EndNow \/ EndAtMark \/ StopEgress => ToldToEnd')
    BY <1>1, <1>i, CoreDoes DEF Going, Numbered, OnConnection
  <2>1. CASE Emit
    <3>1. /\ core'.gen = core.gen /\ core'.cut = core.cut /\ Len(media') = Len(media) + 1
          /\ \A i \in 1 .. Len(media) : media'[i] = media[i]
          /\ media'[Len(media) + 1] = <<core.gen, core.cut, core.cursor>>
          /\ core'.base = core.base /\ core'.cursor = core.cursor + 1 /\ eg' = eg
      BY <1>i, <2>1, EmitDoes
    <3>2. DOMAIN media' = 1 .. Len(media) + 1 BY <1>i, <1>m, <3>1 DEF Types
    <3>3. SUFFICES ASSUME Going, NEW i \in DOMAIN media', Here(media[i])'
                   PROVE  core.base <= media'[i][3] /\ media'[i][3] + (Len(media') - i) + 1 = core'.cursor
      BY <2>0, <3>1 DEF Queue
    <3>4. CASE i \in DOMAIN media
      <4>1. media'[i] = media[i] /\ Here(media[i]) BY <1>m, <3>1, <3>3, <3>4 DEF Here
      <4>2. core.base <= media[i][3] /\ media[i][3] + (Len(media) - i) + 1 = core.cursor
        BY <1>i, <3>3, <3>4, <4>1 DEF Queue
      <4>3. media[i][3] \in Nat /\ i \in Nat BY <1>m, <3>4
      <4> DEFINE x == media[i][3]
      <4>4. x \in Nat /\ i \in Nat /\ Len(media) \in Nat /\ x + (Len(media) - i) + 1 = core.cursor
        BY <1>m, <4>2, <4>3
      <4> HIDE DEF x
      <4>5. x + (Len(media) + 1 - i) + 1 = core.cursor + 1 BY ONLY <4>4
      <4> QED BY <3>1, <4>1, <4>2, <4>5 DEF x
    <3>5. CASE i = Len(media) + 1
      <4>1. media'[i][3] = core.cursor BY <3>1, <3>5
      <4> QED BY <1>i, <1>m, <1>c, <3>1, <3>5, <4>1 DEF Ranges
    <3> QED BY <1>m, <3>2, <3>4, <3>5
  <2>2. CASE EndNow \/ EndAtMark \/ StopEgress BY <2>0, <2>2 DEF Queue, Going
  <2>3. CASE StartEgress \/ EndAfterAir \/ AskCut BY <1>i, <1>s, <2>0, <2>3, PlainDoes
  <2>4. CASE RaiseCut
    <3>1. media' = media /\ core'.cut = core.cut + 1 BY <1>i, <2>4, PlainDoes
    <3>2. \A i \in DOMAIN media : media[i][2] # core'.cut BY <1>i, <1>m, <3>1 DEF Queued
    <3> QED BY <1>h, <3>1, <3>2 DEF Here
  <2>5. ASSUME FinishDump, media' = media, core.dump = "Asked" PROVE Queue'
    <3>1. core'.cut = core.cut BY <1>i, <2>5, FinishDoes
    <3>2. \A i \in DOMAIN media : media[i][2] # core'.cut BY <1>i, <1>m, <2>5, <3>1 DEF Queued
    <3> QED BY <1>h, <2>5, <3>2 DEF Here
  <2>6. CASE CheckDump BY <1>i, <2>5, <2>6, CheckDoes
  <2>7. CASE DumpUnlinked
    <3>1. ~core.on /\ eg' = eg BY <1>i, <2>7, UnlinkedDoes
    <3>2. ~Going BY <1>i, <3>1 DEF Agreed, Going, Numbered, OnConnection
    <3> QED BY <2>0, <3>1, <3>2 DEF Queue
  <2>8. CASE HandleEvent
    <3>0. media' = media BY <1>i, <2>8, HandleDoes
    <3>1. CASE HandleCutDone(events[1])
      <4>1. eg' = eg BY <1>i, <3>1, CutDoneDoes
      <4>2. CASE core' = core BY <1>s, <2>0, <3>0, <4>1, <4>2
      <4>3. CASE Answers(events[1]) /\ FinishDump BY <2>5, <3>0, <4>3 DEF Answers
      <4> QED BY <1>i, <3>1, <4>2, <4>3, CutDoneDoes
    <3>2. CASE HandleConnected(events[1])
      <4>1. core'.gen = core.gen + 1 BY <1>i, <3>2, ConnectedDoes
      <4>2. \A i \in DOMAIN media : media[i][1] # core'.gen BY <1>i, <1>m, <4>1 DEF Queued
      <4> QED BY <1>h, <3>0, <4>2 DEF Here
    <3>3. CASE HandleDisconnected(events[1])
      <4>1. eg' = eg /\ ~IsAnswer(events[1]) BY <1>i, <3>3, DisconnectedDoes DEF IsAnswer
      <4>2. ~Numbered BY <1>i, <2>8, <4>1, EventsTail DEF InTouch
      <4>3. ~Going' BY <4>1, <4>2 DEF Going, Numbered, OnConnection
      <4> QED BY <4>3 DEF Queue
    <3> QED BY <1>i, <2>8, <3>1, <3>2, <3>3, HandleDoes
  <2> QED BY <1>1, <2>1, <2>2, <2>3, <2>4, <2>6, <2>7, <2>8 DEF Core
<1>2. CASE Egress \/ Leave \/ Acknowledge \/ Linger
  <2>1. core' = core /\ (Going' => Going) BY <1>2, <1>i, EgressCore, Turns
  <2>2. PICK n \in 0 .. Len(media) : Dropped(n) BY <1>2, <1>i, Rest
  <2>3. /\ DOMAIN media' = 1 .. Len(media) - n /\ Len(media') = Len(media) - n
        /\ \A i \in 1 .. Len(media) - n : media'[i] = media[i + n] /\ i + n \in DOMAIN media
    BY <1>i, <2>2, DroppedIs
  <2>4. SUFFICES ASSUME Going, NEW i \in DOMAIN media', Here(media[i])'
                 PROVE  core.base <= media'[i][3] /\ media'[i][3] + (Len(media') - i) + 1 = core.cursor
    BY <2>1 DEF Queue
  <2>5. Here(media[i + n]) /\ i + n \in DOMAIN media BY <2>1, <2>3, <2>4 DEF Here
  <2>6. core.base <= media[i + n][3] /\ media[i + n][3] + (Len(media) - (i + n)) + 1 = core.cursor
    BY <1>i, <2>4, <2>5 DEF Queue
  <2>7. media[i + n][3] \in Nat /\ i \in Nat /\ n \in Nat BY <1>m, <2>3, <2>5
  <2>8. media'[i] = media[i + n] BY <2>3
  <2> DEFINE x == media[i + n][3]
  <2>9. x + (Len(media) - n - i) + 1 = core.cursor BY <1>m, <2>6, <2>7
  <2> QED BY <2>3, <2>6, <2>8, <2>9
<1>3. CASE UNCHANGED vars
  <2>1. Going' => Going BY <1>3 DEF vars, Going, Numbered, OnConnection, ToldToEnd
  <2> QED BY <1>s, <1>3, <2>1 DEF vars
<1> QED BY <1>1, <1>2, <1>3 DEF Next

LEMMA LossIsTold ==
  ASSUME Types,
         \E d : events' = events \o <<d, Disconnected(eg.last)>> \/ events' = events \o <<Disconnected(eg.last)>>
  PROVE  LossTold'
<1>1. events \in Seq(Event) BY DEF Types
<1>2. Lost(Disconnected(eg.last)) BY DEF Lost, Disconnected
<1>3. ASSUME NEW d, NEW e
      PROVE  LET s == events \o <<d, e>> IN s[Len(s)] = e /\ Len(s) \in DOMAIN s
  BY <1>1
<1>4. ASSUME NEW e
      PROVE  LET s == events \o <<e>> IN s[Len(s)] = e /\ Len(s) \in DOMAIN s
  BY <1>1
<1>5. Lost(events'[Len(events')]) /\ Len(events') \in DOMAIN events' BY <1>2, <1>3, <1>4
<1> QED BY <1>5 DEF LossTold

LEMMA ReportedNext == OutletInv /\ [Next]_vars => Reported'
<1> SUFFICES ASSUME OutletInv, [Next]_vars PROVE Reported' OBVIOUS
<1>i. Types /\ Reported /\ InTouch /\ Types' BY TypesNext DEF OutletInv
<1>s. ASSUME core'.up => core.up, eg' = eg, events' = events PROVE Reported'
  BY <1>i, <1>s DEF Reported, Numbered, OnConnection, LossTold
<1>1. CASE Core /\ ~HandleEvent
  <2>1. core'.up => core.up
    BY <1>1, <1>i, EmitDoes, EndDoes, PlainDoes, CheckDoes, UnlinkedDoes, FinishDoes DEF Core
  <2>2. eg' = eg /\ events' = events
    BY <1>1, <1>i, EmitDoes, EndDoes, PlainDoes, CheckDoes, UnlinkedDoes DEF Core
  <2> QED BY <1>s, <2>1, <2>2
<1>2. CASE HandleEvent
  <2>0. /\ Len(events) \in Nat /\ DOMAIN events = 1 .. Len(events) /\ DOMAIN events' = 1 .. Len(events) - 1
        /\ 1 \in DOMAIN events /\ \A i \in DOMAIN events' : events'[i] = events[i + 1] /\ i + 1 \in DOMAIN events
    BY <1>2, <1>i, EventsTail
  <2>1. CASE HandleCutDone(events[1])
    <3>1. core'.up = core.up /\ eg' = eg /\ ~Lost(events[1]) BY <1>i, <2>1, CutDoneDoes, FinishDoes DEF Lost
    <3>2. ASSUME LossTold PROVE LossTold'
      <4>1. PICK i \in DOMAIN events : Lost(events[i]) BY <3>2 DEF LossTold
      <4>2. i - 1 \in DOMAIN events' /\ i = (i - 1) + 1 BY <2>0, <3>1, <4>1
      <4>3. events'[i - 1] = events[i] BY <2>0, <4>2
      <4> QED BY <4>1, <4>2, <4>3 DEF LossTold
    <3> QED BY <1>i, <3>1, <3>2 DEF Reported, Numbered, OnConnection
  <2>2. CASE HandleConnected(events[1])
    <3>1. events[1].kind = "Connected" /\ eg' = [eg EXCEPT !.reply = core.gen + 1] BY <1>i, <2>2, ConnectedDoes
    <3>2. eg.phase = "Waiting" BY <1>i, <2>0, <3>1 DEF InTouch
    <3>5. core.gen \in Nat BY <1>i DEF Types, Cores
    <3>3. core.gen + 1 # None BY <3>5 DEF None
    <3>4. eg'.phase = "Waiting" /\ eg'.reply # None BY <1>i, <3>1, <3>2, <3>3 DEF Types, Egresses
    <3> QED BY <3>4 DEF Reported, Numbered
  <2>3. CASE HandleDisconnected(events[1])
    <3>1. core'.up = FALSE BY <1>i, <2>3, DisconnectedDoes
    <3> QED BY <3>1 DEF Reported
  <2> QED BY <1>2, <1>i, <2>1, <2>2, <2>3, HandleDoes
<1>3. CASE Egress \/ Leave \/ Acknowledge \/ Linger
  <2>1. core' = core BY <1>3, EgressCore
  <2>2. \A i \in DOMAIN events : i \in DOMAIN events' /\ events'[i] = events[i] BY <1>3, <1>i, EventsMove
  <2>3. LossTold => LossTold' BY <2>2 DEF LossTold
  <2>4. CASE CutReset \/ Fail \/ Ending
    <3>1. LossTold'
      <4>1. \E d : events' = events \o <<d, Disconnected(eg.last)>> \/ events' = events \o <<Disconnected(eg.last)>>
        BY <1>i, <2>4, OverDoes DEF Over
      <4> QED BY <1>i, <4>1, LossIsTold
    <3> QED BY <3>1 DEF Reported
  <2>5. CASE Publish
    <3>1. eg.phase = "Waiting" /\ eg.reply # None /\ eg'.phase = "Live" BY <1>i, <2>5, EgressDoes
    <3> QED BY <3>1 DEF Reported, Numbered, OnConnection
  <2>6. CASE ~(CutReset \/ Fail \/ Ending)
    <3>1. Numbered => Numbered' BY <1>3, <1>i, <2>6, Turns
    <3> QED BY <1>i, <2>1, <2>3, <3>1 DEF Reported
  <2> QED BY <2>4, <2>6
<1>4. CASE UNCHANGED vars BY <1>4, <1>s DEF vars
<1> QED BY <1>1, <1>2, <1>3, <1>4 DEF Next

LEMMA LastsNext == OutletInv /\ [Next]_vars => Lasts'
<1> SUFFICES ASSUME OutletInv, [Next]_vars PROVE Lasts' OBVIOUS
<1>i. Types /\ Lasts /\ Ranges /\ Sending /\ Types' BY TypesNext DEF OutletInv
<1>t. /\ core.edge \in Nat /\ core.first \in Nat /\ core.cursor \in Nat /\ eg.last \in Nat
      /\ core'.edge \in Nat
      /\ \A i \in DOMAIN events : Lost(events[i]) => events[i].last \in Nat
  <2>1. \A e \in Event : Lost(e) => e.last \in Nat BY DEF Event, Lost
  <2>2. \A i \in DOMAIN events : events[i] \in Event
    <3>1. events \in Seq(Event) BY <1>i DEF Types
    <3> QED BY ONLY <3>1
  <2> QED BY <1>i, <2>1, <2>2 DEF Types, Cores, Egresses
<1>l. /\ core.first <= core.edge /\ eg.last <= core.edge
      /\ \A i \in DOMAIN events : Lost(events[i]) => events[i].last <= core.edge
  BY <1>i DEF Lasts
<1>s. ASSUME core'.edge >= core.edge, core'.first <= core'.edge, eg'.last <= core'.edge,
             \A i \in DOMAIN events' : Lost(events'[i]) =>
               \/ \E j \in DOMAIN events : events'[i] = events[j]
               \/ events'[i].last = eg.last
      PROVE  Lasts'
  BY <1>t, <1>l, <1>s DEF Lasts
<1>1. CASE Core
  <2>0. eg'.last = eg.last BY <1>1, <1>i, CoreDoes
  <2>1. CASE Emit
    <3>1. /\ core'.edge = Greater(core.edge, core.cursor) /\ events' = events
          /\ core'.first = IF core.first = None THEN core.cursor ELSE core.first
      BY <1>i, <2>1, EmitDoes
    <3>2. core'.edge >= core.edge /\ core'.edge >= core.cursor BY <1>t, <3>1 DEF Greater
    <3> QED BY <1>t, <1>l, <1>s, <2>0, <3>1, <3>2
  <2>2. CASE HandleEvent
    <3>1. core'.edge = core.edge /\ (core'.first = core.first \/ core'.first = 0)
      BY <1>i, <2>2, HandleDoes, CutDoneDoes, FinishDoes, ConnectedDoes, DisconnectedDoes DEF None
    <3>2. \A i \in DOMAIN events' : events'[i] = events[i + 1] /\ i + 1 \in DOMAIN events
      BY <1>i, <2>2, EventsTail
    <3> QED BY <1>t, <1>l, <1>s, <2>0, <3>1, <3>2
  <2>3. CASE ~HandleEvent /\ ~Emit
    <3>1. core'.edge = core.edge /\ core'.first = core.first
      BY <1>1, <1>i, <2>3, EndDoes, PlainDoes, CheckDoes, UnlinkedDoes, FinishDoes DEF Core
    <3>2. events' = events
      BY <1>1, <1>i, <2>3, EndDoes, PlainDoes, CheckDoes, UnlinkedDoes DEF Core
    <3> QED BY <1>t, <1>l, <1>s, <2>0, <3>1, <3>2
  <2> QED BY <2>1, <2>2, <2>3
<1>2. CASE Egress \/ Leave \/ Acknowledge \/ Linger
  <2>1. core' = core BY <1>2, EgressCore
  <2>2. \A i \in DOMAIN events' : Lost(events'[i]) =>
          \/ \E j \in DOMAIN events : events'[i] = events[j]
          \/ events'[i].last = eg.last
    BY <1>2, <1>i, EventsMove DEF Lost
  <2>3. eg'.last <= core.edge
    <3>1. CASE CutReset \/ Fail \/ Ending \/ TakeStart \/ StopUnconnected \/ ConnectOk \/ ConnectFails
                 \/ BackoffOver \/ Publish
      <4>1. eg'.last = 0 BY <1>i, <3>1, OverIs, EgressDoes, InIs DEF None
      <4> QED BY <1>t, <4>1
    <3>2. CASE BatchDone
      <4>1. CASE eg.batch = <<>> BY <1>i, <1>l, <3>2, <4>1, BatchDoes
      <4>2. CASE eg.batch # <<>>
        <5>1. eg'.last = Last(eg.batch) BY <1>i, <3>2, <4>2, BatchDoes
        <5>2. Len(eg.batch) \in Nat /\ DOMAIN eg.batch = 1 .. Len(eg.batch) BY <1>i, WireIs
        <5>3. (eg.batch = <<>>) = (Len(eg.batch) = 0) BY <1>i, EmptyIs
        <5>4. Len(eg.batch) \in DOMAIN eg.batch BY <4>2, <5>2, <5>3
        <5> QED BY <1>i, <5>1, <5>4 DEF Sending, Between, Last
      <4> QED BY <4>1, <4>2
    <3>3. CASE CutUnconnected \/ DropQueued \/ CutLive \/ StopLive
      BY <1>i, <1>l, <3>3, EgressDoes DEF Types, Egresses
    <3>4. CASE TakeBatch \/ Accept \/ Leave \/ Acknowledge \/ Linger BY <1>i, <1>l, <3>4, BatchDoes
    <3> QED BY <1>2, <3>1, <3>2, <3>3, <3>4 DEF Egress, Ending
  <2> QED BY <1>s, <1>t, <1>l, <2>1, <2>2, <2>3
<1>3. CASE UNCHANGED vars BY <1>3, <1>l DEF vars, Lasts
<1> QED BY <1>1, <1>2, <1>3 DEF Next

LEMMA ReadyNext == OutletInv /\ [Next]_vars => Ready'
<1> SUFFICES ASSUME OutletInv, [Next]_vars PROVE Ready' OBVIOUS
<1>i. /\ Types /\ Types' /\ Ready /\ Lasts /\ InTouch /\ NothingYet /\ CutsAnswered /\ Reported
      /\ Ranges
  BY TypesNext DEF OutletInv
<1>t. /\ core.edge \in Nat /\ core.first \in Nat /\ core.cursor \in Nat /\ core.base \in Nat /\ core.base > 0
      /\ core.base <= core.cursor /\ eg.last \in Nat
      /\ \A i \in DOMAIN events : Lost(events[i]) => events[i].last \in Nat
  <2>1. \A e \in Event : Lost(e) => e.last \in Nat BY DEF Event, Lost
  <2>2. \A i \in DOMAIN events : events[i] \in Event
    <3>1. events \in Seq(Event) BY <1>i DEF Types
    <3> QED BY ONLY <3>1
  <2>3. core \in Cores /\ eg \in Egresses BY <1>i DEF Types
  <2>4. /\ core.edge \in Nat /\ core.first \in Nat /\ core.cursor \in Nat /\ core.base \in Nat \ {0}
        /\ eg.last \in Nat
    BY <2>3 DEF Cores, Egresses
  <2>5. core.base <= core.cursor BY <1>i DEF Ranges
  <2> QED BY <2>1, <2>2, <2>4, <2>5
(* What is restarted is restarted all the same. *)
<1>r. ASSUME NEW last \in Nat, Restarts(last), core'.base = core.base,
             \/ core'.first = core.first /\ core'.cursor = core.cursor
             \/ core'.first = IF core.first = None THEN core.cursor ELSE core.first
      PROVE  Restarts(last)'
  BY <1>t, <1>r DEF Restarts, None
(* All that there is comes before what is handed over after the dump. *)
<1>f. ASSUME core'.base = core.edge + 1, core'.cursor = core.edge + 1, core'.first = core.first,
             eg' = eg, events' = events
      PROVE  Ready'
  <2>1. \A last \in Nat : last <= core.edge => Restarts(last)'
    <3>1. core.first <= core.edge BY <1>i DEF Lasts
    <3> QED BY <1>t, <1>f, <3>1 DEF Restarts
  <2> QED BY <1>i, <1>t, <1>f, <2>1 DEF Ready, Lasts
<1>s. ASSUME core'.base = core.base, core'.cursor = core.cursor, core'.first = core.first,
             core'.dump = "No" => core.dump = "No", Asking' => Asking, eg' = eg, events' = events
      PROVE  Ready'
  BY <1>i, <1>s DEF Ready, Restarts, Numbered, OnConnection, LossTold
<1>1. CASE Core
  <2>0. /\ RaiseCut \/ AskCut => core'.dump # "No"
        /\ ~RaiseCut /\ ~AskCut => core'.cut = core.cut /\ (Asking' <=> Asking)
    BY <1>1, <1>i, CoreDoes
  <2>1. CASE RaiseCut \/ AskCut BY <2>0, <2>1 DEF Ready
  <2>2. CASE Emit
    <3>1. /\ core.up /\ core.dump = "No" /\ core'.base = core.base /\ eg' = eg /\ events' = events
          /\ core'.first = IF core.first = None THEN core.cursor ELSE core.first
      BY <1>i, <2>2, EmitDoes
    <3>2. (Asking' <=> Asking)
      <4>1. core'.dump = core.dump BY <1>i, <2>2, EmitDoes
      <4> QED BY <2>0, <3>1, <4>1
    <3>3. Numbered \/ LossTold BY <1>i, <3>1 DEF Reported
    <3>4. SUFFICES ASSUME Asking
                   PROVE  /\ \A i \in DOMAIN events : Lost(events[i]) => Restarts(events[i].last)'
                          /\ Numbered => Restarts(eg.last)'
      BY <3>1, <3>2, <3>3 DEF Ready, Restarts, Numbered, OnConnection, LossTold
    <3> QED BY <1>i, <1>t, <1>r, <3>1, <3>4 DEF Ready
  <2>3. CASE EndNow \/ EndAtMark BY <1>i, <1>f, <2>3, EndDoes
  <2>4. CASE CheckDump \/ DumpUnlinked BY <1>i, <1>f, <2>4, CheckDoes, UnlinkedDoes, FinishDoes
  <2>5. CASE StartEgress \/ StopEgress \/ EndAfterAir
    <3>1. /\ core'.base = core.base /\ core'.cursor = core.cursor /\ core'.first = core.first
          /\ core'.dump = core.dump /\ eg' = eg /\ events' = events
      BY <1>i, <2>5, PlainDoes
    <3>2. CASE ~RaiseCut /\ ~AskCut BY <1>s, <2>0, <3>1, <3>2
    <3> QED BY <2>1, <3>2
  <2>6. CASE HandleEvent
    <3>1. /\ Len(events) \in Nat /\ DOMAIN events = 1 .. Len(events) /\ DOMAIN events' = 1 .. Len(events) - 1
          /\ 1 \in DOMAIN events /\ \A i \in DOMAIN events' : events'[i] = events[i + 1] /\ i + 1 \in DOMAIN events
          /\ Len(events') = Len(events) - 1
      BY <1>i, <2>6, EventsTail
    <3>2. CASE HandleCutDone(events[1])
      <4>1. eg' = eg /\ ~Lost(events[1]) /\ IsAnswer(events[1]) BY <1>i, <3>2, CutDoneDoes DEF Lost, IsAnswer
      <4>2. CASE Answers(events[1]) /\ FinishDump
        <5>1. ~Asking BY <1>i, <3>1, <4>1, <4>2 DEF CutsAnswered, Answers
        <5>2. core'.dump = "No" /\ core.dump = "Asked" BY <1>i, <4>2, FinishDoes DEF Answers
        <5>3. core'.cut = core.cut /\ ctl' = ctl BY <1>i, <2>6, <4>2, FinishDoes, HandleDoes
        <5>4. ~Asking' BY <5>1, <5>3 DEF Asking
        <5> QED BY <5>4 DEF Ready
      <4>3. CASE core' = core
        <5>1. LossTold => LossTold'
          <6>1. SUFFICES ASSUME LossTold PROVE LossTold' OBVIOUS
          <6>2. PICK i \in DOMAIN events : Lost(events[i]) BY <6>1 DEF LossTold
          <6>3. i - 1 \in DOMAIN events' /\ i = (i - 1) + 1 BY <3>1, <4>1, <6>2
          <6>4. events'[i - 1] = events[i] BY <3>1, <6>3
          <6> QED BY <6>2, <6>3, <6>4 DEF LossTold
        <5>2. Asking' = Asking
          <6>1. ctl' = ctl BY <1>i, <2>6, HandleDoes
          <6> QED BY <4>3, <6>1 DEF Asking
        <5> QED BY <1>i, <3>1, <4>1, <4>3, <5>1, <5>2 DEF Ready, Restarts, Numbered, OnConnection
      <4> QED BY <1>i, <3>2, <4>2, <4>3, CutDoneDoes
    <3>3. CASE HandleConnected(events[1])
      <4>1. /\ core'.cursor \in {core.cursor, core.cursor - 1} /\ core'.cursor >= core.base
            /\ core'.first = None /\ core'.base = core.base /\ core'.dump = core.dump /\ core'.cut = core.cut
            /\ events[1].kind = "Connected" /\ eg' = [eg EXCEPT !.reply = core.gen + 1]
        BY <1>i, <3>3, ConnectedDoes
      <4>2. eg.phase = "Waiting" /\ eg.reply = None /\ Len(events) = 1 BY <1>i, <3>1, <4>1 DEF InTouch
      <4>3. DOMAIN events' = {} /\ DOMAIN events = {1} BY <3>1, <4>2
      <4>4. ~Numbered /\ ~LossTold BY <4>1, <4>2, <4>3 DEF Numbered, OnConnection, LossTold, Lost
      <4>10. core.gen \in Nat BY <1>i DEF Types, Cores
      <4>5. core.gen + 1 # None BY <4>10 DEF None
      <4>6. eg'.phase = "Waiting" /\ eg'.reply # None /\ eg'.last = 0
        BY <1>i, <4>1, <4>2, <4>5 DEF Types, Egresses, NothingYet, OnConnection, None
      <4>7. Asking' = Asking
        <5>1. ctl' = ctl BY <1>i, <2>6, HandleDoes
        <5> QED BY <4>1, <5>1 DEF Asking
      <4>8. Numbered' BY <4>6 DEF Numbered
      <4>9. core.dump = "No" /\ Asking => Restarts(0)'
        <5>1. core.dump = "No" /\ Asking => core.cursor = core.base BY <1>i, <4>4 DEF Ready
        <5> QED BY <1>t, <4>1, <5>1 DEF Restarts, None
      <4> QED BY <4>1, <4>3, <4>6, <4>7, <4>8, <4>9 DEF Ready
    <3>4. CASE HandleDisconnected(events[1])
      <4>1. /\ core'.cursor = Greater(core.base, Lesser(core.cursor, Resume(events[1].last)))
            /\ core'.first = core.first /\ core'.base = core.base /\ core'.dump = core.dump /\ core'.cut = core.cut
            /\ Lost(events[1]) /\ eg' = eg
        BY <1>i, <3>4, DisconnectedDoes DEF Lost
      <4>2. Asking' = Asking
        <5>1. ctl' = ctl BY <1>i, <2>6, HandleDoes
        <5> QED BY <4>1, <5>1 DEF Asking
      <4>3. ~Numbered'
        <5>1. ~Numbered BY <1>i, <3>1, <4>1 DEF InTouch, Lost, IsAnswer
        <5> QED BY <4>1, <5>1 DEF Numbered, OnConnection
      <4>4. SUFFICES ASSUME core.dump = "No", Asking
                     PROVE  /\ \A i \in DOMAIN events' : Lost(events'[i]) => Restarts(events[i].last)'
                            /\ core'.cursor = core.base
        BY <4>1, <4>2, <4>3 DEF Ready
      <4>5. \A i \in DOMAIN events : Lost(events[i]) => Restarts(events[i].last) BY <1>i, <4>4 DEF Ready
      <4>6. core'.cursor = core.base
        <5>1. Restarts(events[1].last) /\ events[1].last \in Nat BY <1>t, <3>1, <4>1, <4>5
        <5>2. Resume(events[1].last) \in Nat /\ Resume(events[1].last) <= core.base
          BY <1>t, <5>1 DEF Restarts, Resume, None
        <5> QED BY <1>t, <4>1, <5>2 DEF Greater, Lesser
      <4>7. \A last \in Nat : Restarts(last) => Restarts(last)'
        BY <1>t, <4>1, <4>6 DEF Restarts
      <4> QED BY <1>t, <3>1, <4>5, <4>6, <4>7
    <3> QED BY <1>i, <2>6, <3>2, <3>3, <3>4, HandleDoes
  <2> QED BY <1>1, <2>1, <2>2, <2>3, <2>4, <2>5, <2>6 DEF Core
<1>2. CASE Egress \/ Leave \/ Acknowledge \/ Linger
  <2>1. /\ core' = core /\ (Asking' => Asking) /\ (Numbered' => Numbered)
        /\ Numbered /\ ~Numbered' => CutReset \/ Fail \/ Ending
    BY <1>2, <1>i, EgressCore, Turns
  <2>2. SUFFICES ASSUME core.dump = "No", Asking'
                 PROVE  /\ \A i \in DOMAIN events' : Lost(events'[i]) => Restarts(events'[i].last)
                        /\ Numbered' => Restarts(eg'.last)
                        /\ ~Numbered' /\ ~LossTold' => core.cursor = core.base
    BY <2>1 DEF Ready, Restarts
  <2>3. /\ \A i \in DOMAIN events : Lost(events[i]) => Restarts(events[i].last)
        /\ Numbered => Restarts(eg.last)
        /\ ~Numbered /\ ~LossTold => core.cursor = core.base
    BY <1>i, <2>1, <2>2 DEF Ready
  <2>4. /\ \A i \in DOMAIN events : i \in DOMAIN events' /\ events'[i] = events[i]
        /\ \A i \in DOMAIN events' : i \notin DOMAIN events /\ Lost(events'[i]) =>
             events'[i].last = eg.last /\ (CutReset \/ Fail \/ Ending)
    BY <1>2, <1>i, EventsMove DEF Lost
  <2>5. CutReset \/ Fail \/ Ending => Numbered BY <1>i, OverIs DEF Numbered, OnConnection
  <2>6. \A i \in DOMAIN events' : Lost(events'[i]) => Restarts(events'[i].last) BY <2>3, <2>4, <2>5
  <2>7. LossTold => LossTold' BY <2>4 DEF LossTold
  <2>8. ctl # <<>>
    <3>1. ctl = <<>> => ~Asking BY DEF Asking
    <3> QED BY <2>1, <2>2, <3>1
  <2>9. Numbered' => eg'.last = eg.last
    <3>1. SUFFICES ASSUME Numbered' PROVE eg'.last = eg.last OBVIOUS
    <3>2. CASE Publish
      <4>1. eg'.last = None /\ ~OnConnection BY <1>i, <3>2, EgressDoes DEF OnConnection
      <4> QED BY <1>i, <4>1 DEF NothingYet
    <3>3. CASE ~Publish
      <4>1. ~BatchDone BY <1>i, <2>8, BatchDoes
      <4>2. ~CutReset /\ ~Fail /\ ~Ending BY <1>i, <3>1, OverIs DEF Numbered, OnConnection
      <4>3. ~TakeStart /\ ~StopUnconnected /\ ~ConnectOk /\ ~ConnectFails /\ ~BackoffOver
        BY <1>i, <3>1, EgressDoes, InIs DEF Numbered, OnConnection
      <4>4. CASE TakeBatch \/ Accept \/ Leave \/ Acknowledge \/ Linger BY <1>i, <4>4, BatchDoes
      <4>5. CASE CutUnconnected \/ DropQueued \/ CutLive \/ StopLive
        BY <1>i, <4>5, EgressDoes DEF Types, Egresses
      <4> QED BY <1>2, <3>3, <4>1, <4>2, <4>3, <4>4, <4>5 DEF Egress, Ending
    <3> QED BY <3>2, <3>3
  <2>10. ~Numbered' /\ ~LossTold' => core.cursor = core.base
    <3>1. SUFFICES ASSUME ~Numbered', ~LossTold' PROVE core.cursor = core.base OBVIOUS
    <3>2. CASE ~Numbered BY <2>3, <2>7, <3>1, <3>2
    <3>3. CASE Numbered
      <4>1. CutReset \/ Fail \/ Ending BY <2>1, <3>1, <3>3
      <4>2. LossTold'
        <5>1. \E d : events' = events \o <<d, Disconnected(eg.last)>> \/ events' = events \o <<Disconnected(eg.last)>>
          BY <1>i, <4>1, OverDoes DEF Over
        <5> QED BY <1>i, <5>1, LossIsTold
      <4> QED BY <3>1, <4>2
    <3> QED BY <3>2, <3>3
  <2> QED BY <2>1, <2>3, <2>6, <2>9, <2>10
<1>3. CASE UNCHANGED vars
  <2>1. Asking' = Asking BY <1>3 DEF vars, Asking
  <2> QED BY <1>s, <1>3, <2>1 DEF vars
<1> QED BY <1>1, <1>2, <1>3 DEF Next

-----------------------------------------------------------------------------
(* What comes next, after a step. *)
ComesThen(n) ==
  \E k \in 1 .. Len(media') + 1 :
    /\ \A i \in DOMAIN media' : (media'[i][1] = core'.gen /\ media'[i][2] = core'.cut) <=> i >= k
    /\ core'.cursor = n + (Len(media') + 1 - k)

LEMMA ComesSame ==
  ASSUME media' = media, core'.gen = core.gen, core'.cut = core.cut, core'.cursor = core.cursor, NEW n, Comes(n)
  PROVE  ComesThen(n)
BY DEF Comes, ComesThen, FromHere, Here

LEMMA ComesMore ==
  ASSUME Types, Types', Emit, NEW n \in Nat, Comes(n)
  PROVE  ComesThen(n)
<1>1. /\ core'.gen = core.gen /\ core'.cut = core.cut /\ core'.cursor = core.cursor + 1
      /\ Len(media') = Len(media) + 1
      /\ \A i \in 1 .. Len(media) : media'[i] = media[i]
      /\ media'[Len(media) + 1] = <<core.gen, core.cut, core.cursor>>
  BY EmitDoes
<1>2. Len(media) \in Nat /\ DOMAIN media = 1 .. Len(media) BY MediaIs
<1>3. DOMAIN media' = 1 .. Len(media) + 1 BY <1>1 DEF Types
<1>4. PICK k \in 1 .. Len(media) + 1 : FromHere(k) /\ core.cursor = n + (Len(media) + 1 - k) BY DEF Comes
<1>5. core'.cursor = n + (Len(media') + 1 - k) /\ k \in 1 .. Len(media') + 1
  <2>1. core.cursor \in Nat BY WireIs
  <2> QED BY <1>1, <1>2, <1>4, <2>1
<1>6. ASSUME NEW i \in DOMAIN media'
      PROVE  (media'[i][1] = core'.gen /\ media'[i][2] = core'.cut) <=> i >= k
  <2>1. CASE i \in 1 .. Len(media)
    <3>1. i \in DOMAIN media /\ media'[i] = media[i] BY <1>1, <1>2, <2>1
    <3> QED BY <1>1, <1>4, <3>1 DEF FromHere, Here
  <2>2. CASE i = Len(media) + 1
    <3>1. media'[i][1] = core'.gen /\ media'[i][2] = core'.cut BY <1>1, <2>2
    <3>2. i >= k BY <1>2, <2>2
    <3> QED BY <3>1, <3>2
  <2> QED BY <1>2, <1>3, <2>1, <2>2
<1> QED BY <1>5, <1>6 DEF ComesThen

LEMMA ComesLess ==
  ASSUME Types, Types', core' = core, NEW d \in 0 .. Len(media), Dropped(d),
         NEW k \in 1 .. Len(media) + 1, FromHere(k), k > d, NEW n \in Nat, Comes(n)
  PROVE  ComesThen(n)
<1>1. core.cursor = n + (Len(media) + 1 - k) BY ComesIs
<1>2. Len(media) \in Nat /\ DOMAIN media = 1 .. Len(media) BY MediaIs
<1>3. DOMAIN media' = 1 .. Len(media) - d /\ Len(media') = Len(media) - d
      /\ \A i \in 1 .. Len(media) - d : media'[i] = media[i + d] /\ i + d \in DOMAIN media
  BY DroppedIs
<1>4. k - d \in 1 .. Len(media') + 1 /\ core'.cursor = n + (Len(media') + 1 - (k - d)) BY <1>1, <1>2, <1>3
<1>5. ASSUME NEW i \in DOMAIN media'
      PROVE  (media'[i][1] = core'.gen /\ media'[i][2] = core'.cut) <=> i >= k - d
  <2>1. media'[i] = media[i + d] /\ i + d \in DOMAIN media BY <1>3
  <2>2. Here(media[i + d]) <=> i + d >= k BY <2>1 DEF FromHere
  <2>3. (i + d >= k) <=> (i >= k - d) BY <1>3
  <2> QED BY <2>1, <2>2, <2>3 DEF Here
<1> QED BY <1>4, <1>5 DEF ComesThen

LEMMA ComesFresh ==
  ASSUME Types, Types', media' = media,
         \A i \in DOMAIN media : ~(media[i][1] = core'.gen /\ media[i][2] = core'.cut)
  PROVE  ComesThen(core'.cursor)
<1>1. Len(media) \in Nat /\ DOMAIN media = 1 .. Len(media) BY MediaIs
<1>2. core'.cursor \in Nat BY DEF Types, Cores
<1> DEFINE k == Len(media) + 1
<1>3. k \in 1 .. Len(media') + 1 /\ core'.cursor = core'.cursor + (Len(media') + 1 - k) BY <1>1, <1>2
<1>4. \A i \in DOMAIN media' : ~(i >= k) BY <1>1
<1> HIDE DEF k
<1> QED BY <1>3, <1>4 DEF ComesThen

LEMMA NextUpNext == OutletInv /\ [Next]_vars => NextUp'
<1> SUFFICES ASSUME OutletInv, [Next]_vars, Going', core'.dump = "No"
             PROVE  IF Asking' THEN Jumps' ELSE Follows'
  BY DEF NextUp
<1>i. /\ Types /\ Types' /\ Ranges /\ Queued /\ LastHere /\ CutsAsked /\ CutsAnswered /\ InTouch
      /\ NothingYet /\ Agreed /\ Sending /\ Emptied /\ Queue /\ NextUp /\ Ready
  BY TypesNext DEF OutletInv
<1>t. /\ Len(os.wire) \in Nat /\ DOMAIN os.wire = 1 .. Len(os.wire)
      /\ \A i \in DOMAIN os.wire : os.wire[i] \in Nat
      /\ Len(eg.batch) \in Nat /\ DOMAIN eg.batch = 1 .. Len(eg.batch)
      /\ \A i \in DOMAIN eg.batch : eg.batch[i] \in Nat
      /\ eg.put \in Nat /\ hist.tail \in Nat /\ hist.back \in Nat /\ core.edge \in Nat
      /\ core.base \in Nat /\ core.base > 0 /\ core.cursor \in Nat /\ core.cursor > 0
  BY <1>i, WireIs
<1>z. (os.wire = <<>>) = (Len(os.wire) = 0) /\ (eg.batch = <<>>) = (Len(eg.batch) = 0)
  BY <1>i, EmptyIs
<1>g. eg'.phase \in {"Live", "Writing"} \/ (eg'.phase = "Waiting" /\ eg'.reply # None)
  BY DEF Going, Numbered, OnConnection
<1>j. ASSUME ComesThen(core'.base), eg'.phase # "Waiting" => hist'.tail < core'.base,
             \A i \in DOMAIN os'.wire : os'.wire[i] < core'.base,
             \A i \in DOMAIN eg'.batch : eg'.batch[i] < core'.base
      PROVE  Jumps'
  BY <1>j DEF Jumps, AllBelow, Comes, ComesThen, FromHere, Here
<1>f. ASSUME eg'.batch # <<>> => ComesThen(eg'.batch[1] + Len(eg'.batch)),
             eg'.batch = <<>> /\ os'.wire # <<>> => ComesThen(os'.wire[1] + Len(os'.wire)),
             eg'.batch = <<>> /\ os'.wire = <<>> /\ hist'.tail # 0 /\ eg'.phase # "Waiting" =>
               ComesThen(1 + Greater(hist'.tail, hist'.back))
      PROVE  Follows'
  BY <1>f DEF Follows, After, Comes, ComesThen, FromHere, Here
<1>a. After(hist.tail) = 1 + Greater(hist.tail, hist.back) /\ After(hist.tail) \in Nat
  BY <1>i, FirstIs
<1>b. /\ eg.batch # <<>> => eg.batch[1] \in Nat /\ 1 \in DOMAIN eg.batch /\ eg.batch[1] + Len(eg.batch) \in Nat
      /\ os.wire # <<>> => os.wire[1] \in Nat /\ 1 \in DOMAIN os.wire /\ os.wire[1] + Len(os.wire) \in Nat
  BY <1>i, FirstIs
<1>u. ASSUME Going, core.dump = "No"
      PROVE  /\ Asking => /\ Comes(core.base) /\ (eg.phase # "Waiting" => hist.tail < core.base)
                          /\ \A i \in DOMAIN os.wire : os.wire[i] < core.base
                          /\ \A i \in DOMAIN eg.batch : eg.batch[i] < core.base
             /\ ~Asking => /\ eg.batch # <<>> => Comes(eg.batch[1] + Len(eg.batch))
                           /\ eg.batch = <<>> /\ os.wire # <<>> => Comes(os.wire[1] + Len(os.wire))
                           /\ eg.batch = <<>> /\ os.wire = <<>> /\ hist.tail # 0 /\ eg.phase # "Waiting" =>
                                Comes(After(hist.tail))
  BY <1>u, <1>i DEF NextUp, Jumps, Follows, AllBelow
(* The queue, the wire and the batch stay, and what comes next. *)
<1>s. ASSUME Going, core.dump = "No", Asking' <=> Asking, \A n \in Nat : Comes(n) => ComesThen(n),
             core'.base = core.base, os'.wire = os.wire, eg'.batch = eg.batch, eg'.phase = eg.phase,
             hist'.tail = hist.tail, hist'.back = hist.back
      PROVE  IF Asking' THEN Jumps' ELSE Follows'
  <2>1. ASSUME Asking PROVE Jumps'
    <3>1. Comes(core.base) BY <1>u, <1>s, <2>1
    <3>2. ComesThen(core'.base) BY <1>t, <1>s, <3>1
    <3> QED BY <1>u, <1>s, <1>j, <2>1, <3>2
  <2>2. ASSUME ~Asking PROVE Follows'
    <3>1. eg.batch # <<>> => ComesThen(eg.batch[1] + Len(eg.batch)) BY <1>u, <1>s, <1>b, <2>2
    <3>2. eg.batch = <<>> /\ os.wire # <<>> => ComesThen(os.wire[1] + Len(os.wire)) BY <1>u, <1>s, <1>b, <2>2
    <3>3. eg.batch = <<>> /\ os.wire = <<>> /\ hist.tail # 0 /\ eg.phase # "Waiting" =>
            ComesThen(1 + Greater(hist.tail, hist.back))
      BY <1>u, <1>s, <1>a, <2>2
    <3> QED BY <1>s, <1>f, <3>1, <3>2, <3>3
  <2> QED BY <1>s, <2>1, <2>2
<1>k. ASSUME media' = media, core'.gen = core.gen, core'.cut = core.cut, core'.cursor = core.cursor
      PROVE  \A n \in Nat : Comes(n) => ComesThen(n)
  BY <1>k, ComesSame
(* A dump is over: nothing of what is queued is wanted. *)
<1>d. ASSUME core.dump = "Asked", FinishDump, media' = media, os' = os, eg'.batch = eg.batch,
             hist'.tail = hist.tail, Asking' <=> Asking, ~Asking => hist'.back = core'.base - 1
      PROVE  IF Asking' THEN Jumps' ELSE Follows'
  <2>1. /\ core'.base = core.edge + 1 /\ core'.cursor = core.edge + 1
        /\ core'.gen = core.gen /\ core'.cut = core.cut
    BY <1>d, <1>i, FinishDoes
  <2>2. \A i \in DOMAIN media : media[i][2] < core.cut BY <1>d, <1>i DEF Queued
  <2>3. core.cut \in Nat /\ \A i \in DOMAIN media : media[i][2] \in Nat BY <1>i, MediaIs, CtlIs
  <2>4. \A i \in DOMAIN media : ~(media[i][1] = core'.gen /\ media[i][2] = core'.cut) BY <2>1, <2>2, <2>3
  <2>5. ComesThen(core'.cursor) BY <1>i, <1>d, <2>4, ComesFresh
  <2>6. hist.tail <= core.edge BY <1>i DEF Ranges
  <2>7. ASSUME Asking PROVE Jumps'
    <3>1. \A i \in DOMAIN os.wire : os.wire[i] < core.edge + 1
      <4>1. \A i \in DOMAIN os.wire : os.wire[i] <= core.edge BY <1>i DEF Sending, Between
      <4> QED BY <1>t, <4>1, SMTT(30)
    <3>2. \A i \in DOMAIN eg.batch : eg.batch[i] < core.edge + 1
      <4>1. \A i \in DOMAIN eg.batch : eg.batch[i] <= core.edge BY <1>i DEF Sending, Between
      <4> QED BY <1>t, <4>1, SMTT(30)
    <3>3. hist'.tail < core'.base BY <1>d, <1>t, <2>1, <2>6
    <3>4. ComesThen(core'.base) BY <2>1, <2>5
    <3> QED BY <1>d, <1>j, <2>1, <3>1, <3>2, <3>3, <3>4
  <2>8. ASSUME ~Asking PROVE Follows'
    <3>1. os.wire = <<>> /\ eg.batch = <<>> BY <1>d, <1>i, <2>8 DEF Emptied
    <3>2. 1 + Greater(hist'.tail, hist'.back) = core'.cursor
      <4>1. hist'.back = core.edge /\ hist'.tail <= core.edge BY <1>d, <1>t, <2>1, <2>6, <2>8
      <4> QED BY <1>d, <1>t, <2>1, <4>1 DEF Greater
    <3>3. ComesThen(1 + Greater(hist'.tail, hist'.back)) BY <2>5, <3>2
    <3> QED BY <1>d, <1>f, <3>1, <3>3
  <2> QED BY <1>d, <2>7, <2>8
<1>1. CASE Core
  <2>0. /\ ToldToEnd => ToldToEnd'
        /\ EndNow \/ EndAtMark \/ StopEgress => ToldToEnd'
        /\ RaiseCut \/ AskCut => core'.dump # "No"
        /\ ~RaiseCut /\ ~AskCut => core'.cut = core.cut /\ (Asking' <=> Asking)
        /\ os' = os /\ hist'.tail = hist.tail /\ eg'.phase = eg.phase /\ eg'.batch = eg.batch
    BY <1>1, <1>i, CoreDoes
  <2>1. ~RaiseCut /\ ~AskCut /\ ~EndNow /\ ~EndAtMark /\ ~StopEgress /\ (Asking' <=> Asking)
    BY <2>0 DEF Going
  <2>2. eg' = eg => Going BY <2>0 DEF Going, Numbered, OnConnection
  <2>3. CASE Emit
    <3>1. core.dump = "No" /\ core'.base = core.base /\ hist' = hist /\ eg' = eg BY <1>i, <2>3, EmitDoes
    <3>2. \A n \in Nat : Comes(n) => ComesThen(n) BY <1>i, <2>3, ComesMore
    <3> QED BY <1>s, <2>0, <2>1, <2>2, <3>1, <3>2
  <2>4. CASE StartEgress \/ EndAfterAir
    <3>1. /\ core'.base = core.base /\ core'.cursor = core.cursor /\ core'.gen = core.gen
          /\ core'.cut = core.cut /\ core'.dump = core.dump /\ UNCHANGED <<media, events, eg, os, hist>>
      BY <1>i, <2>4, PlainDoes
    <3> QED BY <1>s, <1>k, <2>0, <2>1, <2>2, <3>1
  <2>5. CASE CheckDump
    <3>1. /\ core.dump = "Asked" /\ FinishDump /\ media' = media
          /\ ~Asking => hist' = [hist EXCEPT !.back = core'.base - 1]
      BY <1>i, <2>5, CheckDoes
    <3>2. ~Asking => hist'.back = core'.base - 1 BY <1>i, <3>1, BackDoes
    <3> QED BY <1>d, <2>0, <2>1, <3>1, <3>2
  <2>6. CASE DumpUnlinked
    <3>1. ~core.on /\ eg' = eg BY <1>i, <2>6, UnlinkedDoes
    <3>2. Going BY <2>2, <3>1
    <3>3. eg.phase \notin {"Idle", "Closing"} /\ ~ToldToEnd BY <3>2 DEF Going, Numbered, OnConnection
    <3> QED BY <1>i, <3>1, <3>3 DEF Agreed
  <2>7. CASE HandleEvent
    <3>0. media' = media /\ 1 \in DOMAIN events BY <1>i, <2>7, HandleDoes, EventsTail
    <3>1. CASE HandleCutDone(events[1])
      <4>1. CASE core' = core /\ hist' = hist
        <5>1. eg' = eg BY <1>i, <3>1, CutDoneDoes
        <5> QED BY <1>s, <1>k, <2>0, <2>1, <2>2, <3>0, <4>1, <5>1
      <4>2. CASE Answers(events[1]) /\ FinishDump /\ hist' = [hist EXCEPT !.back = core'.base - 1]
        <5>1. hist'.back = core'.base - 1 BY <1>i, <4>2, BackDoes
        <5>2. core.dump = "Asked" BY <4>2 DEF Answers
        <5> QED BY <1>d, <2>0, <2>1, <3>0, <4>2, <5>1, <5>2
      <4> QED BY <1>i, <3>1, <4>1, <4>2, CutDoneDoes
    <3>2. CASE HandleConnected(events[1])
      <4>1. /\ core'.cursor \in {core.cursor, core.cursor - 1} /\ core'.cursor >= core.base
            /\ core'.gen = core.gen + 1 /\ core'.base = core.base /\ core'.dump = core.dump
            /\ events[1].kind = "Connected"
        BY <1>i, <3>2, ConnectedDoes
      <4>2. eg.phase = "Waiting" /\ eg.reply = None /\ Len(events) = 1 BY <1>i, <3>0, <4>1 DEF InTouch
      <4>3. ~Numbered /\ ~LossTold
        <5>1. DOMAIN events = {1} BY <1>i, <2>7, <4>2, EventsTail
        <5> QED BY <4>1, <4>2, <5>1 DEF Numbered, OnConnection, LossTold, Lost
      <4>4. os.wire = <<>> /\ eg.batch = <<>> BY <1>i, <4>2 DEF NothingYet, OnConnection
      <4>5. core.gen \in Nat BY <1>i DEF Types, Cores
      <4>6. \A i \in DOMAIN media : media[i][1] \in Nat /\ media[i][1] <= core.gen
        BY <1>i, MediaIs DEF Queued
      <4>7. \A i \in DOMAIN media : ~(media[i][1] = core'.gen /\ media[i][2] = core'.cut)
        BY <4>1, <4>5, <4>6
      <4>8. ComesThen(core'.cursor) BY <1>i, <3>0, <4>7, ComesFresh
      <4>9. Asking => core'.cursor = core'.base
        <5>1. Asking => core.cursor = core.base BY <1>i, <4>1, <4>3 DEF Ready
        <5> QED BY <1>t, <4>1, <5>1
      <4>10. eg'.batch = <<>> /\ os'.wire = <<>> /\ eg'.phase = "Waiting" BY <2>0, <4>2, <4>4
      <4>11. Asking => Jumps' BY <1>j, <4>8, <4>9, <4>10
      <4>12. Follows' BY <1>f, <4>10
      <4> QED BY <2>1, <4>11, <4>12
    <3>3. CASE HandleDisconnected(events[1])
      <4>1. events[1].kind = "Disconnected" /\ eg' = eg BY <1>i, <3>3, DisconnectedDoes
      <4>2. ~Numbered BY <1>i, <3>0, <4>1 DEF InTouch, IsAnswer
      <4> QED BY <2>2, <4>1, <4>2 DEF Going
    <3> QED BY <1>i, <2>7, <3>1, <3>2, <3>3, HandleDoes
  <2> QED BY <1>1, <2>1, <2>3, <2>4, <2>5, <2>6, <2>7 DEF Core
<1>2. CASE Egress \/ Leave \/ Acknowledge \/ Linger
  <2>0. core' = core /\ Going /\ core.dump = "No" /\ (Asking' => Asking)
    BY <1>2, <1>i, Turns, EgressCore
  <2>k. ASSUME media' = media PROVE \A n \in Nat : Comes(n) => ComesThen(n) BY <1>k, <2>0, <2>k
  <2>c. ctl' = ctl => (Asking' <=> Asking) BY <2>0 DEF Asking
  <2>n. ctl = <<>> => ~Asking /\ ~Asking' BY <2>0 DEF Asking
  <2>1. CASE Publish
    <3>1. /\ eg.phase = "Waiting" /\ eg'.batch = <<>> /\ hist'.tail = 0
          /\ UNCHANGED <<ctl, media, os>>
      BY <1>i, <2>1, EgressDoes
    <3>2. os.wire = <<>> BY <1>i, <3>1 DEF NothingYet, OnConnection
    <3>3. Follows' BY <1>f, <3>1, <3>2
    <3>4. ASSUME Asking PROVE Jumps'
      <4>1. ComesThen(core'.base) BY <1>t, <1>u, <2>0, <2>k, <3>1, <3>4
      <4> QED BY <1>j, <1>t, <2>0, <3>1, <3>2, <4>1
    <3> QED BY <2>0, <3>3, <3>4
  <2>2. CASE TakeBatch
    <3>0. /\ eg.phase = "Live" /\ ctl = <<>> /\ os' = os /\ hist' = hist
      BY <1>i, <2>2, BatchDoes
    <3>1. PICK n \in 1 .. Len(media), k \in 1 .. Len(media) + 1 :
            /\ FromHere(k) /\ Dropped(n)
            /\ k > n => eg'.batch = <<>>
            /\ k <= n => /\ core.dump = "No" /\ Going /\ ~Asking
                         /\ Len(eg'.batch) = n + 1 - k /\ DOMAIN eg'.batch = 1 .. n + 1 - k
                         /\ \A i \in 1 .. n + 1 - k : eg'.batch[i] = media[k + i - 1][3]
                         /\ \A i \in k .. Len(media) : Here(media[i])
      BY <2>2, TakeDoes
    <3>m. Len(media) \in Nat /\ DOMAIN media = 1 .. Len(media) /\ \A i \in DOMAIN media : media[i][3] \in Nat
      BY <1>i, MediaIs
    <3>2. n \in 0 .. Len(media) BY <3>m
    <3>3. eg.batch = <<>> BY <1>i, <3>0 DEF NothingYet
    <3>4. CASE k > n
      <4>1. \A x \in Nat : Comes(x) => ComesThen(x) BY <1>i, <2>0, <3>1, <3>2, <3>4, ComesLess
      <4>2. os.wire # <<>> => ComesThen(os.wire[1] + Len(os.wire)) BY <1>u, <1>b, <2>0, <2>n, <3>0, <3>3, <4>1
      <4>3. os.wire = <<>> /\ hist.tail # 0 => ComesThen(1 + Greater(hist.tail, hist.back))
        <5>1. eg.phase # "Waiting" BY <3>0
        <5> QED BY <1>u, <1>a, <2>0, <2>n, <3>0, <3>3, <4>1, <5>1
      <4>4. eg'.batch = <<>> BY <3>1, <3>4
      <4>5. Follows' BY <1>f, <3>0, <4>2, <4>3, <4>4
      <4> QED BY <2>n, <3>0, <4>5
    <3>5. CASE k <= n
      <4>1. /\ Len(eg'.batch) = n + 1 - k
            /\ \A i \in 1 .. n + 1 - k : eg'.batch[i] = media[k + i - 1][3]
            /\ \A i \in k .. Len(media) : Here(media[i])
        BY <3>1, <3>5
      <4>2. eg'.batch[1] = media[k][3] /\ k \in DOMAIN media
        <5>1. 1 \in 1 .. n + 1 - k /\ k + 1 - 1 = k /\ k \in DOMAIN media BY <3>m, <3>5
        <5> QED BY <4>1, <5>1
      <4>3. core.cursor = media[k][3] + (Len(media) - k) + 1
        <5>2. k \in k .. Len(media) BY <3>m, <3>5
        <5>1. Here(media[k]) BY <4>1, <5>2
        <5> QED BY <1>i, <2>0, <4>2, <5>1 DEF Queue
      <4>4. DOMAIN media' = 1 .. Len(media) - n /\ Len(media') = Len(media) - n
            /\ \A i \in 1 .. Len(media) - n : media'[i] = media[i + n] /\ i + n \in DOMAIN media
        BY <1>i, <3>1, <3>2, DroppedIs
      <4>5. \A i \in DOMAIN media' : media'[i][1] = core'.gen /\ media'[i][2] = core'.cut
        <5>1. \A i \in 1 .. Len(media) - n : i + n \in k .. Len(media) BY <3>m, <3>5
        <5> QED BY <2>0, <4>1, <4>4, <5>1, SMTT(30) DEF Here
      <4>6. core'.cursor = (media[k][3] + (n + 1 - k)) + (Len(media') + 1 - 1)
        BY <2>0, <3>m, <4>2, <4>3, <4>4
      <4>7. 1 \in 1 .. Len(media') + 1 /\ \A i \in DOMAIN media' : i >= 1 BY <3>m, <4>4
      <4>8. ComesThen(media[k][3] + (n + 1 - k)) BY <4>5, <4>6, <4>7 DEF ComesThen
      <4>9. ComesThen(eg'.batch[1] + Len(eg'.batch)) BY <4>1, <4>2, <4>8
      <4>10. eg'.batch # <<>>
        <5>1. Len(eg'.batch) # 0 BY <3>5, <4>1
        <5> QED BY <1>i, <5>1, EmptyIs DEF Types, Egresses
      <4>11. Follows' BY <1>f, <4>9, <4>10
      <4> QED BY <2>n, <3>0, <4>11
    <3> QED BY <3>4, <3>5
  <2>3. CASE Accept
    <3>1. /\ ctl = <<>> /\ eg'.batch = eg.batch /\ eg.put < Len(eg.batch) /\ media' = media
      BY <1>i, <2>3, BatchDoes
    <3>2. eg.batch # <<>> BY <1>t, <1>z, <3>1
    <3>3. ComesThen(eg.batch[1] + Len(eg.batch)) BY <1>u, <1>b, <2>0, <2>k, <2>n, <3>1, <3>2
    <3>4. Follows' BY <1>f, <3>1, <3>2, <3>3
    <3> QED BY <2>n, <3>1, <3>4
  <2>4. CASE BatchDone
    <3>1. /\ ctl = <<>> /\ eg'.batch = <<>> /\ eg.put = Len(eg.batch) /\ media' = media /\ os' = os
          /\ eg.phase = "Writing" /\ hist'.tail = hist.tail /\ hist'.back = hist.back
      BY <1>i, <2>4, BatchDoes
    <3>2. /\ eg.batch # <<>> /\ os.wire # <<>> => os.wire[1] + Len(os.wire) = eg.batch[1] + eg.put
          /\ eg.batch # <<>> /\ os.wire = <<>> /\ hist.tail # 0 => After(hist.tail) = eg.batch[1] + eg.put
      BY <1>i DEF Sending
    <3>3. eg.batch # <<>> => ComesThen(eg.batch[1] + Len(eg.batch)) BY <1>u, <1>b, <2>0, <2>k, <2>n, <3>1
    <3>4. os.wire # <<>> => ComesThen(os.wire[1] + Len(os.wire))
      <4>1. CASE eg.batch = <<>> BY <1>u, <1>b, <2>0, <2>k, <2>n, <3>1, <4>1
      <4>2. CASE eg.batch # <<>> BY <3>1, <3>2, <3>3, <4>2
      <4> QED BY <4>1, <4>2
    <3>5. os.wire = <<>> /\ hist.tail # 0 => ComesThen(1 + Greater(hist.tail, hist.back))
      <4>1. CASE eg.batch = <<>>
        <5>1. eg.phase # "Waiting" BY <3>1
        <5> QED BY <1>u, <1>a, <2>0, <2>k, <2>n, <3>1, <4>1, <5>1
      <4>2. CASE eg.batch # <<>> BY <1>a, <3>1, <3>2, <3>3, <4>2
      <4> QED BY <4>1, <4>2
    <3>6. Follows' BY <1>f, <3>1, <3>4, <3>5
    <3> QED BY <2>n, <3>1, <3>6
  <2>5. CASE Leave
    <3>1. /\ os.wire # <<>> /\ os'.wire = Tail(os.wire) /\ hist'.tail = Head(os.wire) /\ hist'.back = hist.back
          /\ eg' = eg /\ ctl' = ctl /\ media' = media
      BY <1>i, <2>5, BatchDoes
    <3>w. os.wire \in Seq(Nat) BY <1>i DEF Types
    <3>r. InRow(os.wire) BY <1>i DEF Sending
    <3>2. /\ os.wire[1] \in Nat /\ hist'.tail = os.wire[1]
          /\ os'.wire = <<>> => os.wire[1] + Len(os.wire) = os.wire[1] + 1
          /\ os'.wire # <<>> => os'.wire[1] + Len(os'.wire) = os.wire[1] + Len(os.wire)
          /\ \A i \in DOMAIN os'.wire : os'.wire[i] = os.wire[i + 1] /\ i + 1 \in DOMAIN os.wire
      BY <3>w, <3>r, <3>1, RowShrinks
    <3>3. hist.back < os.wire[1] BY <1>i, <1>b, <3>1 DEF Sending, Between
    <3>4. 1 + Greater(hist'.tail, hist'.back) = os.wire[1] + 1 BY <1>t, <3>1, <3>2, <3>3 DEF Greater
    <3>5. ASSUME Asking PROVE Jumps'
      <4>1. ComesThen(core'.base) BY <1>t, <1>u, <2>0, <2>k, <3>1, <3>5
      <4>2. \A i \in DOMAIN os.wire : os.wire[i] < core.base BY <1>u, <2>0, <3>5
      <4>3. \A i \in DOMAIN eg.batch : eg.batch[i] < core.base BY <1>u, <2>0, <3>5
      <4>4. hist'.tail < core.base BY <1>b, <3>1, <3>2, <4>2
      <4>5. \A i \in DOMAIN os'.wire : os'.wire[i] < core.base BY <3>2, <4>2
      <4> QED BY <1>j, <2>0, <3>1, <4>1, <4>3, <4>4, <4>5
    <3>6. ASSUME ~Asking PROVE Follows'
      <4>1. eg.batch # <<>> => ComesThen(eg.batch[1] + Len(eg.batch)) BY <1>u, <1>b, <2>0, <2>k, <3>1, <3>6
      <4>2. eg.batch = <<>> => ComesThen(os.wire[1] + Len(os.wire)) BY <1>u, <1>b, <2>0, <2>k, <3>1, <3>6
      <4>3. eg.batch = <<>> /\ os'.wire # <<>> => ComesThen(os'.wire[1] + Len(os'.wire)) BY <3>2, <4>2
      <4>4. eg.batch = <<>> /\ os'.wire = <<>> => ComesThen(1 + Greater(hist'.tail, hist'.back))
        BY <3>2, <3>4, <4>2
      <4> QED BY <1>f, <3>1, <4>1, <4>3, <4>4
    <3> QED BY <2>c, <3>1, <3>5, <3>6
  <2>6. CASE CutLive
    <3>1. /\ eg.phase = "Live" /\ os.wire = <<>> /\ Told("Cut")
          /\ hist' = [hist EXCEPT !.back = core.base - 1] /\ UNCHANGED <<media, eg, os>>
      BY <1>i, <2>6, EgressDoes
    <3>2. hist'.back = core.base - 1 /\ hist'.tail = hist.tail
      <4>1. hist' = [hist EXCEPT !.back = core'.base - 1] BY <2>0, <3>1
      <4> QED BY <1>i, <2>0, <4>1, BackDoes
    <3>3. eg.batch = <<>> BY <1>i, <3>1 DEF NothingYet
    <3>4. Asking
      <4>1. ctl # <<>> /\ ctl' = Tail(ctl) /\ Head(ctl).kind = "Cut" BY <3>1 DEF Told
      <4>2. 1 \in DOMAIN ctl /\ IsCut(ctl[1]) BY <1>i, <4>1, CtlTail DEF IsCut
      <4> QED BY <1>i, <2>0, <4>2 DEF CutsAsked
    <3>5. ComesThen(core.base) /\ hist.tail < core.base BY <1>t, <1>u, <2>0, <2>k, <3>1, <3>4
    <3>6. Jumps' BY <1>j, <2>0, <3>1, <3>2, <3>3, <3>5
    <3>7. 1 + Greater(hist'.tail, hist'.back) = core.base BY <1>t, <3>2, <3>5 DEF Greater
    <3>8. Follows' BY <1>f, <3>1, <3>3, <3>5, <3>7
    <3> QED BY <3>6, <3>8
  <2>7. CASE Acknowledge \/ Linger
    <3>1. os'.wire = os.wire /\ hist'.tail = hist.tail /\ hist'.back = hist.back /\ UNCHANGED <<ctl, media, eg>>
      BY <1>i, <2>7, BatchDoes
    <3> QED BY <1>s, <2>0, <2>k, <2>c, <3>1
  <2>8. CASE StopLive BY <1>i, <1>g, <2>8, EgressDoes DEF Types, Egresses
  <2>9. CASE CutReset \/ Fail \/ Ending BY <1>i, <1>g, <2>9, OverIs
  <2>10. CASE TakeStart \/ StopUnconnected \/ ConnectOk \/ ConnectFails \/ BackoffOver
    BY <1>i, <1>g, <2>10, EgressDoes, InIs
  <2>11. CASE CutUnconnected \/ DropQueued BY <1>i, <1>g, <2>11, EgressDoes
  <2> QED BY <1>2, <2>1, <2>2, <2>3, <2>4, <2>5, <2>6, <2>7, <2>8, <2>9, <2>10, <2>11 DEF Egress, Ending
<1>3. CASE UNCHANGED vars
  <2>1. Going /\ (Asking' <=> Asking) BY <1>3 DEF vars, Going, Numbered, OnConnection, ToldToEnd, Asking
  <2> QED BY <1>s, <1>k, <1>3, <2>1 DEF vars
<1> QED BY <1>1, <1>2, <1>3 DEF Next

-----------------------------------------------------------------------------
LEMMA OutletInvInit == Init => OutletInv
<1> SUFFICES ASSUME Init PROVE OutletInv OBVIOUS
<1>1. Types BY TypesInit
<1>2. /\ ctl = <<>> /\ media = <<>> /\ events = <<>> /\ os.wire = <<>> /\ os.flight = <<>>
      /\ eg = In("Idle") /\ hist.tail = 0 /\ hist.back = 0
      /\ core.on = FALSE /\ core.up = FALSE /\ core.dump = "No" /\ core.first = 0
      /\ core.cursor = 1 /\ core.base = 1 /\ core.edge = 0
  BY DEF Init, HistInit, None
<1>3. /\ eg.phase = "Idle" /\ eg.log = <<>> /\ eg.total = 0 /\ eg.last = 0 /\ eg.batch = <<>> /\ eg.put = 0
  BY <1>2, InIs DEF None
<1>4. DOMAIN ctl = {} /\ DOMAIN media = {} /\ DOMAIN events = {} /\ DOMAIN os.wire = {}
      /\ DOMAIN eg.batch = {} /\ Len(media) = 0 /\ Len(eg.batch) = 0
  BY <1>2, <1>3
<1>5. ~Numbered /\ ~Going BY <1>3 DEF Numbered, Going, OnConnection
<1>6. Ranges BY <1>2 DEF Ranges
<1>7. Queued /\ CutsAsked /\ CutsAnswered BY <1>4 DEF Queued, CutsAsked, CutsAnswered
<1>8. LastHere BY <1>4 DEF LastHere, FromHere
<1>9. InTouch BY <1>3, <1>4 DEF InTouch, Numbered, OnConnection
<1>10. NothingYet BY <1>2, <1>3, <1>4 DEF NothingYet, None
<1>11. Agreed BY <1>3, <1>4, <1>5 DEF Agreed
<1>12. Sending BY <1>2, <1>3, <1>4 DEF Sending, InRow, Between
<1>13. Emptied /\ Queue /\ NextUp BY <1>2, <1>5 DEF Emptied, Queue, NextUp
<1>14. Reported /\ Lasts BY <1>2, <1>3, <1>4 DEF Reported, Lasts
<1>15. Ready BY <1>4 DEF Ready, Asking
<1> QED BY <1>1, <1>6, <1>7, <1>8, <1>9, <1>10, <1>11, <1>12, <1>13, <1>14, <1>15 DEF OutletInv

LEMMA OutletInvNext == OutletInv /\ [Next]_vars => OutletInv'
<1> SUFFICES ASSUME OutletInv, [Next]_vars PROVE OutletInv' OBVIOUS
<1>1. Types' /\ Ranges' /\ Queued' /\ LastHere' BY TypesNext, RangesNext, QueuedNext, LastHereNext
<1>2. CutsAsked' /\ CutsAnswered' /\ InTouch' /\ NothingYet'
  BY CutsAskedNext, CutsAnsweredNext, InTouchNext, NothingYetNext
<1>3. Agreed' /\ Sending' /\ Emptied' /\ Queue' BY AgreedNext, SendingNext, EmptiedNext, QueueNext
<1>4. NextUp' /\ Reported' /\ Lasts' /\ Ready' BY NextUpNext, ReportedNext, LastsNext, ReadyNext
<1> QED BY <1>1, <1>2, <1>3, <1>4 DEF OutletInv

(* What the outlet's proof stands on holds of the link.                    *)
THEOREM LinkAlways == Spec => []OutletInv
<1>1. Init => OutletInv BY OutletInvInit
<1>2. OutletInv /\ [Next]_vars => OutletInv' BY OutletInvNext
<1> QED BY <1>1, <1>2, PTL DEF Spec

(* A step of the link, seen from the outlet.                               *)
LEMMA OutSteps ==
  /\ Out!Make <=> core'.edge = core.edge + 1 /\ hist'.back = hist.back /\ hist'.tail = hist.tail
  /\ Out!Reconnect <=> hist'.tail = 0 /\ core'.edge = core.edge /\ hist'.back = hist.back
  /\ \A m : Out!TakeBack(m) <=>
              m >= hist.back /\ hist'.back = m /\ core'.edge = core.edge /\ hist'.tail = hist.tail
  /\ \A m : Out!Leave(m) <=>
              /\ m > hist.back
              /\ hist.tail # 0 => m = After(hist.tail)
              /\ hist'.tail = m /\ core'.edge = core.edge /\ hist'.back = hist.back
  /\ Out!Next <=> Out!Make \/ Out!Reconnect \/ \E m \in 1 .. core.edge : Out!Leave(m) \/ Out!TakeBack(m)
BY DEF Out!Make, Out!Reconnect, Out!TakeBack, Out!Leave, Out!Next, After, Greater

LEMMA StepIsOutlet == OutletInv /\ [Next]_vars => Out!Next \/ UNCHANGED <<core.edge, hist.back, hist.tail>>
<1> SUFFICES ASSUME OutletInv, [Next]_vars
             PROVE  Out!Next \/ UNCHANGED <<core.edge, hist.back, hist.tail>>
  OBVIOUS
<1>i. Types /\ Types' /\ Ranges /\ Sending BY TypesNext DEF OutletInv
<1>t. /\ hist.tail \in Nat /\ hist.back \in Nat /\ core.edge \in Nat
      /\ core.base \in Nat /\ core.base > 0 /\ core.cursor \in Nat /\ core.cursor > 0
  BY <1>i, WireIs
<1>r. core.base <= core.cursor /\ core.cursor <= core.edge + 1 /\ hist.back < core.base
  BY <1>i DEF Ranges
<1>n. Out!Make \/ Out!Reconnect \/ (\E m \in 1 .. core.edge : Out!Leave(m) \/ Out!TakeBack(m)) => Out!Next
  BY OutSteps
<1>s. ASSUME core'.edge = core.edge, hist'.tail = hist.tail, hist'.back = hist.back
      PROVE  UNCHANGED <<core.edge, hist.back, hist.tail>>
  BY <1>s
<1>b. ASSUME core'.edge = core.edge, hist'.tail = hist.tail, core'.base \in {core.base, core.edge + 1},
             hist'.back = core'.base - 1
      PROVE  Out!Next \/ UNCHANGED <<core.edge, hist.back, hist.tail>>
  <2>1. CASE hist'.back = hist.back BY <1>b, <1>s, <2>1
  <2>2. CASE hist'.back # hist.back
    <3>1. hist'.back >= hist.back /\ hist'.back \in 1 .. core.edge BY <1>b, <1>t, <1>r, <2>2
    <3>2. Out!TakeBack(hist'.back) BY <1>b, <3>1, OutSteps
    <3> QED BY <1>n, <3>1, <3>2
  <2> QED BY <2>1, <2>2
<1>1. CASE Core
  <2>1. hist'.tail = hist.tail BY <1>1, <1>i, CoreDoes
  <2>2. CASE Emit
    <3>1. core'.edge = Greater(core.edge, core.cursor) /\ hist' = hist BY <1>i, <2>2, EmitDoes
    <3>2. core'.edge = core.edge \/ core'.edge = core.edge + 1 BY <1>t, <1>r, <3>1 DEF Greater
    <3>3. core'.edge = core.edge + 1 => Out!Make BY <3>1, OutSteps
    <3> QED BY <1>n, <1>s, <3>1, <3>2, <3>3
  <2>3. CASE CheckDump
    <3>1. FinishDump /\ (hist' = hist \/ hist' = [hist EXCEPT !.back = core'.base - 1])
      BY <1>i, <2>3, CheckDoes
    <3>2. core'.edge = core.edge /\ core'.base = core.edge + 1 BY <1>i, <3>1, FinishDoes
    <3>3. hist'.back = hist.back \/ hist'.back = core'.base - 1 BY <1>i, <3>1, BackDoes
    <3> QED BY <1>s, <1>b, <2>1, <3>2, <3>3
  <2>4. CASE HandleEvent
    <3>1. CASE HandleCutDone(events[1])
      <4>1. CASE core' = core /\ hist' = hist BY <1>s, <4>1
      <4>2. CASE FinishDump /\ hist' = [hist EXCEPT !.back = core'.base - 1]
        <5>1. core'.edge = core.edge /\ core'.base = core.edge + 1 BY <1>i, <4>2, FinishDoes
        <5>2. hist'.back = core'.base - 1 BY <1>i, <4>2, BackDoes
        <5> QED BY <1>b, <2>1, <5>1, <5>2
      <4> QED BY <1>i, <3>1, <4>1, <4>2, CutDoneDoes
    <3>2. CASE HandleConnected(events[1]) BY <1>i, <1>s, <3>2, ConnectedDoes
    <3>3. CASE HandleDisconnected(events[1]) BY <1>i, <1>s, <3>3, DisconnectedDoes
    <3> QED BY <1>i, <2>4, <3>1, <3>2, <3>3, HandleDoes
  <2>5. CASE DumpUnlinked BY <1>i, <1>s, <2>5, UnlinkedDoes, FinishDoes
  <2>6. CASE EndNow \/ EndAtMark BY <1>i, <1>s, <2>6, EndDoes
  <2>7. CASE StartEgress \/ StopEgress \/ EndAfterAir \/ RaiseCut \/ AskCut BY <1>i, <1>s, <2>7, PlainDoes
  <2> QED BY <1>1, <2>2, <2>3, <2>4, <2>5, <2>6, <2>7 DEF Core
<1>2. CASE Publish
  <2>1. hist'.tail = 0 /\ hist'.back = hist.back /\ core' = core
    BY <1>2, <1>i, EgressDoes, EgressCore DEF Egress
  <2>2. Out!Reconnect BY <2>1, OutSteps
  <2> QED BY <1>n, <2>2
<1>3. CASE Leave
  <2>1. /\ os.wire # <<>> /\ hist'.tail = Head(os.wire) /\ hist'.back = hist.back /\ core' = core
    BY <1>3, <1>i, BatchDoes, EgressCore
  <2>2. Head(os.wire) = os.wire[1] /\ 1 \in DOMAIN os.wire BY <1>i, <2>1, TailIs, SMTT(30) DEF Types
  <2> DEFINE m == os.wire[1]
  <2>3. m \in Nat /\ hist.back < m /\ m <= core.edge
    <3>1. hist.back < m /\ m <= core.edge BY <1>i, <2>2 DEF Sending, Between
    <3> QED BY <1>i, <2>2, <3>1, WireIs
  <2>4. hist.tail # 0 => m = After(hist.tail) BY <1>i, <2>1 DEF Sending
  <2>5. hist'.tail = m BY <2>1, <2>2
  <2> HIDE DEF m
  <2>6. m \in 1 .. core.edge /\ m > hist.back BY <1>t, <2>3
  <2>7. Out!Leave(m) BY <2>1, <2>4, <2>5, <2>6, OutSteps
  <2> QED BY <1>n, <2>6, <2>7
<1>4. CASE (Egress \/ Leave \/ Acknowledge \/ Linger) /\ ~Publish /\ ~Leave
  <2>1. core' = core /\ (hist'.back = hist.back \/ hist'.back = core.base - 1)
    BY <1>4, <1>i, Rest
  <2>2. hist'.tail = hist.tail
    <3>b. LET h == [hist EXCEPT !.back = core.base - 1] IN h.tail = hist.tail BY <1>i DEF Types
    <3>1. CASE CutReset \/ Fail \/ Ending
      <4>1. \/ hist' = [hist EXCEPT !.done = {}, !.back = core.base - 1]
            \/ hist' = [hist EXCEPT !.done = {}]
        BY <1>i, <3>1, OverDoes
      <4>2. hist \in [left : SUBSET Nat, acked : SUBSET Nat, wrote : SUBSET Nat, done : SUBSET Entry,
                      tail : Nat, back : Nat]
        BY <1>i DEF Types
      <4> QED BY <4>1, <4>2
    <3>2. CASE TakeBatch \/ Accept \/ BatchDone \/ Acknowledge \/ Linger BY <1>i, <3>2, BatchDoes
    <3>3. CASE TakeStart \/ StopUnconnected \/ CutUnconnected \/ DropQueued \/ ConnectOk \/ ConnectFails
                 \/ BackoffOver \/ CutLive \/ StopLive
      BY <1>i, <3>b, <3>3, EgressDoes
    <3> QED BY <1>4, <3>1, <3>2, <3>3 DEF Egress, Ending
  <2> QED BY <1>b, <1>s, <2>1, <2>2
<1>5. CASE UNCHANGED vars BY <1>5, <1>s DEF vars
<1> QED BY <1>1, <1>2, <1>3, <1>4, <1>5 DEF Next

(* The core and the egress, with all that is on its way between them, are  *)
(* the outlet: what leaves on a connection leaves in order and without a   *)
(* gap, and nothing leaves that was taken back.                            *)
THEOREM LinkIsOutlet == Spec => ImplementsOutlet
<1>1. Init => Out!Init
  BY DEF Init, HistInit, Out!Init
<1>2. OutletInv /\ [Next]_vars => [Out!Next]_(Out!vars)
  BY StepIsOutlet DEF Out!vars
<1> QED BY <1>1, <1>2, LinkAlways, PTL DEF Spec, ImplementsOutlet, Out!Spec
=============================================================================
