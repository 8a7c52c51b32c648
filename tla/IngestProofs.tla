---------------------------- MODULE IngestProofs ----------------------------
(***************************************************************************)
(* Who may publish, for any number of connections and any limits: the      *)
(* core's publisher is never a connection that is gone, nobody else goes   *)
(* on publishing, and nobody is closed to make room while it publishes.    *)
(***************************************************************************)
EXTENDS Ingest, WellFoundedInduction, TLAPS

Phases == {"Free", "Open", "Asking", "Live", "Waiting", "Refused", "Done"}
Event ==
  [kind : {"Publish"}, conn : Conn, good : BOOLEAN]
    \cup [kind : {"Media"}, conn : Conn, n : Nat, need : Nat]
    \cup [kind : {"Closed"}, conn : Conn, stopped : BOOLEAN]
Connection ==
  [phase : Phases, addr : Addrs \cup {Loopback}, reply : {"None", "Yes", "No"}, need : Nat,
   sent : Nat, closing : BOOLEAN]

Types ==
  /\ conns \in [Conn -> Connection]
  /\ listed \in Seq(Conn) /\ waiting \in Seq(Conn)
  /\ events \in Seq(Event)
  /\ publisher \in Conn \cup {None}
  /\ budget \in Int /\ stream \in Nat /\ silent \in BOOLEAN

-----------------------------------------------------------------------------
(* What the invariants rest on: how a connection's phase goes with what    *)
(* it has in the queue to the core.                                        *)

(* Only a connection that asks has an answer. *)
AnswersAreAsked == \A c \in Conn : conns[c].reply # "None" => conns[c].phase = "Asking"

(* Who waits for room, waits once. *)
WaitersWait ==
  /\ \A i \in DOMAIN waiting : conns[waiting[i]].phase = "Waiting"
  /\ \A i, j \in DOMAIN waiting : waiting[i] = waiting[j] => i = j

(* What says that it has closed publishes no more. *)
ClosedAreDone ==
  \A i \in DOMAIN events :
    events[i].kind = "Closed" => conns[events[i].conn].phase \in {"Done", "Free"}

(* A new connection has said nothing yet. *)
OpenUnheard == \A i \in DOMAIN events : conns[events[i].conn].phase # "Open"

(* A request is of one that waits for its answer, or the core will hear    *)
(* next that it has gone.                                                  *)
IsAsked(i) ==
  LET c == events[i].conn
  IN \/ conns[c].phase = "Asking" /\ conns[c].reply = "None"
     \/ \E j \in DOMAIN events : i < j /\ events[j].kind = "Closed" /\ events[j].conn = c
AskersWait == \A i \in DOMAIN events : events[i].kind = "Publish" => IsAsked(i)

(* Each asks once. *)
AskedOnce ==
  \A i, j \in DOMAIN events :
    events[i].kind = "Publish" /\ events[j].kind = "Publish" /\ events[i].conn = events[j].conn
      => i = j

PublisherInv ==
  /\ Types /\ AnswersAreAsked /\ WaitersWait /\ ClosedAreDone /\ OpenUnheard
  /\ AskersWait /\ AskedOnce /\ PublisherIsThere /\ OthersClose

(* The budget: what media in the queue holds of it, summed up from the     *)
(* front, is what it lacks.                                                *)
Taken(e) == IF e.kind = "Media" THEN e.need ELSE 0
SumsTo(g, q) == g[0] = 0 /\ \A i \in 1 .. Len(q) : g[i] = g[i - 1] + Taken(q[i])
BudgetKept ==
  \E g \in [0 .. Len(events) -> Int] : SumsTo(g, events) /\ budget + g[Len(events)] = Budget

(* No message needs more than there is. *)
NeedsFit == \A c \in Conn : conns[c].need <= Budget

(* The publisher's stream: what the engine has of it is followed by what    *)
(* is in the queue, one after the other, up to what the connection sent.   *)
MediaIn(q, c) == {i \in DOMAIN q : q[i].kind = "Media" /\ q[i].conn = c}
MediaOf(c) == MediaIn(events, c)

(* Who has not been answered has sent nothing. *)
FreshAreSilent == \A c \in Conn : conns[c].phase \in {"Open", "Asking"} => conns[c].sent = 0 /\ MediaOf(c) = {}

(* Media comes after the answer and before the end. *)
MediaBetween ==
  \A c \in Conn : \A j \in MediaOf(c), i \in DOMAIN events :
    events[i].conn = c => events[i].kind # "Publish" /\ (events[i].kind = "Closed" => j < i)

InTurn ==
  publisher # None =>
    LET M == MediaOf(publisher) IN
    /\ \A i \in M : events[i].n > stream
    /\ \A i \in M : events[i].n = stream + 1 \/ \E j \in M : j < i /\ events[j].n = events[i].n - 1
    /\ \A i, j \in M : events[i].n = events[j].n => i = j
AllSent ==
  publisher # None =>
    /\ conns[publisher].phase = "Asking" => stream = 0
    /\ conns[publisher].phase \in {"Live", "Waiting", "Done"} =>
         /\ stream <= conns[publisher].sent
         /\ \A i \in MediaOf(publisher) : events[i].n <= conns[publisher].sent
         /\ \/ stream = conns[publisher].sent
            \/ \E i \in MediaOf(publisher) : events[i].n = conns[publisher].sent

(* Who still asks has not been heard, unless it is gone. *)
Unanswered ==
  \A i \in DOMAIN events : events[i].kind = "Publish" => conns[events[i].conn].phase \in {"Asking", "Free"}

StreamInv == FreshAreSilent /\ MediaBetween /\ Unanswered /\ InTurn /\ AllSent

-----------------------------------------------------------------------------
(* The least of a set of numbers. *)
LEMMA Least ==
  ASSUME NEW S, S \subseteq Nat, S # {}
  PROVE  Min(S) \in S /\ \A x \in S : Min(S) <= x
<1> DEFINE R == OpToRel(<, Nat)
<1>1. R = {p \in Nat \X Nat : p[1] < p[2]} BY Zenon DEF OpToRel
<1>2. ASSUME NEW x \in Nat, NEW y \in Nat, y < x PROVE <<y, x>> \in R
  <2>1. <<y, x>> \in Nat \X Nat /\ <<y, x>>[1] = y /\ <<y, x>>[2] = x OBVIOUS
  <2> QED BY <1>1, <1>2, <2>1
<1>3. IsWellFoundedOn(R, Nat) BY NatLessThanWellFounded
<1> HIDE DEF R
<1>4. \E x \in S : \A y \in S : ~ (<<y, x>> \in R) BY <1>3, WFMin
<1>5. PICK x \in S : \A y \in S : ~ (<<y, x>> \in R) BY <1>4
<1>6. ASSUME NEW y \in S PROVE x <= y
  <2>1. x \in Nat /\ y \in Nat OBVIOUS
  <2>2. ~ (y < x) BY <1>2, <1>5, <2>1
  <2> QED BY <2>1, <2>2
<1> QED BY <1>6 DEF Min

(* Taking one out of a sequence, as RemoveAt and RemoveFirst do. *)
LEMMA TakenOut ==
  ASSUME NEW S, NEW s \in Seq(S), NEW k \in DOMAIN s
  PROVE  /\ RemoveAt(s, k) \in Seq(S)
         /\ Len(RemoveAt(s, k)) = Len(s) - 1
         /\ \A i \in DOMAIN RemoveAt(s, k) :
              RemoveAt(s, k)[i] = IF i < k THEN s[i] ELSE s[i + 1]
         /\ \A i \in DOMAIN s : i # k => s[i] \in ToSet(RemoveAt(s, k))
<1> DEFINE a == SubSeq(s, 1, k - 1)
           b == SubSeq(s, k + 1, Len(s))
<1>1. k \in 1 .. Len(s) OBVIOUS
<1>2. a \in Seq(S) /\ Len(a) = k - 1 /\ \A i \in 1 .. k - 1 : a[i] = s[i] BY <1>1
<1>3. b \in Seq(S) /\ Len(b) = Len(s) - k /\ \A i \in 1 .. Len(s) - k : b[i] = s[k + i] BY <1>1
<1>4. RemoveAt(s, k) = a \o b BY DEF RemoveAt
<1> HIDE DEF a, b
<1>5. a \o b \in Seq(S) /\ Len(a \o b) = Len(s) - 1 BY <1>1, <1>2, <1>3
<1>6. ASSUME NEW i \in 1 .. Len(s) - 1
      PROVE  (a \o b)[i] = IF i < k THEN s[i] ELSE s[i + 1]
  <2>1. CASE i < k
    <3>1. i \in 1 .. Len(a) BY <1>1, <1>2, <2>1
    <3>2. (a \o b)[i] = a[i] BY <1>2, <1>3, <3>1
    <3> QED BY <1>1, <1>2, <2>1, <3>2
  <2>2. CASE ~(i < k)
    <3>1. (a \o b)[i] = b[i - Len(a)] BY <1>1, <1>2, <1>3, <2>2, SMTT(30)
    <3>2. i - Len(a) \in 1 .. Len(s) - k /\ k + (i - Len(a)) = i + 1 BY <1>1, <1>2, <2>2, SMTT(30)
    <3> QED BY <3>1, <3>2, <1>3, <2>2
  <2> QED BY <2>1, <2>2
<1>7. DOMAIN (a \o b) = 1 .. Len(s) - 1 BY <1>5
<1>8. ASSUME NEW i \in DOMAIN s, i # k PROVE s[i] \in ToSet(a \o b)
  <2>1. CASE i < k
    <3>1. i \in 1 .. Len(s) - 1 BY <1>1, <2>1
    <3>2. (a \o b)[i] = s[i] BY <1>6, <2>1, <3>1
    <3> QED BY <3>1, <3>2, <1>7 DEF ToSet
  <2>2. CASE ~(i < k)
    <3>1. i - 1 \in 1 .. Len(s) - 1 /\ ~(i - 1 < k) /\ (i - 1) + 1 = i BY <1>1, <1>8, <2>2
    <3>2. (a \o b)[i - 1] = s[i] BY <1>6, <3>1
    <3> QED BY <3>1, <3>2, <1>7 DEF ToSet
  <2> QED BY <2>1, <2>2
<1> QED BY <1>4, <1>5, <1>6, <1>7, <1>8

LEMMA FirstTakenOut ==
  ASSUME NEW S, NEW s \in Seq(S), NEW e
  PROVE  /\ RemoveFirst(s, e) \in Seq(S)
         /\ \/ RemoveFirst(s, e) = s /\ \A i \in DOMAIN s : s[i] # e
            \/ \E k \in DOMAIN s : s[k] = e /\ RemoveFirst(s, e) = RemoveAt(s, k)
<1>1. CASE \E i \in 1 .. Len(s) : s[i] = e
  <2> DEFINE I == {i \in 1 .. Len(s) : s[i] = e}
  <2>1. I # {} /\ I \subseteq Nat BY <1>1
  <2>2. Min(I) \in I BY <2>1, Least
  <2>3. SelectInSeq(s, LAMBDA v : v = e) = Min(I) BY <2>1 DEF SelectInSeq
  <2>4. RemoveFirst(s, e) = RemoveAt(s, Min(I)) BY <1>1, <2>3 DEF RemoveFirst
  <2> HIDE DEF I
  <2>5. Min(I) \in DOMAIN s /\ s[Min(I)] = e BY <2>2 DEF I
  <2>6. RemoveAt(s, Min(I)) \in Seq(S) BY <2>5, TakenOut
  <2> QED BY <2>4, <2>5, <2>6
<1>2. CASE ~ \E i \in 1 .. Len(s) : s[i] = e
  <2>1. RemoveFirst(s, e) = s BY <1>2 DEF RemoveFirst
  <2>2. \A i \in DOMAIN s : s[i] # e BY <1>2
  <2> QED BY <2>1, <2>2
<1> QED BY <1>1, <1>2

(* Closing the oldest idle connection closes an idle one, and leaves the   *)
(* others in the list (close_oldest_idle).                                 *)
LEMMA OldestIdleIsIdle ==
  ASSUME NEW s \in Seq(Conn), NEW P \in SUBSET DOMAIN s, Idle(s, P) # {}
  PROVE  LET k == OldestIdle(s, P)
         IN /\ k \in DOMAIN s /\ ~IsPublishing(s[k])
            /\ RemoveAt(s, k) \in Seq(Conn)
            /\ \A d \in ToSet(s) \ ToSet(RemoveAt(s, k)) : ~IsPublishing(d)
            /\ ToSet(RemoveAt(s, k)) \subseteq ToSet(s)
<1> DEFINE refused == {i \in Idle(s, P) : IsRefused(s[i])}
           T == IF refused # {} THEN refused ELSE Idle(s, P)
           k == OldestIdle(s, P)
<1>1. T # {} /\ T \subseteq Idle(s, P) OBVIOUS
<1>2. Idle(s, P) \subseteq DOMAIN s /\ DOMAIN s \subseteq Nat BY DEF Idle
<1>3. k = Min(T) BY DEF OldestIdle
<1> HIDE DEF T, k, refused
<1>4. k \in Idle(s, P) BY <1>1, <1>2, <1>3, Least
<1>5. k \in DOMAIN s /\ ~IsPublishing(s[k]) BY <1>4 DEF Idle
<1>6. RemoveAt(s, k) \in Seq(Conn) BY <1>5, TakenOut
<1>7. \A i \in DOMAIN s : i # k => s[i] \in ToSet(RemoveAt(s, k)) BY <1>5, TakenOut
<1>8. \A d \in ToSet(s) \ ToSet(RemoveAt(s, k)) : ~IsPublishing(d) BY <1>5, <1>7 DEF ToSet
<1>9. ToSet(RemoveAt(s, k)) \subseteq ToSet(s)
  <2> SUFFICES ASSUME NEW i \in DOMAIN RemoveAt(s, k) PROVE RemoveAt(s, k)[i] \in ToSet(s)
    BY DEF ToSet
  <2>1. /\ Len(RemoveAt(s, k)) = Len(s) - 1
        /\ RemoveAt(s, k)[i] = IF i < k THEN s[i] ELSE s[i + 1]
    BY <1>5, TakenOut
  <2>2. i \in Nat /\ i \in DOMAIN s /\ i + 1 \in DOMAIN s BY <1>6, <2>1
  <2> QED BY <2>1, <2>2 DEF ToSet
<1> QED BY <1>5, <1>6, <1>8, <1>9 DEF k

(* Making room closes idle connections only (Conns::admit). *)
LEMMA StaysListed ==
  ASSUME Types, NEW a, HasRoom(a)
  PROVE  /\ Stays(a) \in Seq(Conn)
         /\ \A d \in ToSet(listed) \ ToSet(Stays(a)) : ~IsPublishing(d)
<1>1. /\ Rest(a) \in Seq(Conn)
      /\ \A d \in ToSet(listed) \ ToSet(Rest(a)) : ~IsPublishing(d)
  <2>1. CASE Crowded(a)
    <3>1. listed \in Seq(Conn) /\ From(a) \in SUBSET DOMAIN listed /\ Idle(listed, From(a)) # {}
      BY <2>1 DEF Types, From, HasRoom
    <3>2. Rest(a) = RemoveAt(listed, OldestIdle(listed, From(a))) BY <2>1 DEF Rest
    <3> QED BY <3>1, <3>2, OldestIdleIsIdle
  <2>2. CASE ~Crowded(a) BY <2>2 DEF Rest, Types
  <2> QED BY <2>1, <2>2
<1>2. CASE AllFull(a)
  <2>1. Idle(Rest(a), DOMAIN Rest(a)) # {} BY <1>2 DEF HasRoom
  <2>2. Stays(a) = RemoveAt(Rest(a), OldestIdle(Rest(a), DOMAIN Rest(a))) BY <1>2 DEF Stays
  <2>3. /\ Stays(a) \in Seq(Conn)
        /\ \A d \in ToSet(Rest(a)) \ ToSet(Stays(a)) : ~IsPublishing(d)
    BY <1>1, <2>1, <2>2, OldestIdleIsIdle
  <2> QED BY <1>1, <2>3
<1>3. CASE ~AllFull(a) BY <1>1, <1>3 DEF Stays
<1> QED BY <1>2, <1>3

-----------------------------------------------------------------------------
LEMMA PublisherInit == Init => PublisherInv
<1> SUFFICES ASSUME Init PROVE PublisherInv OBVIOUS
<1> USE DEF Init, Unused
<1>1. Types
  <2>1. Unused \in Connection BY DEF Connection, Phases, Unused
  <2>2. conns \in [Conn -> Connection] BY <2>1
  <2>3. Budget \in Int BY IngestConstants
  <2>4. <<>> \in Seq(Conn) /\ <<>> \in Seq(Event) OBVIOUS
  <2> QED BY <2>2, <2>3, <2>4 DEF Types
<1> QED
  BY <1>1 DEF PublisherInv, AnswersAreAsked, WaitersWait, ClosedAreDone, OpenUnheard, AskersWait,
              AskedOnce, PublisherIsThere, OthersClose

(* Something more in the queue to the core. *)
LEMMA Appending ==
  ASSUME NEW q \in Seq(Event), NEW e \in Event
  PROVE  /\ Append(q, e) \in Seq(Event)
         /\ Len(Append(q, e)) = Len(q) + 1
         /\ \A i \in DOMAIN q : i \in DOMAIN Append(q, e) /\ Append(q, e)[i] = q[i]
         /\ \A i \in DOMAIN Append(q, e) : i \in DOMAIN q \/ i = Len(q) + 1
         /\ Len(q) + 1 \in DOMAIN Append(q, e) /\ Append(q, e)[Len(q) + 1] = e
         /\ Len(q) + 1 \notin DOMAIN q /\ \A i \in DOMAIN q : i < Len(q) + 1
OBVIOUS

LEMMA Events == \A e \in Event : e.conn \in Conn /\ e.kind \in {"Publish", "Media", "Closed"}
BY DEF Event

(* Who asked still waits, when others do something, or says that it has    *)
(* closed.                                                                 *)
LEMMA AskersStill ==
  ASSUME Types, AskersWait, NEW c \in Conn,
         \A d \in Conn \ {c} : conns'[d].phase = conns[d].phase /\ conns'[d].reply = conns[d].reply,
         NEW e \in Event, e.kind # "Publish",
         events' = events \/ events' = Append(events, e),
         \/ conns[c].phase # "Asking"
         \/ conns[c].reply # "None"
         \/ conns'[c].phase = "Asking" /\ conns'[c].reply = "None"
         \/ events' = Append(events, e) /\ e.kind = "Closed" /\ e.conn = c
  PROVE  AskersWait'
<1> USE DEF Types
<1>1. SUFFICES ASSUME NEW i \in DOMAIN events', events'[i].kind = "Publish" PROVE IsAsked(i)'
  BY DEF AskersWait
<1>2. /\ i \in DOMAIN events /\ events'[i] = events[i]
      /\ \A j \in DOMAIN events : j \in DOMAIN events' /\ events'[j] = events[j]
  <2>1. CASE events' = events BY <1>1, <2>1
  <2>2. CASE events' = Append(events, e) BY <1>1, <2>2, Appending
  <2> QED BY <2>1, <2>2
<1>3. IsAsked(i) /\ events[i].conn \in Conn BY <1>1, <1>2, Events DEF AskersWait
<1>4. CASE \E j \in DOMAIN events : i < j /\ events[j].kind = "Closed" /\ events[j].conn = events[i].conn
  BY <1>2, <1>4 DEF IsAsked
<1>5. CASE conns[events[i].conn].phase = "Asking" /\ conns[events[i].conn].reply = "None"
  <2>1. CASE events[i].conn # c BY <1>2, <1>3, <1>5, <2>1 DEF IsAsked
  <2>2. CASE events[i].conn = c /\ conns'[c].phase = "Asking" /\ conns'[c].reply = "None"
    BY <1>2, <2>2 DEF IsAsked
  <2>3. CASE events[i].conn = c /\ events' = Append(events, e) /\ e.kind = "Closed" /\ e.conn = c
    BY <1>2, <2>3, Appending DEF IsAsked
  <2> QED BY <1>5, <2>1, <2>2, <2>3
<1> QED BY <1>3, <1>4, <1>5 DEF IsAsked

(* A connection that is let in is a new one, and who is closed for it does *)
(* not publish.                                                            *)
LEMMA ConnectKeeps ==
  ASSUME PublisherInv, NEW c \in Conn, NEW a \in Addrs \cup {Loopback}, Connect(c, a)
  PROVE  PublisherInv'
<1> USE DEF PublisherInv
<1>1. /\ conns[c].phase = "Free" /\ publisher # c
      /\ \A i \in DOMAIN events : events[i].conn # c
      /\ UNCHANGED <<budget, waiting, events, publisher, silent, stream>>
  BY DEF Connect, Mentions
<1>2. conns'[c] = [phase |-> "Open", addr |-> a, reply |-> "None", need |-> 0, sent |-> 0,
                   closing |-> FALSE]
  <2>1. conns'[c] = [Unused EXCEPT !.phase = "Open", !.addr = a] BY DEF Connect
  <2> QED BY <2>1 DEF Unused
<1>3. \A d \in Conn \ {c} : conns'[d] = conns[d] \/ conns'[d] = [conns[d] EXCEPT !.closing = TRUE]
  BY DEF Connect
<1>4. conns'[c] \in Connection /\ conns'[c].phase = "Open" /\ conns'[c].reply = "None"
  BY <1>2 DEF Connection, Phases
<1>5. ASSUME NEW d \in Conn \ {c}
      PROVE  /\ conns'[d] \in Connection
             /\ conns'[d].phase = conns[d].phase /\ conns'[d].reply = conns[d].reply
             /\ conns[d].closing => conns'[d].closing
  <2>1. conns[d] \in Connection BY DEF Types
  <2> QED BY <1>3, <2>1 DEF Connection
<1>6. Types'
  <2>1. conns' \in [Conn -> Connection]
    <3>1. DOMAIN conns' = Conn /\ conns' = [d \in Conn |-> conns'[d]] BY DEF Connect
    <3> QED BY <1>4, <1>5, <3>1
  <2>2. listed' \in Seq(Conn)
    <3>1. Stays(a) \in Seq(Conn) BY StaysListed DEF Connect
    <3> QED BY <3>1 DEF Connect
  <2> QED BY <1>1, <2>1, <2>2 DEF Types
<1> HIDE DEF Connect
<1> USE DEF Types
<1>7. AnswersAreAsked' BY <1>4, <1>5 DEF AnswersAreAsked
<1>8. WaitersWait' BY <1>1, <1>5 DEF WaitersWait
<1>9. ClosedAreDone'
  <2>1. \A i \in DOMAIN events : events[i].conn \in Conn \ {c} BY <1>1, Events
  <2> QED BY <1>1, <1>5, <2>1 DEF ClosedAreDone
<1>10. OpenUnheard'
  <2>1. \A i \in DOMAIN events : events[i].conn \in Conn \ {c} BY <1>1, Events
  <2> QED BY <1>1, <1>5, <2>1 DEF OpenUnheard
<1>11. AskersWait'
  <2>1. [kind |-> "Closed", conn |-> c, stopped |-> TRUE] \in Event BY DEF Event
  <2> QED BY <1>1, <1>5, <2>1, AskersStill
<1>12. AskedOnce' BY <1>1 DEF AskedOnce
<1>13. PublisherIsThere' BY <1>1, <1>5 DEF PublisherIsThere
<1>14. OthersClose' BY <1>1, <1>4, <1>5 DEF OthersClose
<1> QED BY <1>6, <1>7, <1>8, <1>9, <1>10, <1>11, <1>12, <1>13, <1>14

LEMMA AskKeeps ==
  ASSUME PublisherInv, NEW c \in Conn, NEW good \in BOOLEAN, Ask(c, good)
  PROVE  PublisherInv'
<1> USE DEF PublisherInv, Types
<1> DEFINE e == Publish(c, good)
           n == Len(events) + 1
<1>1. /\ conns[c].phase = "Open" /\ conns' = [conns EXCEPT ![c].phase = "Asking"]
      /\ events' = Append(events, e)
      /\ UNCHANGED <<listed, budget, waiting, publisher, silent, stream>>
  BY DEF Ask, Become
<1>2. e \in Event /\ e.kind = "Publish" /\ e.conn = c BY DEF Event, Publish
<1> HIDE DEF e
<1>3. /\ conns'[c].phase = "Asking" /\ conns'[c].reply = conns[c].reply
      /\ conns'[c].closing = conns[c].closing
      /\ \A d \in Conn \ {c} : conns'[d] = conns[d]
      /\ conns' \in [Conn -> Connection]
  <2>1. conns[c] \in Connection OBVIOUS
  <2>2. [conns[c] EXCEPT !.phase = "Asking"] \in Connection BY <2>1 DEF Connection, Phases
  <2> QED BY <1>1, <2>1, <2>2 DEF Connection
<1>4. conns[c].reply = "None" BY <1>1 DEF AnswersAreAsked
<1>5. \A i \in DOMAIN events : events[i].conn \in Conn \ {c} BY <1>1, Events DEF OpenUnheard
<1>6. Types' BY <1>1, <1>2, <1>3, Appending
<1>7. AnswersAreAsked' BY <1>3 DEF AnswersAreAsked
<1>8. WaitersWait' BY <1>1, <1>3 DEF WaitersWait
<1>9. /\ \A i \in DOMAIN events : i \in DOMAIN events' /\ events'[i] = events[i]
      /\ \A i \in DOMAIN events' : i \in DOMAIN events \/ i = n
      /\ events'[n] = e /\ n \in DOMAIN events'
  BY <1>1, <1>2, Appending
<1>10. ClosedAreDone' BY <1>2, <1>3, <1>5, <1>9 DEF ClosedAreDone
<1>11. OpenUnheard' BY <1>2, <1>3, <1>5, <1>9 DEF OpenUnheard
<1>12. AskersWait'
  <2> SUFFICES ASSUME NEW i \in DOMAIN events', events'[i].kind = "Publish" PROVE IsAsked(i)'
    BY DEF AskersWait
  <2>1. CASE i = n BY <1>2, <1>3, <1>4, <1>9, <2>1 DEF IsAsked
  <2>2. CASE i \in DOMAIN events
    <3>1. IsAsked(i) BY <1>9, <2>2 DEF AskersWait
    <3> QED BY <1>3, <1>5, <1>9, <2>2, <3>1 DEF IsAsked
  <2> QED BY <1>9, <2>1, <2>2
<1>13. AskedOnce' BY <1>2, <1>5, <1>9 DEF AskedOnce
<1>14. PublisherIsThere'
  <2> SUFFICES ASSUME publisher # None PROVE PublisherIsThere' BY <1>1 DEF PublisherIsThere
  <2>1. CASE \E i \in DOMAIN events : events[i].kind = "Closed" /\ events[i].conn = publisher
    BY <1>1, <1>9, <2>1 DEF PublisherIsThere
  <2>2. CASE publisher # c /\ ~ \E i \in DOMAIN events : events[i].kind = "Closed" /\ events[i].conn = publisher
    BY <1>1, <1>3, <2>2 DEF PublisherIsThere
  <2>3. CASE publisher = c /\ ~ \E i \in DOMAIN events : events[i].kind = "Closed" /\ events[i].conn = publisher
    BY <1>1, <2>3 DEF PublisherIsThere
  <2> QED BY <2>1, <2>2, <2>3
<1>15. OthersClose' BY <1>1, <1>3, <1>4 DEF OthersClose
<1> QED BY <1>6, <1>7, <1>8, <1>10, <1>11, <1>12, <1>13, <1>14, <1>15

(* Who is answered publishes, or closes soon. *)
LEMMA AnsweredKeeps ==
  ASSUME PublisherInv, NEW c \in Conn, Answered(c)
  PROVE  PublisherInv'
<1> USE DEF PublisherInv, Types
<1>1. /\ conns[c].phase = "Asking" /\ conns[c].reply # "None"
      /\ UNCHANGED <<listed, budget, waiting, events, publisher, silent, stream>>
  BY DEF Answered
<1>2. /\ conns'[c].phase = (IF conns[c].reply = "Yes" THEN "Live" ELSE "Refused")
      /\ conns'[c].reply = "None" /\ conns'[c].closing = conns[c].closing
      /\ \A d \in Conn \ {c} : conns'[d] = conns[d]
      /\ conns' \in [Conn -> Connection]
  <2>1. conns[c] \in Connection OBVIOUS
  <2>2. [conns[c] EXCEPT !.phase = IF conns[c].reply = "Yes" THEN "Live" ELSE "Refused",
                         !.reply = "None"] \in Connection
    BY <2>1 DEF Connection, Phases
  <2> QED BY <2>1, <2>2 DEF Answered, Connection
<1>3. \A i \in DOMAIN events : events[i].conn \in Conn BY Events
<1>4. Types' BY <1>1, <1>2
<1>5. AnswersAreAsked' BY <1>2 DEF AnswersAreAsked
<1>6. WaitersWait'
  <2>1. \A i \in DOMAIN waiting : waiting[i] \in Conn /\ waiting[i] # c BY <1>1 DEF WaitersWait
  <2> QED BY <1>1, <1>2, <2>1 DEF WaitersWait
<1>7. ClosedAreDone'
  <2>1. \A i \in DOMAIN events : events[i].kind = "Closed" => events[i].conn # c
    BY <1>1 DEF ClosedAreDone
  <2> QED BY <1>1, <1>2, <1>3, <2>1 DEF ClosedAreDone
<1>8. OpenUnheard' BY <1>1, <1>2, <1>3 DEF OpenUnheard
<1>9. AskersWait'
  <2>1. [kind |-> "Closed", conn |-> c, stopped |-> TRUE] \in Event BY DEF Event
  <2> QED BY <1>1, <1>2, <2>1, AskersStill
<1>10. AskedOnce' BY <1>1 DEF AskedOnce
<1>11. PublisherIsThere'
  <2>1. CASE publisher = c
    <3>1. ~ \E i \in DOMAIN events : events[i].kind = "Closed" /\ events[i].conn = c
      BY <1>1 DEF ClosedAreDone
    <3>2. publisher # None => conns[c].reply = "Yes" BY <1>1, <2>1, <3>1 DEF PublisherIsThere
    <3> QED BY <1>1, <1>2, <2>1, <3>2 DEF PublisherIsThere
  <2>2. CASE publisher # c BY <1>1, <1>2, <2>2 DEF PublisherIsThere
  <2> QED BY <2>1, <2>2
<1>12. OthersClose' BY <1>1, <1>2 DEF OthersClose
<1> QED BY <1>4, <1>5, <1>6, <1>7, <1>8, <1>9, <1>10, <1>11, <1>12

(* The need of a message is at most the budget. *)
LEMMA Needs == ASSUME NEW size \in Sizes PROVE Need(size) \in Nat /\ Need(size) <= Budget
<1> DEFINE S == {size, Budget}
<1>1. S \subseteq Nat /\ S # {} BY IngestConstants
<1>2. Min(S) \in S /\ \A x \in S : Min(S) <= x BY <1>1, Least
<1>3. Need(size) = Min(S) BY DEF Need
<1> QED BY <1>1, <1>2, <1>3

LEMMA SendKeeps ==
  ASSUME PublisherInv, NEW c \in Conn, NEW size \in Sizes, Send(c, size)
  PROVE  PublisherInv'
<1> USE DEF PublisherInv, Types
<1>1. /\ conns[c].phase = "Live" /\ waiting' = Append(waiting, c)
      /\ UNCHANGED <<listed, budget, events, publisher, silent, stream>>
  BY DEF Send
<1>2. /\ conns'[c].phase = "Waiting" /\ conns'[c].reply = conns[c].reply
      /\ conns'[c].closing = conns[c].closing
      /\ \A d \in Conn \ {c} : conns'[d] = conns[d]
      /\ conns' \in [Conn -> Connection]
  <2>1. conns[c] \in Connection OBVIOUS
  <2>2. [conns[c] EXCEPT !.phase = "Waiting", !.need = Need(size)] \in Connection
    BY <2>1, Needs DEF Connection, Phases
  <2> QED BY <2>1, <2>2 DEF Send, Connection
<1>3. \A i \in DOMAIN events : events[i].conn \in Conn BY Events
<1>4. Types'
  <2>1. waiting' \in Seq(Conn) BY <1>1
  <2> QED BY <1>1, <1>2, <2>1
<1>5. AnswersAreAsked' BY <1>1, <1>2 DEF AnswersAreAsked
<1>6. WaitersWait'
  <2>1. \A i \in DOMAIN waiting : waiting[i] \in Conn /\ waiting[i] # c BY <1>1 DEF WaitersWait
  <2>2. /\ waiting' \in Seq(Conn)
        /\ \A i \in DOMAIN waiting' :
             \/ i \in DOMAIN waiting /\ waiting'[i] = waiting[i]
             \/ i = Len(waiting) + 1 /\ waiting'[i] = c
    <3>1. waiting' = Append(waiting, c) /\ waiting \in Seq(Conn) BY <1>1
    <3> QED BY <3>1
  <2>3. \A i \in DOMAIN waiting' : conns'[waiting'[i]].phase = "Waiting"
    BY <1>2, <2>1, <2>2 DEF WaitersWait
  <2>4. ASSUME NEW i \in DOMAIN waiting', NEW j \in DOMAIN waiting', waiting'[i] = waiting'[j]
        PROVE  i = j
    BY <2>1, <2>2, <2>4 DEF WaitersWait
  <2> QED BY <2>3, <2>4 DEF WaitersWait
<1>7. ClosedAreDone'
  <2>1. \A i \in DOMAIN events : events[i].kind = "Closed" => events[i].conn # c
    BY <1>1 DEF ClosedAreDone
  <2> QED BY <1>1, <1>2, <1>3, <2>1 DEF ClosedAreDone
<1>8. OpenUnheard' BY <1>1, <1>2, <1>3 DEF OpenUnheard
<1>9. AskersWait'
  <2>1. [kind |-> "Closed", conn |-> c, stopped |-> TRUE] \in Event BY DEF Event
  <2> QED BY <1>1, <1>2, <2>1, AskersStill
<1>10. AskedOnce' BY <1>1 DEF AskedOnce
<1>11. PublisherIsThere' BY <1>1, <1>2 DEF PublisherIsThere
<1>12. OthersClose' BY <1>1, <1>2 DEF OthersClose
<1> QED BY <1>4, <1>5, <1>6, <1>7, <1>8, <1>9, <1>10, <1>11, <1>12

(* Who waits first is served. *)
LEMMA RoomKeeps ==
  ASSUME PublisherInv, NEW c \in Conn, Room(c)
  PROVE  PublisherInv'
<1> USE DEF PublisherInv, Types
<1> DEFINE e == Media(c, conns[c].sent + 1, conns[c].need)
           n == Len(events) + 1
<1>1. /\ waiting # <<>> /\ Head(waiting) = c /\ waiting' = Tail(waiting)
      /\ budget' = budget - conns[c].need /\ events' = Append(events, e)
      /\ UNCHANGED <<listed, publisher, silent, stream>>
  BY DEF Room
<1>2. /\ conns[c].phase = "Waiting" /\ 1 \in DOMAIN waiting /\ waiting[1] = c
  BY <1>1 DEF WaitersWait
<1>3. conns[c] \in Connection /\ conns[c].sent \in Nat /\ conns[c].need \in Nat BY DEF Connection
<1>4. e \in Event /\ e.kind = "Media" /\ e.conn = c BY <1>3 DEF Event, Media
<1> HIDE DEF e
<1>5. /\ conns'[c].phase = "Live" /\ conns'[c].reply = conns[c].reply
      /\ conns'[c].closing = conns[c].closing
      /\ \A d \in Conn \ {c} : conns'[d] = conns[d]
      /\ conns' \in [Conn -> Connection]
  <2>1. [conns[c] EXCEPT !.phase = "Live", !.sent = @ + 1] \in Connection
    <3>1. conns[c].sent + 1 \in Nat BY <1>3
    <3> QED BY <1>3, <3>1 DEF Connection, Phases
  <2> QED BY <1>3, <2>1 DEF Room, Connection
<1>6. \A i \in DOMAIN events : events[i].conn \in Conn BY Events
<1>7. /\ \A i \in DOMAIN events : i \in DOMAIN events' /\ events'[i] = events[i]
      /\ \A i \in DOMAIN events' : i \in DOMAIN events \/ i = n
      /\ events'[n] = e /\ n \in DOMAIN events' /\ events' \in Seq(Event)
  BY <1>1, <1>4, Appending
<1>8. /\ waiting' \in Seq(Conn)
      /\ \A i \in DOMAIN waiting' : i + 1 \in DOMAIN waiting /\ waiting'[i] = waiting[i + 1] /\ i \in Nat \ {0}
  BY <1>1
<1>9. Types'
  <2>1. budget' \in Int BY <1>1, <1>3
  <2> QED BY <1>1, <1>5, <1>7, <1>8, <2>1
<1>10. AnswersAreAsked' BY <1>2, <1>5 DEF AnswersAreAsked
<1>11. WaitersWait'
  <2>1. \A i \in DOMAIN waiting' : conns'[waiting'[i]].phase = "Waiting"
    <3> SUFFICES ASSUME NEW i \in DOMAIN waiting' PROVE conns'[waiting'[i]].phase = "Waiting"
      OBVIOUS
    <3>1. i + 1 \in DOMAIN waiting /\ i + 1 # 1 /\ waiting'[i] = waiting[i + 1] BY <1>8
    <3>2. waiting[i + 1] # c BY <1>2, <3>1 DEF WaitersWait
    <3>3. waiting[i + 1] \in Conn BY <3>1
    <3> QED BY <1>5, <3>1, <3>2, <3>3 DEF WaitersWait
  <2>2. ASSUME NEW i \in DOMAIN waiting', NEW j \in DOMAIN waiting', waiting'[i] = waiting'[j]
        PROVE  i = j
    <3>1. i + 1 = j + 1 BY <1>8, <2>2 DEF WaitersWait
    <3> QED BY <1>8, <3>1
  <2> QED BY <2>1, <2>2 DEF WaitersWait
<1>12. ClosedAreDone'
  <2>1. \A i \in DOMAIN events : events[i].kind = "Closed" => events[i].conn # c
    BY <1>2 DEF ClosedAreDone
  <2> QED BY <1>4, <1>5, <1>6, <1>7, <2>1 DEF ClosedAreDone
<1>13. OpenUnheard'
  <2> SUFFICES ASSUME NEW i \in DOMAIN events' PROVE conns'[events'[i].conn].phase # "Open"
    BY DEF OpenUnheard
  <2>1. CASE i = n BY <1>4, <1>5, <1>7, <2>1
  <2>2. CASE i \in DOMAIN events
    <3>1. events'[i].conn \in Conn /\ conns[events'[i].conn].phase # "Open"
      BY <1>6, <1>7, <2>2 DEF OpenUnheard
    <3> QED BY <1>5, <3>1
  <2> QED BY <1>7, <2>1, <2>2
<1>14. AskersWait'
  BY <1>1, <1>2, <1>4, <1>5, AskersStill
<1>15. AskedOnce' BY <1>4, <1>7 DEF AskedOnce
<1>16. PublisherIsThere' BY <1>1, <1>5, <1>7 DEF PublisherIsThere
<1>17. OthersClose' BY <1>1, <1>2, <1>5 DEF OthersClose
<1> QED BY <1>9, <1>10, <1>11, <1>12, <1>13, <1>14, <1>15, <1>16, <1>17

LEMMA UnpublishKeeps ==
  ASSUME PublisherInv, NEW c \in Conn, Unpublish(c)
  PROVE  PublisherInv'
<1> USE DEF PublisherInv, Types
<1> DEFINE e == Closed(c, TRUE)
           n == Len(events) + 1
<1>1. /\ conns[c].phase = "Live" /\ conns' = [conns EXCEPT ![c].phase = "Done"]
      /\ events' = Append(events, e)
      /\ UNCHANGED <<listed, budget, waiting, publisher, silent, stream>>
  BY DEF Unpublish, Become
<1>2. e \in Event /\ e.kind = "Closed" /\ e.conn = c BY DEF Event, Closed
<1> HIDE DEF e
<1>3. /\ conns'[c].phase = "Done" /\ conns'[c].reply = conns[c].reply
      /\ conns'[c].closing = conns[c].closing
      /\ \A d \in Conn \ {c} : conns'[d] = conns[d]
      /\ conns' \in [Conn -> Connection]
  <2>1. conns[c] \in Connection OBVIOUS
  <2>2. [conns[c] EXCEPT !.phase = "Done"] \in Connection BY <2>1 DEF Connection, Phases
  <2> QED BY <1>1, <2>1, <2>2 DEF Connection
<1>4. \A i \in DOMAIN events : events[i].conn \in Conn BY Events
<1>5. /\ \A i \in DOMAIN events : i \in DOMAIN events' /\ events'[i] = events[i]
      /\ \A i \in DOMAIN events' : i \in DOMAIN events \/ i = n
      /\ events'[n] = e /\ n \in DOMAIN events' /\ events' \in Seq(Event)
  BY <1>1, <1>2, Appending
<1>6. Types' BY <1>1, <1>3, <1>5
<1>7. AnswersAreAsked' BY <1>1, <1>3 DEF AnswersAreAsked
<1>8. WaitersWait'
  <2>1. \A i \in DOMAIN waiting : waiting[i] \in Conn /\ waiting[i] # c BY <1>1 DEF WaitersWait
  <2> QED BY <1>1, <1>3, <2>1 DEF WaitersWait
<1>9. ClosedAreDone'
  <2> SUFFICES ASSUME NEW i \in DOMAIN events', events'[i].kind = "Closed"
               PROVE  conns'[events'[i].conn].phase \in {"Done", "Free"}
    BY DEF ClosedAreDone
  <2>1. CASE i = n BY <1>2, <1>3, <1>5, <2>1
  <2>2. CASE i \in DOMAIN events
    <3>1. events'[i].conn \in Conn /\ conns[events'[i].conn].phase \in {"Done", "Free"}
      BY <1>4, <1>5, <2>2 DEF ClosedAreDone
    <3> QED BY <1>3, <3>1
  <2> QED BY <1>5, <2>1, <2>2
<1>10. OpenUnheard'
  <2> SUFFICES ASSUME NEW i \in DOMAIN events' PROVE conns'[events'[i].conn].phase # "Open"
    BY DEF OpenUnheard
  <2>1. CASE i = n BY <1>2, <1>3, <1>5, <2>1
  <2>2. CASE i \in DOMAIN events
    <3>1. events'[i].conn \in Conn /\ conns[events'[i].conn].phase # "Open"
      BY <1>4, <1>5, <2>2 DEF OpenUnheard
    <3> QED BY <1>3, <3>1
  <2> QED BY <1>5, <2>1, <2>2
<1>11. AskersWait' BY <1>1, <1>2, <1>3, AskersStill
<1>12. AskedOnce' BY <1>2, <1>5 DEF AskedOnce
<1>13. PublisherIsThere'
  <2>1. CASE publisher = c BY <1>1, <1>2, <1>5, <2>1 DEF PublisherIsThere
  <2>2. CASE publisher # c BY <1>1, <1>3, <1>5, <2>2 DEF PublisherIsThere
  <2> QED BY <2>1, <2>2
<1>14. OthersClose' BY <1>1, <1>3 DEF OthersClose
<1> QED BY <1>6, <1>7, <1>8, <1>9, <1>10, <1>11, <1>12, <1>13, <1>14

(* Whenever a task ends, the core will hear of it. *)
LEMMA GoneKeeps ==
  ASSUME PublisherInv, NEW c \in Conn, Gone(c)
  PROVE  PublisherInv'
<1> USE DEF PublisherInv, Types
<1> DEFINE e == Closed(c, FALSE)
           n == Len(events) + 1
<1>1. /\ conns' = [conns EXCEPT ![c] = Unused] /\ events' = Append(events, e)
      /\ listed' = RemoveFirst(listed, c) /\ waiting' = RemoveFirst(waiting, c)
      /\ UNCHANGED <<budget, publisher, silent, stream>>
  BY DEF Gone, Farewell
<1>2. e \in Event /\ e.kind = "Closed" /\ e.conn = c BY DEF Event, Closed
<1> HIDE DEF e
<1>3. /\ conns'[c].phase = "Free" /\ conns'[c].reply = "None"
      /\ \A d \in Conn \ {c} : conns'[d] = conns[d]
      /\ conns' \in [Conn -> Connection]
  <2>1. Unused \in Connection /\ Unused.phase = "Free" /\ Unused.reply = "None"
    BY DEF Connection, Phases, Unused
  <2> QED BY <1>1, <2>1
<1>4. \A i \in DOMAIN events : events[i].conn \in Conn BY Events
<1>5. /\ \A i \in DOMAIN events : i \in DOMAIN events' /\ events'[i] = events[i]
      /\ \A i \in DOMAIN events' : i \in DOMAIN events \/ i = n
      /\ events'[n] = e /\ n \in DOMAIN events' /\ events' \in Seq(Event)
  BY <1>1, <1>2, Appending
<1>6. Types'
  <2>1. listed' \in Seq(Conn) /\ waiting' \in Seq(Conn) BY <1>1, FirstTakenOut
  <2> QED BY <1>1, <1>3, <1>5, <2>1
<1>7. AnswersAreAsked' BY <1>3 DEF AnswersAreAsked
<1>8. WaitersWait'
  <2>1. CASE waiting' = waiting /\ \A i \in DOMAIN waiting : waiting[i] # c
    BY <1>3, <2>1 DEF WaitersWait
  <2>2. CASE \E k \in DOMAIN waiting : waiting[k] = c /\ waiting' = RemoveAt(waiting, k)
    <3>1. PICK k \in DOMAIN waiting : waiting[k] = c /\ waiting' = RemoveAt(waiting, k) BY <2>2
    <3> DEFINE at(i) == IF i < k THEN i ELSE i + 1
    <3>2. ASSUME NEW i \in DOMAIN waiting'
          PROVE  i \in Nat /\ at(i) \in DOMAIN waiting /\ at(i) # k /\ waiting'[i] = waiting[at(i)]
      <4>1. /\ waiting' \in Seq(Conn) /\ Len(waiting') = Len(waiting) - 1
            /\ waiting'[i] = IF i < k THEN waiting[i] ELSE waiting[i + 1]
        BY <3>1, TakenOut
      <4> QED BY <4>1
    <3>3. \A i \in DOMAIN waiting' : conns'[waiting'[i]].phase = "Waiting"
      <4> SUFFICES ASSUME NEW i \in DOMAIN waiting' PROVE conns'[waiting'[i]].phase = "Waiting"
        OBVIOUS
      <4>1. at(i) \in DOMAIN waiting /\ at(i) # k /\ waiting'[i] = waiting[at(i)] BY <3>2
      <4> HIDE DEF at
      <4>2. waiting[at(i)] \in Conn \ {c} BY <3>1, <4>1 DEF WaitersWait
      <4> QED BY <1>3, <4>1, <4>2 DEF WaitersWait
    <3>4. ASSUME NEW i \in DOMAIN waiting', NEW j \in DOMAIN waiting', waiting'[i] = waiting'[j]
          PROVE  i = j
      <4>1. at(i) \in DOMAIN waiting /\ waiting'[i] = waiting[at(i)] BY <3>2
      <4>2. at(j) \in DOMAIN waiting /\ waiting'[j] = waiting[at(j)] BY <3>2
      <4>3. at(i) = at(j)
        <5> HIDE DEF at
        <5> QED BY <3>4, <4>1, <4>2 DEF WaitersWait
      <4> QED BY <3>1, <3>2, <4>3
    <3> QED BY <3>3, <3>4 DEF WaitersWait
  <2> QED BY <1>1, <2>1, <2>2, FirstTakenOut
<1>9. ClosedAreDone'
  <2> SUFFICES ASSUME NEW i \in DOMAIN events', events'[i].kind = "Closed"
               PROVE  conns'[events'[i].conn].phase \in {"Done", "Free"}
    BY DEF ClosedAreDone
  <2>1. CASE i = n BY <1>2, <1>3, <1>5, <2>1
  <2>2. CASE i \in DOMAIN events
    <3>1. events'[i].conn \in Conn /\ conns[events'[i].conn].phase \in {"Done", "Free"}
      BY <1>4, <1>5, <2>2 DEF ClosedAreDone
    <3> QED BY <1>3, <3>1
  <2> QED BY <1>5, <2>1, <2>2
<1>10. OpenUnheard'
  <2> SUFFICES ASSUME NEW i \in DOMAIN events' PROVE conns'[events'[i].conn].phase # "Open"
    BY DEF OpenUnheard
  <2>1. CASE i = n BY <1>2, <1>3, <1>5, <2>1
  <2>2. CASE i \in DOMAIN events
    <3>1. events'[i].conn \in Conn /\ conns[events'[i].conn].phase # "Open"
      BY <1>4, <1>5, <2>2 DEF OpenUnheard
    <3> QED BY <1>3, <3>1
  <2> QED BY <1>5, <2>1, <2>2
<1>11. AskersWait' BY <1>1, <1>2, <1>3, AskersStill
<1>12. AskedOnce' BY <1>2, <1>5 DEF AskedOnce
<1>13. PublisherIsThere'
  <2>1. CASE publisher = c BY <1>1, <1>2, <1>5, <2>1 DEF PublisherIsThere
  <2>2. CASE publisher # c BY <1>1, <1>3, <1>5, <2>2 DEF PublisherIsThere
  <2> QED BY <2>1, <2>2
<1>14. OthersClose' BY <1>1, <1>3 DEF OthersClose
<1> QED BY <1>6, <1>7, <1>8, <1>9, <1>10, <1>11, <1>12, <1>13, <1>14

-----------------------------------------------------------------------------
(* The core takes the first of its queue. *)
LEMMA Heading ==
  ASSUME NEW S, NEW q \in Seq(S), q # <<>>
  PROVE  /\ Head(q) \in S /\ Head(q) = q[1] /\ 1 \in DOMAIN q
         /\ Tail(q) \in Seq(S) /\ Len(Tail(q)) = Len(q) - 1
         /\ \A i \in DOMAIN Tail(q) :
              i \in Nat \ {0} /\ i + 1 \in DOMAIN q /\ Tail(q)[i] = q[i + 1]
         /\ \A j \in DOMAIN q :
              j # 1 => j - 1 \in DOMAIN Tail(q) /\ Tail(q)[j - 1] = q[j]
OBVIOUS

(* What holds whatever the core handles: the phases are the tasks' own, and *)
(* only a connection that asks is answered.                                *)
LEMMA HandledKeeps ==
  ASSUME PublisherInv, events # <<>>, events' = Tail(events),
         Types',
         \A d \in Conn : conns'[d].phase = conns[d].phase,
         \A d \in Conn : \/ conns'[d].reply = conns[d].reply
                         \/ /\ events[1].kind = "Publish" /\ events[1].conn = d
                            /\ conns[d].phase = "Asking",
         UNCHANGED waiting
  PROVE  /\ AnswersAreAsked' /\ WaitersWait' /\ ClosedAreDone' /\ OpenUnheard'
         /\ AskersWait' /\ AskedOnce'
<1> USE DEF PublisherInv, Types
<1>1. /\ 1 \in DOMAIN events
      /\ \A i \in DOMAIN events' :
           i \in Nat \ {0} /\ i + 1 \in DOMAIN events /\ events'[i] = events[i + 1]
      /\ \A j \in DOMAIN events :
           j # 1 => j - 1 \in DOMAIN events' /\ events'[j - 1] = events[j]
  BY Heading
<1>2. \A i \in DOMAIN events : i \in Int /\ events[i].conn \in Conn BY Events
<1>3. AnswersAreAsked' BY DEF AnswersAreAsked
<1>4. WaitersWait'
  <2>1. \A i \in DOMAIN waiting : waiting[i] \in Conn OBVIOUS
  <2> QED BY <2>1 DEF WaitersWait
<1>5. ClosedAreDone'
  <2> SUFFICES ASSUME NEW i \in DOMAIN events', events'[i].kind = "Closed"
               PROVE  conns'[events'[i].conn].phase \in {"Done", "Free"}
    BY DEF ClosedAreDone
  <2>1. i + 1 \in DOMAIN events /\ events'[i] = events[i + 1] BY <1>1
  <2>2. conns[events[i + 1].conn].phase \in {"Done", "Free"} BY <2>1 DEF ClosedAreDone
  <2> QED BY <1>2, <2>1, <2>2
<1>6. OpenUnheard'
  <2> SUFFICES ASSUME NEW i \in DOMAIN events' PROVE conns'[events'[i].conn].phase # "Open"
    BY DEF OpenUnheard
  <2>1. i + 1 \in DOMAIN events /\ events'[i] = events[i + 1] BY <1>1
  <2> QED BY <1>2, <2>1, ZenonT(30) DEF OpenUnheard
<1>7. AskersWait'
  <2> SUFFICES ASSUME NEW i \in DOMAIN events', events'[i].kind = "Publish" PROVE IsAsked(i)'
    BY DEF AskersWait
  <2> DEFINE c == events'[i].conn
  <2>1. /\ i + 1 \in DOMAIN events /\ events'[i] = events[i + 1] /\ i + 1 # 1 /\ c \in Conn
        /\ events[i + 1].kind = "Publish"
    BY <1>1, <1>2
  <2>2. IsAsked(i + 1) BY <2>1 DEF AskersWait
  <2>3. CASE conns[c].phase = "Asking" /\ conns[c].reply = "None"
    <3>1. ~(events[1].kind = "Publish" /\ events[1].conn = c) BY <1>1, <2>1 DEF AskedOnce
    <3> QED BY <2>1, <2>3, <3>1 DEF IsAsked
  <2>4. CASE \E j \in DOMAIN events : i + 1 < j /\ events[j].kind = "Closed" /\ events[j].conn = c
    <3>1. PICK j \in DOMAIN events : i + 1 < j /\ events[j].kind = "Closed" /\ events[j].conn = c
      BY <2>4
    <3>2. j # 1 /\ i < j - 1 BY <1>1, <1>2, <3>1, SMTT(30)
    <3>3. j - 1 \in DOMAIN events' /\ events'[j - 1] = events[j] BY <1>1, <3>2
    <3> QED BY <3>1, <3>2, <3>3 DEF IsAsked
  <2> QED BY <2>1, <2>2, <2>3, <2>4 DEF IsAsked
<1>8. AskedOnce'
  <2> SUFFICES ASSUME NEW i \in DOMAIN events', NEW j \in DOMAIN events',
                      events'[i].kind = "Publish", events'[j].kind = "Publish",
                      events'[i].conn = events'[j].conn
               PROVE  i = j
    BY DEF AskedOnce
  <2>1. i + 1 = j + 1 BY <1>1 DEF AskedOnce
  <2> QED BY <1>1, <2>1
<1> QED BY <1>3, <1>4, <1>5, <1>6, <1>7, <1>8

(* Only who asks is admitted, and who is taken over from is told to close. *)
LEMMA HandlePublishKeeps ==
  ASSUME PublisherInv, events # <<>>, events' = Tail(events), HandlePublish(events[1]),
         UNCHANGED <<listed, waiting>>
  PROVE  PublisherInv'
<1> USE DEF PublisherInv, Types
<1> DEFINE e == events[1]
           c == e.conn
<1>1. /\ 1 \in DOMAIN events /\ e \in Event /\ c \in Conn /\ events' \in Seq(Event)
      /\ \A j \in DOMAIN events :
           j # 1 => j - 1 \in DOMAIN events' /\ events'[j - 1] = events[j]
  BY Heading, Events
<1>2. e.kind = "Publish" /\ UNCHANGED budget BY DEF HandlePublish
<1>3. c # None BY <1>1, IngestConstants
<1>4. \/ conns[c].phase = "Asking" /\ conns[c].reply = "None"
      \/ \E j \in DOMAIN events : 1 < j /\ events[j].kind = "Closed" /\ events[j].conn = c
  BY <1>1, <1>2 DEF AskersWait, IsAsked
<1>5. \/ conns[c].phase = "Asking" /\ conns[c].reply = "None"
      \/ conns[c].phase # "Asking" /\ conns[c].reply = "None"
  BY <1>1, <1>4 DEF ClosedAreDone, AnswersAreAsked
<1>6. CASE Admits(e)
  <2>1. /\ publisher' = c /\ silent' = FALSE /\ stream' = 0
        /\ conns' = Reply(Displace(c), c, "Yes")
    BY <1>2, <1>6 DEF HandlePublish
  <2>2. ASSUME NEW d \in Conn
        PROVE  /\ conns'[d] \in Connection
               /\ conns'[d].phase = conns[d].phase
               /\ conns'[d].reply = (IF d = c /\ conns[d].phase = "Asking" THEN "Yes"
                                     ELSE conns[d].reply)
               /\ conns[d].closing \/ (d = publisher /\ conns[d].phase # "Free") => conns'[d].closing
    <3> DEFINE x == Displace(c)[d]
    <3>1. conns[d] \in Connection OBVIOUS
    <3>2. x = IF d = publisher /\ conns[d].phase # "Free" THEN [conns[d] EXCEPT !.closing = TRUE]
              ELSE conns[d]
      BY DEF Displace
    <3>3. /\ x \in Connection /\ x.phase = conns[d].phase /\ x.reply = conns[d].reply
          /\ conns[d].closing \/ (d = publisher /\ conns[d].phase # "Free") => x.closing
      BY <3>1, <3>2, ZenonT(30) DEF Connection
    <3>4. conns'[d] = IF d = c /\ x.phase = "Asking" THEN [x EXCEPT !.reply = "Yes"] ELSE x
      BY <2>1 DEF Reply
    <3> HIDE DEF x
    <3>5. CASE ~(d = c /\ x.phase = "Asking") BY <3>3, <3>4, <3>5
    <3>6. CASE d = c /\ x.phase = "Asking"
      <4>1. conns'[d] = [x EXCEPT !.reply = "Yes"] BY <3>4, <3>6
      <4> QED BY <3>3, <3>6, <4>1 DEF Connection
    <3> QED BY <3>5, <3>6
  <2>3. Types'
    <3>1. conns' = [d \in Conn |-> conns'[d]] BY <2>1 DEF Reply
    <3>2. conns' \in [Conn -> Connection] BY <2>2, <3>1
    <3> QED BY <1>1, <1>2, <2>1, <3>2
  <2>4. /\ AnswersAreAsked' /\ WaitersWait' /\ ClosedAreDone' /\ OpenUnheard'
        /\ AskersWait' /\ AskedOnce'
    BY <1>2, <2>2, <2>3, HandledKeeps
  <2>5. PublisherIsThere'
    <3>1. CASE conns[c].phase = "Asking" /\ conns[c].reply = "None"
      BY <1>1, <2>1, <2>2, <3>1 DEF PublisherIsThere
    <3>2. CASE \E j \in DOMAIN events : 1 < j /\ events[j].kind = "Closed" /\ events[j].conn = c
      <4>1. PICK j \in DOMAIN events : 1 < j /\ events[j].kind = "Closed" /\ events[j].conn = c
        BY <3>2
      <4>2. j - 1 \in DOMAIN events' /\ events'[j - 1] = events[j] BY <1>1, <4>1
      <4> QED BY <2>1, <4>1, <4>2 DEF PublisherIsThere
    <3> QED BY <1>4, <3>1, <3>2
  <2>6. OthersClose'
    <3> SUFFICES ASSUME NEW d \in Conn,
                        conns'[d].phase \in {"Live", "Waiting"} \/ conns'[d].reply = "Yes", d # c
                 PROVE  conns'[d].closing
      BY <2>1 DEF OthersClose
    <3>1. conns[d].phase \in {"Live", "Waiting"} \/ conns[d].reply = "Yes" BY <2>2
    <3>2. publisher = d \/ conns[d].closing BY <3>1 DEF OthersClose
    <3>3. conns[d].phase # "Free" BY <3>1 DEF AnswersAreAsked
    <3> QED BY <2>2, <3>2, <3>3
  <2> QED BY <2>3, <2>4, <2>5, <2>6
<1>7. CASE ~Admits(e)
  <2>1. conns' = Reply(conns, c, "No") /\ UNCHANGED <<publisher, silent, stream>>
    BY <1>2, <1>7 DEF HandlePublish
  <2>2. ASSUME NEW d \in Conn
        PROVE  /\ conns'[d] \in Connection
               /\ conns'[d].phase = conns[d].phase /\ conns'[d].closing = conns[d].closing
               /\ conns'[d].reply = (IF d = c /\ conns[d].phase = "Asking" THEN "No"
                                     ELSE conns[d].reply)
    <3>1. conns[d] \in Connection OBVIOUS
    <3>2. conns'[d] = IF d = c /\ conns[d].phase = "Asking" THEN [conns[d] EXCEPT !.reply = "No"]
                      ELSE conns[d]
      BY <2>1 DEF Reply
    <3> QED BY <3>1, <3>2, ZenonT(30) DEF Connection
  <2>3. Types'
    <3>1. conns' = [d \in Conn |-> conns'[d]] BY <2>1 DEF Reply
    <3>2. conns' \in [Conn -> Connection] BY <2>2, <3>1
    <3> QED BY <1>1, <1>2, <2>1, <3>2
  <2>4. /\ AnswersAreAsked' /\ WaitersWait' /\ ClosedAreDone' /\ OpenUnheard'
        /\ AskersWait' /\ AskedOnce'
    BY <1>2, <2>2, <2>3, HandledKeeps
  <2>5. PublisherIsThere'
    <3> SUFFICES ASSUME publisher # None PROVE PublisherIsThere' BY <2>1 DEF PublisherIsThere
    <3>1. CASE \E j \in DOMAIN events : events[j].kind = "Closed" /\ events[j].conn = publisher
      <4>1. PICK j \in DOMAIN events : events[j].kind = "Closed" /\ events[j].conn = publisher
        BY <3>1
      <4>2. j - 1 \in DOMAIN events' /\ events'[j - 1] = events[j] BY <1>1, <1>2, <4>1
      <4> QED BY <2>1, <4>1, <4>2 DEF PublisherIsThere
    <3>2. CASE conns[publisher].phase \in {"Live", "Waiting"}
      BY <2>1, <2>2, <3>2 DEF PublisherIsThere
    <3>3. CASE conns[publisher].phase = "Asking" /\ conns[publisher].reply = "Yes"
      <4>1. publisher # c BY <1>5, <3>3
      <4> QED BY <2>1, <2>2, <3>3, <4>1 DEF PublisherIsThere
    <3> QED BY <3>1, <3>2, <3>3 DEF PublisherIsThere
  <2>6. OthersClose' BY <2>1, <2>2 DEF OthersClose
  <2> QED BY <2>3, <2>4, <2>5, <2>6
<1> QED BY <1>6, <1>7

LEMMA HandleMediaKeeps ==
  ASSUME PublisherInv, events # <<>>, events' = Tail(events), HandleMedia(events[1]),
         UNCHANGED <<listed, waiting>>
  PROVE  PublisherInv'
<1> USE DEF PublisherInv, Types
<1>1. /\ 1 \in DOMAIN events /\ events[1] \in Event /\ events' \in Seq(Event)
      /\ \A j \in DOMAIN events :
           j # 1 => j - 1 \in DOMAIN events' /\ events'[j - 1] = events[j]
  BY Heading
<1>2. events[1].kind = "Media" /\ UNCHANGED <<conns, publisher>> BY DEF HandleMedia
<1>3. Types'
  <2>1. events[1].need \in Nat BY <1>1, <1>2 DEF Event
  <2>2. budget' \in Int BY <2>1 DEF HandleMedia, GivenBack
  <2>3. stream' \in Nat /\ silent' \in BOOLEAN
    <3>1. stream + 1 \in Nat OBVIOUS
    <3> QED BY <3>1 DEF HandleMedia
  <2> QED BY <1>1, <1>2, <2>2, <2>3
<1>4. /\ AnswersAreAsked' /\ WaitersWait' /\ ClosedAreDone' /\ OpenUnheard'
      /\ AskersWait' /\ AskedOnce'
  BY <1>2, <1>3, HandledKeeps
<1>5. PublisherIsThere'
  <2>1. CASE \E j \in DOMAIN events : events[j].kind = "Closed" /\ events[j].conn = publisher
    <3>1. PICK j \in DOMAIN events : events[j].kind = "Closed" /\ events[j].conn = publisher
      BY <2>1
    <3>2. j - 1 \in DOMAIN events' /\ events'[j - 1] = events[j] BY <1>1, <1>2, <3>1
    <3> QED BY <1>2, <3>1, <3>2 DEF PublisherIsThere
  <2>2. CASE ~ \E j \in DOMAIN events : events[j].kind = "Closed" /\ events[j].conn = publisher
    BY <1>2, <2>2 DEF PublisherIsThere
  <2> QED BY <2>1, <2>2
<1>6. OthersClose' BY <1>2 DEF OthersClose
<1> QED BY <1>3, <1>4, <1>5, <1>6

(* What has closed is no longer the publisher. *)
LEMMA HandleClosedKeeps ==
  ASSUME PublisherInv, events # <<>>, events' = Tail(events), HandleClosed(events[1]),
         UNCHANGED <<listed, waiting>>
  PROVE  PublisherInv'
<1> USE DEF PublisherInv, Types
<1> DEFINE c == events[1].conn
<1>1. /\ 1 \in DOMAIN events /\ events[1] \in Event /\ c \in Conn /\ events' \in Seq(Event)
      /\ \A j \in DOMAIN events :
           j # 1 => j - 1 \in DOMAIN events' /\ events'[j - 1] = events[j]
  BY Heading, Events
<1>2. events[1].kind = "Closed" /\ UNCHANGED <<conns, budget, stream>> BY DEF HandleClosed
<1>3. IF publisher = c THEN publisher' = None /\ silent' = FALSE ELSE UNCHANGED <<publisher, silent>>
  BY DEF HandleClosed, IsPublisher
<1>4. Types' BY <1>1, <1>2, <1>3
<1>5. /\ AnswersAreAsked' /\ WaitersWait' /\ ClosedAreDone' /\ OpenUnheard'
      /\ AskersWait' /\ AskedOnce'
  BY <1>2, <1>4, HandledKeeps
<1>6. PublisherIsThere'
  <2> SUFFICES ASSUME publisher # c PROVE PublisherIsThere' BY <1>3 DEF PublisherIsThere
  <2>1. CASE \E j \in DOMAIN events : events[j].kind = "Closed" /\ events[j].conn = publisher
    <3>1. PICK j \in DOMAIN events : events[j].kind = "Closed" /\ events[j].conn = publisher
      BY <2>1
    <3>2. j - 1 \in DOMAIN events' /\ events'[j - 1] = events[j] BY <1>1, <3>1
    <3> QED BY <1>3, <3>1, <3>2 DEF PublisherIsThere
  <2>2. CASE ~ \E j \in DOMAIN events : events[j].kind = "Closed" /\ events[j].conn = publisher
    BY <1>2, <1>3, <2>2 DEF PublisherIsThere
  <2> QED BY <2>1, <2>2
<1>7. OthersClose'
  <2>1. conns[c].phase \notin {"Live", "Waiting"} /\ conns[c].reply = "None"
    BY <1>1, <1>2 DEF ClosedAreDone, AnswersAreAsked
  <2> QED BY <1>2, <1>3, <2>1 DEF OthersClose
<1> QED BY <1>4, <1>5, <1>6, <1>7

LEMMA PublisherNext == PublisherInv /\ [Next]_vars => PublisherInv'
<1> SUFFICES ASSUME PublisherInv, [Next]_vars PROVE PublisherInv' OBVIOUS
<1>1. ASSUME NEW c \in Conn, Task(c) PROVE PublisherInv'
  BY <1>1, ConnectKeeps, AskKeeps, AnsweredKeeps, SendKeeps, RoomKeeps, UnpublishKeeps, GoneKeeps
     DEF Task, Leave, Notice
<1>2. CASE Handle
  <2>1. /\ events # <<>> /\ events' = Tail(events) /\ UNCHANGED <<listed, waiting>>
        /\ LET e == Head(events) IN HandlePublish(e) \/ HandleMedia(e) \/ HandleClosed(e)
    BY <1>2 DEF Handle
  <2>2. Head(events) = events[1] BY <2>1, Heading DEF PublisherInv, Types
  <2> QED BY <2>1, <2>2, HandlePublishKeeps, HandleMediaKeeps, HandleClosedKeeps
<1>3. CASE FallSilent
  BY <1>3 DEF FallSilent, PublisherInv, Types, AnswersAreAsked, WaitersWait, ClosedAreDone, OpenUnheard,
              AskersWait, IsAsked, AskedOnce, PublisherIsThere, OthersClose
<1>4. CASE UNCHANGED vars
  BY <1>4 DEF vars, PublisherInv, Types, AnswersAreAsked, WaitersWait, ClosedAreDone, OpenUnheard,
              AskersWait, IsAsked, AskedOnce, PublisherIsThere, OthersClose
<1> QED BY <1>1, <1>2, <1>3, <1>4 DEF Next

LEMMA PublisherAlways == Spec => []PublisherInv
<1> QED BY PublisherInit, PublisherNext, PTL DEF Spec

(* No dead connection keeps the encoder out: the publisher publishes, or   *)
(* the core will hear that it has gone (core.rs, publish and closed).      *)
THEOREM PublisherIsThereAlways == Spec => []PublisherIsThere
<1>1. PublisherInv => PublisherIsThere BY DEF PublisherInv
<1> QED BY <1>1, PublisherAlways, PTL

(* Nobody goes on publishing beside the publisher: it has been told to     *)
(* close (core.rs, publish).                                               *)
THEOREM OthersCloseAlways == Spec => []OthersClose
<1>1. PublisherInv => OthersClose BY DEF PublisherInv
<1> QED BY <1>1, PublisherAlways, PTL

(* Making room closes no connection that publishes or waits for its answer *)
(* (Conns::admit): only who takes over its place closes it.                *)
THEOREM PublisherIsKeptAlways == Spec => PublisherIsKept
<1> DEFINE Kept ==
      \A c \in Conn :
        conns[c].phase \in {"Asking", "Live", "Waiting"} /\ ~conns[c].closing /\ conns'[c].closing
          => publisher = c /\ publisher' # c
<1>1. ASSUME PublisherInv, [Next]_vars PROVE [Kept]_vars
  <2> SUFFICES ASSUME NEW c \in Conn, conns[c].phase \in {"Asking", "Live", "Waiting"},
                      ~conns[c].closing, conns'[c].closing
               PROVE  publisher = c /\ publisher' # c
    OBVIOUS
  <2> USE <1>1 DEF PublisherInv, Types
  <2>1. conns[c] \in Connection OBVIOUS
  <2>2. ASSUME NEW d \in Conn, NEW a \in Addrs \cup {Loopback}, Connect(d, a) PROVE FALSE
    <3>1. \A x \in ToSet(listed) \ ToSet(Stays(a)) : ~IsPublishing(x)
      BY <2>2, StaysListed DEF Connect
    <3>2. c \notin ToSet(listed) \ ToSet(Stays(a)) BY <3>1 DEF IsPublishing
    <3>3. conns[d].phase = "Free" BY <2>2 DEF Connect
    <3>4. c # d BY <3>3
    <3>5. conns'[c] = conns[c] BY <2>2, <3>2, <3>4 DEF Connect
    <3> QED BY <3>5
  <2>3. ASSUME NEW d \in Conn,
               \/ \E good \in BOOLEAN : Ask(d, good)
               \/ Answered(d)
               \/ \E size \in Sizes : Send(d, size)
               \/ Room(d) \/ Unpublish(d) \/ Leave(d) \/ Notice(d)
        PROVE  FALSE
    <3>1. conns[d] \in Connection OBVIOUS
    <3>2. CASE Leave(d) \/ Notice(d)
      <4>1. conns' = [conns EXCEPT ![d] = Unused] BY <3>2 DEF Leave, Notice, Gone
      <4>2. conns'[d] = Unused /\ (c # d => conns'[c] = conns[c]) BY <4>1
      <4> QED BY <4>2 DEF Unused
    <3>3. CASE (\E good \in BOOLEAN : Ask(d, good)) \/ Unpublish(d)
      <4>1. \E p \in Phases : conns' = [conns EXCEPT ![d].phase = p]
        BY <3>3 DEF Ask, Unpublish, Become, Phases
      <4>2. PICK p \in Phases : conns' = [conns EXCEPT ![d].phase = p] BY <4>1
      <4>3. conns'[d] = [conns[d] EXCEPT !.phase = p] /\ (c # d => conns'[c] = conns[c]) BY <4>2
      <4> QED BY <3>1, <4>3, ZenonT(30) DEF Connection
    <3>4. CASE Answered(d)
      <4>1. /\ conns'[d] = [conns[d] EXCEPT !.phase = IF conns[d].reply = "Yes" THEN "Live" ELSE "Refused",
                                           !.reply = "None"]
            /\ c # d => conns'[c] = conns[c]
        BY <3>4 DEF Answered
      <4> QED BY <3>1, <4>1, ZenonT(30) DEF Connection
    <3>5. CASE \E size \in Sizes : Send(d, size)
      <4>1. PICK size \in Sizes : Send(d, size) BY <3>5
      <4>2. /\ conns'[d] = [conns[d] EXCEPT !.phase = "Waiting", !.need = Need(size)]
            /\ c # d => conns'[c] = conns[c]
        BY <4>1 DEF Send
      <4> QED BY <3>1, <4>2, ZenonT(30) DEF Connection
    <3>6. CASE Room(d)
      <4>1. /\ conns'[d] = [conns[d] EXCEPT !.phase = "Live", !.sent = @ + 1]
            /\ c # d => conns'[c] = conns[c]
        BY <3>6 DEF Room
      <4> QED BY <3>1, <4>1, ZenonT(30) DEF Connection
    <3> QED BY <2>3, <3>2, <3>3, <3>4, <3>5, <3>6
  <2>4. CASE Handle
    <3> DEFINE e == Head(events)
    <3>1. events # <<>> /\ (HandlePublish(e) \/ HandleMedia(e) \/ HandleClosed(e))
      BY <2>4 DEF Handle
    <3>2. e = events[1] /\ e \in Event /\ 1 \in DOMAIN events BY <2>4, Heading DEF Handle
    <3> HIDE DEF e
    <3>3. CASE HandleMedia(e) \/ HandleClosed(e) BY <3>3 DEF HandleMedia, HandleClosed
    <3>4. CASE HandlePublish(e) /\ ~Admits(e)
      <4>1. conns' = Reply(conns, e.conn, "No") BY <3>4 DEF HandlePublish
      <4>2. conns'[c] = IF c = e.conn /\ conns[c].phase = "Asking" THEN [conns[c] EXCEPT !.reply = "No"]
                        ELSE conns[c]
        BY <4>1 DEF Reply
      <4> QED BY <2>1, <4>2 DEF Connection
    <3>5. CASE HandlePublish(e) /\ Admits(e)
      <4>1. publisher' = e.conn /\ conns' = Reply(Displace(e.conn), e.conn, "Yes")
        BY <3>5 DEF HandlePublish
      <4>2. publisher = c BY <2>1, <4>1 DEF Reply, Displace, Connection
      <4>3. e.conn # c
        <5>1. SUFFICES ASSUME e.conn = c PROVE FALSE OBVIOUS
        <5>2. e.kind = "Publish" BY <3>5 DEF HandlePublish
        <5>3. /\ conns[c].phase = "Asking" /\ conns[c].reply = "None"
              /\ ~ \E i \in DOMAIN events : events[i].kind = "Closed" /\ events[i].conn = c
          BY <3>2, <5>1, <5>2 DEF AskersWait, IsAsked, ClosedAreDone
        <5>4. c # None BY IngestConstants
        <5> QED BY <4>2, <5>3, <5>4 DEF PublisherIsThere
      <4> QED BY <4>1, <4>2, <4>3
    <3> QED BY <3>1, <3>3, <3>4, <3>5
  <2>5. CASE FallSilent \/ UNCHANGED vars BY <2>5 DEF FallSilent, vars
  <2> QED BY <2>2, <2>3, <2>4, <2>5 DEF Next, Task
<1> QED BY <1>1, PublisherAlways, PTL DEF Spec, PublisherIsKept

-----------------------------------------------------------------------------
(* The budget *)

LEMMA TakenNat == ASSUME NEW e \in Event PROVE Taken(e) \in Nat
BY DEF Event, Taken

(* One more in the queue adds what it takes. *)
LEMMA SumGrows ==
  ASSUME NEW q \in Seq(Event), NEW e \in Event, NEW g \in [0 .. Len(q) -> Int], SumsTo(g, q)
  PROVE  \E h \in [0 .. Len(Append(q, e)) -> Int] :
           SumsTo(h, Append(q, e)) /\ h[Len(Append(q, e))] = g[Len(q)] + Taken(e)
<1> DEFINE n == Len(q)
           p == Append(q, e)
           h == [i \in 0 .. n + 1 |-> IF i = n + 1 THEN g[n] + Taken(e) ELSE g[i]]
<1>1. n \in Nat /\ Len(p) = n + 1 /\ p[n + 1] = e /\ \A i \in 1 .. n : p[i] = q[i] BY Appending
<1>2. Taken(e) \in Int BY TakenNat
<1> HIDE DEF p, n
<1>3. h \in [0 .. n + 1 -> Int] BY <1>1, <1>2 DEF n
<1>4. h[0] = 0 BY <1>1 DEF SumsTo, n
<1>5. \A i \in 1 .. n + 1 : h[i] = h[i - 1] + Taken(p[i])
  <2> SUFFICES ASSUME NEW i \in 1 .. n + 1 PROVE h[i] = h[i - 1] + Taken(p[i]) OBVIOUS
  <2>1. CASE i = n + 1
    <3>1. h[n] = g[n] BY <1>1
    <3> QED BY <1>1, <2>1, <3>1
  <2>2. CASE i # n + 1
    <3>1. i \in 1 .. n /\ i - 1 \in 0 .. n + 1 /\ i - 1 # n + 1 BY <1>1, <2>2
    <3>2. h[i] = g[i] /\ h[i - 1] = g[i - 1] BY <2>2, <3>1
    <3>3. g[i] = g[i - 1] + Taken(q[i]) BY <3>1 DEF SumsTo, n
    <3> QED BY <1>1, <3>1, <3>2, <3>3
  <2> QED BY <2>1, <2>2
<1>6. h[n + 1] = g[n] + Taken(e) BY <1>1
<1> HIDE DEF h
<1> QED BY <1>1, <1>3, <1>4, <1>5, <1>6 DEF SumsTo, p, n

(* One fewer in the queue takes away what it took. *)
LEMMA SumShrinks ==
  ASSUME NEW q \in Seq(Event), q # <<>>, NEW g \in [0 .. Len(q) -> Int], SumsTo(g, q)
  PROVE  \E h \in [0 .. Len(Tail(q)) -> Int] :
           SumsTo(h, Tail(q)) /\ h[Len(Tail(q))] = g[Len(q)] - Taken(q[1])
<1> DEFINE n == Len(q)
           p == Tail(q)
           h == [i \in 0 .. n - 1 |-> g[i + 1] - Taken(q[1])]
<1>1. n \in Nat \ {0} /\ Len(p) = n - 1 /\ \A i \in 1 .. n - 1 : p[i] = q[i + 1] BY Heading
<1>2. Taken(q[1]) \in Int BY Heading, TakenNat
<1> HIDE DEF p, n
<1>3. \A i \in 0 .. n : g[i] \in Int BY DEF n
<1>4. h \in [0 .. n - 1 -> Int]
  <2>1. \A i \in 0 .. n - 1 : i + 1 \in 0 .. n BY <1>1
  <2> QED BY <1>2, <1>3, <2>1
<1>5. h[0] = 0
  <2>1. g[1] = g[0] + Taken(q[1]) /\ g[0] = 0 BY <1>1 DEF SumsTo, n
  <2> QED BY <1>1, <1>2, <2>1
<1>6. \A i \in 1 .. n - 1 : h[i] = h[i - 1] + Taken(p[i])
  <2> SUFFICES ASSUME NEW i \in 1 .. n - 1 PROVE h[i] = h[i - 1] + Taken(p[i]) OBVIOUS
  <2>1. i + 1 \in 1 .. n /\ i \in 0 .. n - 1 /\ i - 1 \in 0 .. n - 1 /\ (i - 1) + 1 = i /\ (i + 1) - 1 = i
    BY <1>1
  <2>2. g[i + 1] = g[i] + Taken(q[i + 1])
    <3>1. g[i + 1] = g[(i + 1) - 1] + Taken(q[i + 1]) BY <2>1 DEF SumsTo, n
    <3> QED BY <2>1, <3>1
  <2>3. h[i] = g[i + 1] - Taken(q[1]) /\ h[i - 1] = g[i] - Taken(q[1]) BY <2>1
  <2>4. p[i] = q[i + 1] BY <1>1
  <2>5. Taken(q[i + 1]) \in Int
    <3>1. q[i + 1] \in Event BY <2>1 DEF n
    <3> QED BY <3>1, TakenNat
  <2>6. g[i] \in Int BY <1>1, <1>3, <2>1
  <2> HIDE DEF h
  <2> QED BY <1>2, <2>2, <2>3, <2>4, <2>5, <2>6
<1>7. h[n - 1] = g[n] - Taken(q[1])
  <2>1. n - 1 \in 0 .. n - 1 /\ (n - 1) + 1 = n BY <1>1
  <2> QED BY <2>1
<1> HIDE DEF h
<1> QED BY <1>1, <1>4, <1>5, <1>6, <1>7 DEF SumsTo, p, n

(* A queue in which nothing takes from the budget takes nothing of it. *)
LEMMA SumOfNothing ==
  ASSUME NEW q \in Seq(Event), NEW g \in [0 .. Len(q) -> Int], SumsTo(g, q),
         \A i \in DOMAIN q : Taken(q[i]) = 0
  PROVE  g[Len(q)] = 0
<1> DEFINE n == Len(q)
           S == {i \in 0 .. n : g[i] # 0}
<1>1. SUFFICES ASSUME g[n] # 0 PROVE FALSE OBVIOUS
<1>2. n \in Nat /\ n \in S /\ S \subseteq Nat BY <1>1
<1>3. Min(S) \in S /\ \A x \in S : Min(S) <= x BY <1>2, Least
<1> DEFINE m == Min(S)
<1> HIDE DEF m
<1>4. m \in 0 .. n /\ g[m] # 0 /\ \A x \in 0 .. n : g[x] # 0 => m <= x BY <1>3 DEF m
<1>5. m # 0 BY <1>4 DEF SumsTo
<1>6. m \in 1 .. n /\ m - 1 \in 0 .. n /\ ~(m <= m - 1) BY <1>2, <1>4, <1>5
<1>7. g[m - 1] = 0 BY <1>4, <1>6
<1>8. g[m] = g[m - 1] + Taken(q[m]) /\ m \in DOMAIN q BY <1>6 DEF SumsTo
<1> QED BY <1>4, <1>7, <1>8

LEMMA BudgetInit == Init => BudgetKept /\ NeedsFit
<1> SUFFICES ASSUME Init PROVE BudgetKept /\ NeedsFit OBVIOUS
<1>1. Budget \in Nat BY IngestConstants
<1>2. NeedsFit BY <1>1 DEF Init, NeedsFit, Unused
<1>3. BudgetKept
  <2> DEFINE g == [i \in 0 .. 0 |-> 0]
  <2>1. g \in [0 .. Len(events) -> Int] /\ g[0] = 0 /\ Len(events) = 0 BY DEF Init
  <2>2. SumsTo(g, events) /\ budget + g[Len(events)] = Budget BY <1>1, <2>1 DEF SumsTo, Init
  <2> QED BY <2>1, <2>2 DEF BudgetKept
<1> QED BY <1>2, <1>3

LEMMA BudgetNext == PublisherInv /\ BudgetKept /\ [Next]_vars => BudgetKept'
<1> SUFFICES ASSUME PublisherInv, BudgetKept, [Next]_vars PROVE BudgetKept' OBVIOUS
<1> USE DEF PublisherInv, Types
<1>1. PICK g \in [0 .. Len(events) -> Int] : SumsTo(g, events) /\ budget + g[Len(events)] = Budget
  BY DEF BudgetKept
<1>2. Budget \in Int /\ g[Len(events)] \in Int
  <2>1. Len(events) \in 0 .. Len(events) OBVIOUS
  <2> QED BY <1>1, <2>1, IngestConstants
<1>3. ASSUME NEW e \in Event, events' = Append(events, e), budget' = budget - Taken(e)
      PROVE  BudgetKept'
  <2>1. PICK h \in [0 .. Len(events') -> Int] :
          SumsTo(h, events') /\ h[Len(events')] = g[Len(events)] + Taken(e)
    BY <1>1, <1>3, SumGrows
  <2>2. budget' + h[Len(events')] = Budget BY <1>1, <1>2, <1>3, <2>1, TakenNat
  <2> QED BY <2>1, <2>2 DEF BudgetKept
<1>4. ASSUME events # <<>>, events' = Tail(events), budget' = budget + Taken(events[1])
      PROVE  BudgetKept'
  <2>1. PICK h \in [0 .. Len(events') -> Int] :
          SumsTo(h, events') /\ h[Len(events')] = g[Len(events)] - Taken(events[1])
    BY <1>1, <1>4, SumShrinks
  <2>2. Taken(events[1]) \in Int BY <1>4, Heading, TakenNat
  <2>3. budget' + h[Len(events')] = Budget BY <1>1, <1>2, <1>4, <2>1, <2>2
  <2> QED BY <2>1, <2>3 DEF BudgetKept
<1>5. ASSUME UNCHANGED <<events, budget>> PROVE BudgetKept' BY <1>5 DEF BudgetKept
<1>6. ASSUME NEW c \in Conn, NEW good \in BOOLEAN, Ask(c, good) PROVE BudgetKept'
  <2>1. Publish(c, good) \in Event /\ Taken(Publish(c, good)) = 0 BY DEF Publish, Event, Taken
  <2>2. events' = Append(events, Publish(c, good)) /\ budget' = budget - 0 BY <1>6 DEF Ask
  <2> QED BY <1>3, <2>1, <2>2
<1>7. ASSUME NEW c \in Conn, NEW stopped \in BOOLEAN, events' = Append(events, Closed(c, stopped)),
             UNCHANGED budget
      PROVE  BudgetKept'
  <2>1. Closed(c, stopped) \in Event /\ Taken(Closed(c, stopped)) = 0 BY DEF Closed, Event, Taken
  <2>2. budget' = budget - 0 BY <1>7
  <2> QED BY <1>3, <1>7, <2>1, <2>2
<1>8. ASSUME NEW c \in Conn, Room(c) PROVE BudgetKept'
  <2> DEFINE e == Media(c, conns[c].sent + 1, conns[c].need)
  <2>1. conns[c] \in Connection OBVIOUS
  <2>2. conns[c].sent + 1 \in Nat /\ conns[c].need \in Nat BY <2>1 DEF Connection
  <2>3. e \in Event /\ Taken(e) = conns[c].need BY <2>2 DEF Event, Taken, Media
  <2>4. events' = Append(events, e) /\ budget' = budget - conns[c].need BY <1>8 DEF Room
  <2> QED BY <1>3, <2>3, <2>4
<1>9. CASE Handle
  <2>1. /\ events # <<>> /\ events' = Tail(events)
        /\ LET e == Head(events) IN HandlePublish(e) \/ HandleMedia(e) \/ HandleClosed(e)
    BY <1>9 DEF Handle
  <2>2. Head(events) = events[1] /\ events[1] \in Event BY <2>1, Heading
  <2>3. budget' = budget + Taken(events[1])
    <3>1. CASE HandleMedia(events[1])
      BY <3>1 DEF HandleMedia, Taken, GivenBack
    <3>2. CASE HandlePublish(events[1]) \/ HandleClosed(events[1])
      BY <3>2 DEF HandlePublish, HandleClosed, Taken
    <3> QED BY <2>1, <2>2, <3>1, <3>2
  <2> QED BY <1>4, <2>1, <2>3
<1>10. ASSUME NEW c \in Conn, Task(c) PROVE BudgetKept'
  BY <1>5, <1>6, <1>7, <1>8, <1>10
     DEF Task, Connect, Answered, Send, Unpublish, Leave, Notice, Gone, Farewell
<1>11. CASE FallSilent \/ UNCHANGED vars BY <1>5, <1>11 DEF FallSilent, vars
<1> QED BY <1>9, <1>10, <1>11 DEF Next

LEMMA NeedsFitNext == PublisherInv /\ NeedsFit /\ [Next]_vars => NeedsFit'
<1> SUFFICES ASSUME PublisherInv, NeedsFit, [Next]_vars, NEW d \in Conn
             PROVE  conns'[d].need <= Budget
  BY DEF NeedsFit
<1> USE DEF PublisherInv, Types
<1>1. conns[d] \in Connection /\ conns[d].need <= Budget /\ Budget \in Nat
  BY IngestConstants DEF NeedsFit
<1>2. ASSUME NEW c \in Conn, NEW a \in Addrs \cup {Loopback}, Connect(c, a) PROVE conns'[d].need <= Budget
  <2>1. \/ conns'[d] = [Unused EXCEPT !.phase = "Open", !.addr = a]
        \/ conns'[d] = [conns[d] EXCEPT !.closing = TRUE]
        \/ conns'[d] = conns[d]
    BY <1>2 DEF Connect
  <2>2. [Unused EXCEPT !.phase = "Open", !.addr = a].need = 0 BY DEF Unused
  <2>3. [conns[d] EXCEPT !.closing = TRUE].need = conns[d].need BY <1>1 DEF Connection
  <2>4. conns'[d].need = 0 \/ conns'[d].need = conns[d].need BY Zenon, <2>1, <2>2, <2>3
  <2> QED BY <1>1, <2>4
<1>3. ASSUME NEW c \in Conn, NEW p \in Phases, NEW r \in {"None", "Yes", "No"},
             \/ conns' = [conns EXCEPT ![c].phase = p]
             \/ conns' = [conns EXCEPT ![c].phase = p, ![c].reply = r]
             \/ conns' = [conns EXCEPT ![c].phase = p, ![c].sent = @ + 1]
             \/ conns' = [conns EXCEPT ![c] = Unused]
      PROVE  conns'[d].need <= Budget
  <2>1. \/ conns'[d] = conns[d]
        \/ conns'[d] = [conns[d] EXCEPT !.phase = p]
        \/ conns'[d] = [conns[d] EXCEPT !.phase = p, !.reply = r]
        \/ conns'[d] = [conns[d] EXCEPT !.phase = p, !.sent = @ + 1]
        \/ conns'[d] = Unused
    BY <1>3
  <2>2. Unused.need = 0 BY DEF Unused
  <2>3. /\ [conns[d] EXCEPT !.phase = p].need = conns[d].need
        /\ [conns[d] EXCEPT !.phase = p, !.reply = r].need = conns[d].need
        /\ [conns[d] EXCEPT !.phase = p, !.sent = @ + 1].need = conns[d].need
    BY <1>1 DEF Connection
  <2>4. conns'[d].need = 0 \/ conns'[d].need = conns[d].need BY Zenon, <2>1, <2>2, <2>3
  <2> QED BY <1>1, <2>4
<1>4. ASSUME NEW c \in Conn, NEW size \in Sizes, Send(c, size) PROVE conns'[d].need <= Budget
  <2>1. \/ conns'[d] = [conns[d] EXCEPT !.phase = "Waiting", !.need = Need(size)]
        \/ conns'[d] = conns[d]
    BY <1>4 DEF Send
  <2> QED BY <1>1, <2>1, Needs DEF Connection
<1>5. ASSUME NEW c \in Conn, Task(c) PROVE conns'[d].need <= Budget
  <2>1. CASE \E good \in BOOLEAN : Ask(c, good)
    <3>1. "Asking" \in Phases BY DEF Phases
    <3> QED BY <1>3, <2>1, <3>1 DEF Ask, Become
  <2>2. CASE Answered(c)
    <3>1. (IF conns[c].reply = "Yes" THEN "Live" ELSE "Refused") \in Phases BY DEF Phases
    <3> QED BY <1>3, <2>2, <3>1 DEF Answered
  <2>3. CASE Room(c)
    <3>1. "Live" \in Phases BY DEF Phases
    <3> QED BY <1>3, <2>3, <3>1 DEF Room
  <2>4. CASE Unpublish(c)
    <3>1. "Done" \in Phases BY DEF Phases
    <3> QED BY <1>3, <2>4, <3>1 DEF Unpublish, Become
  <2>5. CASE Leave(c) \/ Notice(c)
    <3>1. "Done" \in Phases BY DEF Phases
    <3> QED BY <1>3, <2>5, <3>1 DEF Leave, Notice, Gone
  <2> QED BY <1>2, <1>4, <1>5, <2>1, <2>2, <2>3, <2>4, <2>5 DEF Task
<1>6. CASE Handle
  <2>1. \E e \in {Head(events)} : HandlePublish(e) \/ HandleMedia(e) \/ HandleClosed(e) BY <1>6 DEF Handle
  <2>2. PICK e \in {Head(events)} : HandlePublish(e) \/ HandleMedia(e) \/ HandleClosed(e) BY <2>1
  <2>3. CASE HandleMedia(e) \/ HandleClosed(e) BY <1>1, <2>3 DEF HandleMedia, HandleClosed
  <2>4. CASE HandlePublish(e)
    <3>1. \E cs \in {conns, Displace(e.conn)}, r \in {"Yes", "No"} : conns' = Reply(cs, e.conn, r)
      BY <2>4 DEF HandlePublish
    <3>2. PICK cs \in {conns, Displace(e.conn)}, r \in {"Yes", "No"} : conns' = Reply(cs, e.conn, r)
      BY <3>1
    <3>3. cs[d] = conns[d] \/ cs[d] = [conns[d] EXCEPT !.closing = TRUE] BY DEF Displace
    <3>4. conns'[d] = cs[d] \/ conns'[d] = [cs[d] EXCEPT !.reply = r] BY <3>2 DEF Reply
    <3> QED BY <1>1, <3>3, <3>4, ZenonT(30) DEF Connection
  <2> QED BY <2>2, <2>3, <2>4
<1>7. CASE FallSilent \/ UNCHANGED vars BY <1>1, <1>7 DEF FallSilent, vars
<1> QED BY <1>5, <1>6, <1>7 DEF Next

(* Room always comes: nothing is lost of the budget, so that who waits for *)
(* more than is left of it waits for media in the queue (ingest.rs, the    *)
(* permits a message carries).                                             *)
THEOREM RoomComesAlways == Spec => []RoomComes
<1>1. PublisherInv /\ BudgetKept /\ NeedsFit => RoomComes
  <2> SUFFICES ASSUME PublisherInv, BudgetKept, NeedsFit, waiting # <<>>, Queued = {}
               PROVE  conns[Head(waiting)].need <= budget
    BY DEF RoomComes
  <2> USE DEF PublisherInv, Types
  <2>1. PICK g \in [0 .. Len(events) -> Int] : SumsTo(g, events) /\ budget + g[Len(events)] = Budget
    BY DEF BudgetKept
  <2>2. \A i \in DOMAIN events : Taken(events[i]) = 0 BY DEF Queued, Taken
  <2>3. g[Len(events)] = 0 BY <2>1, <2>2, SumOfNothing
  <2>4. budget = Budget BY <2>1, <2>3
  <2>5. Head(waiting) \in Conn BY Heading
  <2> QED BY <2>4, <2>5 DEF NeedsFit
<1> QED BY <1>1, PublisherAlways, BudgetInit, BudgetNext, NeedsFitNext, PTL DEF Spec

-----------------------------------------------------------------------------
(* The publisher's stream *)

Sending == {"Live", "Waiting", "Done"}

LEMMA StreamInit == Init => StreamInv
BY DEF Init, StreamInv, FreshAreSilent, MediaBetween, Unanswered, InTurn, AllSent, MediaOf, MediaIn, Unused

(* A step of a task that sends no media: it goes through its phases, and   *)
(* may tell the core that it asks or ends.                                 *)
LEMMA StreamStays ==
  ASSUME PublisherInv, StreamInv,
         UNCHANGED <<publisher, stream>>,
         NEW e \in Event, e.kind # "Media",
         \/ events' = events
         \/ /\ events' = Append(events, e)
            /\ e.kind = "Publish" => conns'[e.conn].phase = "Asking" /\ MediaOf(e.conn) = {},
         \A d \in Conn :
           /\ conns'[d].phase \in {"Open", "Asking"} =>
                \/ conns[d].phase \in {"Open", "Asking"} /\ conns'[d].sent = conns[d].sent
                \/ conns'[d].sent = 0 /\ MediaOf(d) = {}
           /\ conns[d].phase \in {"Asking", "Free"} =>
                \/ conns'[d].phase \in {"Asking", "Free"}
                \/ \A i \in DOMAIN events : ~(events[i].kind = "Publish" /\ events[i].conn = d)
           /\ d = publisher =>
                /\ conns'[d].phase = "Asking" => conns[d].phase = "Asking"
                /\ conns'[d].phase \in Sending =>
                     conns[d].phase \in Sending \cup {"Asking"} /\ conns'[d].sent = conns[d].sent
  PROVE  StreamInv'
<1> USE DEF PublisherInv, Types, StreamInv
<1>1. /\ \A i \in DOMAIN events : i \in DOMAIN events' /\ events'[i] = events[i] /\ i < Len(events) + 1
      /\ \A i \in DOMAIN events' : i \in DOMAIN events \/ (events'[i] = e /\ i = Len(events) + 1)
  <2>1. CASE events' = events BY <2>1
  <2>2. CASE events' = Append(events, e) BY <2>2, Appending
  <2> QED BY <2>1, <2>2
<1>2. ASSUME NEW d PROVE MediaOf(d)' = MediaOf(d)
  BY <1>1 DEF MediaOf, MediaIn
<1>3. \A d : \A i \in MediaOf(d) : i \in DOMAIN events /\ events'[i] = events[i] BY <1>1 DEF MediaOf, MediaIn
<1>4. \A i \in DOMAIN events : events[i].conn \in Conn BY Events
<1>5. FreshAreSilent' BY <1>2 DEF FreshAreSilent
<1>6. MediaBetween'
  <2> SUFFICES ASSUME NEW c \in Conn, NEW j \in MediaOf(c), NEW i \in DOMAIN events', events'[i].conn = c
               PROVE  events'[i].kind # "Publish" /\ (events'[i].kind = "Closed" => j < i)
    BY <1>2 DEF MediaBetween
  <2>1. CASE i \in DOMAIN events BY <1>1, <2>1 DEF MediaBetween
  <2>2. CASE events'[i] = e /\ i = Len(events) + 1 /\ i \notin DOMAIN events
    <3>1. events' = Append(events, e) BY <2>2
    <3> QED BY <1>1, <1>3, <2>2, <3>1
  <2> QED BY <1>1, <2>1, <2>2
<1>7. Unanswered'
  <2> SUFFICES ASSUME NEW i \in DOMAIN events', events'[i].kind = "Publish"
               PROVE  conns'[events'[i].conn].phase \in {"Asking", "Free"}
    BY DEF Unanswered
  <2>1. CASE i \in DOMAIN events
    <3>1. /\ events'[i] = events[i] /\ events[i].conn \in Conn
          /\ conns[events[i].conn].phase \in {"Asking", "Free"}
      BY <1>1, <1>4, <2>1 DEF Unanswered
    <3> QED BY <2>1, <3>1
  <2>2. CASE events'[i] = e /\ i = Len(events) + 1 /\ i \notin DOMAIN events
    <3>1. events' = Append(events, e) BY <2>2
    <3> QED BY <2>2, <3>1
  <2> QED BY <1>1, <2>1, <2>2
<1>8. InTurn'
  <2> SUFFICES ASSUME publisher # None PROVE InTurn' BY DEF InTurn
  <2> DEFINE M == MediaOf(publisher)
  <2>1. MediaOf(publisher)' = M BY <1>2
  <2>2. \A i \in M : events'[i].n = events[i].n BY <1>3
  <2>3. /\ \A i \in M : events[i].n > stream
        /\ \A i \in M : events[i].n = stream + 1 \/ \E j \in M : j < i /\ events[j].n = events[i].n - 1
        /\ \A i, j \in M : events[i].n = events[j].n => i = j
    BY DEF InTurn
  <2> HIDE DEF M
  <2>4. /\ \A i \in M : events'[i].n > stream
        /\ \A i \in M : events'[i].n = stream + 1 \/ \E j \in M : j < i /\ events'[j].n = events'[i].n - 1
        /\ \A i, j \in M : events'[i].n = events'[j].n => i = j
    BY <2>2, <2>3
  <2> QED BY <2>1, <2>4 DEF InTurn
<1>9. AllSent'
  <2> SUFFICES ASSUME publisher # None PROVE AllSent' BY DEF AllSent
  <2>1. conns'[publisher].phase = "Asking" => stream = 0 BY DEF AllSent
  <2>2. ASSUME conns'[publisher].phase \in Sending
        PROVE  /\ stream <= conns'[publisher].sent
               /\ \A i \in MediaOf(publisher) : events[i].n <= conns'[publisher].sent
               /\ \/ stream = conns'[publisher].sent
                  \/ \E i \in MediaOf(publisher) : events[i].n = conns'[publisher].sent
    <3>1. conns[publisher].phase \in Sending \cup {"Asking"} /\ conns'[publisher].sent = conns[publisher].sent
      BY <2>2
    <3>2. CASE conns[publisher].phase \in Sending BY <3>1, <3>2 DEF AllSent, Sending
    <3>3. CASE conns[publisher].phase = "Asking" BY <3>1, <3>3 DEF AllSent, FreshAreSilent
    <3> QED BY <3>1, <3>2, <3>3
  <2> QED BY <1>2, <1>3, <2>1, <2>2, SMTT(30) DEF AllSent, Sending
<1> QED BY <1>5, <1>6, <1>7, <1>8, <1>9

(* A message that has found room is the publisher's next, or nobody's. *)
LEMMA StreamRoom ==
  ASSUME PublisherInv, StreamInv, NEW c \in Conn, Room(c)
  PROVE  StreamInv'
<1> USE DEF PublisherInv, Types, StreamInv
<1> DEFINE s == conns[c].sent + 1
           e == Media(c, s, conns[c].need)
           n == Len(events) + 1
<1>1. /\ waiting # <<>> /\ Head(waiting) = c /\ events' = Append(events, e)
      /\ conns' = [conns EXCEPT ![c].phase = "Live", ![c].sent = @ + 1]
      /\ UNCHANGED <<publisher, stream>>
  BY DEF Room
<1>2. conns[c].phase = "Waiting" BY <1>1 DEF WaitersWait
<1>3. conns[c] \in Connection /\ conns[c].sent \in Nat /\ conns[c].need \in Nat /\ s \in Nat
  BY DEF Connection
<1>4. e \in Event /\ e.kind = "Media" /\ e.conn = c /\ e.n = s BY <1>3 DEF Event, Media
<1>5. /\ conns'[c].phase = "Live" /\ conns'[c].sent = s
      /\ \A d \in Conn \ {c} : conns'[d] = conns[d]
  BY <1>1, <1>3 DEF Connection
<1> HIDE DEF e
<1>6. /\ \A i \in DOMAIN events : i \in DOMAIN events' /\ events'[i] = events[i] /\ i < n /\ i # n
      /\ \A i \in DOMAIN events' : i \in DOMAIN events \/ i = n
      /\ events'[n] = e /\ n \in DOMAIN events' /\ n \notin DOMAIN events
  BY <1>1, <1>4, Appending
<1>7. MediaOf(c)' = MediaOf(c) \cup {n} BY <1>4, <1>6 DEF MediaOf, MediaIn
<1>8. ASSUME NEW d \in Conn \ {c} PROVE MediaOf(d)' = MediaOf(d) BY <1>4, <1>6 DEF MediaOf, MediaIn
<1>9. \A d \in Conn : \A i \in MediaOf(d) : i \in DOMAIN events /\ events'[i] = events[i] /\ i < n /\ i # n
  BY <1>6 DEF MediaOf, MediaIn
<1>10. \A i \in DOMAIN events : events[i].conn = c => events[i].kind = "Media"
  <2> SUFFICES ASSUME NEW i \in DOMAIN events, events[i].conn = c PROVE events[i].kind = "Media" OBVIOUS
  <2>1. events[i].kind # "Closed" BY <1>2 DEF ClosedAreDone
  <2>2. events[i].kind # "Publish" BY <1>2 DEF Unanswered
  <2> QED BY <2>1, <2>2, Events
<1>11. FreshAreSilent' BY <1>5, <1>8 DEF FreshAreSilent
<1>12. MediaBetween'
  <2> SUFFICES ASSUME NEW d \in Conn, NEW j \in MediaOf(d)', NEW i \in DOMAIN events', events'[i].conn = d
               PROVE  events'[i].kind # "Publish" /\ (events'[i].kind = "Closed" => j < i)
    BY DEF MediaBetween
  <2>1. CASE d = c BY <1>4, <1>6, <1>10, <2>1
  <2>2. CASE d # c
    <3>1. j \in MediaOf(d) /\ i \in DOMAIN events /\ events'[i] = events[i] BY <1>4, <1>6, <1>8, <2>2
    <3> QED BY <3>1 DEF MediaBetween
  <2> QED BY <2>1, <2>2
<1>13. Unanswered'
  <2> SUFFICES ASSUME NEW i \in DOMAIN events', events'[i].kind = "Publish"
               PROVE  conns'[events'[i].conn].phase \in {"Asking", "Free"}
    BY DEF Unanswered
  <2>1. i \in DOMAIN events /\ events'[i] = events[i] /\ events[i].kind = "Publish" BY <1>4, <1>6
  <2>2. events[i].conn # c /\ events[i].conn \in Conn BY <1>10, <2>1, Events
  <2> QED BY <1>5, <2>1, <2>2 DEF Unanswered
<1>14. CASE publisher = c
  <2> DEFINE M == MediaOf(c)
  <2>1. publisher # None /\ publisher' = c BY <1>1, <1>14, IngestConstants
  <2>2. /\ stream <= conns[c].sent
        /\ \A i \in M : events[i].n <= conns[c].sent
        /\ stream = conns[c].sent \/ \E i \in M : events[i].n = conns[c].sent
    BY <1>2, <1>14, <2>1 DEF AllSent
  <2>3. /\ \A i \in M : events[i].n > stream
        /\ \A i \in M : events[i].n = stream + 1 \/ \E j \in M : j < i /\ events[j].n = events[i].n - 1
        /\ \A i, j \in M : events[i].n = events[j].n => i = j
    BY <1>14, <2>1 DEF InTurn
  <2>4. \A i \in M : events'[i].n = events[i].n /\ i < n /\ i # n /\ events[i].n \in Nat
    <3>1. \A i \in M : events[i].kind = "Media" /\ events[i] \in Event BY DEF MediaOf, MediaIn
    <3> QED BY <1>9, <3>1 DEF Event
  <2>5. events'[n].n = s /\ s - 1 = conns[c].sent BY <1>3, <1>4, <1>6
  <2> HIDE DEF M
  <2>6. /\ \A i \in M \cup {n} : events'[i].n > stream /\ events'[i].n <= s
        /\ \A i, j \in M \cup {n} : events'[i].n = events'[j].n => i = j
    <3>1. \A i \in M : events'[i].n > stream /\ events'[i].n <= conns[c].sent /\ events'[i].n \in Nat
      BY <2>2, <2>3, <2>4
    <3>2. stream < s /\ s <= s /\ \A i \in M : events'[i].n < s /\ events'[i].n # s BY <1>3, <2>2, <3>1
    <3>3. \A i \in M \cup {n} : events'[i].n > stream /\ events'[i].n <= s
      BY <1>3, <2>5, <3>1, <3>2
    <3>4. ASSUME NEW i \in M \cup {n}, NEW j \in M \cup {n}, events'[i].n = events'[j].n PROVE i = j
      BY <2>3, <2>4, <2>5, <3>2, <3>4
    <3> QED BY <3>3, <3>4
  <2>7. ASSUME NEW i \in M \cup {n}
        PROVE  events'[i].n = stream + 1 \/ \E j \in M \cup {n} : j < i /\ events'[j].n = events'[i].n - 1
    <3>1. CASE i = n
      <4>1. CASE stream = conns[c].sent BY <2>5, <3>1, <4>1
      <4>2. CASE \E j \in M : events[j].n = conns[c].sent BY <2>4, <2>5, <3>1, <4>2
      <4> QED BY <2>2, <4>1, <4>2
    <3>2. CASE i \in M BY <2>3, <2>4, <3>2
    <3> QED BY <3>1, <3>2
  <2>8. MediaOf(publisher)' = M \cup {n} BY <1>7, <2>1 DEF M
  <2>9. InTurn' BY <1>1, <2>6, <2>7, <2>8 DEF InTurn
  <2>10. AllSent'
    <3>1. stream <= s BY <1>3, <2>2
    <3>2. /\ \A i \in MediaOf(publisher)' : events'[i].n <= s
          /\ \E i \in MediaOf(publisher)' : events'[i].n = s
      BY <2>5, <2>6, <2>8
    <3>3. conns'[publisher'].phase = "Live" /\ conns'[publisher'].sent = s BY <1>5, <2>1
    <3> QED BY <1>1, <3>1, <3>2, <3>3 DEF AllSent
  <2> QED BY <1>11, <1>12, <1>13, <2>9, <2>10
<1>15. CASE publisher # c
  <2> SUFFICES ASSUME publisher # None PROVE InTurn' /\ AllSent'
    BY <1>1, <1>11, <1>12, <1>13 DEF InTurn, AllSent
  <2> DEFINE M == MediaOf(publisher)
  <2>1. publisher \in Conn \ {c} /\ publisher' = publisher BY <1>1, <1>15
  <2>2. MediaOf(publisher)' = M BY <1>8, <2>1
  <2>3. \A i \in M : events'[i].n = events[i].n BY <1>9, <2>1
  <2>4. /\ \A i \in M : events[i].n > stream
        /\ \A i \in M : events[i].n = stream + 1 \/ \E j \in M : j < i /\ events[j].n = events[i].n - 1
        /\ \A i, j \in M : events[i].n = events[j].n => i = j
    BY DEF InTurn
  <2>5. conns'[publisher] = conns[publisher] BY <1>5, <2>1
  <2>6. AllSent' BY <1>1, <2>2, <2>3, <2>5 DEF AllSent
  <2> HIDE DEF M
  <2>7. /\ \A i \in M : events'[i].n > stream
        /\ \A i \in M : events'[i].n = stream + 1 \/ \E j \in M : j < i /\ events'[j].n = events'[i].n - 1
        /\ \A i, j \in M : events'[i].n = events'[j].n => i = j
    BY <2>3, <2>4
  <2>8. InTurn' BY <1>1, <2>2, <2>7 DEF InTurn
  <2> QED BY <2>6, <2>8
<1> QED BY <1>14, <1>15

(* The core takes the stream in, in its order. *)
LEMMA StreamHandled ==
  ASSUME PublisherInv, StreamInv, Handle
  PROVE  StreamInv'
<1> USE DEF PublisherInv, Types, StreamInv
<1> DEFINE e == events[1]
<1>1. /\ events # <<>> /\ events' = Tail(events) /\ e = Head(events)
      /\ HandlePublish(e) \/ HandleMedia(e) \/ HandleClosed(e)
  BY Heading DEF Handle
<1>2. /\ 1 \in DOMAIN events /\ e \in Event /\ e.conn \in Conn
      /\ \A i \in DOMAIN events' :
           i \in Nat \ {0} /\ i + 1 \in DOMAIN events /\ events'[i] = events[i + 1]
      /\ \A j \in DOMAIN events :
           j \in Nat /\ (j # 1 => j - 1 \in DOMAIN events' /\ events'[j - 1] = events[j])
  BY <1>1, Heading, Events
<1>3. \A d \in Conn : conns'[d].phase = conns[d].phase /\ conns'[d].sent = conns[d].sent
  <2> SUFFICES ASSUME NEW d \in Conn
               PROVE  conns'[d].phase = conns[d].phase /\ conns'[d].sent = conns[d].sent
    OBVIOUS
  <2>1. conns[d] \in Connection OBVIOUS
  <2>2. CASE HandleMedia(e) \/ HandleClosed(e) BY <2>2 DEF HandleMedia, HandleClosed
  <2>3. CASE HandlePublish(e)
    <3>1. \E cs \in {conns, Displace(e.conn)}, r \in {"Yes", "No"} : conns' = Reply(cs, e.conn, r)
      BY <2>3 DEF HandlePublish
    <3>2. PICK cs \in {conns, Displace(e.conn)}, r \in {"Yes", "No"} : conns' = Reply(cs, e.conn, r)
      BY <3>1
    <3>3. cs[d] = conns[d] \/ cs[d] = [conns[d] EXCEPT !.closing = TRUE] BY DEF Displace
    <3>4. conns'[d] = cs[d] \/ conns'[d] = [cs[d] EXCEPT !.reply = r] BY <3>2 DEF Reply
    <3> QED BY <2>1, <3>3, <3>4 DEF Connection
  <2> QED BY <1>1, <2>2, <2>3
<1>4. ASSUME NEW d \in Conn, NEW i
      PROVE  i \in MediaIn(events', d) <=> i \in Nat \ {0} /\ i + 1 \in MediaOf(d)
  <2>1. ASSUME i \in MediaIn(events', d) PROVE i \in Nat \ {0} /\ i + 1 \in MediaOf(d)
    BY <1>2, <2>1 DEF MediaOf, MediaIn
  <2>2. ASSUME i \in Nat \ {0}, i + 1 \in MediaOf(d) PROVE i \in MediaIn(events', d)
    <3>1. i + 1 \in DOMAIN events /\ i + 1 # 1 /\ (i + 1) - 1 = i BY <2>2 DEF MediaOf, MediaIn
    <3>2. i \in DOMAIN events' /\ events'[i] = events[i + 1] BY <1>2, <3>1
    <3> QED BY <2>2, <3>2 DEF MediaOf, MediaIn
  <2> QED BY <2>1, <2>2
<1>5. \A d \in Conn : \A i \in MediaIn(events', d) : i \in Nat \ {0} /\ i + 1 \in MediaOf(d) /\ events'[i] = events[i + 1]
  BY <1>2, <1>4 DEF MediaOf, MediaIn
<1>6. \A d \in Conn : \A j \in MediaOf(d) :
        /\ j \in Nat \ {0} /\ events[j].n \in Nat
        /\ j # 1 => j - 1 \in MediaIn(events', d) /\ events'[j - 1] = events[j]
  <2> SUFFICES ASSUME NEW d \in Conn, NEW j \in MediaOf(d)
               PROVE  /\ j \in Nat \ {0} /\ events[j].n \in Nat
                      /\ j # 1 => j - 1 \in MediaIn(events', d) /\ events'[j - 1] = events[j]
    OBVIOUS
  <2>1. j \in DOMAIN events /\ events[j] \in Event /\ events[j].kind = "Media" BY DEF MediaOf, MediaIn
  <2>2. j \in Nat \ {0} /\ events[j].n \in Nat BY <2>1 DEF Event
  <2>3. ASSUME j # 1 PROVE j - 1 \in MediaIn(events', d) /\ events'[j - 1] = events[j]
    <3>1. j - 1 \in Nat \ {0} /\ (j - 1) + 1 = j BY <2>2, <2>3
    <3> QED BY <1>2, <1>4, <2>1, <2>3, <3>1
  <2> QED BY <2>2, <2>3
<1>7. FreshAreSilent'
  <2> SUFFICES ASSUME NEW d \in Conn, conns'[d].phase \in {"Open", "Asking"}
               PROVE  conns'[d].sent = 0 /\ MediaIn(events', d) = {}
    BY DEF FreshAreSilent, MediaOf
  <2>1. conns[d].sent = 0 /\ MediaOf(d) = {} BY <1>3 DEF FreshAreSilent, MediaOf
  <2> QED BY <1>3, <1>5, <2>1
<1>8. MediaBetween'
  <2> SUFFICES ASSUME NEW d \in Conn, NEW j \in MediaIn(events', d), NEW i \in DOMAIN events', events'[i].conn = d
               PROVE  events'[i].kind # "Publish" /\ (events'[i].kind = "Closed" => j < i)
    BY DEF MediaBetween, MediaOf
  <2>1. j + 1 \in MediaOf(d) /\ i + 1 \in DOMAIN events /\ events'[i] = events[i + 1] /\ i \in Nat /\ j \in Nat
    BY <1>2, <1>5
  <2>2. events[i + 1].kind # "Publish" /\ (events[i + 1].kind = "Closed" => j + 1 < i + 1)
    BY <2>1 DEF MediaBetween
  <2> QED BY <2>1, <2>2
<1>9. Unanswered'
  <2> SUFFICES ASSUME NEW i \in DOMAIN events', events'[i].kind = "Publish"
               PROVE  conns'[events'[i].conn].phase \in {"Asking", "Free"}
    BY DEF Unanswered
  <2>1. i + 1 \in DOMAIN events /\ events'[i] = events[i + 1] BY <1>2
  <2>2. events[i + 1].conn \in Conn BY <2>1, Events
  <2> QED BY <1>3, <2>1, <2>2 DEF Unanswered
<1>10. ASSUME publisher # None, publisher' = publisher,
              \/ stream' = stream /\ 1 \notin MediaOf(publisher)
              \/ stream' = stream + 1 /\ 1 \in MediaOf(publisher)
       PROVE  InTurn' /\ AllSent'
  <2> DEFINE p == publisher
             M == MediaOf(p)
             N == MediaIn(events', p)
  <2>1. p \in Conn BY <1>10
  <2>2. /\ \A i \in M : events[i].n > stream
        /\ \A i \in M : events[i].n = stream + 1 \/ \E j \in M : j < i /\ events[j].n = events[i].n - 1
        /\ \A i, j \in M : events[i].n = events[j].n => i = j
    BY <1>10 DEF InTurn
  <2>3. \A i \in N : i \in Nat \ {0} /\ i + 1 \in M /\ events'[i] = events[i + 1] BY <1>5, <2>1
  <2>4. \A j \in M : /\ j \in Nat \ {0} /\ events[j].n \in Nat
                     /\ j # 1 => j - 1 \in N /\ events'[j - 1] = events[j]
    BY <1>6, <2>1
  <2>5. MediaOf(publisher)' = N BY <1>10 DEF MediaOf
  <2>6. 1 \in M => events[1].n = stream + 1 BY <2>2, <2>4
  <2>7. conns'[p].phase = conns[p].phase /\ conns'[p].sent = conns[p].sent /\ conns[p].sent \in Nat
    BY <1>3, <2>1 DEF Connection
  <2>8. \A i \in N : events'[i].n > stream' /\ events'[i].n \in Nat
    <3> SUFFICES ASSUME NEW i \in N PROVE events'[i].n > stream' /\ events'[i].n \in Nat OBVIOUS
    <3>1. i + 1 \in M /\ i + 1 # 1 /\ events'[i] = events[i + 1] BY <2>3
    <3> HIDE DEF M, N
    <3>2. events[i + 1].n > stream /\ events[i + 1].n \in Nat BY <2>2, <2>4, <3>1
    <3>3. 1 \in M => events[i + 1].n # stream + 1 BY <2>2, <2>6, <3>1
    <3> QED BY <1>10, <3>1, <3>2, <3>3 DEF M
  <2>9. ASSUME NEW i \in N
        PROVE  events'[i].n = stream' + 1 \/ \E j \in N : j < i /\ events'[j].n = events'[i].n - 1
    <3>1. i \in Nat /\ i + 1 \in M /\ events'[i] = events[i + 1] BY <2>3
    <3>2. CASE events[i + 1].n = stream + 1
      <4>1. events'[i].n > stream' BY <2>8
      <4> QED BY <1>10, <3>1, <3>2, <4>1
    <3>3. CASE \E j \in M : j < i + 1 /\ events[j].n = events[i + 1].n - 1
      <4>1. PICK j \in M : j < i + 1 /\ events[j].n = events[i + 1].n - 1 BY <3>3
      <4>2. CASE j = 1
        <5>1. events[i + 1].n = (stream + 1) + 1 /\ 1 \in M
          <6>1. events[i + 1].n \in Nat BY <2>4, <3>1
          <6> QED BY <2>6, <4>1, <4>2, <6>1
        <5> QED BY <1>10, <3>1, <5>1
      <4>3. CASE j # 1
        <5>1. j \in Nat /\ j - 1 \in N /\ events'[j - 1] = events[j] BY <2>4, <4>3
        <5>2. j - 1 < i BY <3>1, <4>1, <5>1
        <5> QED BY <3>1, <4>1, <5>1, <5>2
      <4> QED BY <4>2, <4>3
    <3> QED BY <2>2, <3>1, <3>2, <3>3
  <2>10. ASSUME NEW i \in N, NEW j \in N, events'[i].n = events'[j].n PROVE i = j
    <3>1. i + 1 = j + 1 BY <2>2, <2>3, <2>10, SMTT(30)
    <3> QED BY <2>3, <3>1
  <2>11. ASSUME conns[p].phase \in Sending
         PROVE  /\ stream' <= conns[p].sent
                /\ \A i \in N : events'[i].n <= conns[p].sent
                /\ stream' = conns[p].sent \/ \E i \in N : events'[i].n = conns[p].sent
    <3>1. /\ stream <= conns[p].sent
          /\ \A i \in M : events[i].n <= conns[p].sent
          /\ stream = conns[p].sent \/ \E i \in M : events[i].n = conns[p].sent
      BY <1>10, <2>11 DEF AllSent, Sending
    <3> HIDE DEF M, N
    <3>2. \A i \in N : events'[i].n <= conns[p].sent BY <2>3, <3>1
    <3>3. CASE 1 \notin M /\ stream' = stream
      <4>1. \A i \in M : i # 1 BY <3>3
      <4> QED BY <2>4, <3>1, <3>2, <3>3, <4>1
    <3>4. CASE 1 \in M /\ stream' = stream + 1
      <4>1. stream' <= conns[p].sent BY <2>6, <3>1, <3>4
      <4>2. CASE stream' = conns[p].sent BY <3>2, <4>1, <4>2
      <4>3. CASE stream' # conns[p].sent
        <5>1. stream # conns[p].sent BY <2>7, <3>4, <4>1
        <5>2. PICK j \in M : events[j].n = conns[p].sent BY <3>1, <5>1
        <5>3. j # 1 BY <2>6, <3>4, <4>3, <5>2
        <5>4. j - 1 \in N /\ events'[j - 1].n = conns[p].sent BY <2>4, <5>2, <5>3
        <5> QED BY <3>2, <4>1, <5>4
      <4> QED BY <4>2, <4>3
    <3> QED BY <1>10, <3>3, <3>4 DEF M
  <2>12. ASSUME conns[p].phase = "Asking" PROVE stream' = 0
    <3>1. MediaOf(p) = {} /\ stream = 0 BY <1>10, <2>1, <2>12 DEF FreshAreSilent, AllSent
    <3> QED BY <1>10, <3>1
  <2>13. InTurn' BY <1>10, <2>5, <2>8, <2>9, <2>10 DEF InTurn
  <2>14. AllSent' BY <1>10, <2>5, <2>7, <2>11, <2>12 DEF AllSent, Sending
  <2> QED BY <2>13, <2>14
<1>11. CASE HandleMedia(e)
  <2>1. e.kind = "Media" /\ publisher' = publisher BY <1>11 DEF HandleMedia
  <2>2. CASE publisher = None BY <1>7, <1>8, <1>9, <2>1, <2>2 DEF InTurn, AllSent
  <2>3. CASE publisher # None /\ publisher = e.conn
    <3>1. stream' = stream + 1 BY <1>11, <2>3 DEF HandleMedia, IsPublisher
    <3>2. 1 \in MediaOf(publisher) BY <1>2, <2>1, <2>3 DEF MediaOf, MediaIn
    <3> QED BY <1>7, <1>8, <1>9, <1>10, <2>1, <2>3, <3>1, <3>2
  <2>4. CASE publisher # None /\ publisher # e.conn
    <3>1. stream' = stream BY <1>11, <2>4 DEF HandleMedia, IsPublisher
    <3>2. 1 \notin MediaOf(publisher) BY <2>4 DEF MediaOf, MediaIn
    <3> QED BY <1>7, <1>8, <1>9, <1>10, <2>1, <2>4, <3>1, <3>2
  <2> QED BY <1>7, <1>8, <1>9, <2>2, <2>3, <2>4
<1>12. CASE HandleClosed(e)
  <2>1. e.kind = "Closed" /\ stream' = stream BY <1>12 DEF HandleClosed
  <2>2. CASE publisher = e.conn
    <3>1. publisher' = None BY <1>12, <2>2 DEF HandleClosed, IsPublisher
    <3> QED BY <1>7, <1>8, <1>9, <3>1 DEF InTurn, AllSent
  <2>3. CASE publisher # e.conn
    <3>1. publisher' = publisher BY <1>12, <2>3 DEF HandleClosed, IsPublisher
    <3>2. 1 \notin MediaOf(publisher) BY <2>1 DEF MediaOf, MediaIn
    <3>3. InTurn' /\ AllSent' BY <1>10, <2>1, <3>1, <3>2 DEF InTurn, AllSent
    <3> QED BY <1>7, <1>8, <1>9, <3>3
  <2> QED BY <2>2, <2>3
<1>13. CASE HandlePublish(e)
  <2>1. e.kind = "Publish" BY <1>13 DEF HandlePublish
  <2>2. CASE Admits(e)
    <3>1. publisher' = e.conn /\ stream' = 0 BY <1>13, <2>2 DEF HandlePublish
    <3>2. MediaOf(e.conn) = {} BY <1>2, <2>1 DEF MediaBetween
    <3>3. MediaIn(events', e.conn) = {} BY <1>2, <1>5, <3>2
    <3>4. MediaOf(publisher)' = {} BY <3>1, <3>3 DEF MediaOf
    <3>5. conns'[e.conn].phase \in {"Asking", "Free"} BY <1>2, <1>3, <2>1 DEF Unanswered
    <3>6. InTurn' BY <3>4 DEF InTurn
    <3>7. AllSent' BY <3>1, <3>5 DEF AllSent
    <3> QED BY <1>7, <1>8, <1>9, <3>6, <3>7
  <2>3. CASE ~Admits(e)
    <3>1. publisher' = publisher /\ stream' = stream BY <1>13, <2>3 DEF HandlePublish
    <3>2. 1 \notin MediaOf(publisher) BY <2>1 DEF MediaOf, MediaIn
    <3>3. InTurn' /\ AllSent' BY <1>10, <3>1, <3>2 DEF InTurn, AllSent
    <3> QED BY <1>7, <1>8, <1>9, <3>3
  <2> QED BY <2>2, <2>3
<1> QED BY <1>1, <1>11, <1>12, <1>13

LEMMA StreamNext == PublisherInv /\ StreamInv /\ [Next]_vars => StreamInv'
<1> SUFFICES ASSUME PublisherInv, StreamInv, [Next]_vars PROVE StreamInv' OBVIOUS
<1> USE DEF PublisherInv, Types
<1>1. ASSUME NEW c \in Conn, Task(c) PROVE StreamInv'
  <2>1. \A stopped \in BOOLEAN : Closed(c, stopped) \in Event /\ Closed(c, stopped).kind = "Closed"
    BY DEF Closed, Event
  <2>2. c # None /\ conns[c] \in Connection BY IngestConstants
  <2>3. ASSUME NEW a \in Addrs \cup {Loopback}, Connect(c, a) PROVE StreamInv'
    <3>1. /\ publisher # c /\ conns[c].phase = "Free" /\ UNCHANGED <<events, publisher, stream>>
          /\ \A i \in DOMAIN events : events[i].conn # c
      BY <2>3 DEF Connect, Mentions
    <3>2. MediaOf(c) = {} BY <3>1 DEF MediaOf, MediaIn
    <3>3. conns'[c].sent = 0 /\ conns'[c].phase = "Open"
      <4>1. conns'[c] = [Unused EXCEPT !.phase = "Open", !.addr = a] BY <2>3 DEF Connect
      <4> QED BY <4>1 DEF Unused
    <3>4. ASSUME NEW d \in Conn \ {c} PROVE conns'[d].phase = conns[d].phase /\ conns'[d].sent = conns[d].sent
      <4>1. conns'[d] = conns[d] \/ conns'[d] = [conns[d] EXCEPT !.closing = TRUE]
        BY <2>3 DEF Connect
      <4>2. conns[d] \in Connection OBVIOUS
      <4> QED BY <4>1, <4>2 DEF Connection
    <3> QED BY <2>1, <3>1, <3>2, <3>3, <3>4, StreamStays
  <2>4. ASSUME NEW good \in BOOLEAN, Ask(c, good) PROVE StreamInv'
    <3>1. /\ conns[c].phase = "Open" /\ conns' = [conns EXCEPT ![c].phase = "Asking"]
          /\ events' = Append(events, Publish(c, good)) /\ UNCHANGED <<publisher, stream>>
      BY <2>4 DEF Ask, Become
    <3>2. /\ Publish(c, good) \in Event /\ Publish(c, good).kind = "Publish"
          /\ Publish(c, good).conn = c
      BY DEF Publish, Event
    <3>3. MediaOf(c) = {} BY <3>1 DEF OpenUnheard, MediaOf, MediaIn
    <3>4. publisher # c BY <2>2, <3>1 DEF OpenUnheard, PublisherIsThere
    <3>5. conns'[c].phase = "Asking" /\ conns'[c].sent = conns[c].sent BY <2>2, <3>1 DEF Connection
    <3>6. \A d \in Conn \ {c} : conns'[d] = conns[d] BY <3>1
    <3> QED BY <3>1, <3>2, <3>3, <3>4, <3>5, <3>6, StreamStays
  <2>5. CASE Answered(c)
    <3>1. /\ conns[c].phase = "Asking" /\ conns[c].reply # "None"
          /\ UNCHANGED <<events, publisher, stream>>
          /\ \A d \in Conn \ {c} : conns'[d] = conns[d]
      BY <2>5 DEF Answered
    <3>2. conns'[c].phase \in {"Live", "Refused"} /\ conns'[c].sent = conns[c].sent
      <4>1. conns'[c] = [conns[c] EXCEPT !.phase = IF conns[c].reply = "Yes" THEN "Live" ELSE "Refused",
                                         !.reply = "None"]
        BY <2>5 DEF Answered
      <4> QED BY <2>2, <4>1 DEF Connection
    <3>3. \A i \in DOMAIN events : ~(events[i].kind = "Publish" /\ events[i].conn = c)
      BY <3>1, SMTT(30) DEF AskersWait, IsAsked, ClosedAreDone
    <3> QED BY <2>1, <3>1, <3>2, <3>3, StreamStays DEF Sending
  <2>6. ASSUME NEW size \in Sizes, Send(c, size) PROVE StreamInv'
    <3>1. /\ conns[c].phase = "Live" /\ UNCHANGED <<events, publisher, stream>>
          /\ \A d \in Conn \ {c} : conns'[d] = conns[d]
      BY <2>6 DEF Send
    <3>2. conns'[c].phase = "Waiting" /\ conns'[c].sent = conns[c].sent
      <4>1. conns'[c] = [conns[c] EXCEPT !.phase = "Waiting", !.need = Need(size)] BY <2>6 DEF Send
      <4> QED BY <2>2, <4>1 DEF Connection
    <3> QED BY <2>1, <3>1, <3>2, StreamStays DEF Sending
  <2>7. CASE Unpublish(c)
    <3>1. /\ conns[c].phase = "Live" /\ conns' = [conns EXCEPT ![c].phase = "Done"]
          /\ events' = Append(events, Closed(c, TRUE)) /\ UNCHANGED <<publisher, stream>>
      BY <2>7 DEF Unpublish, Become
    <3>2. conns'[c].phase = "Done" /\ conns'[c].sent = conns[c].sent BY <2>2, <3>1 DEF Connection
    <3>3. \A d \in Conn \ {c} : conns'[d] = conns[d] BY <3>1
    <3> QED BY <2>1, <3>1, <3>2, <3>3, StreamStays DEF Sending
  <2>8. CASE Gone(c)
    <3>1. /\ conns' = [conns EXCEPT ![c] = Unused]
          /\ events' = Append(events, Closed(c, FALSE)) /\ UNCHANGED <<publisher, stream>>
      BY <2>8 DEF Gone, Farewell
    <3>2. conns'[c].phase = "Free" /\ \A d \in Conn \ {c} : conns'[d] = conns[d]
      BY <3>1 DEF Unused
    <3> QED BY <2>1, <3>1, <3>2, StreamStays DEF Sending
  <2> QED BY <1>1, <2>3, <2>4, <2>5, <2>6, <2>7, <2>8, StreamRoom DEF Task, Leave, Notice
<1>2. CASE FallSilent \/ UNCHANGED vars
  <2>1. UNCHANGED <<conns, events, publisher, stream>> BY <1>2 DEF FallSilent, vars
  <2>2. \A c : MediaIn(events', c) = MediaIn(events, c) BY <2>1
  <2>3. FreshAreSilent' BY <2>1 DEF FreshAreSilent, MediaOf, StreamInv
  <2>4. MediaBetween' BY <2>1 DEF MediaBetween, MediaOf, StreamInv
  <2>5. Unanswered' BY <2>1 DEF Unanswered, StreamInv
  <2>6. InTurn' BY <2>1 DEF InTurn, MediaOf, StreamInv
  <2>7. AllSent' BY <2>1 DEF AllSent, MediaOf, StreamInv
  <2> QED BY <2>3, <2>4, <2>5, <2>6, <2>7 DEF StreamInv
<1> QED BY <1>1, <1>2, StreamHandled DEF Next

LEMMA StreamAlways == Spec => [](PublisherInv /\ StreamInv)
<1> QED BY PublisherAlways, StreamInit, StreamNext, PTL DEF Spec

(* The engine gets every message of the publisher in order and nobody      *)
(* else's, and learns that the encoder stopped only after the last of them *)
(* (core.rs, media and closed; ingest.rs, the one queue for both).         *)
THEOREM StreamIsWholeAlways == Spec => StreamIsWhole
<1> DEFINE Whole ==
      /\ stream' > stream => Head(events).conn = publisher /\ Head(events).n = stream + 1
      /\ publisher # None /\ publisher' = None =>
           \/ ~Head(events).stopped
           \/ stream = conns[publisher].sent
           \/ conns[publisher].phase # "Done"
<1>1. ASSUME PublisherInv, StreamInv, [Next]_vars PROVE [Whole]_vars
  <2> USE <1>1 DEF PublisherInv, Types, StreamInv
  <2>1. CASE Handle
    <3> DEFINE e == events[1]
    <3>1. /\ events # <<>> /\ e = Head(events)
          /\ HandlePublish(e) \/ HandleMedia(e) \/ HandleClosed(e)
      BY <2>1, Heading DEF Handle
    <3>2. /\ 1 \in DOMAIN events /\ e \in Event /\ \A i \in DOMAIN events : i \in Nat /\ ~(i < 1)
      BY <3>1, Heading
    <3>3. CASE HandleMedia(e)
      <4>1. e.kind = "Media" /\ publisher' = publisher /\ (stream' = stream \/ publisher = e.conn)
        BY <3>3 DEF HandleMedia, IsPublisher
      <4>2. ASSUME publisher = e.conn PROVE e.n = stream + 1
        <5>1. publisher # None /\ 1 \in MediaOf(publisher)
          BY <3>2, <4>1, <4>2, Events, IngestConstants DEF MediaOf, MediaIn
        <5>2. \A j \in MediaOf(publisher) : ~(j < 1) BY <3>2 DEF MediaOf, MediaIn
        <5> QED BY <5>1, <5>2 DEF InTurn
      <4>3. stream' > stream => publisher = e.conn BY <4>1
      <4> QED BY <3>1, <4>1, <4>2, <4>3
    <3>4. CASE HandleClosed(e)
      <4>1. e.kind = "Closed" /\ stream' = stream /\ (publisher' = publisher \/ publisher = e.conn)
        BY <3>4 DEF HandleClosed, IsPublisher
      <4>2. ASSUME publisher # None, publisher = e.conn, conns[publisher].phase = "Done"
            PROVE  stream = conns[publisher].sent
        <5>1. MediaOf(publisher) = {}
          <6>1. \A j \in MediaOf(publisher) : j < 1 BY <3>2, <4>1, <4>2 DEF MediaBetween
          <6> QED BY <3>2, <6>1 DEF MediaOf, MediaIn
        <5> QED BY <4>2, <5>1 DEF AllSent
      <4> QED BY <4>1, <4>2
    <3>5. CASE HandlePublish(e)
      <4>1. e.conn # None BY <3>2, Events, IngestConstants
      <4>2. \/ publisher' = e.conn /\ stream' = 0
            \/ publisher' = publisher /\ stream' = stream
        BY <3>5, SMTT(30) DEF HandlePublish
      <4> QED BY <4>1, <4>2
    <3> QED BY <3>1, <3>3, <3>4, <3>5
  <2>2. ASSUME NEW c \in Conn, Task(c) PROVE UNCHANGED <<publisher, stream>>
    BY <2>2 DEF Task, Connect, Ask, Answered, Send, Room, Unpublish, Leave, Notice, Gone
  <2>3. CASE FallSilent \/ UNCHANGED vars BY <2>3 DEF FallSilent, vars
  <2>4. UNCHANGED <<publisher, stream>> => Whole OBVIOUS
  <2> QED BY <2>1, <2>2, <2>3, <2>4 DEF Next
<1> QED BY <1>1, StreamAlways, PTL DEF Spec, StreamIsWhole

=============================================================================
