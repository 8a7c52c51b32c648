------------------------------- MODULE Ingest -------------------------------
(***************************************************************************)
(* The encoder's connections (relay/src/ingest.rs) and how the core        *)
(* (relay/src/core.rs) admits one of them as the publisher, takes its      *)
(* media in, and lets another take over once it has gone silent.           *)
(*                                                                         *)
(* Each connection is a task of its own.  They share the list of           *)
(* connections, the byte budget for media on its way to the core, and one  *)
(* queue to the core.  A connection is told to close by a notification,    *)
(* which its task may notice late.                                         *)
(***************************************************************************)
EXTENDS Naturals, Sequences, FiniteSets, SequencesExt, FiniteSetsExt

CONSTANTS
  Conn,      \* the connections there can be at once
  Loopback,  \* the address of local programs, which have no limit of their own
  Addrs,     \* the other addresses
  None,
  MaxConns, MaxPerAddr,
  Budget,    \* the budget, in units of bytes
  Sizes,     \* what messages come to, overhead included
  MaxSent    \* bound of the check: messages of one publisher

ASSUME IngestConstants ==
  /\ None \notin Conn
  /\ MaxConns \in Nat \ {0} /\ MaxPerAddr \in Nat \ {0} /\ Budget \in Nat \ {0}
  /\ Sizes \subseteq Nat \ {0}

VARIABLES
  conns,     \* the task of each connection: [phase, addr, reply, need, sent, closing]
  listed,    \* the list of connections, oldest first
  budget,    \* what is left of the budget
  waiting,   \* connections waiting for room, in turn
  events,    \* the queue to the core
  publisher, \* the core's publisher, None if there is none
  silent,    \* nothing of it was handled for TAKEOVER_SILENCE
  stream     \* what the engine has of the present stream: how many messages

vars == <<conns, listed, budget, waiting, events, publisher, silent, stream>>

(* Open: not publishing yet.  Asking: waits for the core's answer.  Live:  *)
(* publishing.  Waiting: for room.  Refused: waits to be told so.  Done:   *)
(* has stopped publishing, and may not publish again.                      *)

Unused == [phase |-> "Free", addr |-> Loopback, reply |-> "None", need |-> 0, sent |-> 0,
           closing |-> FALSE]

Publish(c, good) == [kind |-> "Publish", conn |-> c, good |-> good]
Media(c, n, need) == [kind |-> "Media", conn |-> c, n |-> n, need |-> need]
Closed(c, stopped) == [kind |-> "Closed", conn |-> c, stopped |-> stopped]

Init ==
  /\ conns = [c \in Conn |-> Unused]
  /\ listed = <<>>
  /\ budget = Budget
  /\ waiting = <<>>
  /\ events = <<>>
  /\ publisher = None
  /\ silent = FALSE
  /\ stream = 0

Become(c, phase) == conns' = [conns EXCEPT ![c].phase = phase]
Mentions(c) == \E i \in DOMAIN events : events[i].conn = c

-----------------------------------------------------------------------------
(* Admission *)

(* The flags a connection shows the others.  It counts as publishing from  *)
(* before it asks, so that it is not closed while the answer is on its way.*)
IsLive(c) == conns[c].phase = "Live"
IsPublishing(c) == conns[c].phase \in {"Asking", "Live", "Waiting"}
IsRefused(c) == conns[c].phase = "Refused"

(* Who is closed to make room among those at places P of a list: the       *)
(* oldest not publishing, one that was refused first.                      *)
Idle(list, P) == {i \in P : ~IsPublishing(list[i])}
OldestIdle(list, P) ==
  LET refused == {i \in Idle(list, P) : IsRefused(list[i])}
  IN Min(IF refused # {} THEN refused ELSE Idle(list, P))

(* First the address's limit, then the overall one. *)
From(a) == {i \in DOMAIN listed : conns[listed[i]].addr = a}
Crowded(a) == a # Loopback /\ Cardinality(From(a)) >= MaxPerAddr
Rest(a) == IF Crowded(a) THEN RemoveAt(listed, OldestIdle(listed, From(a))) ELSE listed
AllFull(a) == Len(Rest(a)) >= MaxConns

HasRoom(a) ==
  /\ Crowded(a) => Idle(listed, From(a)) # {}
  /\ AllFull(a) => Idle(Rest(a), DOMAIN Rest(a)) # {}
Stays(a) ==
  IF AllFull(a) THEN RemoveAt(Rest(a), OldestIdle(Rest(a), DOMAIN Rest(a))) ELSE Rest(a)

Connect(c, a) ==
  /\ conns[c].phase = "Free" /\ publisher # c /\ ~Mentions(c)
  /\ HasRoom(a)
  /\ listed' = Append(Stays(a), c)
  /\ conns' = [d \in Conn |->
                 IF d = c THEN [Unused EXCEPT !.phase = "Open", !.addr = a]
                 ELSE IF d \in ToSet(listed) \ ToSet(Stays(a)) THEN [conns[d] EXCEPT !.closing = TRUE]
                 ELSE conns[d]]
  /\ UNCHANGED <<budget, waiting, events, publisher, silent, stream>>

-----------------------------------------------------------------------------
(* A connection's task *)

Ask(c, good) ==
  /\ conns[c].phase = "Open"
  /\ Become(c, "Asking")
  /\ events' = Append(events, Publish(c, good))
  /\ UNCHANGED <<listed, budget, waiting, publisher, silent, stream>>

Answered(c) ==
  /\ conns[c].phase = "Asking" /\ conns[c].reply # "None"
  /\ conns' = [conns EXCEPT ![c].phase = IF conns[c].reply = "Yes" THEN "Live" ELSE "Refused",
                            ![c].reply = "None"]
  /\ UNCHANGED <<listed, budget, waiting, events, publisher, silent, stream>>

(* A message larger than the budget takes all of it. *)
NeedWhole(size) == size
Need(size) == Min({size, Budget})

Send(c, size) ==
  /\ conns[c].phase = "Live" /\ conns[c].sent < MaxSent
  /\ conns' = [conns EXCEPT ![c].phase = "Waiting", ![c].need = Need(size)]
  /\ waiting' = Append(waiting, c)
  /\ UNCHANGED <<listed, budget, events, publisher, silent, stream>>

(* The semaphore serves those that wait in turn. *)
Room(c) ==
  /\ waiting # <<>> /\ Head(waiting) = c
  /\ conns[c].need <= budget
  /\ waiting' = Tail(waiting)
  /\ budget' = budget - conns[c].need
  /\ conns' = [conns EXCEPT ![c].phase = "Live", ![c].sent = @ + 1]
  /\ events' = Append(events, Media(c, conns[c].sent + 1, conns[c].need))
  /\ UNCHANGED <<listed, publisher, silent, stream>>

Unpublish(c) ==
  /\ conns[c].phase = "Live"
  /\ Become(c, "Done")
  /\ events' = Append(events, Closed(c, TRUE))
  /\ UNCHANGED <<listed, budget, waiting, publisher, silent, stream>>

(* The task ends: it says so, then leaves the list. *)
FarewellUnlessAsking(c) ==
  IF conns[c].phase = "Asking" THEN events ELSE Append(events, Closed(c, FALSE))
Farewell(c) == Append(events, Closed(c, FALSE))
Gone(c) ==
  /\ conns' = [conns EXCEPT ![c] = Unused]
  /\ listed' = RemoveFirst(listed, c)
  /\ waiting' = RemoveFirst(waiting, c)
  /\ events' = Farewell(c)
  /\ UNCHANGED <<budget, publisher, silent, stream>>

(* The encoder closes or loses the connection, sends nonsense, sends       *)
(* nothing or does not publish for too long, or has been told that it was  *)
(* refused.  A task that waits for the core or for room does not notice.   *)
Leave(c) == conns[c].phase \in {"Open", "Live", "Refused", "Done"} /\ Gone(c)

(* The task notices that it is to close, whatever it waits for. *)
Notice(c) == conns[c].phase # "Free" /\ conns[c].closing /\ Gone(c)

-----------------------------------------------------------------------------
(* The core *)

IsAnyPublisher(c) == publisher # None
IsPublisher(c) == publisher = c

(* The application, the key and what passing the key on needs are checked  *)
(* first: only an encoder that could publish takes over.                   *)
Admits(e) == e.good /\ (publisher = None \/ silent)

(* The one it takes over from is told to close. *)
DisplaceQuietly(c) == conns
Displace(c) ==
  [d \in Conn |-> IF d = publisher /\ conns[d].phase # "Free"
                  THEN [conns[d] EXCEPT !.closing = TRUE] ELSE conns[d]]

Reply(cs, c, r) ==
  [d \in Conn |-> IF d = c /\ cs[d].phase = "Asking" THEN [cs[d] EXCEPT !.reply = r] ELSE cs[d]]

HandlePublish(e) ==
  /\ e.kind = "Publish"
  /\ IF Admits(e)
     THEN /\ publisher' = e.conn /\ silent' = FALSE /\ stream' = 0
          /\ conns' = Reply(Displace(e.conn), e.conn, "Yes")
     ELSE /\ conns' = Reply(conns, e.conn, "No")
          /\ UNCHANGED <<publisher, silent, stream>>
  /\ UNCHANGED budget

(* What a message took of the budget is given back, whoever sent it. *)
GivenBack(e) == e.need

HandleMedia(e) ==
  /\ e.kind = "Media"
  /\ IF IsPublisher(e.conn)
     THEN stream' = stream + 1 /\ silent' = FALSE
     ELSE UNCHANGED <<stream, silent>>
  /\ budget' = budget + GivenBack(e)
  /\ UNCHANGED <<conns, publisher>>

HandleClosed(e) ==
  /\ e.kind = "Closed"
  /\ IF IsPublisher(e.conn)
     THEN publisher' = None /\ silent' = FALSE
     ELSE UNCHANGED <<publisher, silent>>
  /\ UNCHANGED <<conns, budget, stream>>

Handle ==
  /\ events # <<>>
  /\ events' = Tail(events)
  /\ LET e == Head(events) IN HandlePublish(e) \/ HandleMedia(e) \/ HandleClosed(e)
  /\ UNCHANGED <<listed, waiting>>

FallSilent ==
  /\ publisher # None /\ ~silent
  /\ silent' = TRUE
  /\ UNCHANGED <<conns, listed, budget, waiting, events, publisher, stream>>

-----------------------------------------------------------------------------
Task(c) ==
  \/ \E a \in Addrs \cup {Loopback} : Connect(c, a)
  \/ \E good \in BOOLEAN : Ask(c, good)
  \/ Answered(c)
  \/ \E size \in Sizes : Send(c, size)
  \/ Room(c) \/ Unpublish(c) \/ Leave(c) \/ Notice(c)

Next == (\E c \in Conn : Task(c)) \/ Handle \/ FallSilent

Spec == Init /\ [][Next]_vars

-----------------------------------------------------------------------------
Queued == {i \in DOMAIN events : events[i].kind = "Media"}

(* The publisher is a connection that publishes or is about to, or the     *)
(* core is about to hear that it is gone: no dead connection keeps the     *)
(* encoder out.                                                            *)
PublisherIsThere ==
  publisher # None =>
    \/ conns[publisher].phase \in {"Live", "Waiting"}
    \/ conns[publisher].phase = "Asking" /\ conns[publisher].reply = "Yes"
    \/ \E i \in DOMAIN events : events[i].kind = "Closed" /\ events[i].conn = publisher

(* A connection that goes on publishing without being the publisher has    *)
(* been told to close.                                                     *)
OthersClose ==
  \A c \in Conn :
    (conns[c].phase \in {"Live", "Waiting"} \/ conns[c].reply = "Yes")
      => publisher = c \/ conns[c].closing

(* Room always comes: who waits first finds it, or there is media in the   *)
(* queue that will give some back.                                         *)
RoomComes ==
  waiting # <<>> => conns[Head(waiting)].need <= budget \/ Queued # {}

(* The engine gets the publisher's messages, all of them, in order and     *)
(* nobody else's, and hears that the encoder stopped only after the last.  *)
StreamIsWhole ==
  [][/\ stream' > stream => Head(events).conn = publisher /\ Head(events).n = stream + 1
     /\ publisher # None /\ publisher' = None =>
          \/ ~Head(events).stopped
          \/ stream = conns[publisher].sent
          \/ conns[publisher].phase # "Done"]_vars

(* A connection that publishes, or waits for the answer to its request, is *)
(* not closed to make room for another: only who takes its place closes it.*)
PublisherIsKept ==
  [][\A c \in Conn :
       conns[c].phase \in {"Asking", "Live", "Waiting"} /\ ~conns[c].closing /\ conns'[c].closing
         => publisher = c /\ publisher' # c]_vars
=============================================================================
