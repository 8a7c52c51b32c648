------------------------------ MODULE Lifecycle ------------------------------
(***************************************************************************)
(* When a broadcast starts and ends: the state machine of                  *)
(* crates/relay/src/lifecycle.rs.                                          *)
(*                                                                         *)
(* One action per method.  A method reads the Facts the core gives it and  *)
(* leaves a list of effects for the core to carry out; here the facts are  *)
(* the parameter f and the list is the variable fx (the effects of the     *)
(* last method only).  A clock reading kept in the code ("since",          *)
(* "deadline") is kept here as what the code compares it with: an age or a *)
(* countdown.  Ages stop counting at Far, past every threshold.            *)
(***************************************************************************)
EXTENDS Integers, Sequences

CONSTANTS
  Grace,       \* how long a crashed encoder may take to come back
  DrainSlack,  \* DRAIN_SLACK
  Delays       \* the delays the engine may report in Facts.delay

Larger(a, b) == IF a >= b THEN a ELSE b

ASSUME LifecycleConstants ==
  /\ Grace \in Nat
  /\ DrainSlack \in Nat
  /\ Delays \subseteq Nat /\ Delays # {}

CONSTANT Far   \* where ages stop counting

ASSUME FarIsFar == Far \in Nat /\ \A d \in Delays : Larger(Grace, d) + DrainSlack <= Far

VARIABLES
  encoder,  \* Encoder: [at, stopped, age]; age counts while it is "Left"
  plan,     \* Plan: [to, left]; left is the time to the deadline of a mark
  egress,   \* Egress: [on, age]
  fx,       \* the effects the last method asked for, in order
  marked    \* history: the engine has an end mark, as the effects leave it

vars == <<encoder, plan, egress, fx, marked>>

Publishing     == [at |-> "Publishing", stopped |-> FALSE, age |-> 0]
Left(stopped)  == [at |-> "Left", stopped |-> stopped, age |-> 0]
Idle(stopped)  == [at |-> "Idle", stopped |-> stopped, age |-> 0]
Live           == [to |-> "Live", left |-> 0]
Ended          == [to |-> "Ended", left |-> 0]
EndAtMark(t)   == [to |-> "EndAtMark", left |-> t]
RestartAtMark(t) == [to |-> "RestartAtMark", left |-> t]
Off            == [on |-> FALSE, age |-> 0]
On             == [on |-> TRUE, age |-> 0]

Effects == {"StopEgress", "AbortEgress", "Discard", "MarkEnd", "CancelEnd",
            "RestartAfterEnd", "Explain"}

(* Facts: only combinations the engine can report.  An end is reached only *)
(* if there is a mark, a mark can only be set on something received, and   *)
(* before anything is received nothing is buffered or due.                 *)
Facts == [destination : BOOLEAN, has_mark : BOOLEAN, end_reached : BOOLEAN,
          backlog_empty : BOOLEAN, drained : BOOLEAN, has_buffered : BOOLEAN,
          output_wanted : BOOLEAN, connected : BOOLEAN, delay : Delays]

Reported == [mark \in BOOLEAN |->
  {f \in Facts : /\ f.end_reached => mark
                 /\ mark => f.has_mark
                 /\ ~f.has_mark => f.drained /\ ~f.has_buffered /\ ~f.output_wanted}]

AtMark == plan.to \in {"EndAtMark", "RestartAtMark"}

TypeOK ==
  /\ encoder \in [at : {"Publishing", "Left", "Idle"}, stopped : BOOLEAN, age : 0..Far]
  /\ plan \in [to : {"Live", "EndAtMark", "RestartAtMark", "Ended"}, left : 0..Far]
  /\ egress \in [on : BOOLEAN, age : 0..Far]
  /\ fx \in Seq(Effects)
  /\ marked \in BOOLEAN

Init ==
  /\ encoder = Idle(TRUE)
  /\ plan = Live
  /\ egress = Off
  /\ fx = <<>>
  /\ marked = FALSE

(* What the effects es leave of the engine's end mark. *)
Has(es, e) == \E i \in DOMAIN es : es[i] = e
MarkAfter(es) ==
  \/ Has(es, "MarkEnd")
  \/ marked /\ ~Has(es, "CancelEnd") /\ ~Has(es, "Discard") /\ ~Has(es, "RestartAfterEnd")

Ask(es) == fx' = es /\ marked' = MarkAfter(es)

(* stop(): asks for `how` only while a connection runs. *)
Stopping(how) == IF egress.on THEN <<how>> ELSE <<>>

(* finish(), after which the plan is p: the broadcast is over and what is  *)
(* left of the stream is forgotten.  `why` comes first (Effect::Explain).  *)
FinishAs(p, why) ==
  /\ Ask(why \o Stopping("StopEgress") \o <<"Discard">>)
  /\ egress' = Off
  /\ encoder' = IF encoder.at = "Left" THEN Idle(encoder.stopped) ELSE encoder
  /\ plan' = p

Finish(why) == FinishAs(IF AtMark THEN Live ELSE plan, why)

Deadline(f) == f.delay + DrainSlack

-----------------------------------------------------------------------------
(* Events *)

DestinationChanged ==
  /\ Ask(Stopping("StopEgress"))
  /\ egress' = Off
  /\ UNCHANGED <<encoder, plan>>

(* Mutant of EndNow: the plan is set, the connection is left to run. *)
EndNowKeepsEgress ==
  /\ Ask(<<"Discard">>)
  /\ plan' = Ended
  /\ UNCHANGED <<encoder, egress>>

EndNow ==
  /\ Ask(<<"Discard">> \o Stopping("AbortEgress"))
  /\ egress' = Off
  /\ plan' = Ended
  /\ UNCHANGED encoder

(* Nothing is left to air, or nothing can. *)
NothingToAir(f) == ~f.destination \/ (f.drained /\ ~egress.on)

EndAfterAir(f) ==
  \/ /\ plan.to \in {"Ended", "EndAtMark"}
     /\ Ask(<<>>)
     /\ UNCHANGED <<encoder, plan, egress>>
  \/ /\ plan.to = "RestartAtMark"
     /\ Ask(<<>>)
     /\ plan' = EndAtMark(plan.left)
     /\ UNCHANGED <<encoder, egress>>
  \/ /\ plan.to = "Live" /\ f.has_mark /\ ~NothingToAir(f)
     /\ Ask(<<"MarkEnd">>)
     /\ plan' = EndAtMark(Deadline(f))
     /\ UNCHANGED <<encoder, egress>>
  \/ /\ plan.to = "Live" /\ ~(f.has_mark /\ ~NothingToAir(f))
     /\ FinishAs(Ended, <<>>)

(* Mutant of Resume: the end mark is not taken back. *)
ResumeKeepsMark ==
  /\ Ask(IF plan.to = "Ended" THEN <<"Discard">> ELSE <<>>)
  /\ plan' = IF plan.to \in {"Ended", "EndAtMark"} THEN Live ELSE plan
  /\ UNCHANGED <<encoder, egress>>

Resume ==
  /\ Ask(CASE plan.to = "Ended" -> <<"Discard">>
           [] plan.to = "EndAtMark" -> <<"CancelEnd">>
           [] OTHER -> <<>>)
  /\ plan' = IF plan.to \in {"Ended", "EndAtMark"} THEN Live ELSE plan
  /\ UNCHANGED <<encoder, egress>>

(* Mutant of StoppedBefore: any encoder that had left counts as stopped. *)
LeftBefore(takeover) == encoder.at # "Publishing" /\ ~takeover

(* The streamer stopped the previous stream on purpose before this one: a  *)
(* takeover replaces a connection that only went silent.                   *)
StoppedBefore(takeover) == encoder.at # "Publishing" /\ encoder.stopped /\ ~takeover

(* A stream stopped on purpose still airs as a new one starts. *)
StillAiring == encoder.at = "Left" /\ encoder.stopped /\ egress.on

Publish(takeover, f) ==
  /\ encoder' = Publishing
  /\ UNCHANGED egress
  /\ \/ /\ StillAiring /\ plan.to = "Live" /\ f.has_mark
        /\ Ask(<<"MarkEnd">>)
        /\ plan' = RestartAtMark(Deadline(f))
     \/ /\ StillAiring /\ plan.to = "EndAtMark"
        /\ Ask(<<>>)
        /\ plan' = RestartAtMark(plan.left)
     \/ /\ plan.to = "Ended"
        /\ Ask(<<>>)
        /\ plan' = IF StoppedBefore(takeover) THEN Live ELSE plan
     \/ /\ \/ plan.to = "RestartAtMark"
           \/ plan.to = "EndAtMark" /\ ~StillAiring
           \/ plan.to = "Live" /\ ~(StillAiring /\ f.has_mark)
        /\ Ask(<<>>)
        /\ UNCHANGED plan

EncoderLeft(stopped) ==
  /\ encoder' = IF encoder.at = "Publishing" THEN Left(stopped) ELSE encoder
  /\ Ask(<<>>)
  /\ UNCHANGED <<plan, egress>>

-----------------------------------------------------------------------------
(* tick(), and what manage_egress() makes of Tick::Start: `usable` says    *)
(* that the destination's settings give a target to connect to.            *)

(* Mutant of Gone: only a crashed encoder is ever given up on. *)
GoneIfCrashed == encoder.at = "Left" /\ ~encoder.stopped /\ encoder.age >= Grace

Gone == encoder.at = "Left" /\ encoder.age >= Grace

MarkAired(f) == f.end_reached /\ f.backlog_empty
(* Mutant of MarkDue: without the deadline. *)
MarkDueOnceAired(f) == AtMark /\ MarkAired(f)

MarkDue(f) == AtMark /\ (MarkAired(f) \/ plan.left = 0)

NoDestination(f) ==
  /\ ~f.destination
  /\ Ask(Stopping("StopEgress"))
  /\ egress' = Off
  /\ UNCHANGED <<encoder, plan>>

(* end_at_mark() *)
ReachMark(f) ==
  /\ f.destination /\ MarkDue(f)
  /\ \/ /\ plan.to = "RestartAtMark"
        /\ Ask(Stopping("StopEgress") \o <<"RestartAfterEnd">>)
        /\ egress' = Off
        /\ plan' = Live
        /\ UNCHANGED encoder
     \/ /\ plan.to = "EndAtMark"
        /\ FinishAs(Ended, <<>>)

NothingToDo == Ask(<<>>) /\ UNCHANGED <<encoder, plan, egress>>

(* No connection runs: give up on what is left, or start one.  A target    *)
(* that cannot be had gives up too, once the encoder is gone               *)
(* (start_failed).                                                         *)
TickOff(f, usable) ==
  LET over   == Gone /\ (plan.to = "Ended" \/ ~f.has_buffered)
      wanted == ~over /\ plan.to # "Ended" /\ f.output_wanted
  IN /\ f.destination /\ ~MarkDue(f) /\ ~egress.on
     /\ \/ /\ over \/ (wanted /\ ~usable /\ Gone)
           /\ Finish(<<>>)
        \/ /\ wanted /\ usable
           /\ Ask(<<>>)
           /\ egress' = On
           /\ UNCHANGED <<encoder, plan>>
        \/ /\ ~over /\ ~(wanted /\ (usable \/ Gone))
           /\ NothingToDo

(* How long a connected destination may take once the encoder left. *)
Due(f) == (IF encoder.stopped THEN f.delay ELSE Larger(Grace, f.delay)) + DrainSlack

(* A connection runs: end it once the encoder has left for good and the    *)
(* rest has aired, cannot air, or has had long enough.                     *)
TickOn(f) ==
  LET leaving == encoder.at = "Left" /\ (Gone \/ encoder.stopped)
      aired   == f.connected /\ f.drained /\ f.backlog_empty
      lost    == ~f.connected /\ Gone /\ egress.age >= Grace
      stalled == f.connected /\ ~aired /\ encoder.age >= Due(f)
  IN /\ f.destination /\ ~MarkDue(f) /\ egress.on
     /\ \/ leaving /\ aired /\ Finish(<<>>)
        \/ leaving /\ (lost \/ stalled) /\ Finish(<<"Explain">>)
        \/ ~(leaving /\ (aired \/ lost \/ stalled)) /\ NothingToDo

Tick(f, usable) ==
  NoDestination(f) \/ ReachMark(f) \/ TickOff(f, usable) \/ TickOn(f)

-----------------------------------------------------------------------------
(* Time passes. *)
Older(t) == IF t < Far THEN t + 1 ELSE t
Earlier(t) == t - 1  \* mutant of Sooner: counts on past the deadline
Sooner(t) == IF t > 0 THEN t - 1 ELSE t

Elapse ==
  /\ encoder' = [encoder EXCEPT !.age = IF encoder.at = "Left" THEN Older(@) ELSE @]
  /\ plan' = [plan EXCEPT !.left = Sooner(@)]
  /\ egress' = [egress EXCEPT !.age = IF egress.on THEN Older(@) ELSE @]
  /\ Ask(<<>>)

ReportedFacts == Reported[marked]

(* An encoder takes over while its previous connection still publishes. *)
PublishAny == \E f \in ReportedFacts : Publish(encoder.at = "Publishing", f)

Next ==
  \/ DestinationChanged
  \/ EndNow
  \/ \E f \in ReportedFacts : EndAfterAir(f)
  \/ Resume
  \/ PublishAny
  \/ \E stopped \in BOOLEAN : EncoderLeft(stopped)
  \/ \E f \in ReportedFacts, usable \in BOOLEAN : Tick(f, usable)
  \/ Elapse

(* The core runs tick after every event and every 250 ms, and the clock    *)
(* does not stop.  A tick with a destination set up is fair on its own:    *)
(* without one nothing can air, and nothing is to be expected.             *)
SetUp == [mark \in BOOLEAN |-> {f \in Reported[mark] : f.destination}]
TickWithDestination == \E f \in SetUp[marked] : Tick(f, TRUE)

Fairness == WF_vars(TickWithDestination) /\ WF_vars(Elapse)

Spec == Init /\ [][Next]_vars
FairSpec == Spec /\ Fairness

-----------------------------------------------------------------------------
(* Properties *)

(* Ended by the streamer means that nothing is sent: no connection runs,   *)
(* whichever of End stream now, End stream after air or a deadline ended   *)
(* it, and no later event starts one.  (Plan::Ended)                       *)
EndedIsOff == plan.to = "Ended" => ~egress.on

(* The engine holds back what comes after an end mark for as long as the   *)
(* lifecycle is heading for it, and not a moment longer: a mark that       *)
(* outlived its plan would silence the output for good, a plan without its *)
(* mark would never end.  (end_after, cancel_end, restart_after_end)       *)
MarkIffPlanned == marked <=> AtMark

(* The streamer ended the broadcast and has neither resumed nor stopped    *)
(* the stream in the encoder since.                                        *)
Sealed == plan.to = "Ended" /\ (encoder.at = "Publishing" \/ ~encoder.stopped)

(* However often the encoder crashes, comes back, takes over its own       *)
(* silent connection or is given up on, an ended broadcast stays ended     *)
(* until the streamer resumes or stops the stream on purpose.              *)
EndSticks == [][Sealed => Sealed' \/ fx' = <<"Discard">> \/ encoder' = Left(TRUE)]_vars

(* A broadcast whose encoder left ends, whatever the destination does,     *)
(* unless the encoder comes back.                                          *)
LeftEnds == (encoder.at = "Left" /\ egress.on) ~> (encoder.at = "Publishing" \/ ~egress.on)

(* End stream (after air) ends, is taken back, or becomes a restart.       *)
EndingEnds == plan.to = "EndAtMark" ~> plan.to # "EndAtMark"
=============================================================================
