--------------------------- MODULE LifecycleProofs ---------------------------
(***************************************************************************)
(* What the lifecycle keeps for any grace period, slack and delays, and    *)
(* whatever the engine and the destination report.                         *)
(***************************************************************************)
EXTENDS Lifecycle, SequenceTheorems, TLAPS

-----------------------------------------------------------------------------
(* Lists of effects *)

(* A list holds an effect if either of the lists it was put together from  *)
(* does.  (Effects are pushed one method after another onto one list.)     *)
LEMMA HasConcat ==
  ASSUME NEW s \in Seq(Effects), NEW t \in Seq(Effects), NEW e
  PROVE  /\ s \o t \in Seq(Effects)
         /\ Has(s \o t, e) <=> Has(s, e) \/ Has(t, e)
<1>1. s \o t \in Seq(Effects) /\ Len(s \o t) = Len(s) + Len(t)
  BY ConcatProperties
<1>2. ASSUME Has(s \o t, e) PROVE Has(s, e) \/ Has(t, e)
  <2>1. PICK i \in 1..Len(s \o t) : (s \o t)[i] = e
    BY <1>1, <1>2 DEF Has
  <2>2. CASE i <= Len(s)
    BY <2>1, <2>2, <1>1 DEF Has
  <2>3. CASE i > Len(s)
    <3>1. i - Len(s) \in 1..Len(t) /\ t[i - Len(s)] = e
      BY <2>1, <2>3, <1>1
    <3> QED BY <3>1 DEF Has
  <2> QED BY <2>1, <2>2, <2>3, <1>1
<1>3. ASSUME Has(s, e) PROVE Has(s \o t, e)
  <2>1. PICK i \in 1..Len(s) : s[i] = e
    BY <1>3 DEF Has
  <2>2. i \in 1..Len(s \o t) /\ (s \o t)[i] = e
    BY <2>1, <1>1
  <2> QED BY <2>2, <1>1 DEF Has
<1>4. ASSUME Has(t, e) PROVE Has(s \o t, e)
  <2>1. PICK i \in 1..Len(t) : t[i] = e
    BY <1>4 DEF Has
  <2>2. i + Len(s) \in 1..Len(s \o t) /\ (s \o t)[i + Len(s)] = e
    BY <2>1, <1>1
  <2> QED BY <2>2, <1>1 DEF Has
<1> QED BY <1>1, <1>2, <1>3, <1>4

(* A list of no effect, or of one. *)
LEMMA HasFew ==
  ASSUME NEW x \in Effects, NEW e
  PROVE  /\ <<>> \in Seq(Effects) /\ ~Has(<<>>, e)
         /\ <<x>> \in Seq(Effects) /\ (Has(<<x>>, e) <=> x = e)
BY DEF Has

(* stop() asks for one effect or none. *)
LEMMA HasStopping ==
  ASSUME NEW how \in Effects, NEW e
  PROVE  /\ Stopping(how) \in Seq(Effects)
         /\ Has(Stopping(how), e) => e = how
BY HasFew DEF Stopping

(* Discard without MarkEnd leaves no mark.                                 *)
LEMMA DiscardUnmarks ==
  ASSUME NEW why \in {<<>>, <<"Explain">>}
  PROVE  LET es == why \o Stopping("StopEgress") \o <<"Discard">>
         IN  es \in Seq(Effects) /\ Has(es, "Discard") /\ ~Has(es, "MarkEnd")
<1> DEFINE es == why \o Stopping("StopEgress")
<1>1. why \in Seq(Effects) /\ ~Has(why, "MarkEnd")
  BY HasFew DEF Effects
<1>2. es \in Seq(Effects) /\ ~Has(es, "MarkEnd")
  BY <1>1, HasConcat, HasStopping DEF Effects
<1>3. <<"Discard">> \in Seq(Effects) /\ Has(<<"Discard">>, "Discard") /\ ~Has(<<"Discard">>, "MarkEnd")
  BY HasFew DEF Effects
<1> QED BY <1>2, <1>3, HasConcat

-----------------------------------------------------------------------------
(* The inductive invariant: the type invariant and the two safety          *)
(* invariants, which need nothing but each other.                          *)
IInv == TypeOK /\ EndedIsOff /\ MarkIffPlanned

LEMMA Constants ==
  /\ Far \in Nat /\ Grace \in Nat /\ DrainSlack \in Nat
  /\ \A d \in Delays : d \in Nat /\ d + DrainSlack \in 0..Far
BY LifecycleConstants, FarIsFar DEF Larger

LEMMA ReportedTyped ==
  ASSUME TypeOK, NEW f \in ReportedFacts
  PROVE  f \in Facts /\ f.delay \in Delays /\ Deadline(f) \in 0..Far
BY Constants DEF TypeOK, ReportedFacts, Reported, Facts, Deadline

(* finish() leaves the broadcast over, off and unmarked. *)
LEMMA FinishAsKeeps ==
  ASSUME IInv, NEW STATE p, p \in [to : {"Live", "Ended"}, left : 0..Far],
         NEW why \in {<<>>, <<"Explain">>}, FinishAs(p, why)
  PROVE  IInv'
<1>1. fx' \in Seq(Effects) /\ marked' = FALSE
  BY DiscardUnmarks DEF FinishAs, Ask, MarkAfter, IInv, TypeOK
<1>2. TypeOK'
  <2>1. encoder' \in [at : {"Publishing", "Left", "Idle"}, stopped : BOOLEAN, age : 0..Far]
    BY Constants DEF FinishAs, IInv, TypeOK, Idle
  <2>2. plan' \in [to : {"Live", "EndAtMark", "RestartAtMark", "Ended"}, left : 0..Far]
    BY DEF FinishAs
  <2>3. egress' \in [on : BOOLEAN, age : 0..Far]
    BY Constants DEF FinishAs, Off
  <2> QED BY <1>1, <2>1, <2>2, <2>3 DEF TypeOK
<1>3. EndedIsOff' /\ MarkIffPlanned'
  BY <1>1 DEF FinishAs, EndedIsOff, MarkIffPlanned, AtMark, Off
<1> QED BY <1>2, <1>3 DEF IInv

LEMMA FinishKeeps ==
  ASSUME IInv, NEW why \in {<<>>, <<"Explain">>}, Finish(why)
  PROVE  IInv'
<1>1. (IF AtMark THEN Live ELSE plan) \in [to : {"Live", "Ended"}, left : 0..Far]
  BY Constants DEF IInv, TypeOK, AtMark, Live
<1> QED BY <1>1, FinishAsKeeps DEF Finish

(* An effect list with none of the effects on the mark leaves it. *)
LEMMA AskNothing ==
  ASSUME TypeOK, Ask(<<>>)
  PROVE  fx' \in Seq(Effects) /\ marked' = marked
BY HasFew DEF Ask, MarkAfter, TypeOK, Effects

LEMMA AskStopping ==
  ASSUME TypeOK, NEW how \in {"StopEgress", "AbortEgress"}, Ask(Stopping(how))
  PROVE  fx' \in Seq(Effects) /\ marked' = marked
BY HasStopping DEF Ask, MarkAfter, TypeOK, Effects

LEMMA AskOne ==
  ASSUME TypeOK, NEW e \in {"MarkEnd", "CancelEnd", "Discard"}, Ask(<<e>>)
  PROVE  fx' \in Seq(Effects) /\ marked' = (e = "MarkEnd")
BY HasFew DEF Ask, MarkAfter, TypeOK, Effects

-----------------------------------------------------------------------------
(* Each action keeps the invariant. *)

LEMMA DestinationChangedKeeps ==
  ASSUME IInv, DestinationChanged PROVE IInv'
<1>1. fx' \in Seq(Effects) /\ marked' = marked
  BY AskStopping DEF DestinationChanged, IInv
<1> QED
  BY <1>1, Constants
  DEF DestinationChanged, IInv, TypeOK, EndedIsOff, MarkIffPlanned, AtMark, Off

LEMMA EndNowKeeps ==
  ASSUME IInv, EndNow PROVE IInv'
<1> DEFINE es == <<"Discard">> \o Stopping("AbortEgress")
<1>1. es \in Seq(Effects) /\ Has(es, "Discard") /\ ~Has(es, "MarkEnd")
  <2>1. <<"Discard">> \in Seq(Effects) /\ Has(<<"Discard">>, "Discard") /\ ~Has(<<"Discard">>, "MarkEnd")
    BY HasFew DEF Effects
  <2> QED BY <2>1, HasConcat, HasStopping DEF Effects
<1>2. fx' \in Seq(Effects) /\ marked' = FALSE
  BY <1>1 DEF EndNow, Ask, MarkAfter, IInv, TypeOK
<1>3. egress' \in [on : BOOLEAN, age : 0..Far] /\ ~egress'.on
  BY Constants DEF EndNow, Off
<1>4. plan' \in [to : {"Live", "EndAtMark", "RestartAtMark", "Ended"}, left : 0..Far]
      /\ plan'.to = "Ended"
  BY Constants DEF EndNow, Ended
<1> QED
  BY <1>2, <1>3, <1>4 DEF EndNow, IInv, TypeOK, EndedIsOff, MarkIffPlanned, AtMark

LEMMA EndAfterAirKeeps ==
  ASSUME IInv, NEW f \in ReportedFacts, EndAfterAir(f) PROVE IInv'
<1> USE DEF IInv
<1>1. CASE /\ plan.to \in {"Ended", "EndAtMark"}
           /\ Ask(<<>>)
           /\ UNCHANGED <<encoder, plan, egress>>
  BY <1>1, AskNothing DEF TypeOK, EndedIsOff, MarkIffPlanned, AtMark
<1>2. CASE /\ plan.to = "RestartAtMark"
           /\ Ask(<<>>)
           /\ plan' = EndAtMark(plan.left)
           /\ UNCHANGED <<encoder, egress>>
  BY <1>2, AskNothing DEF TypeOK, EndedIsOff, MarkIffPlanned, AtMark, EndAtMark
<1>3. CASE /\ plan.to = "Live" /\ f.has_mark /\ ~NothingToAir(f)
           /\ Ask(<<"MarkEnd">>)
           /\ plan' = EndAtMark(Deadline(f))
           /\ UNCHANGED <<encoder, egress>>
  BY <1>3, AskOne, ReportedTyped DEF TypeOK, EndedIsOff, MarkIffPlanned, AtMark, EndAtMark
<1>4. CASE plan.to = "Live" /\ FinishAs(Ended, <<>>)
  <2>1. Ended \in [to : {"Live", "Ended"}, left : 0..Far]
    BY Constants DEF Ended
  <2> QED BY <1>4, <2>1, FinishAsKeeps
<1> QED BY <1>1, <1>2, <1>3, <1>4 DEF EndAfterAir

LEMMA ResumeKeeps ==
  ASSUME IInv, Resume PROVE IInv'
<1> USE DEF IInv
<1>0. Live \in [to : {"Live", "EndAtMark", "RestartAtMark", "Ended"}, left : 0..Far]
      /\ Live.to = "Live"
  BY Constants DEF Live
<1>1. CASE plan.to = "Ended"
  <2>1. Ask(<<"Discard">>) /\ plan' = Live BY <1>1 DEF Resume
  <2> QED
    BY <1>0, <2>1, AskOne DEF Resume, TypeOK, EndedIsOff, MarkIffPlanned, AtMark
<1>2. CASE plan.to = "EndAtMark"
  <2>1. Ask(<<"CancelEnd">>) /\ plan' = Live BY <1>2 DEF Resume
  <2> QED
    BY <1>0, <2>1, AskOne DEF Resume, TypeOK, EndedIsOff, MarkIffPlanned, AtMark
<1>3. CASE plan.to \notin {"Ended", "EndAtMark"}
  <2>1. Ask(<<>>) BY <1>3 DEF Resume
  <2> QED
    BY <1>3, <2>1, AskNothing DEF Resume, TypeOK, EndedIsOff, MarkIffPlanned, AtMark
<1> QED BY <1>1, <1>2, <1>3

LEMMA PublishKeeps ==
  ASSUME IInv, NEW takeover \in BOOLEAN, NEW f \in ReportedFacts, Publish(takeover, f)
  PROVE  IInv'
<1> USE DEF IInv
<1>1. encoder' = Publishing /\ egress' = egress
  BY DEF Publish
<1>2. encoder' \in [at : {"Publishing", "Left", "Idle"}, stopped : BOOLEAN, age : 0..Far]
  BY <1>1, Constants DEF Publishing
<1>3. CASE /\ StillAiring /\ plan.to = "Live" /\ f.has_mark
           /\ Ask(<<"MarkEnd">>)
           /\ plan' = RestartAtMark(Deadline(f))
  BY <1>1, <1>2, <1>3, AskOne, ReportedTyped
  DEF TypeOK, EndedIsOff, MarkIffPlanned, AtMark, RestartAtMark
<1>4. CASE /\ StillAiring /\ plan.to = "EndAtMark"
           /\ Ask(<<>>)
           /\ plan' = RestartAtMark(plan.left)
  BY <1>1, <1>2, <1>4, AskNothing
  DEF TypeOK, EndedIsOff, MarkIffPlanned, AtMark, RestartAtMark
<1>5. CASE /\ plan.to = "Ended"
           /\ Ask(<<>>)
           /\ plan' = IF StoppedBefore(takeover) THEN Live ELSE plan
  BY <1>1, <1>2, <1>5, AskNothing, Constants
  DEF TypeOK, EndedIsOff, MarkIffPlanned, AtMark, Live
<1>6. CASE Ask(<<>>) /\ UNCHANGED plan
  BY <1>1, <1>2, <1>6, AskNothing DEF TypeOK, EndedIsOff, MarkIffPlanned, AtMark
<1> QED BY <1>3, <1>4, <1>5, <1>6 DEF Publish

LEMMA EncoderLeftKeeps ==
  ASSUME IInv, NEW stopped \in BOOLEAN, EncoderLeft(stopped) PROVE IInv'
<1>1. encoder' \in [at : {"Publishing", "Left", "Idle"}, stopped : BOOLEAN, age : 0..Far]
  BY Constants DEF EncoderLeft, IInv, TypeOK, Left
<1> QED
  BY <1>1, AskNothing
  DEF EncoderLeft, IInv, TypeOK, EndedIsOff, MarkIffPlanned, AtMark

LEMMA NothingToDoKeeps ==
  ASSUME IInv, NothingToDo PROVE IInv'
BY AskNothing DEF NothingToDo, IInv, TypeOK, EndedIsOff, MarkIffPlanned, AtMark

LEMMA ReachMarkKeeps ==
  ASSUME IInv, NEW f, ReachMark(f) PROVE IInv'
<1>1. CASE /\ plan.to = "RestartAtMark"
           /\ Ask(Stopping("StopEgress") \o <<"RestartAfterEnd">>)
           /\ egress' = Off
           /\ plan' = Live
           /\ UNCHANGED encoder
  <2> DEFINE es == Stopping("StopEgress") \o <<"RestartAfterEnd">>
  <2>1. es \in Seq(Effects) /\ Has(es, "RestartAfterEnd") /\ ~Has(es, "MarkEnd")
    <3>1. /\ <<"RestartAfterEnd">> \in Seq(Effects)
          /\ Has(<<"RestartAfterEnd">>, "RestartAfterEnd")
          /\ ~Has(<<"RestartAfterEnd">>, "MarkEnd")
      BY HasFew DEF Effects
    <3> QED BY <3>1, HasConcat, HasStopping DEF Effects
  <2>2. fx' \in Seq(Effects) /\ marked' = FALSE
    BY <1>1, <2>1 DEF Ask, MarkAfter, IInv, TypeOK
  <2>3. egress' \in [on : BOOLEAN, age : 0..Far] /\ ~egress'.on
    BY <1>1, Constants DEF Off
  <2>4. plan' \in [to : {"Live", "EndAtMark", "RestartAtMark", "Ended"}, left : 0..Far]
        /\ plan'.to = "Live"
    BY <1>1, Constants DEF Live
  <2> QED
    BY <1>1, <2>2, <2>3, <2>4 DEF IInv, TypeOK, EndedIsOff, MarkIffPlanned, AtMark
<1>2. CASE plan.to = "EndAtMark" /\ FinishAs(Ended, <<>>)
  <2>1. Ended \in [to : {"Live", "Ended"}, left : 0..Far]
    BY Constants DEF Ended
  <2> QED BY <1>2, <2>1, FinishAsKeeps
<1> QED BY <1>1, <1>2 DEF ReachMark

LEMMA TickKeeps ==
  ASSUME IInv, NEW f, NEW usable \in BOOLEAN, Tick(f, usable) PROVE IInv'
<1>1. CASE NoDestination(f)
  <2>1. fx' \in Seq(Effects) /\ marked' = marked
    BY <1>1, AskStopping DEF NoDestination, IInv
  <2>2. egress' \in [on : BOOLEAN, age : 0..Far] /\ ~egress'.on
    BY <1>1, Constants DEF NoDestination, Off
  <2> QED
    BY <1>1, <2>1, <2>2
    DEF NoDestination, IInv, TypeOK, EndedIsOff, MarkIffPlanned, AtMark
<1>2. CASE ReachMark(f)
  BY <1>2, ReachMarkKeeps
<1>3. CASE TickOff(f, usable)
  <2>1. CASE Finish(<<>>)
    BY <2>1, FinishKeeps
  <2>2. CASE plan.to # "Ended" /\ Ask(<<>>) /\ egress' = On /\ UNCHANGED <<encoder, plan>>
    <3>1. egress' \in [on : BOOLEAN, age : 0..Far]
      BY <2>2, Constants DEF On
    <3> QED
      BY <2>2, <3>1, AskNothing DEF IInv, TypeOK, EndedIsOff, MarkIffPlanned, AtMark
  <2>3. CASE NothingToDo
    BY <2>3, NothingToDoKeeps
  <2> QED BY <1>3, <2>1, <2>2, <2>3 DEF TickOff
<1>4. CASE TickOn(f)
  BY <1>4, FinishKeeps, NothingToDoKeeps DEF TickOn
<1> QED BY <1>1, <1>2, <1>3, <1>4 DEF Tick

LEMMA ElapseKeeps ==
  ASSUME IInv, Elapse PROVE IInv'
<1>1. \A t \in 0..Far : Older(t) \in 0..Far /\ Sooner(t) \in 0..Far
  BY Constants DEF Older, Sooner
<1>2. encoder' \in [at : {"Publishing", "Left", "Idle"}, stopped : BOOLEAN, age : 0..Far]
  BY <1>1 DEF Elapse, IInv, TypeOK
<1>3. /\ plan' \in [to : {"Live", "EndAtMark", "RestartAtMark", "Ended"}, left : 0..Far]
      /\ plan'.to = plan.to
  BY <1>1 DEF Elapse, IInv, TypeOK
<1>4. egress' \in [on : BOOLEAN, age : 0..Far] /\ egress'.on = egress.on
  BY <1>1 DEF Elapse, IInv, TypeOK
<1> QED
  BY <1>2, <1>3, <1>4, AskNothing
  DEF Elapse, IInv, TypeOK, EndedIsOff, MarkIffPlanned, AtMark

LEMMA NextKeeps == IInv /\ [Next]_vars => IInv'
<1> SUFFICES ASSUME IInv, [Next]_vars PROVE IInv'
  OBVIOUS
<1>1. CASE DestinationChanged BY <1>1, DestinationChangedKeeps
<1>2. CASE EndNow BY <1>2, EndNowKeeps
<1>3. CASE \E f \in ReportedFacts : EndAfterAir(f) BY <1>3, EndAfterAirKeeps
<1>4. CASE Resume BY <1>4, ResumeKeeps
<1>5. CASE PublishAny BY <1>5, PublishKeeps DEF PublishAny
<1>6. CASE \E stopped \in BOOLEAN : EncoderLeft(stopped) BY <1>6, EncoderLeftKeeps
<1>7. CASE \E f \in ReportedFacts, usable \in BOOLEAN : Tick(f, usable) BY <1>7, TickKeeps
<1>8. CASE Elapse BY <1>8, ElapseKeeps
<1>9. CASE UNCHANGED vars
  BY <1>9 DEF vars, IInv, TypeOK, EndedIsOff, MarkIffPlanned, AtMark
<1> QED BY <1>1, <1>2, <1>3, <1>4, <1>5, <1>6, <1>7, <1>8, <1>9 DEF Next

LEMMA InitKeeps == Init => IInv
<1> SUFFICES ASSUME Init PROVE IInv
  OBVIOUS
<1>1. encoder \in [at : {"Publishing", "Left", "Idle"}, stopped : BOOLEAN, age : 0..Far]
  BY Constants DEF Init, Idle
<1>2. /\ plan \in [to : {"Live", "EndAtMark", "RestartAtMark", "Ended"}, left : 0..Far]
      /\ plan.to = "Live"
  BY Constants DEF Init, Live
<1>3. egress \in [on : BOOLEAN, age : 0..Far]
  BY Constants DEF Init, Off
<1>4. fx \in Seq(Effects) /\ marked = FALSE
  BY HasFew DEF Init, Effects
<1> QED
  BY <1>1, <1>2, <1>3, <1>4 DEF IInv, TypeOK, EndedIsOff, MarkIffPlanned, AtMark

LEMMA Invariant == Spec => []IInv
BY InitKeeps, NextKeeps, PTL DEF Spec

-----------------------------------------------------------------------------
(* The results *)

(* Every state has its type: no age, deadline or effect list is ever       *)
(* outside it.                                                             *)
THEOREM TypeCorrect == Spec => []TypeOK
BY Invariant, PTL DEF IInv

(* No connection runs once the streamer ended the broadcast, after any     *)
(* sequence of events and with any facts.  (Plan::Ended)                   *)
THEOREM EndedStaysOff == Spec => []EndedIsOff
BY Invariant, PTL DEF IInv

(* The engine's end mark and the plan never part, whichever effects        *)
(* finish(), resume(), publishing() and end_at_mark() leave.               *)
THEOREM MarkFollowsPlan == Spec => []MarkIffPlanned
BY Invariant, PTL DEF IInv

(* An ended broadcast stays ended until Resume or a stop on purpose: each  *)
(* step out of Sealed is one of the two.                                   *)
THEOREM EndIsFinal == Spec => EndSticks
<1> DEFINE Allowed == Sealed => Sealed' \/ fx' = <<"Discard">> \/ encoder' = Left(TRUE)
<1>1. IInv /\ [Next]_vars => [Allowed]_vars
  <2> SUFFICES ASSUME IInv, Next, Sealed PROVE Allowed
    BY DEF Sealed
  <2>0. plan.to = "Ended" /\ ~egress.on /\ ~AtMark
    BY DEF IInv, EndedIsOff, Sealed, AtMark
  <2>1. CASE DestinationChanged BY <2>1 DEF DestinationChanged, Sealed
  <2>2. CASE EndNow BY <2>2 DEF EndNow, Sealed, Ended
  <2>3. CASE \E f \in ReportedFacts : EndAfterAir(f)
    BY <2>0, <2>3 DEF EndAfterAir, Sealed
  <2>4. CASE Resume BY <2>0, <2>4 DEF Resume, Ask
  <2>5. CASE PublishAny
    <3>1. PICK f \in ReportedFacts : Publish(encoder.at = "Publishing", f)
      BY <2>5 DEF PublishAny
    <3>2. ~StoppedBefore(encoder.at = "Publishing")
      BY DEF Sealed, StoppedBefore
    <3>3. plan' = plan
      BY <2>0, <3>1, <3>2 DEF Publish, AtMark
    <3>4. encoder'.at = "Publishing"
      BY <3>1 DEF Publish, Publishing
    <3> QED BY <2>0, <3>3, <3>4 DEF Sealed
  <2>6. CASE \E stopped \in BOOLEAN : EncoderLeft(stopped)
    <3>1. PICK stopped \in BOOLEAN : EncoderLeft(stopped)
      BY <2>6
    <3>2. CASE encoder.at = "Publishing" /\ stopped
      BY <3>1, <3>2 DEF EncoderLeft
    <3>3. CASE encoder.at = "Publishing" /\ ~stopped
      <4>1. plan' = plan /\ encoder' = Left(FALSE)
        BY <3>1, <3>3 DEF EncoderLeft
      <4> QED BY <2>0, <4>1 DEF Sealed, Left
    <3>4. CASE encoder.at # "Publishing"
      BY <3>1, <3>4 DEF EncoderLeft, Sealed
    <3> QED BY <3>2, <3>3, <3>4
  <2>7. CASE \E f \in ReportedFacts, usable \in BOOLEAN : Tick(f, usable)
    <3>1. PICK f \in ReportedFacts, usable \in BOOLEAN : Tick(f, usable)
      BY <2>7
    <3>2. CASE NoDestination(f) BY <3>2 DEF NoDestination, Sealed
    <3>3. CASE ReachMark(f) BY <2>0, <3>3 DEF ReachMark, MarkDue
    <3>4. CASE TickOff(f, usable)
      <4>1. CASE Finish(<<>>)
        <5>1. plan' = plan
          BY <2>0, <4>1 DEF Finish, FinishAs
        <5>2. encoder' = IF encoder.at = "Left" THEN Idle(encoder.stopped) ELSE encoder
          BY <4>1 DEF Finish, FinishAs
        <5> QED BY <5>1, <5>2 DEF Sealed, Idle
      <4>2. CASE NothingToDo
        BY <4>2 DEF NothingToDo, Sealed
      <4> QED BY <2>0, <3>4, <4>1, <4>2 DEF TickOff
    <3>5. CASE TickOn(f) BY <2>0, <3>5 DEF TickOn
    <3> QED BY <3>1, <3>2, <3>3, <3>4, <3>5 DEF Tick
  <2>8. CASE Elapse BY <2>8 DEF Elapse, Sealed, IInv, TypeOK
  <2> QED BY <2>1, <2>2, <2>3, <2>4, <2>5, <2>6, <2>7, <2>8 DEF Next
<1> QED BY <1>1, Invariant, PTL DEF Spec, EndSticks

=============================================================================
