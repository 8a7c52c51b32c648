----------------------------- MODULE DelayEngine -----------------------------
(***************************************************************************)
(* The delay engine of crates/engine/src/lib.rs, as operators on its state *)
(* e: each is one of its methods, and returns the state it leaves.  t is   *)
(* the time the caller passes.                                             *)
(*                                                                         *)
(* An entry of the ring is a message the encoder sent:                     *)
(*   uid   which message it is (sequence numbers are reused by a replay)   *)
(*   at    when it arrived                                                 *)
(*   ses   the encoder session it belongs to                               *)
(*   kind  "key", "delta" or "audio"                                       *)
(*   ref   for a delta, the uid of the frame before it, which it needs     *)
(* Decoder configuration, metadata and output timestamps are not here, and *)
(* every message counts 1 against the RAM cap.                             *)
(***************************************************************************)
EXTENDS Integers, Sequences, FiniteSetsExt

CONSTANTS
  Half,         \* half a second: differences below it do not count
  SlateWait,    \* SLATE_CONFIRM_WAIT
  ReplayGap,    \* REPLAY_GAP_HELD_AFTER
  Margin,       \* mask_margin_ms
  MaxDelay,     \* max_delay_ms
  Headroom,     \* headroom_ms
  RamCap,       \* ram_cap_bytes
  Lead,         \* how long before it is due the destination is connected
  KeyInterval,  \* the encoder's keyframe interval, as measured
  MuteUnderSlate,
  Restore       \* restore_after_reconnect

ASSUME EngineConstants ==
  /\ {Half, SlateWait, ReplayGap, Margin, MaxDelay, Headroom, RamCap, Lead, KeyInterval} \subseteq Nat
  /\ Half > 0 /\ RamCap > 0
  /\ {MuteUnderSlate, Restore} \subseteq BOOLEAN

None == -1   \* no sequence number, time or session (Option::None)

Greater(a, b) == IF a >= b THEN a ELSE b
Lesser(a, b) == IF a <= b THEN a ELSE b

(* Pending *)
NoChange == [to |-> "None"]
GoLiveNow(after) == [to |-> "GoLiveNow", after |-> after]
AfterAir(mark) == [to |-> "AfterAir", mark |-> mark]
Reduce(d) == [to |-> "Reduce", delay |-> d]
Mask(d, t, anchor, mute, shown, dump) ==
  [to |-> "Mask", delay |-> d, started |-> t, anchor |-> anchor,
   mute |-> mute, shown |-> shown, dump |-> dump]
DumpUnder(d, t, from) ==
  [to |-> "Dump", delay |-> d, started |-> t, from |-> from, shown |-> None]
Hold(from, d) == [to |-> "Hold", from |-> from, delay |-> d]
Replay(from, d) == [to |-> "Replay", from |-> from, delay |-> d]

Covers(p) == p.to \in {"Mask", "Dump"}
AfterDump(p) == p.to \in {"Replay", "Hold", "Dump"} \/ (p.to = "Mask" /\ p.dump)

(* Engine::new, after which `keep` is keep_history. *)
NewEngine(keep, target) ==
  [ring |-> <<>>, syncs |-> {}, base |-> 0, next |-> 0, session |-> 0, active |-> FALSE, video |-> FALSE,
   keep |-> keep, up |-> FALSE, cursor |-> 0, delay |-> target, target |-> target,
   needSync |-> TRUE, started |-> FALSE, playing |-> None, spliced |-> FALSE,
   pend |-> NoChange, slate |-> FALSE, change |-> 0, hold |-> None, mark |-> None,
   first |-> None, warn |-> {}]

-----------------------------------------------------------------------------
(* Finding things in the buffer.  The ring holds base..next-1, and syncs    *)
(* those of them that the output can start from.                           *)

Buffered(e) == e.base .. e.next - 1
Keeping(e, S) == [e EXCEPT !.ring = [s \in S |-> e.ring[s]], !.syncs = @ \cap S]

NewestOf(S) == IF S = {} THEN None ELSE Max(S)
OldestOf(S) == IF S = {} THEN None ELSE Min(S)

(* mutant of SyncAtOrBefore: it need not be a keyframe *)
EntryAtOrBefore(e, seq) == NewestOf({s \in Buffered(e) : s <= seq})

SyncAtOrBefore(e, seq) == NewestOf({s \in e.syncs : s <= seq})

(* mutant of NewestSyncBy: it need not be a keyframe *)
NewestBy(e, t) == NewestOf({s \in Buffered(e) : e.ring[s].at <= t})

NewestSyncBy(e, t) == NewestOf({s \in e.syncs : e.ring[s].at <= t})

(* mutant of OldestSyncSince: it need not be a keyframe *)
OldestSince(e, t) == OldestOf({s \in Buffered(e) : e.ring[s].at >= t})

OldestSyncSince(e, t) == OldestOf({s \in e.syncs : e.ring[s].at >= t})

Drained(e) == e.cursor >= e.next
EndReached(e) == e.mark # None /\ e.cursor > e.mark
Age(e, s, t) == t - e.ring[s].at

(* mutant of OldEnough: off by one *)
NearlyOldEnough(e, s, d, t) == Age(e, s, t) + 1 >= d

OldEnough(e, s, d, t) == Age(e, s, t) >= d

RestartPoint(e) ==
  IF ~e.started THEN None
  ELSE LET k == SyncAtOrBefore(e, e.cursor) IN IF k = None THEN e.cursor ELSE k

(* More than a keyframe interval over: there is a gap after k.             *)
GapAfter(e, k, over) ==
  LET before == {s \in e.syncs : s < k}
  IN /\ \E s \in e.syncs : s > k
     /\ before # {}
     /\ over > e.ring[k].at - e.ring[Max(before)].at

-----------------------------------------------------------------------------
(* Changing what the output does next *)

SpliceTo(e, k, d) ==
  [e EXCEPT !.started = TRUE, !.cursor = k, !.delay = d, !.needSync = FALSE,
            !.playing = e.ring[k].ses, !.spliced = TRUE]

(* mutant of SetPending: a change that replaces another leaves the slate up *)
SetPendingOnly(e, p) ==
  [e EXCEPT !.hold = IF p.to = "Hold" THEN @ ELSE None, !.pend = p]

SetPending(e, p) ==
  [e EXCEPT !.slate = @ /\ ~Covers(e.pend),
            !.hold = IF p.to = "Hold" THEN @ ELSE None,
            !.pend = p]

BackUnderMax(e) ==
  IF e.pend = NoChange /\ e.delay > MaxDelay + KeyInterval
  THEN [SetPending(e, Reduce(MaxDelay)) EXCEPT !.target = Lesser(@, MaxDelay)]
  ELSE e

BackToTarget(e) ==
  IF /\ e.delay >= e.target + Half
     /\ \/ e.pend = NoChange
        \/ e.pend.to = "Reduce" /\ e.pend.delay > e.target
  THEN SetPending(e, IF e.target = 0 THEN GoLiveNow(e.next - 1) ELSE Reduce(e.target))
  ELSE e

DropBuffer(e) ==
  [e EXCEPT !.ring = <<>>, !.syncs = {}, !.base = e.next, !.cursor = e.next, !.needSync = TRUE]

(* mutant of OutputReset: a change under way goes on into the next broadcast *)
OutputResetOnly(e) ==
  [e EXCEPT !.up = FALSE, !.started = FALSE, !.needSync = TRUE, !.playing = None,
            !.cursor = e.next, !.delay = e.target, !.warn = {}, !.hold = None, !.mark = None]

OutputReset(e) ==
  [e EXCEPT !.up = FALSE, !.started = FALSE, !.needSync = TRUE, !.playing = None,
            !.cursor = e.next, !.delay = e.target, !.warn = {}, !.hold = None,
            !.mark = None, !.slate = @ /\ ~Covers(e.pend), !.pend = NoChange]

(* mutant of Discard: what is recorded stays *)
DiscardOutput(e) == OutputReset(e)

Discard(e) == OutputReset(DropBuffer(e))

DropBefore(e, seq) ==
  LET b == Greater(e.base, Lesser(seq, e.next))
  IN [Keeping(e, b .. e.next - 1) EXCEPT !.base = b]

RestartAfterEnd(e) ==
  LET from == IF e.mark = None THEN e.next ELSE e.mark + 1
      kept == OutputReset(DropBefore(e, from))
  IN [kept EXCEPT !.cursor = Greater(from, kept.base)]

-----------------------------------------------------------------------------
(* run_pending() *)

GoLive(e, p, t) ==
  LET k == NewestOf(e.syncs)
  IN IF k = None \/ k <= p.after THEN e
     ELSE [ (IF k > e.cursor \/ e.needSync THEN SpliceTo(e, k, Age(e, k, t))
             ELSE [e EXCEPT !.delay = Lesser(@, e.target)]) EXCEPT !.pend = NoChange]

SkipAhead(e, p, t) ==
  LET k == NewestSyncBy(e, t - p.delay)
  IN CASE e.delay < p.delay + Half -> [e EXCEPT !.pend = NoChange]
       [] /\ e.delay >= p.delay + Half
          /\ k > e.cursor
          /\ ~GapAfter(e, k, Age(e, k, t) - p.delay)
            -> [SpliceTo(e, k, Age(e, k, t)) EXCEPT !.pend = NoChange]
       [] OTHER -> e

(* mutant of SurelyCovered: counts from the command, though the slate may   *)
(* show later                                                              *)
CoveredSinceAsked(p) == Margin + p.started

SurelyCovered(p) == Margin + IF p.shown # None THEN p.shown ELSE p.started

(* The slate hides the jump: back to what was recorded once it surely      *)
(* showed, when that is old enough.                                        *)
UnderSlate(e, p, t) ==
  LET late    == p.shown = None /\ t >= p.started + SlateWait
      waiting == p.anchor = None /\ p.shown = None /\ ~late
      anchor  == IF p.anchor # None THEN p.anchor ELSE OldestSyncSince(e, SurelyCovered(p))
      warned  == IF p.anchor = None /\ late THEN [e EXCEPT !.warn = @ \cup {"unconfirmed"}] ELSE e
      found   == [warned EXCEPT !.pend = [p EXCEPT !.anchor = anchor]]
  IN CASE waiting \/ anchor = None -> warned
       [] ~waiting /\ anchor # None /\ anchor \notin Buffered(e) -> SetPending(e, NoChange)
       [] ~waiting /\ anchor \in Buffered(e) ->
            IF OldEnough(e, anchor, p.delay, t)
            THEN SetPending(SpliceTo(found, anchor, Age(e, anchor, t)), NoChange)
            ELSE found

HoldOn(e, p, t) ==
  LET k == OldestOf({s \in e.syncs : s >= p.from /\ (e.mark # None => s <= e.mark)})
      over(x) == [x EXCEPT !.pend = NoChange, !.hold = None, !.warn = @ \ {"coverLost"}]
  IN IF k = None
     THEN IF e.mark = None THEN e
          ELSE over([e EXCEPT !.cursor = Greater(@, e.mark + 1)])
     ELSE IF OldEnough(e, k, p.delay, t) THEN over(SpliceTo(e, k, Age(e, k, t))) ELSE e

ReplayOn(e, p, t) ==
  LET k == OldestOf({s \in e.syncs : s >= p.from})
  IN IF k # None /\ OldEnough(e, k, p.delay, t)
     THEN [SpliceTo(e, k, Age(e, k, t)) EXCEPT !.pend = NoChange]
     ELSE e

(* A dump waits for its slate: it holds if none shows in time, and airs    *)
(* from the first keyframe surely recorded under it if one does.           *)
DumpOn(e, p, t) ==
  LET k == OldestSyncSince(e, p.shown + Margin)
  IN CASE p.shown = None /\ t >= p.started + SlateWait ->
            [SetPending(e, Hold(p.from, p.delay)) EXCEPT !.warn = @ \cup {"coverLost"}]
       [] p.shown # None /\ k # None ->
            [SpliceTo(e, k, Age(e, k, t)) EXCEPT !.hold = None,
               !.pend = Mask(p.delay, p.started, k, MuteUnderSlate, p.shown, TRUE)]
       [] OTHER -> e

(* mutant of AllAired: the last message is the next to air *)
AllButOneAired(e, mark) == e.cursor >= mark

AllAired(e, mark) == e.cursor > mark

(* The changes that lead to another in the same call, then the others. *)
Advanced(e, t) ==
  CASE e.pend.to = "AfterAir" /\ AllAired(e, e.pend.mark) ->
         [e EXCEPT !.pend = GoLiveNow(e.next - 1)]
    [] e.pend.to = "Dump" -> DumpOn(e, e.pend, t)
    [] OTHER -> e

RunPending(e, t) ==
  LET x == Advanced(e, t)
      p == x.pend
  IN CASE p.to \in {"None", "AfterAir", "Dump"} -> x
       [] p.to = "GoLiveNow" -> GoLive(x, p, t)
       [] p.to = "Reduce" -> SkipAhead(x, p, t)
       [] p.to = "Mask" -> UnderSlate(x, p, t)
       [] p.to = "Hold" -> HoldOn(x, p, t)
       [] p.to = "Replay" -> ReplayOn(x, p, t)

-----------------------------------------------------------------------------
(* The encoder *)

(* evict(), group by group from the front.  A group is what lies between   *)
(* two keyframes, and after the last keyframe each message is one.         *)
KeepFrom(e, t) ==
  LET k == IF e.started THEN RestartPoint(e) ELSE NewestSyncBy(e, t - e.delay)
  IN IF e.keep \/ k = None THEN None
     ELSE IF e.pend.to = "Mask" /\ e.pend.anchor # None THEN Lesser(k, e.pend.anchor) ELSE k

GroupStarts(e) ==
  {e.base} \cup e.syncs \cup {s \in e.base .. e.next : \A k \in e.syncs : k <= s}

NextSync(e, s) == OldestOf({k \in e.syncs : k > s})
GroupEnd(e, s) == IF NextSync(e, s) = None THEN s + 1 ELSE NextSync(e, s)
Aired(e, s) == ~e.started \/ GroupEnd(e, s) <= RestartPoint(e)

Expired(e, s, t) ==
  /\ Aired(e, s)
  /\ IF NextSync(e, s) # None THEN Age(e, NextSync(e, s), t) > MaxDelay + Headroom
     ELSE s \notin e.syncs /\ Age(e, s, t) > MaxDelay + Headroom

NotNeeded(e, s, t) ==
  KeepFrom(e, t) # None /\ NextSync(e, s) # None /\ NextSync(e, s) <= KeepFrom(e, t)

OverRam(e, s) == e.next - s > RamCap /\ e.next - s > 1

Unaired(e, s, t) == IF e.started THEN ~Aired(e, s) ELSE Age(e, s, t) < e.delay

MemoryShort(e, t) ==
  LET oldest == OldestOf(e.syncs)
      delay  == Greater(0, Age(e, oldest, t) - KeyInterval)
      warned == [e EXCEPT !.warn = @ \cup {"memory"}]
      lower  == \/ e.pend = NoChange
                \/ e.pend.to = "Reduce" /\ delay < e.pend.delay
  IN CASE oldest = None -> e
       [] oldest # None /\ ~e.started -> [warned EXCEPT !.delay = Lesser(@, delay)]
       [] oldest # None /\ e.started ->
            IF lower /\ delay < e.delay THEN SetPending(warned, Reduce(delay)) ELSE warned

Evict(e, t) ==
  LET goes(s) == OverRam(e, s) \/ Expired(e, s, t) \/ NotNeeded(e, s, t)
      b == Min({s \in GroupStarts(e) : s = e.next \/ ~goes(s)})
      lost == {s \in GroupStarts(e) : s < b /\ Unaired(e, s, t)
                                      /\ ~Expired(e, s, t) /\ ~NotNeeded(e, s, t)}
      left == [Keeping(e, b .. e.next - 1) EXCEPT !.base = b]
  IN CASE e.base = e.next \/ ~goes(e.base) -> e
       [] e.base # e.next /\ goes(e.base) -> IF lost # {} THEN MemoryShort(left, t) ELSE left

IngestStart(e) ==
  LET x == IF e.started THEN e ELSE DropBuffer(e)
  IN [x EXCEPT !.session = @ + 1, !.active = TRUE, !.video = FALSE]

IngestEnd(e) == [e EXCEPT !.active = FALSE]

(* A message m arrives: m.uid, m.kind and m.ref.  Audio is a place to      *)
(* start from until the session has video.                                 *)
Ingest(e, m, t) ==
  IF ~e.active THEN e
  ELSE LET video == e.video \/ m.kind # "audio"
           entry == [uid |-> m.uid, at |-> t, ses |-> e.session, kind |-> m.kind,
                     ref |-> m.ref]
           sync  == m.kind = "key" \/ ~video
       IN Evict([e EXCEPT !.video = video, !.next = @ + 1,
                          !.syncs = IF sync THEN @ \cup {e.next} ELSE @,
                          !.ring = [s \in Buffered(e) \cup {e.next} |->
                                      IF s = e.next THEN entry ELSE e.ring[s]]], t)

-----------------------------------------------------------------------------
(* The destination connection *)

OutputWanted(e, t) ==
  LET next == IF e.needSync THEN OldestOf({s \in e.syncs : s >= e.cursor}) ELSE e.cursor
  IN \/ e.hold # None
     \/ e.up /\ ~Drained(e)
     \/ next \in Buffered(e) /\ Age(e, next, t) + Lead >= e.delay

(* mutant of DelayAgain: as old as it is, though the delay asked for is more *)
AgeAgain(e, k, t) == Age(e, k, t)

DelayAgain(e, k, t) == Greater(e.delay, Age(e, k, t))

OutputConnected(e, t) ==
  LET x == [e EXCEPT !.up = TRUE, !.first = None]
      k == SyncAtOrBefore(x, x.cursor)
      delay == DelayAgain(x, k, t)
      back == BackUnderMax([SpliceTo(x, k, delay) EXCEPT
                              !.warn = IF delay > x.delay THEN @ \cup {"grew"} ELSE @])
  IN CASE x.pend.to \in {"Hold", "Dump"} \/ (x.started /\ k = None) -> [x EXCEPT !.needSync = TRUE]
       [] x.pend.to \notin {"Hold", "Dump"} /\ x.started /\ k # None ->
            IF Restore THEN BackToTarget(back) ELSE back
       [] OTHER -> x

(* mutant of Resume: nothing written, nothing to send again *)
ResumeAfterTaken(e, taken) == IF taken = None THEN None ELSE taken + 1

(* What came after `taken` was not sent, and is to be sent again. *)
Resume(e, taken) == IF taken = None THEN e.first ELSE taken + 1
BackTo(e, s) == IF s = None THEN e ELSE [e EXCEPT !.cursor = Lesser(@, s)]

OutputDisconnected(e, written) == BackTo([e EXCEPT !.up = FALSE], Resume(e, written))

Unsend(e, taken) == IF e.up THEN BackTo(e, Resume(e, taken)) ELSE e

-----------------------------------------------------------------------------
(* Commands *)

DumpDelay(e) == Lesser(IF e.target > 0 THEN e.target ELSE e.delay, MaxDelay)

CanDump(e) == ~e.started \/ e.mark # None \/ ~e.active \/ DumpDelay(e) >= Half

AiredKeyframe(e) ==
  LET k == NewestOf({s \in e.syncs : s < e.cursor})
  IN IF k # None /\ e.ring[k].kind = "key" THEN e.ring[k].uid ELSE None

ReplayFrom(e, d, t) ==
  LET cut == Greater(e.cursor, e.base)
      edge == IF cut \in Buffered(e) THEN e.ring[cut].at ELSE t
  IN IF e.keep THEN NewestSyncBy(e, edge - d) ELSE None

(* split_session(): the rest of the buffer is cut off, and what is         *)
(* recorded from now on is a session of its own, and reuses its numbers.   *)
CutOff(e, cut) == [Keeping(e, e.base .. cut - 1) EXCEPT !.next = cut, !.session = @ + 1]

ReplayInstead(e, k, d, t) ==
  LET cut == Greater(e.cursor, e.base)
      x == CutOff(e, cut)
  IN SpliceTo(SetPending(x, Replay(cut, d)), k, Age(e, k, t))

Dump(e, mode, cover, t) ==
  LET d == DumpDelay(e)
      x == [e EXCEPT !.target = d, !.warn = @ \ {"history"}]
      k == ReplayFrom(x, d, t)
      gone == DropBuffer(x)
      held(y) == [y EXCEPT !.hold = AiredKeyframe(x)]
  IN CASE ~e.started -> DropBuffer(e)
       [] e.started /\ (e.mark # None \/ ~e.active) -> SetPending(DropBuffer(e), NoChange)
       [] e.started /\ e.mark = None /\ e.active ->
            IF mode = "Rewind" /\ k # None THEN ReplayInstead(x, k, d, t)
            ELSE IF cover
            THEN held([SetPending(gone, DumpUnder(d, t, gone.next))
                         EXCEPT !.change = @ + 1, !.slate = TRUE])
            ELSE held(SetPending(gone, Hold(gone.next, d)))

(* Jumps back to the newest keyframe at least d old, or as far as it can.  *)
Rewind(e, d, t) ==
  LET newest == NewestSyncBy(e, t - d)
      full   == (e.next - e.base) * 10 >= RamCap * 9
      inside == e.syncs \ {OldestOf(e.syncs)}
      oldest == OldestOf(IF full /\ inside # {} THEN inside ELSE e.syncs)
      k == IF newest # None THEN newest ELSE oldest
      x == IF newest # None THEN e ELSE [e EXCEPT !.warn = @ \cup {"history"}]
  IN IF k = None \/ Age(e, k, t) <= e.delay THEN x
     ELSE LET y == SpliceTo(x, k, Age(e, k, t))
          IN IF newest # None /\ GapAfter(e, k, Greater(0, Age(e, k, t) - d))
             THEN SetPending(y, Reduce(d)) ELSE y

(* Every command but Cancel and SlateShown clears what was reported. *)
Cleared(e) == [e EXCEPT !.warn = @ \ {"memory", "unconfirmed", "coverLost", "grew"}]

(* mutant of GoLiveCommand: also before the broadcast has started *)
GoLiveAnyTime(e, when, t) ==
  LET x == [Cleared(e) EXCEPT !.target = 0, !.warn = @ \ {"history"}]
  IN RunPending(SetPending(x, GoLiveNow(e.next - 1)), t)

GoLiveCommand(e, when, t) ==
  LET x == [Cleared(e) EXCEPT !.target = 0, !.warn = @ \ {"history"}]
      p == IF when = "Now" THEN GoLiveNow(e.next - 1) ELSE AfterAir(e.next - 1)
  IN RunPending(IF e.started THEN SetPending(x, p)
                ELSE SetPending([x EXCEPT !.delay = 0], NoChange), t)

SetDelay(e, d, wanted, t) ==
  LET mode == IF e.keep THEN wanted ELSE "Mask"
      x == [Cleared(e) EXCEPT !.target = d, !.warn = @ \ {"history"}]
      y == SetPending(x, NoChange)
  IN CASE d > 0 /\ AfterDump(e.pend) -> RunPending([x EXCEPT !.pend.delay = d], t)
       [] ~(d > 0 /\ AfterDump(e.pend)) /\ d = e.target /\ mode = "Mask" /\ e.pend.to = "Mask" ->
            Cleared(e)
       [] OTHER ->
            IF ~e.started THEN RunPending([y EXCEPT !.delay = d], t)
            ELSE IF d = 0 THEN GoLiveCommand(y, "Now", t)
            ELSE IF d > e.delay /\ mode = "Rewind" THEN RunPending(Rewind(y, d, t), t)
            ELSE IF d > e.delay
            THEN RunPending([SetPending(y, Mask(d, t, None, FALSE, None, FALSE))
                               EXCEPT !.change = @ + 1, !.slate = TRUE], t)
            ELSE IF d < e.delay THEN RunPending(SetPending(y, Reduce(d)), t)
            ELSE RunPending(y, t)

Cancel(e, t) ==
  IF AfterDump(e.pend) THEN RunPending(e, t)
  ELSE LET d == Lesser(e.delay, MaxDelay)
           x == [SetPending(e, NoChange) EXCEPT !.target = IF d < Half THEN 0 ELSE d]
       IN RunPending(IF e.started THEN BackUnderMax(x) ELSE x, t)

(* An overlay painted the slate for `change`: it counts once, and only for *)
(* the change under way.                                                   *)
SlateShown(e, change, t) ==
  LET p == e.pend
      counts == /\ change = e.change
                /\ p.to = "Dump" \/ (p.to = "Mask" /\ p.anchor = None)
                /\ p.shown = None
  IN RunPending(IF counts THEN [e EXCEPT !.pend.shown = t] ELSE e, t)

DumpCommand(e, mode, cover, t) ==
  IF CanDump(e) THEN RunPending(Dump(Cleared(e), mode, cover, t), t) ELSE Cleared(e)

(* dump_after(): the connection took what is up to `taken`, the rest of    *)
(* what was handed to it is thrown away.                                   *)
DumpAfter(e, taken, mode, cover, t) ==
  LET lost == IF taken = None THEN e.first # None ELSE taken + 1 < e.cursor
  IN CASE CanDump(e) -> DumpCommand(Unsend(e, taken), mode, cover, t)
       [] ~CanDump(e) /\ e.up /\ lost /\ ~e.spliced -> [e EXCEPT !.needSync = TRUE]
       [] OTHER -> e

-----------------------------------------------------------------------------
(* poll_budget(), with room for one message: the loop up to the first      *)
(* message it hands over.  The code's loop is this, repeated while there   *)
(* is room; the caller may give room for any number of messages.           *)

Halted(e) == e.pend.to \in {"Dump", "Hold"}
ReplayOver(e) == e.pend.to = "Replay" /\ e.cursor >= e.pend.from
(* mutant of PastMark: off by one *)
WellPastMark(e) == e.mark # None /\ e.cursor > e.mark + 1

PastMark(e) == e.mark # None /\ e.cursor > e.mark

(* The replay ran out: if well before what comes next is due, hold.        *)
ReplayOut(e, t) ==
  LET k == OldestOf({s \in e.syncs : s >= e.pend.from})
      due == e.pend.delay + IF k = None THEN t ELSE e.ring[k].at
  IN IF due > t + ReplayGap
     THEN [SetPending(e, Hold(e.pend.from, e.pend.delay))
             EXCEPT !.hold = AiredKeyframe(e), !.needSync = TRUE]
     ELSE e

(* Evicted under the cursor, or at the first message of another session:   *)
(* start again at a keyframe.                                              *)
Based(e) == IF e.cursor < e.base THEN [e EXCEPT !.cursor = e.base, !.needSync = TRUE] ELSE e

NewSession(e) ==
  IF e.playing # None /\ e.cursor \in Buffered(e) /\ e.ring[e.cursor].ses # e.playing
  THEN [e EXCEPT !.needSync = TRUE] ELSE e

(* The keyframes of the session at c that the output could start from.     *)
Candidates(e, c) == {s \in e.syncs : s >= c /\ e.ring[s].ses = e.ring[c].ses}

(* Past the sessions that ended without a keyframe left. *)
SkipDead(e) ==
  LET starts == {e.cursor, Greater(e.cursor, e.next)} \cup
                {s \in Buffered(e) : s > e.cursor /\ e.ring[s].ses # e.ring[s - 1].ses}
      here(c) == \/ c >= e.next
                 \/ Candidates(e, c) # {} \/ e.ring[c].ses = e.session
                 \/ c > e.cursor /\ PastMark([e EXCEPT !.cursor = c])
                 \/ c > e.cursor /\ ReplayOver([e EXCEPT !.cursor = c])
  IN IF e.needSync THEN [e EXCEPT !.cursor = Min({c \in starts : here(c)})] ELSE e

(* The keyframe to start from: the first, or before the broadcast has      *)
(* started the newest that is old enough.                                  *)
StartFrom(e, t) ==
  LET all == IF e.cursor \in Buffered(e) THEN Candidates(e, e.cursor) ELSE {}
      old == {s \in all : Age(e, s, t) >= e.delay}
  IN IF ~e.started /\ old # {} THEN Max(old) ELSE OldestOf(all)

Synced(e, t) ==
  LET k == StartFrom(e, t)
      delay == DelayAgain(e, k, t)
      late == ~e.started /\ e.pend = NoChange /\ delay >= e.target + Half
      x == SpliceTo(e, k, delay)
  IN CASE ~e.needSync \/ k = None -> e
       [] e.needSync /\ k # None /\ e.mark # None /\ k > e.mark -> [e EXCEPT !.cursor = e.mark + 1]
       [] OTHER -> IF Age(e, k, t) < e.delay THEN e
                   ELSE IF late THEN SetPending(x, Reduce(e.target)) ELSE BackUnderMax(x)

(* Where the loop ends before it looks for a message, and where it gets to.*)
Skipped(e) == SkipDead(NewSession(Based(e)))
EndsAt(e) ==
  LET based == Based(e)
      skipped == Skipped(e)
  IN CASE Halted(e) \/ ReplayOver(e) -> "start"
       [] ~(Halted(e) \/ ReplayOver(e)) /\ PastMark(based) -> "base"
       [] OTHER -> IF skipped.cursor # based.cursor /\ (ReplayOver(skipped) \/ PastMark(skipped))
                   THEN "skipped" ELSE "message"

Positioned(e, t) ==
  LET ends == EndsAt(e)
      x == CASE ends = "start" -> e
             [] ends = "base" -> Based(e)
             [] ends = "skipped" -> Skipped(e)
             [] ends = "message" -> Synced(Skipped(e), t)
  IN IF ends \in {"start", "skipped"} /\ ReplayOver(x) THEN ReplayOut(x, t) ELSE x

Due(e, t) ==
  ~e.needSync /\ ~PastMark(e) /\ e.cursor \in Buffered(e) /\ Age(e, e.cursor, t) >= e.delay

(* mutant of Muted: the sound of the covered stretch airs *)
MutedAfterAll(e) == e.pend.to = "Hold" /\ e.ring[e.cursor].kind = "audio"

Muted(e) == e.pend.to = "Mask" /\ e.pend.mute /\ e.ring[e.cursor].kind = "audio"

(* Before it looks for a message, each call evicts and moves a change on.  *)
Refreshed(e, t) == RunPending(Evict(e, t), t)
Looked(e, t) == IF e.up THEN Positioned(e, t) ELSE e
Finds(e, x, t) == e.up /\ EndsAt(e) = "message" /\ Due(x, t)  \* x is Looked(e, t)

(* With room, it hands over the message it finds; a muted one it drops.    *)
HandedOver(x, t) ==
  RunPending([x EXCEPT !.first = IF @ = None THEN x.cursor ELSE @,
                       !.spliced = FALSE, !.cursor = @ + 1], t)
Dropped(x, t) == RunPending([x EXCEPT !.cursor = @ + 1], t)

=============================================================================
