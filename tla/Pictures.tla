------------------------------ MODULE Pictures ------------------------------
(***************************************************************************)
(* HEVC picture numbers: PocGuard (crates/flv/src/hevc/poc.rs), through    *)
(* which the egress passes every video message it writes, and the decoder  *)
(* it is there for.                                                        *)
(*                                                                         *)
(* A picture is a record                                                   *)
(*   nal   its NAL unit type: "IDR", "CRA", "BLA", "TRAIL", "TRAIL_N",     *)
(*         "RADL" or "RASL" ("_N": no later picture is predicted from it)  *)
(*   lsb   the low bits of its number (an IDR has none, and is 0)          *)
(*   refs  the pictures it is predicted from, or that later ones will be:  *)
(*         records of d, how far off in number, and the picture, src       *)
(*   rps   how its slice headers name them                                 *)
(*   src   which picture it is                                             *)
(*   eos   the end of sequence in its packet: "none", "before" or "after"  *)
(* All are of the base layer, and there is one parameter set id.  What the *)
(* guard cannot follow, which it passes on as it is, is left out.          *)
(***************************************************************************)
EXTENDS Integers, SequencesExt

CONSTANTS
  Numbers,    \* how many values the low bits have: 2^log2_max_poc_lsb
  SpsSets     \* the reference sets of each version of the sequence parameter set, as coded

ASSUME PictureConstants ==
  Numbers \in Nat /\ Numbers > 1 /\ Numbers % 2 = 0 /\ DOMAIN SpsSets \subseteq Nat

None == -1
NoPicture == <<0, 0>>

Irap(nal) == nal \in {"IDR", "CRA", "BLA"}
Leading(nal) == nal \in {"RADL", "RASL"}

(* The number of a picture, from its low bits and the last picture that    *)
(* counts.                                                                 *)
Poc(prev, lsb, nal) ==
  LET low  == prev % Numbers
      high == prev - low
  IN CASE nal = "BLA" -> lsb
       [] nal # "BLA" /\ lsb < low /\ low - lsb >= Numbers \div 2 -> high + Numbers + lsb
       [] nal # "BLA" /\ lsb > low /\ lsb - low > Numbers \div 2 -> high - Numbers + lsb
       [] OTHER -> high + lsb

(* The picture after which numbers are counted on.                         *)
Counts(nal) == nal \notin {"TRAIL_N", "RADL", "RASL"}

-----------------------------------------------------------------------------
(* Reference sets: which pictures are kept, by how far off they are in     *)
(* number.  One is coded as a record of how it is given: "listed", diffs;  *)
(* "predicted", from the set back places before it, of a picture which is  *)
(* delta further on, and of it and that picture (0) those in kept; or, in a*)
(* slice header only, "chosen", the place of one of the parameter set's.   *)

(* st_ref_pic_set(), and what slice() does of it: after sets.              *)
RefSet(sets, c) ==
  CASE c.how = "listed" -> c.diffs
    [] c.how = "predicted" ->
         {d + c.delta : d \in (sets[Len(sets) + 1 - c.back] \cup {0}) \cap c.kept} \ {0}
    [] c.how = "chosen" -> sets[c.place]

(* sps_rest(): the sets of a parameter set, each from those before it.     *)
ParsedSets ==
  [v \in DOMAIN SpsSets |-> FoldLeft(LAMBDA sets, c : Append(sets, RefSet(sets, c)), <<>>, SpsSets[v])]

(* slice(): whether a picture can be read with version v of the parameter  *)
(* set, which may not be the one it was encoded with.                      *)
Readable(p, v) ==
  /\ v # None
  /\ p.nal = "IDR" \/ CASE p.rps.how = "listed" -> TRUE
                         [] p.rps.how = "predicted" -> p.rps.back <= Len(SpsSets[v])
                         [] p.rps.how = "chosen" -> p.rps.place <= Len(SpsSets[v])

-----------------------------------------------------------------------------
(* The guard *)

NewGuard == [sps |-> None, version |-> 0, active |-> None, held |-> {}, prev |-> 0,
             ended |-> FALSE, noRasl |-> FALSE, shift |-> 0]

(* The guard, or the decoder, gets a parameter set: the same again changes *)
(* nothing.                                                                *)
Configured(g, sps) ==
  IF g.sps = sps THEN g ELSE [g EXCEPT !.sps = sps, !.version = @ + 1]

Shifted(lsb, shift) == (lsb + shift) % Numbers

(* mutant of Shift: numbers held are not avoided *)
NoShift(g, p, held) == 0

(* How far a new sequence moves, so as not to start on a number held.      *)
Shift(g, p, held) ==
  LET free == {d \in 0 .. Numbers - 1 : Poc(g.prev, Shifted(p.lsb, d), p.nal) \notin held}
  IN IF p.nal = "IDR" \/ free = {} THEN 0 ELSE Min(free)

Starts(g, p) == p.eos = "before" \/ g.ended

(* Whether the pictures that lead the last random access point and need    *)
(* what came before it are left out.                                       *)
NoRasl(g, p, eos) ==
  IF Irap(p.nal) THEN p.nal # "CRA" \/ eos ELSE g.noRasl

(* The guard after picture p.  After one that it cannot read, it knows of  *)
(* none that is held.                                                      *)
Pictured(g, p) ==
  LET eos     == Starts(g, p)
      rasl    == NoRasl(g, p, eos)
      changed == g.active # g.version
      held    == IF p.nal = "IDR" \/ changed THEN {} ELSE g.held
      shift   == IF p.nal \in {"IDR", "BLA"} \/ eos \/ changed THEN Shift(g, p, held) ELSE g.shift
      poc     == IF p.nal = "IDR" THEN 0 ELSE Poc(g.prev, Shifted(p.lsb, shift), p.nal)
      x       == [g EXCEPT !.ended = (p.eos = "after"), !.noRasl = rasl]
  IN IF ~Readable(p, g.sps) THEN [g EXCEPT !.ended = (p.eos = "after"), !.held = {}]
     ELSE IF p.nal = "RASL" /\ rasl THEN x
     ELSE [x EXCEPT !.active = g.version, !.shift = shift,
                    !.held = {poc} \cup {poc + d : d \in RefSet(ParsedSets[g.sps], p.rps)},
                    !.prev = IF Counts(p.nal) THEN poc ELSE @]

(* The picture as it is written, when g is the guard after it.             *)
Renumbered(g, p) ==
  IF p.nal = "IDR" \/ g.shift = 0 \/ ~Readable(p, g.sps) THEN p ELSE [p EXCEPT !.lsb = Shifted(@, g.shift)]

-----------------------------------------------------------------------------
(* The destination's decoder, as the module documentation of poc.rs        *)
(* describes FFmpeg's: it lets go of what it held at a broken link only    *)
(* after it has checked the new picture's number, and drops one that       *)
(* repeats a number held.  held are its pictures, as records of poc and    *)
(* src (NoPicture if made up for one that was missing); wrong is whether it*)
(* ever dropped a picture, or decoded one from others than it was encoded  *)
(* from.                                                                   *)

NewDecoder == [sps |-> None, version |-> 0, active |-> None, held |-> {}, prev |-> 0,
               ended |-> FALSE, noRasl |-> FALSE, wrong |-> FALSE]

Decoded(d, p) ==
  LET eos  == Starts(d, p)
      rasl == NoRasl(d, p, eos)
      held == IF p.nal = "IDR" \/ d.active # d.version THEN {} ELSE d.held
      poc  == IF p.nal = "IDR" THEN 0 ELSE Poc(d.prev, p.lsb, p.nal)
      refs == {[poc |-> poc + r.d, src |-> r.src] : r \in p.refs}
      made == {[poc |-> r.poc, src |-> NoPicture] : r \in {r \in refs : \A h \in held : h.poc # r.poc}}
      x    == [d EXCEPT !.ended = (p.eos = "after"), !.noRasl = rasl]
  IN IF ~Readable(p, d.sps) \/ (p.nal = "RASL" /\ rasl) THEN x
     ELSE [x EXCEPT !.active = d.version,
                    !.held = {[poc |-> poc, src |-> p.src]} \cup made
                               \cup {h \in held : \E r \in refs : r.poc = h.poc},
                    !.prev = IF Counts(p.nal) THEN poc ELSE @,
                    !.wrong = \/ @
                              \/ poc \in {h.poc : h \in held}
                              \/ ~Irap(p.nal) /\ ~(refs \subseteq held)]

=============================================================================
