-------------------------------- MODULE Tags --------------------------------
(***************************************************************************)
(* What the relay sees of the body of a message (crates/flv/src/lib.rs).   *)
(* A video body is a record                                                *)
(*   enhanced  whether its header is Enhanced RTMP's, or legacy FLV's      *)
(*   frame     "key", "inter" or "command" (a seek)                        *)
(*   codec     "hevc", "avc", "av1" or "other"                             *)
(*   packet    "start" or "tsStart" (configuration), "frames", "framesX"   *)
(*             (without a composition time) or "metadata"                  *)
(*   tracks    whether it is of the multitrack layout                      *)
(*   cts       the composition time that is there to be read               *)
(*   units     the types of its NAL units, in order                        *)
(* and one of sound has enhanced, codec ("aac" or "other") and packet      *)
(* ("start", "channels" or "frames").  A body that was cut short, which is *)
(* not looked into, is left out.                                           *)
(***************************************************************************)
EXTENDS Sequences

Slices == {"IDR", "CRA", "BLA", "TRAIL", "TRAIL_N", "RADL", "RASL"}

(* Of the units of a picture, the first that is a slice tells its type.    *)
FirstSlice(units) ==
  LET slices == SelectSeq(units, LAMBDA u : u \in Slices)
  IN IF slices = <<>> THEN "none" ELSE Head(slices)

(* Codecs that legacy FLV has no packet types for have only frames.        *)
Packet(t) == IF t.enhanced \/ t.codec # "other" THEN t.packet ELSE "frames"

IsCommand(t) == t.frame = "command" /\ ~(t.enhanced /\ t.packet = "metadata")

InspectVideo(t) ==
  LET coded  == Packet(t) = "frames" \/ (t.enhanced /\ Packet(t) = "framesX")
      config == Packet(t) = "start" \/ (t.enhanced /\ Packet(t) = "tsStart")
      timed  == \/ t.codec \in {"avc", "hevc"}
                \/ t.codec = "av1" /\ ~t.enhanced
  IN IF IsCommand(t) THEN [keyframe |-> FALSE, config |-> FALSE, cts |-> 0, nal |-> "none"]
     ELSE [keyframe |-> t.frame = "key" /\ coded,
           config   |-> config,
           cts      |-> IF timed /\ Packet(t) = "frames" THEN t.cts ELSE 0,
           nal      |-> IF t.codec = "hevc" /\ coded /\ ~t.tracks THEN FirstSlice(t.units) ELSE "none"]

InspectAudio(t) ==
  [config |-> IF t.enhanced THEN t.packet \in {"start", "channels"}
              ELSE t.codec = "aac" /\ t.packet = "start"]

=============================================================================
