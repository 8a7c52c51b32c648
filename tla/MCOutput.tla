------------------------------ MODULE MCOutput ------------------------------
EXTENDS Output

Listed(diffs) == [how |-> "listed", diffs |-> diffs]
Chosen(place) == [how |-> "chosen", place |-> place]
Predicted(back, delta, kept) == [how |-> "predicted", back |-> back, delta |-> delta, kept |-> kept]

(* The first stream's configuration is legacy FLV's, and the second's that *)
(* of Enhanced RTMP.                                                       *)
VideoBody(s, frame, packet, cts, units) ==
  [enhanced |-> s = 2, frame |-> frame, codec |-> "hevc", packet |-> packet, tracks |-> FALSE,
   cts |-> cts, units |-> units]
AudioBody(s, packet) ==
  [enhanced |-> s = 2, codec |-> IF s = 2 THEN "other" ELSE "aac", packet |-> packet]

NoPic == [nal |-> "none", lsb |-> 0, src |-> NoPicture, eos |-> "none", refs |-> {}, rps |-> Listed({})]
VideoConfigured(s, version, at) ==
  [kind |-> "video", version |-> version, ts |-> at, pic |-> NoPic,
   body |-> VideoBody(s, "key", "start", 0, <<>>)]
AudioConfigured(s, version, at) ==
  [kind |-> "audio", version |-> version, ts |-> at, body |-> AudioBody(s, "start")]
Metadata(version, at) == [kind |-> "meta", version |-> version, ts |-> at]
Sound(s, at) == [kind |-> "audio", version |-> None, ts |-> at, body |-> AudioBody(s, "frames")]

(* A picture of stream s, the i-th message: decoded at, presented cts      *)
(* later; near are the pictures it keeps, as places in the stream and      *)
(* numbers.                                                                *)
Picture(s, i, nal, number, at, cts, near, rps) ==
  [kind |-> "video", version |-> None, ts |-> at,
   body |-> VideoBody(s, IF Irap(nal) THEN "key" ELSE "inter",
                      IF s = 2 /\ cts = 0 THEN "framesX" ELSE "frames", cts, <<"AUD", nal>>),
   pic |-> [nal |-> "none", lsb |-> number % 4, src |-> <<s, i>>, eos |-> "none", rps |-> rps,
            refs |-> {[d |-> n[2] - number, src |-> <<s, n[1]>>] : n \in near}]]

(* The reference sets in the sequence parameter sets.                      *)
EncoderSets ==
  [v \in {3, 4, 7} |->
     CASE v = 3 -> <<Listed({-1}), Predicted(1, -1, {-1})>>
       [] v = 4 -> <<>>
       [] v = 7 -> <<Listed({1})>>]

(* An open group of pictures, then a change of configuration: places and   *)
(* numbers in decoding order.                                              *)
OpenStream ==
  << Metadata(1, 0), AudioConfigured(1, 2, 0), VideoConfigured(1, 3, 0),
     Picture(1, 4, "IDR", 0, 0, 2, {}, Listed({})),
     Picture(1, 5, "CRA", 2, 2, 4, {<<4, 0>>}, Chosen(2)),
     Sound(1, 1),
     Picture(1, 7, "RASL", 1, 4, 0, {<<4, 0>>, <<5, 2>>}, Predicted(1, 1, {-2, 0})),
     VideoConfigured(1, 4, 6),
     Picture(1, 9, "IDR", 0, 6, 2, {}, Listed({})) >>

(* The encoder again, with another configuration, after the end of a       *)
(* sequence.                                                               *)
NextStream ==
  << Metadata(5, 0), AudioConfigured(2, 6, 0), VideoConfigured(2, 7, 0),
     [Picture(2, 4, "CRA", 0, 0, 4, {}, Listed({})) EXCEPT !.pic.eos = "before"],
     Picture(2, 5, "RADL", -1, 2, 0, {<<4, 0>>}, Chosen(1)),
     Sound(2, 1) >>

EncoderStreams == <<OpenStream, NextStream>>
EncoderBursts == <<{9}, {2, 6}>>
=============================================================================
