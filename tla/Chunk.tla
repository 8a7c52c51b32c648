------------------------------- MODULE Chunk --------------------------------
(***************************************************************************)
(* The RTMP chunk format (rtmp/src/chunk.rs): how a message is cut into    *)
(* chunks, and how the decoder puts it together again from what it keeps   *)
(* of each chunk stream.                                                   *)
(*                                                                         *)
(* A chunk is [fmt, csid, field, len, type, words]: its header, and what   *)
(* follows it, in words of four bytes: an extended timestamp, if there is  *)
(* one, and payload.                                                       *)
(***************************************************************************)
EXTENDS Naturals, Sequences, FiniteSets

CONSTANTS
  TsMod,       \* timestamps are modulo this (2^32)
  Extended,    \* from here they need the extended field (0xFFFFFF)
  Csids,       \* the chunk streams
  MaxStreams,  \* how many may be in use
  MaxPending   \* how much of unfinished messages is kept, in words

ASSUME ChunkConstants ==
  /\ TsMod \in Nat /\ Extended \in 1 .. TsMod - 1
  /\ MaxStreams \in Nat /\ MaxPending \in Nat

NoExt == TsMod
TsWord(v) == <<"ts", v>>

Blank == [ts |-> 0, delta |-> 0, len |-> 0, type |-> "none", ext |-> NoExt, part |-> <<>>,
          busy |-> FALSE, known |-> FALSE]

Decoder == [size |-> 1, streams |-> [c \in Csids |-> Blank], repeats |-> "Unknown"]

-----------------------------------------------------------------------------
(* Writing *)

Cut(words, size) == IF Len(words) <= size THEN words ELSE SubSeq(words, 1, size)
Rest(words, size) == IF Len(words) <= size THEN <<>> ELSE SubSeq(words, size + 1, Len(words))

Field(v) == IF v >= Extended THEN Extended ELSE v
ExtOf(v) == IF v >= Extended THEN v ELSE NoExt
ExtWords(ext) == IF ext = NoExt THEN <<>> ELSE <<TsWord(ext)>>

FirstChunk(fmt, csid, value, type, body, size) ==
  [fmt |-> fmt, csid |-> csid, field |-> Field(value), len |-> Len(body), type |-> type,
   words |-> ExtWords(ExtOf(value)) \o Cut(body, size)]

NextChunk(csid, ext, repeats, left, size) ==
  [fmt |-> 3, csid |-> csid, field |-> 0, len |-> 0, type |-> "none",
   words |-> (IF repeats THEN ExtWords(ext) ELSE <<>>) \o Cut(left, size)]

-----------------------------------------------------------------------------
(* Reading.  A header chunk starts a new message, whatever there is of one;*)
(* a bare chunk goes on with the message there is, or starts another just  *)
(* like it.                                                                *)
Continues(d, ch) == ch.fmt = 3 /\ d.streams[ch.csid].busy

HasExt(d, ch) == IF ch.fmt <= 2 THEN ch.field = Extended ELSE d.streams[ch.csid].ext # NoExt

(* Some encoders repeat the extended timestamp in every chunk of a message,*)
(* some do not.  The first chunk that can tell decides.                    *)
RepeatsIfMatches(d, ch) == Head(ch.words) = TsWord(d.streams[ch.csid].ext)
Repeats(d, ch) ==
  CASE d.repeats = "Unknown" -> Head(ch.words) = TsWord(d.streams[ch.csid].ext)
    [] OTHER -> d.repeats = "Yes"

ReadsExt(d, ch) == HasExt(d, ch) /\ (Continues(d, ch) => Repeats(d, ch))

Learned(d, ch) ==
  IF HasExt(d, ch) /\ Continues(d, ch) /\ d.repeats = "Unknown"
  THEN IF Repeats(d, ch) THEN "Yes" ELSE "No"
  ELSE d.repeats

Value(d, ch) == IF HasExt(d, ch) THEN Head(ch.words)[2] ELSE ch.field

Timestamp(st, ch, ext, value) ==
  CASE ch.fmt = 0 -> [ts |-> value, delta |-> value]
    [] ch.fmt \in {1, 2} -> [ts |-> (st.ts + value) % TsMod, delta |-> value]
    [] ch.fmt = 3 /\ ext -> [ts |-> (st.ts + value) % TsMod, delta |-> value]
    [] OTHER -> [ts |-> (st.ts + st.delta) % TsMod, delta |-> st.delta]

(* What the stream has with the chunk's header taken in. *)
Headed(d, ch) ==
  LET st == d.streams[ch.csid]
      t == Timestamp(st, ch, HasExt(d, ch), Value(d, ch))
  IN IF Continues(d, ch) THEN st
     ELSE [st EXCEPT !.ts = t.ts, !.delta = t.delta,
                     !.len = IF ch.fmt <= 1 THEN ch.len ELSE @,
                     !.type = IF ch.fmt <= 1 THEN ch.type ELSE @,
                     !.ext = IF HasExt(d, ch) THEN Value(d, ch) ELSE NoExt,
                     !.part = <<>>, !.busy = TRUE, !.known = TRUE]

Payload(d, ch) == IF ReadsExt(d, ch) THEN Tail(ch.words) ELSE ch.words
Takes(d, ch) ==
  LET st == Headed(d, ch)
      left == st.len - Len(st.part)
  IN IF left < d.size THEN left ELSE d.size

PendingBut(d, csid) ==
  Cardinality(UNION {{c} \X DOMAIN d.streams[c].part : c \in Csids \ {csid}})

(* Why a chunk is refused.  One that does not end where its header says    *)
(* would have the next one start in the wrong place.                       *)
InUse(d) == {c \in Csids : d.streams[c].known}
Refuses(d, ch, limit) ==
  \/ ch.fmt # 0 /\ ~d.streams[ch.csid].known
  \/ ch.csid \notin InUse(d) /\ Cardinality(InUse(d)) >= MaxStreams
  \/ ~Continues(d, ch) /\ Headed(d, ch).len > limit
  \/ Len(Payload(d, ch)) # Takes(d, ch)
  \/ PendingBut(d, ch.csid) + Len(Headed(d, ch).part) + Takes(d, ch) > MaxPending

Taken(d, ch) == [Headed(d, ch) EXCEPT !.part = @ \o Payload(d, ch)]
Completes(d, ch) == Len(Taken(d, ch).part) >= Taken(d, ch).len

Message(d, ch) ==
  LET st == Taken(d, ch) IN [type |-> st.type, ts |-> st.ts, body |-> st.part]

Decoded(d, ch) ==
  LET st == IF Completes(d, ch) THEN [Taken(d, ch) EXCEPT !.busy = FALSE, !.part = <<>>]
                                ELSE Taken(d, ch)
  IN [d EXCEPT !.streams[ch.csid] = st, !.repeats = Learned(d, ch)]

Aborted(d, csid) == [d EXCEPT !.streams[csid].part = <<>>, !.streams[csid].busy = FALSE]
Resized(d, size) == [d EXCEPT !.size = size]
=============================================================================
