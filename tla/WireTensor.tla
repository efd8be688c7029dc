----------------------------- MODULE WireTensor -----------------------------
(***************************************************************************)
(* What crosses between the world and a program: the flat observation, the *)
(* action and the stamp of a frame header, as the conversions of           *)
(* ertw_interface compute them.  Numbers are scaled down: a tag mask has   *)
(* four chunks of base Chunk, a stamp two words of base Word, and Unit     *)
(* stands for 1.0.  Channels that are only copied are left out of the      *)
(* observation.                                                            *)
(***************************************************************************)
EXTENDS Integers, Sequences

CONSTANTS
  MaxNeighbors,         \* neighbours of one observation
  FieldSamples,         \* places where the fields are sampled
  Chunk,                \* 2^16: base of one chunk of a tag mask
  Exact,                \* 2^24: integers below it are exact in an f32
  Word,                 \* 2^32: base of a header word
  Unit,                 \* 1.0
  Turn,                 \* one turn, TAU
  Grain,                \* what an f32 cannot tell from Turn
  Root,                 \* largest length whose square is finite in an f32
  NonFinite             \* NaN or an infinity

ASSUME WireAssumption ==
  /\ {MaxNeighbors, FieldSamples, Unit, Grain} \subseteq Nat \ {0}
  /\ Chunk \in Nat /\ Chunk > 1 /\ Exact \in Nat /\ Exact >= Chunk
  /\ Word \in Nat /\ Word > 1 /\ Turn \in Nat /\ Turn > Grain
  /\ Root \in Nat /\ Root > Unit
  /\ NonFinite \notin Int

FieldCount == 3
FieldChannels == 3
SelfStride == 1
NeighborStride == 7

FieldFloatCount == FieldCount * FieldSamples * FieldChannels

ObservationLen == SelfStride + FieldFloatCount + MaxNeighbors * NeighborStride

\* The index of a channel of a field sample (from 0) among the field floats.
FieldIndex(f, s, channel) == (f * FieldSamples + s) * FieldChannels + channel + 1

-----------------------------------------------------------------------------
(* Numbers. *)

Float(n) == IF n < Exact THEN n ELSE 2 * (n \div 2)

Band(v, low, high) == IF v < low THEN low ELSE IF v > high THEN high ELSE v

\* The base of each chunk of a tag mask.
Weight == <<1, Chunk, Chunk * Chunk, Chunk * Chunk * Chunk>>

ChunkOf(mask, k) == Float((mask \div Weight[k]) % Chunk)

Mask(chunks) ==
  LET Value(k) == Band(chunks[k], 0, Chunk - 1) * Weight[k]
  IN Value(1) + Value(2) + Value(3) + Value(4)

-----------------------------------------------------------------------------
(* Observations: neighbours are [rel, tags, valid]. *)

Ghost == [rel |-> <<0, 0>>, tags |-> 0, valid |-> FALSE]

\* A slip: only the neighbours there are are written.
PaddedNot(neighbors) == neighbors

Padded(neighbors) ==
  [k \in 1..MaxNeighbors |-> IF k \in DOMAIN neighbors THEN neighbors[k] ELSE Ghost]

NeighborFloats(n) ==
  <<n.rel[1], n.rel[2], ChunkOf(n.tags, 1), ChunkOf(n.tags, 2), ChunkOf(n.tags, 3),
    ChunkOf(n.tags, 4), IF n.valid THEN Unit ELSE 0>>

ToFloats(energy, field, neighbors) ==
  <<energy>> \o field \o
    [i \in 1..(Len(neighbors) * NeighborStride) |->
       NeighborFloats(neighbors[(i - 1) \div NeighborStride + 1])[((i - 1) % NeighborStride) + 1]]

FieldOf(floats) == [i \in 1..FieldFloatCount |-> floats[SelfStride + i]]

NeighborsOf(floats) ==
  [k \in 1..MaxNeighbors |->
     LET At(i) == floats[SelfStride + FieldFloatCount + (k - 1) * NeighborStride + i]
     IN [rel |-> <<At(1), At(2)>>, tags |-> Mask(<<At(3), At(4), At(5), At(6)>>),
         valid |-> 2 * At(7) >= Unit]]

-----------------------------------------------------------------------------
(* Headers: a stamp travels as low and high words. *)

\* A slip: the high word is left out.
WordsLow(n) == <<n % Word, 0>>

Words(n) == <<n % Word, n \div Word>>

Number(words) == words[1] + Word * words[2]

-----------------------------------------------------------------------------
(* Actions: force is a length along the direction asked for. *)

Finite(v) == IF v \in Int THEN v ELSE 0

\* The scale of a length whose square overflows is zero.
Scaled(force) ==
  IF force <= Unit THEN force ELSE IF force <= Root THEN Unit ELSE 0

\* A tiny negative remainder is rounded up to a whole turn.
Phase(v) == LET r == v % Turn IN IF v < 0 /\ r > Turn - Grain THEN Turn ELSE r

\* A slip: the bands are applied to what is not finite too.
SanitizedBandsOnly(a) ==
  [a EXCEPT !.torque = IF @ \in Int THEN Band(@, -Unit, Unit) ELSE @]

Sanitized(a) ==
  [force |-> Scaled(Finite(a.force)),
   torque |-> Band(Finite(a.torque), -Unit, Unit),
   clamp |-> Band(Finite(a.clamp), 0, Unit),
   freq |-> Band(Finite(a.freq), -16 * Unit, 16 * Unit),
   phase |-> Phase(Finite(a.phase))]
=============================================================================
