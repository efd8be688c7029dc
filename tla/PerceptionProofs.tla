-------------------------- MODULE PerceptionProofs --------------------------
(***************************************************************************)
(* What a program is shown is the world as it is, and what it sends        *)
(* reaches the actuators in its bands and under the right stamp, for every *)
(* number of bodies, neighbours and samples, every base of chunks and      *)
(* words, and every radius, reach and cell size.                           *)
(***************************************************************************)
EXTENDS Perception, FiniteSetTheorems, SequenceTheorems, TLAPS

-----------------------------------------------------------------------------
(* Quotients, stamps and tag masks *)

\* Division with remainder.
LEMMA DivMod ==
    ASSUME NEW n \in Int, NEW w \in Int, w > 0
    PROVE  /\ n = w * (n \div w) + (n % w)
           /\ n \div w \in Int /\ n % w \in 0..(w - 1)
<1>1. n = w * (n \div w) + (n % w)
  BY Z3T(30)
<1>2. QED
  BY <1>1

\* There is one quotient and one remainder.
LEMMA DivModUnique ==
    ASSUME NEW w \in Int, NEW q \in Int, NEW r \in 0..(w - 1)
    PROVE  (w * q + r) \div w = q /\ (w * q + r) % w = r
  OBVIOUS

\* Dividing by a product is dividing twice.
LEMMA DivAgain ==
    ASSUME NEW n \in Nat, NEW v \in Nat, v > 0, NEW w \in Nat, w > 0
    PROVE  n \div (v * w) = (n \div v) \div w
<1>. DEFINE q == n \div v
            p == q \div w
            s == v * (q % w) + (n % v)
<1>1. n = v * q + (n % v) /\ q \in Int /\ n % v \in 0..(v - 1)
  BY DivMod
<1>2. q = w * p + (q % w) /\ p \in Int /\ q % w \in 0..(w - 1)
  BY <1>1, DivMod
<1>3. n = (v * w) * p + s
  <2>1. v * q = (v * w) * p + v * (q % w)
    BY <1>2 
  <2>2. QED
    BY <1>1, <1>2, <2>1
<1>4. s \in 0..(v * w - 1)
  <2>1. (q % w) + 1 <= w /\ v * ((q % w) + 1) <= v * w /\ 0 <= v * (q % w)
    BY <1>2
  <2>2. v * ((q % w) + 1) = v * (q % w) + v
    BY <1>2
  <2>3. v * w \in Int /\ v * (q % w) \in Int
    BY <1>2
  <2>4. QED
    BY <1>1, <2>1, <2>2, <2>3
<1>5. QED
  <2>. HIDE DEF s, p
  <2>1. v * w \in Int /\ p \in Int /\ s \in 0..(v * w - 1)
    BY <1>2, <1>4
  <2>2. ((v * w) * p + s) \div (v * w) = p
    BY <2>1, DivModUnique
  <2>3. QED
    BY <1>3, <2>2 DEF p

\* A stamp crosses the wire as it is (wire_header and decode_action).
LEMMA StampThere ==
    ASSUME NEW n \in Nat
    PROVE  Number(Words(n)) = n
<1>1. n = Word * (n \div Word) + (n % Word) /\ n \div Word \in Int /\ n % Word \in Int
  BY DivMod, WireAssumption
<1>2. QED
  BY <1>1, WireAssumption DEF Number, Words

\* A chunk crosses the wire as it is.
LEMMA ChunkThere ==
    ASSUME NEW c \in 0..(Chunk - 1)
    PROVE  Band(Float(c), 0, Chunk - 1) = c
  BY WireAssumption DEF Band, Float

\* So does a whole tag mask, in four chunks.
LEMMA MaskThere ==
    ASSUME NEW mask \in 0..(Chunk * Chunk * Chunk * Chunk - 1)
    PROVE  /\ Mask(<<ChunkOf(mask, 1), ChunkOf(mask, 2), ChunkOf(mask, 3), ChunkOf(mask, 4)>>) = mask
           /\ \A k \in 1..4 : ChunkOf(mask, k) \in Int
<1>. DEFINE c == Chunk
            q1 == mask \div c
            q2 == q1 \div c
            q3 == q2 \div c
<1>0. c \in Nat /\ c > 1 /\ c * c \in Nat /\ c * c * c \in Nat /\ c * c > 0 /\ c * c * c > 0
      /\ c * c * c * c \in Nat /\ mask \in Nat /\ mask < c * c * c * c
  <2>1. c \in Nat /\ c > 1
    BY WireAssumption
  <2>2. c * c \in Nat /\ c * c > 0
    BY <2>1
  <2>3. c * c * c \in Nat /\ c * c * c > 0
    BY <2>1, <2>2
  <2>4. c * c * c * c \in Nat
    BY <2>1, <2>3
  <2>5. QED
    BY <2>1, <2>2, <2>3, <2>4
<1>1. mask = c * q1 + (mask % c) /\ q1 \in Int /\ mask % c \in 0..(c - 1)
  BY <1>0, DivMod
<1>2. q1 = c * q2 + (q1 % c) /\ q2 \in Int /\ q1 % c \in 0..(c - 1)
  BY <1>0, <1>1, DivMod
<1>3. q2 = c * q3 + (q2 % c) /\ q3 \in Int /\ q2 % c \in 0..(c - 1)
  BY <1>0, <1>2, DivMod
<1>4. q1 \in Nat /\ q2 \in Nat /\ q3 \in Nat
  BY <1>0, <1>1, <1>2, <1>3
<1>5. mask \div (c * c) = q2
  BY <1>0, DivAgain
<1>6. mask \div (c * c * c) = q3
  <2>1. mask \div ((c * c) * c) = (mask \div (c * c)) \div c
    BY <1>0, DivAgain
  <2>2. QED
    BY <1>5, <2>1
<1>7. q3 \in 0..(c - 1)
  <2>1. mask < (c * c * c) * c
    BY <1>0
  <2>2. mask \div (c * c * c) < c
    <3>. DEFINE d == c * c * c
    <3>. HIDE DEF d
    <3>1. \A n \in Nat, x \in Nat, b \in Nat : n < x * b => n \div x < b
      OBVIOUS
    <3>2. d \in Nat /\ mask < d * c
      BY <1>0, <2>1 DEF d
    <3>3. mask \div d < c
      BY <1>0, <3>1, <3>2
    <3>4. QED
      BY <3>3 DEF d
  <2>3. QED
    BY <1>0, <1>4, <1>6, <2>2
<1>. DEFINE r0 == mask % c
            r1 == q1 % c
            r2 == q2 % c
<1>8. mask \div 1 = mask /\ q3 % c = q3
  BY <1>0, <1>7
<1>9. /\ ChunkOf(mask, 1) = Float(r0) /\ ChunkOf(mask, 2) = Float(r1)
      /\ ChunkOf(mask, 3) = Float(r2) /\ ChunkOf(mask, 4) = Float(q3)
  BY <1>5, <1>6, <1>8 DEF ChunkOf, Weight
<1>10. mask = r0 * 1 + r1 * c + r2 * (c * c) + q3 * (c * c * c)
  <2>. HIDE DEF c, r0, r1, r2, q1, q2, q3
  <2>0. c \in Int /\ q1 \in Int /\ q2 \in Int /\ q3 \in Int /\ r0 \in Int /\ r1 \in Int /\ r2 \in Int
    BY <1>0, <1>1, <1>2, <1>3 DEF r0, r1, r2
  <2>1. mask = c * q1 + r0 /\ q1 = c * q2 + r1 /\ q2 = c * q3 + r2
    BY <1>1, <1>2, <1>3 DEF r0, r1, r2
  <2>2. c * q2 = c * (c * q3) + c * r2
    BY <2>0, <2>1
  <2>3. c * q1 = c * (c * (c * q3)) + c * (c * r2) + c * r1
    BY <2>0, <2>1, <2>2
  <2>4. c * (c * (c * q3)) = q3 * (c * c * c) /\ c * (c * r2) = r2 * (c * c) /\ c * r1 = r1 * c
    BY <2>0
  <2>5. QED
    BY <2>0, <2>1, <2>3, <2>4
<1>11. /\ Band(Float(r0), 0, c - 1) = r0 /\ Band(Float(r1), 0, c - 1) = r1
       /\ Band(Float(r2), 0, c - 1) = r2 /\ Band(Float(q3), 0, c - 1) = q3
  BY <1>1, <1>2, <1>3, <1>7, ChunkThere
<1>12. Mask(<<Float(r0), Float(r1), Float(r2), Float(q3)>>)
         = r0 * 1 + r1 * c + r2 * (c * c) + q3 * (c * c * c)
  <2>. HIDE DEF r0, r1, r2, q1, q2, q3
  <2>1. QED
    BY <1>11 DEF Mask, Weight
<1>13. \A v \in 0..(c - 1) : Float(v) \in Int
  BY WireAssumption DEF Float
<1>14. QED
  <2>1. \A k \in 1..4 : ChunkOf(mask, k) \in Int
    BY <1>1, <1>2, <1>3, <1>7, <1>9, <1>13
  <2>2. QED
    BY <1>9, <1>10, <1>12, <2>1

-----------------------------------------------------------------------------
(* The observation on the wire *)

\* What an observation lists: a neighbour that is there, or a ghost.
Neighbor ==
    [rel : Int \X Int, tags : 0..(Chunk * Chunk * Chunk * Chunk - 1), valid : BOOLEAN]

\* The parts of a concatenation are where they were, one after the other.
LEMMA Concatenated ==
    ASSUME NEW V, NEW m \in Nat, NEW n \in Nat, NEW s \in [1..m -> V], NEW t \in [1..n -> V]
    PROVE  /\ s \o t \in [1..(m + n) -> V] /\ Len(s \o t) = m + n
           /\ \A i \in 1..m : (s \o t)[i] = s[i]
           /\ \A i \in 1..n : (s \o t)[m + i] = t[i]
<1>1. s \in Seq(V) /\ t \in Seq(V)
  OBVIOUS
<1>2. Len(s) = m /\ Len(t) = n
  OBVIOUS
<1>3. /\ s \o t \in Seq(V) /\ Len(s \o t) = m + n
      /\ \A i \in 1..(m + n) : (s \o t)[i] = IF i <= m THEN s[i] ELSE t[i - m]
  BY <1>1, <1>2, ConcatProperties
<1>4. s \o t \in [1..(m + n) -> V]
  BY <1>3, LenProperties
<1>5. \A i \in 1..m : (s \o t)[i] = s[i]
  BY <1>3
<1>6. \A i \in 1..n : (s \o t)[m + i] = t[i]
  <2>1. \A i \in 1..n : m + i \in 1..(m + n) /\ ~(m + i <= m) /\ (m + i) - m = i
    OBVIOUS
  <2>2. QED
    BY <1>3, <2>1
<1>7. QED
  BY <1>3, <1>4, <1>5, <1>6

\* A neighbour is a block of NeighborStride floats.
LEMMA FloatsTyped ==
    ASSUME NEW n \in Neighbor
    PROVE  NeighborFloats(n) \in [1..7 -> Int]
<1>1. \A k \in 1..4 : ChunkOf(n.tags, k) \in Int
  BY MaskThere DEF Neighbor
<1>2. Unit \in Int
  BY WireAssumption
<1>3. QED
  BY <1>1, <1>2 DEF NeighborFloats, Neighbor

\* A neighbour read where a neighbour was written is that neighbour.
LEMMA NeighborThere ==
    ASSUME NEW n \in Neighbor
    PROVE  LET f == NeighborFloats(n)
           IN n = [rel |-> <<f[1], f[2]>>, tags |-> Mask(<<f[3], f[4], f[5], f[6]>>),
                   valid |-> 2 * f[7] >= Unit]
<1>1. Mask(<<ChunkOf(n.tags, 1), ChunkOf(n.tags, 2), ChunkOf(n.tags, 3), ChunkOf(n.tags, 4)>>)
        = n.tags
  BY MaskThere DEF Neighbor
<1>2. n.valid <=> 2 * (IF n.valid THEN Unit ELSE 0) >= Unit
  BY WireAssumption
<1>3. n.rel = <<n.rel[1], n.rel[2]>>
  BY DEF Neighbor
<1>4. n = [rel |-> n.rel, tags |-> n.tags, valid |-> n.valid]
  BY DEF Neighbor
<1>5. n.valid \in BOOLEAN
  BY DEF Neighbor
<1>6. QED
  BY <1>1, <1>2, <1>3, <1>4, <1>5 DEF NeighborFloats

\* The sizes are natural numbers.
LEMMA Counts == /\ FieldFloatCount \in Nat /\ MaxNeighbors \in Nat /\ MaxNeighbors > 0
                /\ ObservationLen = 1 + FieldFloatCount + MaxNeighbors * 7
  BY WireAssumption DEF FieldFloatCount, ObservationLen, FieldCount, FieldChannels, SelfStride,
     NeighborStride

\* An observation comes out of the wire as it went in: it is as long as the
\* configuration says, and every field value and every neighbour is in its
\* place (to_f32_vec and from_f32_slice).
LEMMA ObservationThere ==
    ASSUME NEW V, Int \subseteq V, NEW energy \in Int, NEW field \in [1..FieldFloatCount -> V],
           NEW neighbors \in [1..MaxNeighbors -> Neighbor]
    PROVE  LET wire == ToFloats(energy, field, neighbors)
           IN /\ Len(wire) = ObservationLen
              /\ FieldOf(wire) = field
              /\ NeighborsOf(wire) = neighbors
<1>. DEFINE w == FieldFloatCount
            Block(k) == NeighborFloats(neighbors[k])
            blocks == [i \in 1..(MaxNeighbors * 7) |->
                         Block((i - 1) \div 7 + 1)[((i - 1) % 7) + 1]]
            wire == ToFloats(energy, field, neighbors)
<1>1. w \in Nat /\ MaxNeighbors \in Nat /\ MaxNeighbors * 7 \in Nat
  BY Counts
<1>2. Len(neighbors) = MaxNeighbors
  BY <1>1
<1>3. wire = <<energy>> \o field \o blocks
  BY <1>2 DEF ToFloats, NeighborStride
<1>4. \A k \in 1..MaxNeighbors : Block(k) \in [1..7 -> Int]
  BY FloatsTyped
<1>5. blocks \in [1..(MaxNeighbors * 7) -> Int]
  <2>. SUFFICES ASSUME NEW i \in 1..(MaxNeighbors * 7)
                PROVE  Block((i - 1) \div 7 + 1)[((i - 1) % 7) + 1] \in Int
    OBVIOUS
  <2>1. (i - 1) \div 7 + 1 \in 1..MaxNeighbors /\ ((i - 1) % 7) + 1 \in 1..7
    BY <1>1
  <2>2. QED
    BY <1>4, <2>1
<1>6. \A k \in 1..MaxNeighbors, j \in 1..7 :
        /\ (k - 1) * 7 + j \in 1..(MaxNeighbors * 7)
        /\ blocks[(k - 1) * 7 + j] = Block(k)[j]
  <2>. SUFFICES ASSUME NEW k \in 1..MaxNeighbors, NEW j \in 1..7
                PROVE  /\ (k - 1) * 7 + j \in 1..(MaxNeighbors * 7)
                       /\ blocks[(k - 1) * 7 + j] = Block(k)[j]
    OBVIOUS
  <2>1. (k - 1) * 7 + j \in 1..(MaxNeighbors * 7)
    BY <1>1
  <2>2. ((k - 1) * 7 + j - 1) \div 7 + 1 = k /\ (((k - 1) * 7 + j - 1) % 7) + 1 = j
    <3>1. k - 1 \in Int /\ j - 1 \in 0..(7 - 1) /\ (k - 1) * 7 + j - 1 = 7 * (k - 1) + (j - 1)
      BY <1>1
    <3>2. (7 * (k - 1) + (j - 1)) \div 7 = k - 1 /\ (7 * (k - 1) + (j - 1)) % 7 = j - 1
      BY <3>1, DivModUnique
    <3>3. QED
      BY <1>1, <3>1, <3>2
  <2>3. QED
    BY <2>1, <2>2
<1>. HIDE DEF blocks
<1>7. <<energy>> \in [1..1 -> V]
  OBVIOUS
<1>8. /\ <<energy>> \o field \in [1..(1 + w) -> V]
      /\ \A i \in 1..w : (<<energy>> \o field)[1 + i] = field[i]
  <2>. DEFINE e == <<energy>>
  <2>1. e \in [1..1 -> V] /\ 1 \in Nat
    BY <1>7
  <2>. HIDE DEF e, w
  <2>2. e \o field \in [1..(1 + w) -> V] /\ \A i \in 1..w : (e \o field)[1 + i] = field[i]
    <3>1. w \in Nat /\ field \in [1..w -> V]
      BY <1>1 DEF w
    <3>. DEFINE one == 1
    <3>2. one \in Nat /\ e \in [1..one -> V]
      BY <2>1
    <3>. HIDE DEF one
    <3>3. e \o field \in [1..(one + w) -> V]
      BY <3>1, <3>2, Concatenated
    <3>4. \A i \in 1..w : (e \o field)[one + i] = field[i]
      BY <3>1, <3>2, Concatenated
    <3>5. QED
      BY <3>3, <3>4 DEF one
  <2>3. QED
    BY <2>2 DEF e
<1>. DEFINE front == <<energy>> \o field
<1>9. /\ Len(front \o blocks) = 1 + w + MaxNeighbors * 7
      /\ \A i \in 1..(1 + w) : (front \o blocks)[i] = front[i]
      /\ \A i \in 1..(MaxNeighbors * 7) : (front \o blocks)[1 + w + i] = blocks[i]
  <2>. HIDE DEF front
  <2>1. front \in [1..(1 + w) -> V] /\ 1 + w \in Nat
    BY <1>1, <1>8 DEF front
  <2>. DEFINE m == 1 + w
              n == MaxNeighbors * 7
  <2>2. m \in Nat /\ n \in Nat /\ front \in [1..m -> V] /\ blocks \in [1..n -> V]
    BY <1>1, <1>5, <2>1
  <2>. HIDE DEF m, n
  <2>3. /\ Len(front \o blocks) = m + n
        /\ \A i \in 1..m : (front \o blocks)[i] = front[i]
        /\ \A i \in 1..n : (front \o blocks)[m + i] = blocks[i]
    BY <2>2, Concatenated
  <2>4. QED
    BY <2>3 DEF m, n
<1>10. wire = front \o blocks
  BY <1>3
<1>. HIDE DEF wire
<1>11. Len(wire) = ObservationLen
  BY <1>9, <1>10, Counts
<1>12. FieldOf(wire) = field
  <2>1. \A i \in 1..w : wire[1 + i] = field[i]
    <3>1. \A i \in 1..w : 1 + i \in 1..(1 + w)
      BY <1>1
    <3>2. \A i \in 1..w : front[1 + i] = field[i]
      BY <1>8
    <3>. HIDE DEF front
    <3>3. QED
      BY <1>9, <1>10, <3>1, <3>2
  <2>2. FieldOf(wire) = [i \in 1..w |-> field[i]]
    BY <2>1 DEF FieldOf, SelfStride
  <2>3. QED
    BY <2>2
<1>13. NeighborsOf(wire) = neighbors
  <2>1. \A k \in 1..MaxNeighbors, j \in 1..7 : wire[1 + w + (k - 1) * 7 + j] = Block(k)[j]
    <3>. SUFFICES ASSUME NEW k \in 1..MaxNeighbors, NEW j \in 1..7
                  PROVE  wire[1 + w + (k - 1) * 7 + j] = Block(k)[j]
      OBVIOUS
    <3>1. 1 + w + (k - 1) * 7 + j = 1 + w + ((k - 1) * 7 + j)
      BY <1>1
    <3>2. QED
      BY <1>6, <1>9, <1>10, <3>1
  <2>2. \A k \in 1..MaxNeighbors :
          neighbors[k] = [rel |-> <<Block(k)[1], Block(k)[2]>>,
                          tags |-> Mask(<<Block(k)[3], Block(k)[4], Block(k)[5], Block(k)[6]>>),
                          valid |-> 2 * Block(k)[7] >= Unit]
    BY NeighborThere
  <2>3. NeighborsOf(wire) = [k \in 1..MaxNeighbors |-> neighbors[k]]
    <3>. DEFINE At(k, i) == wire[SelfStride + FieldFloatCount + (k - 1) * NeighborStride + i]
    <3>1. \A k \in 1..MaxNeighbors, j \in 1..7 : At(k, j) = Block(k)[j]
      BY <2>1 DEF SelfStride, NeighborStride
    <3>. HIDE DEF Block
    <3>2. \A k \in 1..MaxNeighbors :
            neighbors[k] = [rel |-> <<At(k, 1), At(k, 2)>>,
                            tags |-> Mask(<<At(k, 3), At(k, 4), At(k, 5), At(k, 6)>>),
                            valid |-> 2 * At(k, 7) >= Unit]
      BY <2>2, <3>1
    <3>3. QED
      BY <3>2 DEF NeighborsOf
  <2>4. QED
    BY <2>3
<1>14. QED
  BY <1>11, <1>12, <1>13 DEF wire

-----------------------------------------------------------------------------
(* Turns and the spatial hash *)

\* Differences of places.
Vector == Int \X Int

\* A quarter turn and its inverse.
LEMMA TurnedBack ==
    ASSUME NEW v \in Vector, NEW q \in 0..3
    PROVE  /\ Turned(v, q) \in Vector /\ Turned(v, -q) \in Vector
           /\ Turned(Turned(v, -q), q) = v
           /\ Square(Turned(v, -q)) = Square(v)
<1>. PICK x \in Int, y \in Int : v = <<x, y>>
  BY DEF Vector
<1>0. (-x) * (-x) = x * x /\ (-y) * (-y) = y * y
  OBVIOUS
<1>1. x * x \in Int /\ y * y \in Int
  OBVIOUS
<1>2. /\ Square(<<x, y>>) = x * x + y * y /\ Square(<<-x, -y>>) = x * x + y * y
       /\ Square(<<y, -x>>) = x * x + y * y /\ Square(<<-y, x>>) = x * x + y * y
  <2>. DEFINE m == x * x
              n == y * y
  <2>1. /\ Square(<<x, y>>) = m + n /\ Square(<<-x, -y>>) = m + n
        /\ Square(<<y, -x>>) = n + m /\ Square(<<-y, x>>) = n + m
    BY <1>0 DEF Square
  <2>2. m \in Int /\ n \in Int
    BY <1>1
  <2>. HIDE DEF m, n
  <2>3. n + m = m + n
    BY <2>2
  <2>4. QED
    BY <2>1, <2>3 DEF m, n
<1>3. q % 4 = q
  OBVIOUS
<1>4. (-q) % 4 = IF q = 0 THEN 0 ELSE 4 - q
  <2>1. CASE q = 0
    BY <2>1
  <2>2. CASE q # 0
    <3>1. 4 - q \in 0..(4 - 1) /\ -q = 4 * (-1) + (4 - q)
      BY <2>2
    <3>2. (4 * (-1) + (4 - q)) % 4 = 4 - q
      BY <3>1, DivModUnique
    <3>3. QED
      BY <2>2, <3>1, <3>2
  <2>3. QED
    BY <2>1, <2>2
<1>5. \A z \in Int, w \in Int, k \in Int :
        /\ k % 4 = 0 => Turned(<<z, w>>, k) = <<z, w>>
        /\ k % 4 = 1 => Turned(<<z, w>>, k) = <<-w, z>>
        /\ k % 4 = 2 => Turned(<<z, w>>, k) = <<-z, -w>>
        /\ k % 4 = 3 => Turned(<<z, w>>, k) = <<w, -z>>
  BY DEF Turned
<1>6. -q \in Int /\ q \in Int /\ -x \in Int /\ -y \in Int /\ -(-x) = x /\ -(-y) = y
  OBVIOUS
<1>7. CASE q = 0
  <2>1. Turned(v, q) = <<x, y>> /\ Turned(v, -q) = <<x, y>>
    BY <1>3, <1>4, <1>5, <1>6, <1>7
  <2>2. QED
    BY <2>1 DEF Vector
<1>8. CASE q = 1
  <2>1. Turned(v, q) = <<-y, x>> /\ Turned(v, -q) = <<y, -x>>
    BY <1>3, <1>4, <1>5, <1>6, <1>8
  <2>2. Turned(<<y, -x>>, q) = <<-(-x), y>>
    BY <1>3, <1>5, <1>6, <1>8
  <2>3. QED
    BY <1>6, <1>2, <2>1, <2>2 DEF Vector
<1>9. CASE q = 2
  <2>1. Turned(v, q) = <<-x, -y>> /\ Turned(v, -q) = <<-x, -y>>
    BY <1>3, <1>4, <1>5, <1>6, <1>9
  <2>2. Turned(<<-x, -y>>, q) = <<-(-x), -(-y)>>
    BY <1>3, <1>5, <1>6, <1>9
  <2>3. QED
    BY <1>6, <1>2, <2>1, <2>2 DEF Vector
<1>10. CASE q = 3
  <2>1. Turned(v, q) = <<y, -x>> /\ Turned(v, -q) = <<-y, x>>
    BY <1>3, <1>4, <1>5, <1>6, <1>10
  <2>2. Turned(<<-y, x>>, q) = <<x, -(-y)>>
    BY <1>3, <1>5, <1>6, <1>10
  <2>3. QED
    BY <1>6, <1>2, <2>1, <2>2 DEF Vector
<1>11. QED
  BY <1>7, <1>8, <1>9, <1>10

\* A body no farther than the radius along an axis is no farther in cells than
\* the radius in cells, rounded up.
LEMMA CellsNear ==
    ASSUME NEW x \in Int, NEW y \in Int, NEW r \in Nat, x - y \in -r..r
    PROVE  (x \div CellSize) - (y \div CellSize) \in -CellsAcross(r)..CellsAcross(r)
<1>. DEFINE s == CellSize
            n == CellsAcross(r)
            p == x \div s
            q == y \div s
<1>0. s \in Nat /\ s > 0
  BY PerceptionAssumption
<1>1. s * n >= r /\ n \in Nat
  <2>1. r + s - 1 = s * n + ((r + s - 1) % s) /\ n \in Int /\ (r + s - 1) % s \in 0..(s - 1)
    BY <1>0, DivMod DEF CellsAcross
  <2>2. n >= 0
    BY <1>0 DEF CellsAcross
  <2>3. QED
    <3>. HIDE DEF s, n
    <3>1. s * n \in Int
      BY <1>0, <2>1
    <3>2. QED
      BY <1>0, <2>1, <2>2, <3>1
<1>2. p \in Int /\ s * p <= x /\ x < s * p + s
  <2>1. x = s * p + (x % s) /\ p \in Int /\ x % s \in 0..(s - 1)
    BY <1>0, DivMod
  <2>. HIDE DEF s, p
  <2>2. s * p \in Int
    BY <1>0, <2>1
  <2>3. QED
    BY <1>0, <2>1, <2>2
<1>3. q \in Int /\ s * q <= y /\ y < s * q + s
  <2>1. y = s * q + (y % s) /\ q \in Int /\ y % s \in 0..(s - 1)
    BY <1>0, DivMod
  <2>. HIDE DEF s, q
  <2>2. s * q \in Int
    BY <1>0, <2>1
  <2>3. QED
    BY <1>0, <2>1, <2>2
<1>. HIDE DEF s, n, p, q
<1>4. \A a \in Int, b \in Int : a >= b + n + 1 => s * a >= s * b + s * n + s
  <2>1. \A a \in Int, c \in Int : a >= c => s * a >= s * c
    BY <1>0
  <2>2. \A b \in Int : s * (b + n + 1) = s * b + s * n + s
    BY <1>0, <1>1
  <2>3. \A b \in Int : b + n + 1 \in Int
    BY <1>1
  <2>4. QED
    BY <2>1, <2>2, <2>3
<1>5. s * p \in Int /\ s * q \in Int /\ s * n \in Int
  BY <1>0, <1>1, <1>2, <1>3
<1>6. ~(p >= q + n + 1)
  BY <1>0, <1>1, <1>2, <1>3, <1>4, <1>5
<1>7. ~(q >= p + n + 1)
  BY <1>0, <1>1, <1>2, <1>3, <1>4, <1>5
<1>8. p - q \in -n..n
  BY <1>1, <1>2, <1>3, <1>6, <1>7
<1>9. QED
  BY <1>8 DEF n, p, q, s

\* A vector no longer than r is no longer along either axis.
LEMMA AxesNear ==
    ASSUME NEW v \in Vector, NEW r \in Nat, Square(v) <= r * r
    PROVE  v[1] \in -r..r /\ v[2] \in -r..r
<1>. DEFINE x == v[1]
            y == v[2]
<1>1. x \in Int /\ y \in Int
  BY DEF Vector
<1>. HIDE DEF x, y
<1>2. x * x >= 0 /\ y * y >= 0 /\ x * x \in Int /\ y * y \in Int /\ r * r \in Int
  BY <1>1
<1>3. x * x + y * y <= r * r
  BY DEF Square, x, y
<1>4. x * x <= r * r /\ y * y <= r * r
  BY <1>2, <1>3
<1>5. \A z \in Int : z * z <= r * r => z <= r /\ -r <= z
  OBVIOUS
<1>6. QED
  BY <1>1, <1>4, <1>5 DEF x, y

\* The bodies around a that are near enough.
Near(a, radius) == {b \in Present \ {a} : Distance(a, b) <= radius * radius}

\* Bodies are at places, or away, and turned by quarters.
Placed == pos \in [Bodies -> Places \cup {Away}] /\ turn \in [Bodies -> 0..3]

\* Who is in the world is at a place.
LEMMA PresentPlaced == ASSUME Placed PROVE \A b \in Present : pos[b] \in Vector /\ b \in Bodies
<1>1. \A b \in Bodies : pos[b] \in Places \cup {Away}
  BY DEF Placed
<1>2. Places \subseteq Vector
  BY PerceptionAssumption DEF Vector
<1>3. Present \subseteq Bodies /\ \A b \in Present : pos[b] # Away
  BY DEF Present
<1>4. QED
  BY <1>1, <1>2, <1>3

\* A hash that is up to date finds everybody who is near enough, however the
\* bodies lie in cells.
LEMMA SensedIsNear ==
    ASSUME Placed, cells = Rebuilt, NEW a \in Present, NEW radius \in Nat
    PROVE  Sensed(a, radius) = Near(a, radius)
<1>. DEFINE Around == {d \in DOMAIN cells : \A i \in {1, 2} :
                         d[i] - CellOf(pos[a])[i] \in -CellsAcross(radius)..CellsAcross(radius)}
<1>1. QueryRadius(pos[a], radius) = UNION {cells[c] : c \in Around}
  BY DEF QueryRadius
<1>2. ASSUME NEW b \in Present, Distance(a, b) <= radius * radius
      PROVE  b \in QueryRadius(pos[a], radius)
  <2>1. pos[a] \in Vector /\ pos[b] \in Vector
    BY PresentPlaced
  <2>. DEFINE v == Minus(pos[b], pos[a])
  <2>2. v \in Vector /\ Square(v) <= radius * radius
    BY <1>2, <2>1 DEF Distance, Minus, Vector
  <2>3. v[1] \in -radius..radius /\ v[2] \in -radius..radius
    <3>. HIDE DEF v
    <3>1. QED
      BY <2>2, AxesNear
  <2>4. /\ pos[b][1] \in Int /\ pos[a][1] \in Int /\ pos[b][1] - pos[a][1] \in -radius..radius
        /\ pos[b][2] \in Int /\ pos[a][2] \in Int /\ pos[b][2] - pos[a][2] \in -radius..radius
    BY <2>1, <2>3 DEF Minus, Vector
  <2>5. \A i \in {1, 2} : CellOf(pos[b])[i] - CellOf(pos[a])[i]
                            \in -CellsAcross(radius)..CellsAcross(radius)
    <3>1. (pos[b][1] \div CellSize) - (pos[a][1] \div CellSize)
            \in -CellsAcross(radius)..CellsAcross(radius)
      BY <2>4, CellsNear
    <3>2. (pos[b][2] \div CellSize) - (pos[a][2] \div CellSize)
            \in -CellsAcross(radius)..CellsAcross(radius)
      BY <2>4, CellsNear
    <3>3. QED
      BY <3>1, <3>2 DEF CellOf
  <2>6. CellOf(pos[b]) \in DOMAIN cells /\ b \in cells[CellOf(pos[b])]
    BY DEF Rebuilt
  <2>7. CellOf(pos[b]) \in Around
    BY <2>5, <2>6
  <2>8. QED
    BY <1>1, <2>6, <2>7
<1>3. QED
  BY <1>2 DEF Sensed, Near

-----------------------------------------------------------------------------
(* Field samples *)

\* An agent's samples are taken at places where fields may be sampled.
LEMMA ProbeTyped ==
    ASSUME Placed, NEW a \in Agents, pos[a] \in Places, NEW s \in 0..(FieldSamples - 1)
    PROVE  ProbeOf(a, s) \in Probes
<1>. DEFINE ahead == (turn[a] * Circle) \div 4
            local == ((s - 1) * Circle) \div (FieldSamples - 1)
<1>1. turn[a] \in 0..3 /\ Circle \in Nat /\ Circle > 0 /\ FieldSamples \in Nat /\ FieldSamples > 0
  BY PerceptionAssumption, FieldAssumption, WireAssumption DEF Placed
<1>2. CASE s = 0 \/ FieldSamples = 1
  BY <1>1, <1>2 DEF ProbeOf, Probes
<1>3. CASE ~(s = 0 \/ FieldSamples = 1)
  <2>1. FieldSamples - 1 \in Int /\ FieldSamples - 1 > 0 /\ (s - 1) * Circle \in Int
    BY <1>1, <1>3
  <2>2. ahead \in Int /\ local \in Int
    <3>1. turn[a] * Circle \in Int
      BY <1>1
    <3>2. QED
      BY <2>1, <3>1, DivMod
  <2>. HIDE DEF ahead, local
  <2>3. (ahead + local) % Circle \in 0..(Circle - 1)
    BY <1>1, <2>2, DivMod
  <2>4. ProbeOf(a, s) = [from |-> pos[a], out |-> Radius[a], angle |-> (ahead + local) % Circle]
    BY <1>3 DEF ProbeOf, ahead, local
  <2>5. QED
    BY <2>3, <2>4 DEF Probes
<1>4. QED
  BY <1>2, <1>3

\* The channels of a sample: what is read at its place, and the slope there in
\* the agent's frame, which turns back into the slope in the world's.
LEMMA ChannelsThere ==
    ASSUME Placed, NEW a \in Agents, pos[a] \in Places, NEW f \in 0..(FieldCount - 1),
           NEW s \in 0..(FieldSamples - 1)
    PROVE  /\ Channels(a, f, s)[1] = Sampled(f, ProbeOf(a, s))
           /\ Turned(<<Channels(a, f, s)[2], Channels(a, f, s)[3]>>, turn[a])
                = Slope(f, ProbeOf(a, s))
<1>. DEFINE place == ProbeOf(a, s)
            g == InFrame(a, Slope(f, place))
<1>1. turn[a] \in 0..3
  BY PerceptionAssumption DEF Placed
<1>2. Slope(f, place) \in Vector
  BY ProbeTyped, FieldAssumption DEF Vector
<1>3. g \in Vector /\ Turned(g, turn[a]) = Slope(f, place)
  <2>. HIDE DEF place
  <2>1. QED
    BY <1>1, <1>2, TurnedBack DEF InFrame
<1>4. Channels(a, f, s) = <<Sampled(f, place), g[1], g[2]>>
  BY DEF Channels
<1>. HIDE DEF g
<1>5. g = <<g[1], g[2]>>
  BY <1>3 DEF Vector
<1>6. QED
  BY <1>3, <1>4, <1>5

\* The remainders of two numbers are as far apart as the numbers.
LEMMA ApartModulo ==
    ASSUME NEW c \in Int, c > 0, NEW x \in Int, NEW y \in Int, NEW k \in Int, NEW r \in 0..(c - 1),
           x - y = c * k + r
    PROVE  ((x % c) - (y % c)) % c = r
<1>. DEFINE p == x \div c
            q == y \div c
<1>1. /\ x = c * p + (x % c) /\ p \in Int /\ x % c \in Int
      /\ y = c * q + (y % c) /\ q \in Int /\ y % c \in Int
  BY DivMod
<1>. HIDE DEF p, q
<1>2. k - p + q \in Int /\ c * (k - p + q) = c * k - c * p + c * q
  BY <1>1
<1>3. c * k \in Int /\ c * p \in Int /\ c * q \in Int
  BY <1>1
<1>4. (x % c) - (y % c) = c * (k - p + q) + r
  BY <1>1, <1>2, <1>3
<1>. DEFINE z == k - p + q
<1>5. z \in Int /\ (x % c) - (y % c) = c * z + r
  BY <1>2, <1>4
<1>. HIDE DEF z
<1>6. (c * z + r) % c = r
  BY <1>5, DivModUnique
<1>7. QED
  BY <1>5, <1>6

\* So are those of numbers a turn further apart.
LEMMA ApartRound ==
    ASSUME NEW c \in Int, c > 0, NEW x \in Int, NEW y \in Int, NEW r \in 0..(c - 1), x - y = r - c
    PROVE  ((x % c) - (y % c)) % c = r
<1>. DEFINE p == x \div c
            q == y \div c
<1>1. /\ x = c * p + (x % c) /\ p \in Int /\ x % c \in Int
      /\ y = c * q + (y % c) /\ q \in Int /\ y % c \in Int
  BY DivMod
<1>. HIDE DEF p, q
<1>2. q - p - 1 \in Int /\ c * (q - p - 1) = c * q - c * p - c
  BY <1>1
<1>3. c * p \in Int /\ c * q \in Int
  BY <1>1
<1>. DEFINE z == q - p - 1
<1>4. z \in Int /\ (x % c) - (y % c) = c * z + r
  BY <1>1, <1>2, <1>3
<1>. HIDE DEF z
<1>5. (c * z + r) % c = r
  BY <1>4, DivModUnique
<1>6. QED
  BY <1>4, <1>5

\* The ring: the first sample is straight ahead, and the others divide the turn.
LEMMA RingEven ==
    ASSUME Placed, NEW a \in Agents, FieldSamples > 1
    PROVE  LET n == FieldSamples - 1
               Apart(s, t) == (ProbeOf(a, t).angle - ProbeOf(a, s).angle) % Circle
           IN /\ 4 * ProbeOf(a, 1).angle = turn[a] * Circle
              /\ n > 1 => /\ \A s \in 1..(n - 1) : n * Apart(s, s + 1) = Circle
                          /\ n * Apart(n, 1) = Circle
<1>. DEFINE n == FieldSamples - 1
            q == Circle \div 4
            m == Circle \div n
            h == turn[a] * q
            At(s) == h + (s - 1) * m
            Apart(s, t) == (ProbeOf(a, t).angle - ProbeOf(a, s).angle) % Circle
<1>1. /\ Circle \in Nat /\ Circle > 0 /\ n \in Nat /\ n > 0 /\ turn[a] \in 0..3
      /\ Circle % 4 = 0 /\ Circle % n = 0
  BY PerceptionAssumption, FieldAssumption, WireAssumption DEF Placed
<1>2. Circle = 4 * q /\ q \in Int /\ q > 0
  <2>1. Circle = 4 * q + (Circle % 4) /\ q \in Int
    BY <1>1, DivMod
  <2>2. QED
    BY <1>1, <2>1
<1>. HIDE DEF n
<1>3. Circle = n * m /\ m \in Int
  <2>1. Circle = n * m + (Circle % n) /\ m \in Int
    BY <1>1, DivMod
  <2>2. n * m \in Int
    BY <1>1, <2>1
  <2>3. QED
    BY <1>1, <2>1, <2>2
<1>. HIDE DEF q, m
<1>4. m > 0 /\ (n > 1 => m < Circle)
  <2>1. m > 0
    <3>1. \A v \in Nat, w \in Int : v * w > 0 => w > 0
      OBVIOUS
    <3>2. QED
      BY <1>1, <1>3, <3>1
  <2>2. n > 1 => n * m > m
    BY <1>1, <1>3, <2>1
  <2>3. QED
    BY <1>3, <2>1, <2>2
<1>5. (turn[a] * Circle) \div 4 = h
  <2>1. turn[a] * Circle = 4 * h + 0 /\ h \in Int
    <3>1. \A v \in 0..3, w \in Int : v * (4 * w) = 4 * (v * w) + 0 /\ v * w \in Int
      OBVIOUS
    <3>2. turn[a] * (4 * q) = 4 * h + 0 /\ h \in Int
      BY <1>1, <1>2, <3>1
    <3>3. turn[a] * Circle = turn[a] * (4 * q)
      BY <1>2
    <3>4. QED
      BY <3>2, <3>3
  <2>. HIDE DEF h
  <2>2. (4 * h + 0) \div 4 = h
    BY <2>1, DivModUnique
  <2>3. QED
    BY <2>1, <2>2
<1>6. \A s \in 1..n : ((s - 1) * Circle) \div n = (s - 1) * m
  <2>. SUFFICES ASSUME NEW s \in 1..n PROVE ((s - 1) * Circle) \div n = (s - 1) * m
    OBVIOUS
  <2>. DEFINE x == (s - 1) * m
  <2>1. (s - 1) * Circle = n * x + 0 /\ x \in Int
    <3>1. s - 1 \in Int
      BY <1>1
    <3>2. (s - 1) * (n * m) = n * ((s - 1) * m)
      BY <1>1, <1>3, <3>1
    <3>3. x \in Int /\ n * x \in Int
      BY <1>1, <1>3, <3>1
    <3>4. QED
      BY <1>3, <3>2, <3>3
  <2>. HIDE DEF x
  <2>2. (n * x + 0) \div n = x
    BY <1>1, <2>1, DivModUnique
  <2>3. QED
    BY <2>1, <2>2 DEF x
<1>7. \A s \in 1..n : ProbeOf(a, s).angle = At(s) % Circle
  BY <1>1, <1>5, <1>6 DEF ProbeOf, n
<1>8. h \in Int /\ \A s \in 1..n : At(s) \in Int
  <2>1. h \in Int
    BY <1>1, <1>2
  <2>2. \A s \in 1..n : (s - 1) * m \in Int
    BY <1>1, <1>3
  <2>. HIDE DEF h
  <2>3. QED
    BY <2>1, <2>2
<1>9. 4 * ProbeOf(a, 1).angle = turn[a] * Circle
  <2>1. 1 \in 1..n /\ At(1) = h
    BY <1>1, <1>3, <1>8
  <2>2. h \in 0..(Circle - 1)
    <3>1. h >= 0 /\ h <= 3 * q
      BY <1>1, <1>2
    <3>2. QED
      BY <1>2, <1>8, <3>1
  <2>3. h % Circle = h
    BY <1>1, <2>2
  <2>4. 4 * h = turn[a] * Circle
    BY <1>1, <1>2
  <2>5. QED
    BY <1>7, <2>1, <2>3, <2>4
<1>10. ASSUME n > 1, NEW s \in 1..(n - 1)
       PROVE  n * Apart(s, s + 1) = Circle
  <2>1. s \in 1..n /\ s + 1 \in 1..n
    BY <1>1
  <2>2. At(s + 1) - At(s) = Circle * 0 + m
    <3>1. ((s + 1) - 1) * m = (s - 1) * m + m /\ (s - 1) * m \in Int
      BY <1>1, <1>3
    <3>. HIDE DEF h
    <3>2. QED
      BY <1>1, <1>3, <1>8, <3>1
  <2>3. m \in 0..(Circle - 1)
    BY <1>1, <1>3, <1>4, <1>10
  <2>. DEFINE x == At(s + 1)
              y == At(s)
  <2>4. x \in Int /\ y \in Int /\ x - y = Circle * (0) + m
    BY <1>8, <2>1, <2>2
  <2>. HIDE DEF x, y
  <2>5. ((x % Circle) - (y % Circle)) % Circle = m
    BY <1>1, <2>3, <2>4, ApartModulo
  <2>6. QED
    BY <1>3, <1>7, <2>1, <2>5 DEF x, y
<1>11. ASSUME n > 1
       PROVE  n * Apart(n, 1) = Circle
  <2>1. n \in 1..n /\ 1 \in 1..n
    BY <1>1
  <2>2. At(1) - At(n) = m - Circle
    <3>1. (n - 1) * m = n * m - m /\ (1 - 1) * m = 0
      BY <1>1, <1>3
    <3>. HIDE DEF h
    <3>2. QED
      BY <1>1, <1>3, <1>8, <3>1
  <2>3. m \in 0..(Circle - 1)
    BY <1>1, <1>3, <1>4, <1>11
  <2>. DEFINE x == At(1)
              y == At(n)
  <2>4. x \in Int /\ y \in Int /\ x - y = m - Circle
    BY <1>8, <2>1, <2>2
  <2>. HIDE DEF x, y
  <2>5. ((x % Circle) - (y % Circle)) % Circle = m
    BY <1>1, <2>3, <2>4, ApartRound
  <2>6. QED
    BY <1>3, <1>7, <2>1, <2>5 DEF x, y
<1>12. QED
  BY <1>9, <1>10, <1>11 DEF n

\* The field floats are as many as announced.
LEMMA FieldsTyped ==
    ASSUME NEW a
    PROVE  \E V : Int \subseteq V /\ FieldFloats(a) \in [1..FieldFloatCount -> V]
<1>. DEFINE F == FieldFloats(a)
            W == Int \cup {F[i] : i \in 1..FieldFloatCount}
<1>1. F = [i \in 1..FieldFloatCount |-> F[i]]
  BY DEF FieldFloats
<1>. HIDE DEF F
<1>2. F \in [1..FieldFloatCount -> W]
  BY <1>1
<1>3. QED
  BY <1>2 DEF F

\* A field channel is where its index says.
LEMMA FieldThere ==
    ASSUME NEW a, NEW f \in 0..(FieldCount - 1),
           NEW s \in 0..(FieldSamples - 1), NEW c \in 0..2
    PROVE  FieldFloats(a)[FieldIndex(f, s, c)] = Channels(a, f, s)[c + 1]
<1>. DEFINE w == FieldSamples
            q == w * f + s
            i == 3 * q + c + 1
<1>0. w \in Nat /\ w > 0 /\ f \in 0..2
  BY WireAssumption DEF FieldCount
<1>1. q \in Int /\ q \in 0..(3 * w - 1)
  BY <1>0
<1>2. FieldIndex(f, s, c) = i
  <2>1. f * w = w * f /\ w * f \in Int
    BY <1>0
  <2>2. FieldIndex(f, s, c) = (f * w + s) * 3 + c + 1
    BY DEF FieldIndex, FieldChannels
  <2>3. QED
    BY <1>0, <1>1, <2>1, <2>2
<1>3. q \div w = f /\ q % w = s
  BY <1>0, DivModUnique
<1>. HIDE DEF q
<1>4. (i - 1) \div 3 = q /\ (i - 1) % 3 = c
  BY <1>1
<1>5. i \in 1..FieldFloatCount
  <2>1. FieldFloatCount = 3 * w * 3
    BY DEF FieldFloatCount, FieldCount, FieldChannels
  <2>2. QED
    BY <1>0, <1>1, <2>1
<1>. HIDE DEF i, w
<1>6. FieldFloats(a)[i] = Channels(a, q \div FieldSamples, q % FieldSamples)[c + 1]
  BY <1>4, <1>5 DEF FieldFloats, FieldChannels
<1>7. QED
  BY <1>2, <1>3, <1>6 DEF w

-----------------------------------------------------------------------------
(* Neighbours *)

\* The views of the bodies in `order`.
ViewsOf(a, order) == Cleared \o [k \in DOMAIN order |-> View(a, order[k])]

\* What an agent was sent is what a listing of the nearest bodies makes of the
\* world as it is.
Faithful(a) ==
    \E order \in Nearest(a, Near(a, Radius[a])) :
      floats[a] = ToFloats(0, FieldFloats(a), Padded(ViewsOf(a, order)))

\* Only finitely many bodies are near.
LEMMA NearFinite ==
    ASSUME NEW a, NEW r
    PROVE  IsFiniteSet(Near(a, r)) /\ Cardinality(Near(a, r)) \in Nat
<1>1. Near(a, r) \subseteq Bodies
  BY DEF Near, Present
<1>2. QED
  BY <1>1, PerceptionAssumption, FS_Subset, FS_CardinalityType

\* A listing of the nearest is in order of distance, and who is left out of it
\* is no nearer than everybody in a full list.
LEMMA NearestFirst ==
    ASSUME NEW a, NEW r, NEW order \in Nearest(a, Near(a, r))
    PROVE  \E n \in 0..MaxNeighbors :
             /\ order \in [1..n -> Near(a, r)]
             /\ \A i, j \in 1..n : i < j => Distance(a, order[i]) <= Distance(a, order[j])
             /\ \A b \in Near(a, r) :
                  \/ \E k \in 1..n : order[k] = b
                  \/ /\ n = MaxNeighbors
                     /\ \A i \in 1..n : Distance(a, order[i]) <= Distance(a, b)
<1>. DEFINE S == Near(a, r)
            c == Cardinality(S)
            n == IF c < MaxNeighbors THEN c ELSE MaxNeighbors
<1>1. c \in Nat /\ IsFiniteSet(S)
  BY NearFinite
<1>2. /\ order \in [1..n -> S]
      /\ \A i, j \in 1..n :
           i < j => order[i] # order[j] /\ Distance(a, order[i]) <= Distance(a, order[j])
      /\ \A b \in S \ {order[i] : i \in 1..n}, i \in 1..n : Distance(a, order[i]) <= Distance(a, b)
  BY DEF Nearest
<1>. HIDE DEF S, c
<1>3. n \in 0..MaxNeighbors
  BY <1>1, Counts
<1>4. ASSUME n # MaxNeighbors, NEW b \in S
      PROVE  \E k \in 1..n : order[k] = b
  <2>1. n = Cardinality(S)
    BY <1>4 DEF c
  <2>2. order \in Injection(1..n, S)
    <3>1. \A i \in 1..n, j \in 1..n : order[i] = order[j] => i = j
      BY <1>2, <1>3
    <3>2. order \in [1..n -> S]
      BY <1>2
    <3>. HIDE DEF n
    <3>3. QED
      BY <3>1, <3>2 DEF Injection, IsInjective
  <2>3. Cardinality(1..n) = n
    BY <1>3, FS_Interval
  <2>4. order \in Surjection(1..n, S)
    BY <1>1, <2>1, <2>2, <2>3, FS_Injection
  <2>5. QED
    BY <2>4 DEF Surjection
<1>. HIDE DEF n
<1>5. \A b \in S : \/ \E k \in 1..n : order[k] = b
                   \/ /\ n = MaxNeighbors
                      /\ \A i \in 1..n : Distance(a, order[i]) <= Distance(a, b)
  BY <1>2, <1>4
<1>6. QED
  BY <1>2, <1>3, <1>5 DEF S

\* What a view says of a body tells its distance, place and tags.
LEMMA ViewTyped ==
    ASSUME Placed, NEW a \in Agents, a \in Present, NEW b \in Present
    PROVE  /\ View(a, b) \in Neighbor
           /\ View(a, b).valid /\ View(a, b).tags = TagsOf[b]
           /\ Square(View(a, b).rel) = Distance(a, b)
           /\ Plus(pos[a], Turned(View(a, b).rel, turn[a])) = pos[b]
<1>. DEFINE v == Minus(pos[b], pos[a])
<1>1. pos[a] \in Vector /\ pos[b] \in Vector /\ b \in Bodies
  BY PresentPlaced
<1>2. v \in Vector /\ Plus(pos[a], v) = pos[b]
  BY <1>1 DEF Minus, Plus, Vector
<1>3. turn[a] \in 0..3
  BY PerceptionAssumption DEF Placed
<1>4. TagsOf[b] \in 0..(Chunk * Chunk * Chunk * Chunk - 1)
  BY <1>1, PerceptionAssumption
<1>5. Distance(a, b) = Square(v) /\ View(a, b).rel = Turned(v, -turn[a])
  BY DEF Distance, View, InFrame
<1>. HIDE DEF v
<1>6. /\ View(a, b).rel \in Vector /\ Square(View(a, b).rel) = Distance(a, b)
      /\ Turned(View(a, b).rel, turn[a]) = v
  BY <1>2, <1>3, <1>5, TurnedBack
<1>7. QED
  BY <1>2, <1>4, <1>6 DEF View, Neighbor, Vector

\* A padded list of views.
LEMMA PaddedViews ==
    ASSUME Placed, NEW a \in Agents, a \in Present, NEW n \in 0..MaxNeighbors,
           NEW order \in [1..n -> Present]
    PROVE  /\ Padded(ViewsOf(a, order)) \in [1..MaxNeighbors -> Neighbor]
           /\ \A k \in 1..MaxNeighbors :
                Padded(ViewsOf(a, order))[k] = IF k \in 1..n THEN View(a, order[k]) ELSE Ghost
<1>. DEFINE views == [k \in 1..n |-> View(a, order[k])]
<1>1. views \in Seq(Neighbor) /\ DOMAIN views = 1..n
  BY ViewTyped
<1>2. ViewsOf(a, order) = <<>> \o views
  BY DEF ViewsOf, Cleared
<1>3. <<>> \o views = views
  <2>. HIDE DEF views
  <2>1. QED
    BY <1>1, ConcatEmptySeq
<1>4. Ghost \in Neighbor
  <2>1. 0 \in 0..(Chunk * Chunk * Chunk * Chunk - 1)
    BY WireAssumption
  <2>2. QED
    BY <2>1 DEF Ghost, Neighbor
<1>5. \A k \in 1..n : views[k] = View(a, order[k]) /\ views[k] \in Neighbor
  BY ViewTyped
<1>6. ViewsOf(a, order) = views
  BY <1>2, <1>3
<1>. HIDE DEF views
<1>7. QED
  BY <1>1, <1>4, <1>5, <1>6 DEF Padded

\* What a program decodes lists the n bodies of `order`: near ones, in order of
\* distance, nobody left out of a list that is not full or who is nearer.
Listing(a, n, order) ==
    /\ n \in 0..MaxNeighbors /\ order \in [1..n -> Near(a, Radius[a])]
    /\ \A k \in 1..MaxNeighbors :
         NeighborsOf(floats[a])[k] = IF k \in 1..n THEN View(a, order[k]) ELSE Ghost
    /\ \A i, j \in 1..n : i < j => Distance(a, order[i]) <= Distance(a, order[j])
    /\ \A b \in Near(a, Radius[a]) :
         \/ \E k \in 1..n : order[k] = b
         \/ /\ n = MaxNeighbors
            /\ \A i \in 1..n : Distance(a, order[i]) <= Distance(a, b)

\* What a program decodes from a faithful observation.
LEMMA Shows ==
    ASSUME Placed, NEW a \in Agents, a \in Present, Faithful(a)
    PROVE  /\ Len(floats[a]) = ObservationLen
           /\ FieldOf(floats[a]) = FieldFloats(a)
           /\ \E n, order : Listing(a, n, order)
<1>1. PICK order \in Nearest(a, Near(a, Radius[a])) :
        floats[a] = ToFloats(0, FieldFloats(a), Padded(ViewsOf(a, order)))
  BY DEF Faithful
<1>2. PICK n \in 0..MaxNeighbors :
        /\ order \in [1..n -> Near(a, Radius[a])]
        /\ \A i, j \in 1..n : i < j => Distance(a, order[i]) <= Distance(a, order[j])
        /\ \A b \in Near(a, Radius[a]) :
             \/ \E k \in 1..n : order[k] = b
             \/ /\ n = MaxNeighbors
                /\ \A i \in 1..n : Distance(a, order[i]) <= Distance(a, b)
  BY NearestFirst
<1>3. order \in [1..n -> Present]
  BY <1>2 DEF Near
<1>. DEFINE list == Padded(ViewsOf(a, order))
<1>4. /\ list \in [1..MaxNeighbors -> Neighbor]
      /\ \A k \in 1..MaxNeighbors : list[k] = IF k \in 1..n THEN View(a, order[k]) ELSE Ghost
  BY <1>3, PaddedViews
<1>5. PICK V : Int \subseteq V /\ FieldFloats(a) \in [1..FieldFloatCount -> V]
  BY FieldsTyped
<1>6. floats[a] = ToFloats(0, FieldFloats(a), list)
  BY <1>1
<1>. HIDE DEF list
<1>7. /\ Len(floats[a]) = ObservationLen /\ FieldOf(floats[a]) = FieldFloats(a)
      /\ NeighborsOf(floats[a]) = list
  <2>. DEFINE field == FieldFloats(a)
  <2>1. field \in [1..FieldFloatCount -> V] /\ Int \subseteq V /\ 0 \in Int
    BY <1>5
  <2>. HIDE DEF field
  <2>. DEFINE wire == ToFloats(0, field, list)
  <2>2. /\ Len(wire) = ObservationLen
        /\ FieldOf(wire) = field
        /\ NeighborsOf(wire) = list
    <3>1. Len(wire) = ObservationLen
      BY <1>4, <2>1, ObservationThere
    <3>2. FieldOf(wire) = field
      BY <1>4, <2>1, ObservationThere
    <3>3. NeighborsOf(wire) = list
      BY <1>4, <2>1, ObservationThere
    <3>4. QED
      BY <3>1, <3>2, <3>3
  <2>3. QED
    BY <1>6, <2>2 DEF field
<1>8. Listing(a, n, order)
  BY <1>2, <1>4, <1>7 DEF Listing
<1>9. QED
  BY <1>7, <1>8

-----------------------------------------------------------------------------
(* The inductive invariant *)

\* A command within its bands.
InBands(c) ==
    /\ c.force \in 0..Unit /\ c.torque \in -Unit..Unit /\ c.clamp \in 0..Unit
    /\ c.freq \in (-16 * Unit)..(16 * Unit) /\ c.phase \in 0..Turn

\* What a program may ask for.
Asked == [force : Nat \cup {NonFinite}, torque : Int \cup {NonFinite},
          clamp : Int \cup {NonFinite}, freq : Int \cup {NonFinite},
          phase : Int \cup {NonFinite}]

\* Whatever is asked for is brought into its band (sanitize).
LEMMA SanitizedInBands ==
    ASSUME NEW c \in Asked
    PROVE  /\ InBands(Sanitized(c)) /\ Sanitized(c) \in Asked
<1>1. Unit \in Nat /\ Unit > 0 /\ Root \in Nat /\ Turn \in Nat /\ Turn > 0 /\ NonFinite \notin Int
  BY WireAssumption
<1>2. /\ Finite(c.force) \in Nat /\ Finite(c.torque) \in Int /\ Finite(c.clamp) \in Int
      /\ Finite(c.freq) \in Int /\ Finite(c.phase) \in Int
  BY <1>1 DEF Finite, Asked
<1>3. \A v \in Nat : Scaled(v) \in 0..Unit
  BY <1>1 DEF Scaled
<1>4. \A v \in Int : Phase(v) \in 0..Turn
  <2>. SUFFICES ASSUME NEW v \in Int PROVE Phase(v) \in 0..Turn
    OBVIOUS
  <2>1. v % Turn \in 0..(Turn - 1)
    BY <1>1, DivMod
  <2>2. QED
    BY <1>1, <2>1 DEF Phase
<1>5. \A v \in Int : /\ Band(v, -Unit, Unit) \in -Unit..Unit /\ Band(v, 0, Unit) \in 0..Unit
                     /\ Band(v, -16 * Unit, 16 * Unit) \in (-16 * Unit)..(16 * Unit)
  BY <1>1 DEF Band
<1>6. InBands(Sanitized(c))
  BY <1>2, <1>3, <1>4, <1>5 DEF InBands, Sanitized
<1>7. Sanitized(c) \in Asked
  BY <1>1, <1>6 DEF InBands, Sanitized, Asked
<1>8. QED
  BY <1>6, <1>7

\* The inductive invariant: bodies are somewhere and agents in the world; while
\* a tick's systems run the hash is the one of the places as they are; an agent
\* that was visited holds a faithful observation and the stamp of this tick; a
\* clamp has seized a nearest body.
IInv ==
    /\ Placed /\ Agents \subseteq Present
    /\ step \in 0..(Word * Word - 1) /\ ticks \in 0..MaxTicks
    /\ phase \in {"rebuild", "gather", "apply", "physics"} /\ jobs \subseteq Agents
    /\ phase # "rebuild" => cells = Rebuilt
    /\ DOMAIN floats = Agents /\ DOMAIN pending = Agents /\ seized \in [Agents -> Bodies \cup {None}]
    /\ \A a \in Agents : Shown(a) => Faithful(a)
    /\ \A a \in Agents :
         /\ InBands(pending[a].action)
         /\ Shown(a) => pending[a].step = step /\ pending[a].entity = a
    /\ \A a \in Agents : seized[a] # None =>
         phase \in {"apply", "physics"} /\ seized[a] \in Closest(a)

\* The action an agent is given when it has none is in its bands.
LEMMA NoActionTyped == InBands(NoAction.action)
<1>1. [force |-> 0, torque |-> 0, clamp |-> 0, freq |-> 0, phase |-> 0] \in Asked
  BY DEF Asked
<1>2. QED
  BY <1>1, SanitizedInBands DEF NoAction

\* The invariant holds at the start, and every system keeps it.
LEMMA InitIInv == Init => IInv
<1>. SUFFICES ASSUME Init PROVE IInv
  OBVIOUS
<1>1. pos \in [Bodies -> Places \cup {Away}] /\ \A a \in Agents : pos[a] # Away
  BY PerceptionAssumption DEF Init
<1>2. Placed /\ Agents \subseteq Present
  BY <1>1, PerceptionAssumption DEF Init, Placed, Present
<1>3. \A a \in Agents : ~Shown(a)
  BY DEF Init, Shown
<1>4. \A a \in Agents : InBands(pending[a].action)
  BY NoActionTyped DEF Init
<1>5. QED
  BY <1>2, <1>3, <1>4, PerceptionAssumption DEF Init, IInv, None

\* A tick begins: the hash is rebuilt, nobody has been shown anything.
LEMMA RebuildIInv == ASSUME IInv, RebuildSpatialHash PROVE IInv'
<1>1. /\ phase = "rebuild" /\ phase' = "gather" /\ jobs' = Agents /\ cells' = Rebuilt
      /\ pending' = [a \in Agents |-> NoAction]
      /\ UNCHANGED <<pos, turn, step, ticks, scratch, floats, seized>>
  BY DEF RebuildSpatialHash, Runs
<1>2. Placed' /\ Agents \subseteq Present'
  BY <1>1 DEF IInv, Placed, Present
<1>3. cells' = Rebuilt'
  BY <1>1 DEF Rebuilt, Present
<1>4. \A a \in Agents : ~Shown(a)'
  BY <1>1 DEF Shown
<1>5. \A a \in Agents : InBands(pending'[a].action)
  BY <1>1, NoActionTyped
<1>6. \A a \in Agents : seized'[a] = None
  BY <1>1 DEF IInv
<1>7. /\ step' \in 0..(Word * Word - 1) /\ ticks' \in 0..MaxTicks
      /\ DOMAIN floats' = Agents /\ seized' \in [Agents -> Bodies \cup {None}]
  BY <1>1 DEF IInv
<1>8. QED
  BY <1>1, <1>2, <1>3, <1>4, <1>5, <1>6, <1>7 DEF IInv

\* While bodies stay, what an agent was sent stays faithful.
LEMMA FaithfulStays ==
    ASSUME UNCHANGED <<pos, turn>>, NEW a, floats'[a] = floats[a], Faithful(a)
    PROVE  Faithful(a)'
  BY DEF Faithful, ViewsOf, Cleared, View, InFrame, FieldFloats, Channels, ProbeOf, Near, Present,
     Nearest, Distance

\* An agent is shown the world and answers.
LEMMA GatherIInv == ASSUME IInv, NEW a \in Agents, GatherAction(a) PROVE IInv'
<1>1. /\ phase = "gather" /\ a \in jobs /\ UNCHANGED <<pos, turn, cells, step, ticks, seized>>
      /\ jobs' = IF jobs = {a} THEN Agents ELSE jobs \ {a}
      /\ phase' = IF jobs = {a} THEN "apply" ELSE "gather"
  BY DEF GatherAction, Runs, NextJob
<1>2. Placed' /\ Agents \subseteq Present' /\ cells' = Rebuilt'
  BY <1>1 DEF IInv, Placed, Present, Rebuilt
<1>3. a \in Present /\ Placed /\ cells = Rebuilt /\ Radius[a] \in Nat
  BY <1>1, PerceptionAssumption DEF IInv
<1>4. PICK order \in Nearest(a, Near(a, Radius[a])) :
        floats' = [floats EXCEPT ![a] = ToFloats(0, FieldFloats(a), Padded(ViewsOf(a, order)))]
  <2>1. Sensed(a, Radius[a]) = Near(a, Radius[a])
    BY <1>3, SensedIsNear
  <2>2. QED
    BY <2>1 DEF GatherAction, Observed, ViewsOf
<1>5. DOMAIN floats' = Agents /\ Faithful(a)'
  <2>1. floats'[a] = ToFloats(0, FieldFloats(a), Padded(ViewsOf(a, order))) /\ DOMAIN floats' = Agents
    BY <1>4 DEF IInv
  <2>2. /\ FieldFloats(a)' = FieldFloats(a) /\ ViewsOf(a, order)' = ViewsOf(a, order)
        /\ Nearest(a, Near(a, Radius[a]))' = Nearest(a, Near(a, Radius[a]))
    BY <1>1 DEF ViewsOf, Cleared, View, InFrame, FieldFloats, Channels, ProbeOf, Near, Present,
       Nearest, Distance
  <2>3. QED
    BY <1>4, <2>1, <2>2 DEF Faithful
<1>6. \A b \in Agents : Shown(b)' => b = a \/ Shown(b)
  BY <1>1 DEF Shown
<1>7. \A b \in Agents : Shown(b)' => Faithful(b)'
  <2>1. \A b \in Agents \ {a} : floats'[b] = floats[b]
    BY <1>4 DEF IInv
  <2>2. \A b \in Agents \ {a} : Shown(b)' => Faithful(b)'
    BY <1>1, <1>6, <2>1, FaithfulStays DEF IInv
  <2>3. QED
    BY <1>5, <2>2
<1>8. PICK answer \in Answers :
        pending' = [pending EXCEPT ![a] = [action |-> Sanitized(Sanitized(answer)),
                                           step |-> Number(Words(step)),
                                           entity |-> Number(Words(a))]]
  BY DEF GatherAction
<1>9. /\ DOMAIN pending' = Agents
      /\ \A b \in Agents :
           /\ InBands(pending'[b].action)
           /\ Shown(b)' => pending'[b].step = step' /\ pending'[b].entity = b
  <2>1. InBands(Sanitized(Sanitized(answer)))
    BY SanitizedInBands, PerceptionAssumption DEF Asked
  <2>2. Number(Words(step)) = step /\ Number(Words(a)) = a
    BY StampThere, PerceptionAssumption DEF IInv
  <2>3. DOMAIN pending = Agents
    BY DEF IInv
  <2>4. /\ DOMAIN pending' = Agents /\ \A b \in Agents \ {a} : pending'[b] = pending[b]
        /\ pending'[a] = [action |-> Sanitized(Sanitized(answer)), step |-> step, entity |-> a]
    BY <1>8, <2>2, <2>3
  <2>5. QED
    BY <1>1, <1>6, <2>1, <2>4 DEF IInv
<1>10. \A b \in Agents : seized'[b] = None
  BY <1>1 DEF IInv
<1>11. /\ step' \in 0..(Word * Word - 1) /\ ticks' \in 0..MaxTicks /\ jobs' \subseteq Agents
       /\ phase' \in {"rebuild", "gather", "apply", "physics"}
       /\ seized' \in [Agents -> Bodies \cup {None}]
  BY <1>1 DEF IInv
<1>12. QED
  BY <1>2, <1>5, <1>7, <1>9, <1>10, <1>11 DEF IInv

\* An agent's clamp seizes.
LEMMA ApplyIInv == ASSUME IInv, NEW a \in Agents, ApplyActuators(a) PROVE IInv'
<1>1. /\ phase = "apply" /\ phase' \in {"apply", "physics"}
      /\ UNCHANGED <<pos, turn, cells, step, ticks, scratch, floats, pending>>
      /\ jobs' = jobs \ {a}
      /\ \/ UNCHANGED seized
         \/ \E b \in Closest(a) : seized' = [seized EXCEPT ![a] = b]
  BY DEF ApplyActuators, Runs
<1>2. Placed' /\ Agents \subseteq Present' /\ cells' = Rebuilt'
  BY <1>1 DEF IInv, Placed, Present, Rebuilt
<1>3. \A b \in Agents : Shown(b) /\ Shown(b)'
  BY <1>1 DEF Shown
<1>4. \A b \in Agents : Faithful(b)'
  BY <1>1, <1>3, FaithfulStays DEF IInv
<1>5. \A b \in Agents : Closest(b)' = Closest(b)
  BY <1>1 DEF Closest, Sensed, QueryRadius, Distance, Present
<1>6. Closest(a) \subseteq Bodies
  BY DEF Closest, Sensed, Present
<1>7. /\ seized' \in [Agents -> Bodies \cup {None}]
      /\ \A b \in Agents : seized'[b] # None => seized'[b] \in Closest(b)
  BY <1>1, <1>6 DEF IInv
<1>8. /\ step' \in 0..(Word * Word - 1) /\ ticks' \in 0..MaxTicks /\ jobs' \subseteq Agents
      /\ DOMAIN floats' = Agents /\ DOMAIN pending' = Agents
      /\ \A b \in Agents : InBands(pending'[b].action) /\ pending'[b].step = step'
                           /\ pending'[b].entity = b
  BY <1>1, <1>3 DEF IInv
<1>9. QED
  BY <1>1, <1>2, <1>4, <1>5, <1>7, <1>8 DEF IInv

\* To be away is to be at no place.
LEMMA AwayNowhere == Away \notin Places
<1>1. ASSUME NEW q \in Int \X Int PROVE q # <<>>
  <2>1. PICK x \in Int, y \in Int : q = <<x, y>>
    BY <1>1
  <2>2. Len(q) = 2
    BY <2>1
  <2>3. Len(<<>>) = 0
    OBVIOUS
  <2>4. QED
    BY <2>2, <2>3
<1>2. Places \subseteq Int \X Int
  BY PerceptionAssumption
<1>3. QED
  BY <1>1, <1>2 DEF Away

\* A body moves, and nothing anybody was shown counts any more.
LEMMA PhysicsIInv == ASSUME IInv, Physics PROVE IInv'
<1>1. /\ phase = "physics" /\ phase' = "rebuild" /\ ticks < MaxTicks /\ ticks' = ticks + 1
      /\ step' = (IF step = Word * Word - 1 THEN step ELSE step + 1)
      /\ seized' = [a \in Agents |-> None]
      /\ UNCHANGED <<cells, jobs, scratch, floats, pending>>
  BY DEF Physics, Runs
<1>2. Placed' /\ Agents \subseteq Present'
  <2>1. PICK b \in Bodies :
          \/ \E p \in Places \cup (IF b \in Agents THEN {} ELSE {Away}) :
               pos' = [pos EXCEPT ![b] = p] /\ UNCHANGED turn
          \/ turn' = [turn EXCEPT ![b] = (@ + 1) % 4] /\ UNCHANGED pos
    BY DEF Physics
  <2>2. ASSUME NEW p \in Places \cup (IF b \in Agents THEN {} ELSE {Away}),
               pos' = [pos EXCEPT ![b] = p], UNCHANGED turn
        PROVE  Placed' /\ Agents \subseteq Present'
    <3>1. pos' \in [Bodies -> Places \cup {Away}]
      BY <2>2 DEF IInv, Placed
    <3>2. Away \notin Places
      BY AwayNowhere
    <3>3. \A a \in Agents : pos'[a] # Away
      BY <2>2, <3>2 DEF IInv, Present, Placed
    <3>4. QED
      BY <2>2, <3>1, <3>3, PerceptionAssumption DEF IInv, Placed, Present
  <2>3. ASSUME turn' = [turn EXCEPT ![b] = (@ + 1) % 4], UNCHANGED pos
        PROVE  Placed' /\ Agents \subseteq Present'
    <3>1. turn' \in [Bodies -> 0..3]
      BY <2>3 DEF IInv, Placed
    <3>2. QED
      BY <2>3, <3>1 DEF IInv, Placed, Present
  <2>4. QED
    BY <2>1, <2>2, <2>3
<1>3. \A a \in Agents : ~Shown(a)'
  BY <1>1 DEF Shown
<1>4. step' \in 0..(Word * Word - 1)
  <2>. DEFINE top == Word * Word - 1
  <2>1. top \in Int
    BY WireAssumption
  <2>2. step \in 0..top /\ step' = IF step = top THEN step ELSE step + 1
    BY <1>1 DEF IInv
  <2>. HIDE DEF top
  <2>3. step' \in 0..top
    BY <2>1, <2>2
  <2>4. QED
    BY <2>3 DEF top
<1>5. ticks' \in 0..MaxTicks
  BY <1>1, PerceptionAssumption DEF IInv
<1>6. QED
  BY <1>1, <1>2, <1>3, <1>4, <1>5 DEF IInv

\* Every step keeps the invariant.
LEMMA NextIInv == IInv /\ [Next]_vars => IInv'
<1>. SUFFICES ASSUME IInv, [Next]_vars PROVE IInv'
  OBVIOUS
<1>1. CASE Next
  BY <1>1, RebuildIInv, GatherIInv, ApplyIInv, PhysicsIInv DEF Next
<1>2. CASE UNCHANGED vars
  <2>1. UNCHANGED <<pos, turn, cells, step, ticks, phase, jobs, floats, pending, seized>>
    BY <1>2 DEF vars
  <2>2. \A a \in Agents : (Shown(a)' <=> Shown(a)) /\ Closest(a)' = Closest(a)
    BY <2>1 DEF Shown, Closest, Sensed, QueryRadius, Distance, Present
  <2>3. \A a \in Agents : Shown(a)' => Faithful(a)'
    BY <2>1, <2>2, FaithfulStays DEF IInv
  <2>4. Placed' /\ Present' = Present /\ Rebuilt' = Rebuilt
    BY <2>1 DEF IInv, Placed, Present, Rebuilt
  <2>5. QED
    BY <2>1, <2>2, <2>3, <2>4 DEF IInv
<1>3. QED
  BY <1>1, <1>2

-----------------------------------------------------------------------------
(* Theorems *)

\* So it always holds.
LEMMA InductiveInvariant == Spec => []IInv
  BY InitIInv, NextIInv, PTL DEF Spec

\* What the invariant says of an agent that was visited.
LEMMA ShownFaithfully ==
    ASSUME IInv, NEW a \in Agents, Shown(a)
    PROVE  Placed /\ a \in Present /\ Faithful(a) /\ Radius[a] \in Nat /\ pos[a] \in Vector
  BY PresentPlaced, PerceptionAssumption DEF IInv

\* Every observation has the configured length, whatever is near.
THEOREM PerceptionTypeCorrect == Spec => []TypeOK
<1>1. IInv => TypeOK
  <2>. SUFFICES ASSUME IInv PROVE TypeOK
    OBVIOUS
  <2>1. \A a \in Agents : Shown(a) => Len(floats[a]) = ObservationLen
    BY ShownFaithfully, Shows
  <2>2. QED
    BY <2>1 DEF IInv, Placed, TypeOK
<1>2. QED
  BY <1>1, InductiveInvariant, PTL

\* Every command is finite, in its bands and stamped as the answer to this
\* tick's observation of its agent.
THEOREM CommandsAreSound == Spec => []CommandsSound
<1>1. IInv => CommandsSound
  BY DEF IInv, CommandsSound, InBands, Shown
<1>2. QED
  BY <1>1, InductiveInvariant, PTL

\* Every field is read where PROTOCOL.md says, at the agent and on a ring around
\* it that is even, closed and turns with it, with the slope at each place seen
\* in the agent's frame: for every field, every number of samples, and all turns.
THEOREM FieldsAreFaithful == Spec => []FieldsFaithful
<1>1. IInv => FieldsFaithful
  <2>. DEFINE corners == FieldSamples - 1
              Channel(a, f, s, c) == FieldOf(floats[a])[FieldIndex(f, s, c)]
              Place(a, f, s) == Channel(a, f, s, 0).place
              Apart(a, f, s, t) == (Place(a, f, t).angle - Place(a, f, s).angle) % Circle
  <2>1. ASSUME IInv, NEW a \in Agents, Shown(a), NEW f \in 0..(FieldCount - 1)
        PROVE  /\ \A s \in 0..corners :
                    /\ Channel(a, f, s, 0).field = f /\ Place(a, f, s).from = pos[a]
                    /\ Place(a, f, s).out = IF s = 0 THEN 0 ELSE Radius[a]
                    /\ Turned(<<Channel(a, f, s, 1), Channel(a, f, s, 2)>>, turn[a])
                         = Slope(f, Place(a, f, s))
               /\ corners > 0 => 4 * Place(a, f, 1).angle = turn[a] * Circle
               /\ corners > 1 =>
                    /\ \A s \in 1..(corners - 1) : corners * Apart(a, f, s, s + 1) = Circle
                    /\ corners * Apart(a, f, corners, 1) = Circle
    <3>0. FieldSamples \in Nat /\ FieldSamples > 0
      BY WireAssumption
    <3>1. Placed /\ a \in Present /\ Faithful(a) /\ pos[a] \in Places
      BY <2>1, ShownFaithfully DEF Placed, Present
    <3>2. FieldOf(floats[a]) = FieldFloats(a)
      BY <2>1, <3>1, Shows
    <3>3. ASSUME NEW s \in 0..corners, NEW c \in 0..2
          PROVE  Channel(a, f, s, c) = Channels(a, f, s)[c + 1]
      BY <2>1, <3>2, <3>3, FieldThere
    <3>4. ASSUME NEW s \in 0..corners
          PROVE  /\ Channel(a, f, s, 0) = Sampled(f, ProbeOf(a, s))
                 /\ Turned(<<Channel(a, f, s, 1), Channel(a, f, s, 2)>>, turn[a])
                      = Slope(f, ProbeOf(a, s))
      <4>1. /\ Channel(a, f, s, 0) = Channels(a, f, s)[1]
            /\ Channel(a, f, s, 1) = Channels(a, f, s)[2]
            /\ Channel(a, f, s, 2) = Channels(a, f, s)[3]
        <5>. HIDE DEF Channel
        <5>1. QED
          BY <3>3
      <4>. HIDE DEF Channel
      <4>2. QED
        BY <2>1, <3>1, <4>1, ChannelsThere
    <3>. HIDE DEF Channel
    <3>5. \A s \in 0..corners : Channel(a, f, s, 0).field = f /\ Place(a, f, s) = ProbeOf(a, s)
      <4>. SUFFICES ASSUME NEW s \in 0..corners
                    PROVE  Channel(a, f, s, 0).field = f /\ Place(a, f, s) = ProbeOf(a, s)
        OBVIOUS
      <4>1. Channel(a, f, s, 0) = [field |-> f, place |-> ProbeOf(a, s)]
        BY <3>4 DEF Sampled
      <4>2. QED
        BY <4>1
    <3>. HIDE DEF Place
    <3>6. \A s \in 0..corners :
            /\ Place(a, f, s).from = pos[a]
            /\ Place(a, f, s).out = IF s = 0 THEN 0 ELSE Radius[a]
      BY <3>0, <3>5 DEF ProbeOf
    <3>7. \A s \in 0..corners : Turned(<<Channel(a, f, s, 1), Channel(a, f, s, 2)>>, turn[a])
                                   = Slope(f, Place(a, f, s))
      BY <3>4, <3>5
    <3>8. CASE corners > 0
      <4>1. FieldSamples > 1 /\ 1 \in 0..corners /\ corners \in 0..corners
            /\ \A s \in 1..(corners - 1) : s \in 0..corners /\ s + 1 \in 0..corners
        BY <3>0, <3>8
      <4>2. /\ 4 * ProbeOf(a, 1).angle = turn[a] * Circle
            /\ corners > 1 =>
                 /\ \A s \in 1..(corners - 1) :
                      corners * ((ProbeOf(a, s + 1).angle - ProbeOf(a, s).angle) % Circle) = Circle
                 /\ corners * ((ProbeOf(a, 1).angle - ProbeOf(a, corners).angle) % Circle) = Circle
        BY <2>1, <3>1, <4>1, RingEven
      <4>. HIDE DEF corners
      <4>3. QED
        BY <3>5, <3>6, <3>7, <4>1, <4>2
    <3>9. CASE ~(corners > 0)
      BY <3>0, <3>5, <3>6, <3>7, <3>9
    <3>10. QED
      BY <3>8, <3>9
  <2>2. QED
    BY <2>1 DEF FieldsFaithful
<1>2. QED
  BY <1>1, InductiveInvariant, PTL

\* What is decoded from a faithful observation is the world around the agent.
LEMMA FaithfulView ==
    ASSUME IInv, NEW a \in Agents, Shown(a)
    PROVE  LET shown == NeighborsOf(floats[a])
               Valid == {k \in 1..MaxNeighbors : shown[k].valid}
               Where(k) == Plus(pos[a], Turned(shown[k].rel, turn[a]))
               Is(k, b) == pos[b] = Where(k) /\ TagsOf[b] = shown[k].tags
           IN /\ \A k \in Valid : \A j \in 1..k :
                   j \in Valid /\ Square(shown[j].rel) <= Square(shown[k].rel)
              /\ \A k \in Valid :
                   /\ Square(shown[k].rel) <= Radius[a] * Radius[a]
                   /\ \E b \in Present \ {a} : Is(k, b)
              /\ \A b \in Present \ {a} :
                   \/ \E k \in Valid : Is(k, b)
                   \/ Distance(a, b) > Radius[a] * Radius[a]
                   \/ Valid = 1..MaxNeighbors /\ Square(shown[MaxNeighbors].rel) <= Distance(a, b)
<1>. DEFINE shown == NeighborsOf(floats[a])
            Valid == {k \in 1..MaxNeighbors : shown[k].valid}
            Where(k) == Plus(pos[a], Turned(shown[k].rel, turn[a]))
            Is(k, b) == pos[b] = Where(k) /\ TagsOf[b] = shown[k].tags
            r == Radius[a]
<1>1. Placed /\ a \in Present /\ Faithful(a) /\ r \in Nat /\ pos[a] \in Vector
  BY ShownFaithfully
<1>2. PICK n, order : Listing(a, n, order)
  BY <1>1, Shows
<1>3. /\ n \in 0..MaxNeighbors /\ order \in [1..n -> Near(a, r)]
      /\ \A k \in 1..MaxNeighbors :
           shown[k] = IF k \in 1..n THEN View(a, order[k]) ELSE Ghost
      /\ \A i, j \in 1..n : i < j => Distance(a, order[i]) <= Distance(a, order[j])
      /\ \A b \in Near(a, r) :
           \/ \E k \in 1..n : order[k] = b
           \/ /\ n = MaxNeighbors
              /\ \A i \in 1..n : Distance(a, order[i]) <= Distance(a, b)
  BY <1>2 DEF Listing
<1>. HIDE DEF shown
<1>4. MaxNeighbors \in Nat /\ MaxNeighbors > 0 /\ n \in Nat /\ n <= MaxNeighbors
  BY <1>3, Counts
<1>5. Valid = 1..n
  <2>1. \A k \in 1..n : shown[k].valid
    <3>1. \A k \in 1..n : order[k] \in Present
      BY <1>3 DEF Near
    <3>2. \A k \in 1..n : k \in 1..MaxNeighbors /\ shown[k] = View(a, order[k])
      BY <1>3, <1>4
    <3>3. QED
      BY <1>1, <3>1, <3>2, ViewTyped
  <2>2. \A k \in 1..MaxNeighbors : k \notin 1..n => ~shown[k].valid
    BY <1>3 DEF Ghost
  <2>3. QED
    BY <1>4, <2>1, <2>2
<1>6. \A k \in 1..n : /\ order[k] \in Near(a, r) /\ order[k] \in Present \ {a}
                      /\ Square(shown[k].rel) = Distance(a, order[k])
                      /\ Is(k, order[k])
  <2>1. \A k \in 1..n : /\ order[k] \in Near(a, r) /\ order[k] \in Present \ {a}
                        /\ shown[k] = View(a, order[k])
    BY <1>3, <1>4 DEF Near
  <2>2. QED
    BY <1>1, <2>1, ViewTyped
<1>. HIDE DEF Valid, Where
<1>7. \A k \in 1..n : Distance(a, order[k]) \in Int
  <2>1. \A k \in 1..n : pos[order[k]] \in Vector
    BY <1>1, <1>6, PresentPlaced
  <2>2. QED
    BY <1>1, <2>1 DEF Distance, Square, Minus, Vector
<1>8. ASSUME NEW k \in Valid, NEW j \in 1..k
      PROVE  j \in Valid /\ Square(shown[j].rel) <= Square(shown[k].rel)
  <2>1. k \in 1..n /\ j \in 1..n /\ j <= k
    BY <1>4, <1>5, <1>8
  <2>2. Distance(a, order[j]) <= Distance(a, order[k])
    BY <1>3, <1>7, <2>1
  <2>3. QED
    BY <1>5, <1>6, <2>1, <2>2
<1>9. ASSUME NEW k \in Valid
      PROVE  Square(shown[k].rel) <= r * r /\ \E b \in Present \ {a} : Is(k, b)
  BY <1>5, <1>6, <1>9 DEF Near
<1>10. ASSUME NEW b \in Present \ {a}
       PROVE  \/ \E k \in Valid : Is(k, b)
              \/ Distance(a, b) > r * r
              \/ Valid = 1..MaxNeighbors /\ Square(shown[MaxNeighbors].rel) <= Distance(a, b)
  <2>1. CASE b \in Near(a, r)
    <3>1. CASE \E k \in 1..n : order[k] = b
      BY <1>5, <1>6, <3>1
    <3>2. CASE n = MaxNeighbors /\ \A i \in 1..n : Distance(a, order[i]) <= Distance(a, b)
      <4>1. MaxNeighbors \in 1..n
        BY <1>4, <3>2
      <4>2. QED
        BY <1>5, <1>6, <3>2, <4>1
    <3>3. QED
      BY <1>3, <2>1, <3>1, <3>2
  <2>2. CASE b \notin Near(a, r)
    <3>1. Distance(a, b) \in Int /\ r * r \in Int
      <4>1. pos[b] \in Vector
        BY <1>1, PresentPlaced
      <4>2. QED
        BY <1>1, <4>1 DEF Distance, Square, Minus, Vector
    <3>2. ~(Distance(a, b) <= r * r)
      BY <2>2 DEF Near
    <3>3. QED
      BY <3>1, <3>2
  <2>3. QED
    BY <2>1, <2>2
<1>11. QED
  BY <1>8, <1>9, <1>10 DEF shown, Valid, Where

\* What a program decodes is the world around its agent.
THEOREM ViewIsFaithful == Spec => []ViewFaithful
<1>1. IInv => ViewFaithful
  BY FaithfulView DEF ViewFaithful
<1>2. QED
  BY <1>1, InductiveInvariant, PTL

\* A clamp seizes a body as near as the first neighbour its program was shown.
THEOREM SeizesTheShown == Spec => []SeizesWhatWasShown
<1>1. IInv => SeizesWhatWasShown
  <2>. SUFFICES ASSUME IInv, NEW a \in Agents, phase \in {"apply", "physics"}, seized[a] # None
                PROVE  LET first == NeighborsOf(floats[a])[1]
                       IN /\ Radius[a] >= Reach => first.valid
                          /\ first.valid /\ Square(first.rel) <= Reach * Reach =>
                               Distance(a, seized[a]) = Square(first.rel)
    BY DEF SeizesWhatWasShown
  <2>. DEFINE first == NeighborsOf(floats[a])[1]
              b == seized[a]
              r == Radius[a]
  <2>1. Shown(a)
    BY DEF Shown
  <2>2. Placed /\ a \in Present /\ Faithful(a) /\ r \in Nat /\ pos[a] \in Vector
    BY <2>1, ShownFaithfully
  <2>3. Reach \in Nat
    BY PerceptionAssumption
  <2>4. cells = Rebuilt
    BY DEF IInv
  <2>5. /\ b \in Near(a, Reach)
        /\ \A c \in Near(a, Reach) : Distance(a, b) <= Distance(a, c)
    <3>1. Sensed(a, Reach) = Near(a, Reach)
      BY <2>2, <2>3, <2>4, SensedIsNear
    <3>2. b \in Closest(a)
      BY DEF IInv
    <3>3. QED
      BY <3>1, <3>2 DEF Closest
  <2>6. PICK n, order : Listing(a, n, order)
    BY <2>2, Shows
  <2>7. /\ n \in 0..MaxNeighbors /\ order \in [1..n -> Near(a, r)]
        /\ \A k \in 1..MaxNeighbors :
             NeighborsOf(floats[a])[k] = IF k \in 1..n THEN View(a, order[k]) ELSE Ghost
        /\ \A i, j \in 1..n : i < j => Distance(a, order[i]) <= Distance(a, order[j])
        /\ \A c \in Near(a, r) :
             \/ \E k \in 1..n : order[k] = c
             \/ /\ n = MaxNeighbors
                /\ \A i \in 1..n : Distance(a, order[i]) <= Distance(a, c)
    BY <2>6 DEF Listing
  <2>8. MaxNeighbors \in Nat /\ MaxNeighbors > 0 /\ n \in Nat /\ 1 \in 1..MaxNeighbors
    BY <2>7, Counts
  <2>9. first = IF 1 \in 1..n THEN View(a, order[1]) ELSE Ghost
    BY <2>7, <2>8
  <2>. HIDE DEF first
  <2>10. \A c \in Present : Distance(a, c) \in Int
    <3>1. \A c \in Present : pos[c] \in Vector
      BY <2>2, PresentPlaced
    <3>2. QED
      BY <2>2, <3>1 DEF Distance, Square, Minus, Vector
  <2>11. Reach * Reach \in Int /\ r * r \in Int /\ (r >= Reach => Reach * Reach <= r * r)
    <3>1. \A x \in Nat, y \in Nat : x >= y => y * y <= x * x
      OBVIOUS
    <3>2. QED
      BY <2>2, <2>3, <3>1
  <2>12. b \in Present /\ b # a /\ Distance(a, b) <= Reach * Reach
    BY <2>5 DEF Near
  <2>13. first.valid <=> 1 \in 1..n
    <3>1. 1 \in 1..n => order[1] \in Present
      BY <2>7 DEF Near
    <3>2. QED
      BY <2>2, <2>9, <3>1, ViewTyped DEF Ghost
  <2>14. ASSUME b \in Near(a, r)
         PROVE  1 \in 1..n /\ Distance(a, order[1]) <= Distance(a, b)
    <3>1. CASE \E k \in 1..n : order[k] = b
      <4>1. PICK k \in 1..n : order[k] = b
        BY <3>1
      <4>2. 1 \in 1..n /\ (k = 1 \/ 1 < k)
        BY <2>8
      <4>3. QED
        BY <2>7, <2>10, <2>12, <4>1, <4>2
    <3>2. CASE n = MaxNeighbors /\ \A i \in 1..n : Distance(a, order[i]) <= Distance(a, b)
      BY <2>8, <3>2
    <3>3. QED
      BY <2>7, <2>14, <3>1, <3>2
  <2>15. ASSUME r >= Reach PROVE first.valid
    <3>1. b \in Near(a, r)
      BY <2>10, <2>11, <2>12, <2>15 DEF Near
    <3>2. QED
      BY <2>13, <2>14, <3>1
  <2>16. ASSUME first.valid, Square(first.rel) <= Reach * Reach
         PROVE  Distance(a, b) = Square(first.rel)
    <3>1. 1 \in 1..n /\ order[1] \in Near(a, r) /\ order[1] \in Present /\ order[1] # a
      BY <2>7, <2>13, <2>16 DEF Near
    <3>2. first = View(a, order[1]) /\ Square(first.rel) = Distance(a, order[1])
      BY <2>2, <2>9, <3>1, ViewTyped
    <3>3. order[1] \in Near(a, Reach)
      BY <2>16, <3>1, <3>2 DEF Near
    <3>4. Distance(a, b) <= Distance(a, order[1])
      BY <2>5, <3>3
    <3>5. b \in Near(a, r)
      <4>1. Distance(a, order[1]) <= r * r
        BY <3>1 DEF Near
      <4>2. Distance(a, b) <= r * r
        BY <2>10, <2>11, <2>12, <3>1, <3>4, <4>1
      <4>3. QED
        BY <2>12, <4>2 DEF Near
    <3>6. Distance(a, order[1]) <= Distance(a, b)
      BY <2>14, <3>5
    <3>7. QED
      BY <2>10, <2>12, <3>1, <3>2, <3>4, <3>6
  <2>17. QED
    BY <2>15, <2>16 DEF first
<1>2. QED
  BY <1>1, InductiveInvariant, PTL
=============================================================================
