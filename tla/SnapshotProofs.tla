--------------------------- MODULE SnapshotProofs ---------------------------
(***************************************************************************)
(* For any number of bodies, joints, ticks and losses, whatever breaks,    *)
(* dies, streams away, is despawned by the embedding program or is         *)
(* restored: no body is taken from under a joint that still holds it, no   *)
(* two bodies share an identity, none is published twice, actors find      *)
(* clamps and joints that agree, and what is restored is what was saved.   *)
(***************************************************************************)
EXTENDS Snapshots, FiniteOrders, SequenceTheorems

(* Lists of commands. *)

IsSeq(q) == q \in Seq({q[k] : k \in 1..Len(q)})
Bears(q) == \A k \in 1..Len(q) : q[k].op = "spawn" => q[k].value # "none"
IsList(q) == IsSeq(q) /\ Bears(q)
Spares(q) == \A k \in 1..Len(q) : q[k].op # "despawn"
JoinsNone(q) == \A k \in 1..Len(q) : q[k].op # "join"

\* Whatever is despawned has lost its joints before.
Unhooks(q, joints) ==
  \A k \in 1..Len(q) : q[k].op = "despawn" =>
    \A j \in Joints :
      joints[j] # NoJoint /\ q[k].body \in {joints[j].owner, joints[j].target}
        => \E i \in 1..(k - 1) : q[i].op = "unjoin" /\ q[i].joint = j

Orderly(q, joints) == IsList(q) /\ JoinsNone(q) /\ Unhooks(q, joints)

QueueInv ==
  /\ body = [b \in Bodies |-> body[b]] /\ joint = [j \in Joints |-> joint[j]]
  /\ IsList(commands)
  /\ Spares(commands) \/ Orderly(commands, joint)
  /\ phase = "act" => Spares(commands)

LEMMA EmptyList == IsList(<<>>) /\ Spares(<<>>) /\ JoinsNone(<<>>)
BY DEF IsList, IsSeq, Bears, Spares, JoinsNone

LEMMA Sequences ==
  ASSUME NEW T, NEW q \in Seq(T)
  PROVE  IsSeq(q)
<1> DEFINE n == Len(q)
           S == {q[k] : k \in 1..n}
<1>1. n \in Nat /\ q \in [1..n -> T]
  OBVIOUS
<1>2. q \in [1..n -> S]
  BY <1>1
<1> HIDE DEF S
<1>3. q \in Seq(S)
  BY <1>1, <1>2, SeqDef
<1> QED
  BY <1>3 DEF IsSeq, S

LEMMA SingleList ==
  ASSUME NEW c, c.op \notin {"despawn", "spawn"}
  PROVE  IsList(<<c>>) /\ Spares(<<c>>)
BY DEF IsList, IsSeq, Bears, Spares

LEMMA SparesIsOrderly ==
  ASSUME NEW q, NEW joints, IsList(q), Spares(q), JoinsNone(q)
  PROVE  Orderly(q, joints)
BY DEF Orderly, Spares, Unhooks

LEMMA ListsJoin ==
  ASSUME NEW p, NEW q, IsList(p), IsList(q)
  PROVE  /\ Len(p) \in Nat /\ Len(q) \in Nat
         /\ IsList(p \o q) /\ Len(p \o q) = Len(p) + Len(q)
         /\ \A k \in 1..(Len(p) + Len(q)) :
              (p \o q)[k] = IF k <= Len(p) THEN p[k] ELSE q[k - Len(p)]
<1> DEFINE S == {p[k] : k \in 1..Len(p)} \cup {q[k] : k \in 1..Len(q)}
<1>1. p \in Seq({p[k] : k \in 1..Len(p)}) /\ q \in Seq({q[k] : k \in 1..Len(q)})
  BY DEF IsList, IsSeq
<1>2. Len(p) \in Nat /\ Len(q) \in Nat
  BY <1>1
<1>3. p \in Seq(S) /\ q \in Seq(S)
  BY <1>1
<1> HIDE DEF S
<1>4. /\ p \o q \in Seq(S) /\ Len(p \o q) = Len(p) + Len(q)
      /\ \A k \in 1..(Len(p) + Len(q)) :
           (p \o q)[k] = IF k <= Len(p) THEN p[k] ELSE q[k - Len(p)]
  BY <1>3, ConcatProperties
<1>5. IsSeq(p \o q)
  BY <1>4, Sequences
<1>6. ASSUME NEW k \in 1..(Len(p) + Len(q)), (p \o q)[k].op = "spawn"
      PROVE  (p \o q)[k].value # "none"
  <2>1. CASE k <= Len(p)
    BY <1>2, <1>4, <1>6, <2>1 DEF IsList, Bears
  <2>2. CASE ~ (k <= Len(p))
    <3>1. k - Len(p) \in 1..Len(q)
      BY <1>2, <2>2
    <3> QED
      BY <1>4, <1>6, <2>2, <3>1 DEF IsList, Bears
  <2> QED
    BY <2>1, <2>2
<1>7. IsList(p \o q)
  BY <1>4, <1>5, <1>6 DEF IsList, Bears
<1> QED
  BY <1>2, <1>4, <1>7

LEMMA SparedJoin ==
  ASSUME NEW p, NEW q, IsList(p), IsList(q), Spares(p), Spares(q)
  PROVE  IsList(p \o q) /\ Spares(p \o q)
<1> DEFINE both == p \o q
           m == Len(p)
           n == Len(q)
<1>1. /\ m \in Nat /\ n \in Nat /\ IsList(both) /\ Len(both) = m + n
      /\ \A k \in 1..(m + n) : both[k] = IF k <= m THEN p[k] ELSE q[k - m]
  BY ListsJoin
<1>2. /\ \A k \in 1..m : p[k].op # "despawn"
      /\ \A k \in 1..n : q[k].op # "despawn"
  BY DEF Spares
<1> HIDE DEF both, m, n
<1>3. ASSUME NEW k \in 1..(m + n) PROVE both[k].op # "despawn"
  <2>1. CASE k <= m
    BY <1>1, <1>2, <2>1
  <2>2. CASE ~ (k <= m)
    <3>1. k - m \in 1..n
      BY <1>1, <2>2
    <3> QED
      BY <1>1, <1>2, <2>2, <3>1
  <2> QED
    BY <2>1, <2>2
<1>4. IsList(both) /\ Spares(both)
  BY <1>1, <1>3 DEF Spares
<1> QED
  BY <1>4 DEF both

LEMMA OrderlyJoin ==
  ASSUME NEW p, NEW q, NEW joints, Orderly(p, joints), Orderly(q, joints)
  PROVE  Orderly(p \o q, joints)
<1> DEFINE both == p \o q
           m == Len(p)
           n == Len(q)
           Touches(c, j) == joints[j] # NoJoint /\ c.body \in {joints[j].owner, joints[j].target}
           Unjoins(c, j) == c.op = "unjoin" /\ c.joint = j
<1>1. /\ m \in Nat /\ n \in Nat /\ IsList(both) /\ Len(both) = m + n
      /\ \A k \in 1..(m + n) : both[k] = IF k <= m THEN p[k] ELSE q[k - m]
  BY ListsJoin DEF Orderly
<1>2. /\ \A k \in 1..m : p[k].op # "join"
      /\ \A k \in 1..n : q[k].op # "join"
  BY DEF Orderly, JoinsNone
<1>3. /\ \A k \in 1..m : p[k].op = "despawn" =>
           \A j \in Joints : Touches(p[k], j) => \E i \in 1..(k - 1) : Unjoins(p[i], j)
      /\ \A k \in 1..n : q[k].op = "despawn" =>
           \A j \in Joints : Touches(q[k], j) => \E i \in 1..(k - 1) : Unjoins(q[i], j)
  BY DEF Orderly, Unhooks
<1> HIDE DEF both, m, n, Touches, Unjoins
<1>4. ASSUME NEW k \in 1..(m + n)
      PROVE  \/ k \in 1..m /\ both[k] = p[k]
             \/ k - m \in 1..n /\ both[k] = q[k - m]
  BY <1>1
<1>5. \A k \in 1..(m + n) : both[k].op # "join"
  BY <1>2, <1>4
<1>6. ASSUME NEW k \in 1..(m + n), both[k].op = "despawn", NEW j \in Joints,
             Touches(both[k], j)
      PROVE  \E i \in 1..(k - 1) : Unjoins(both[i], j)
  <2>1. CASE k \in 1..m /\ both[k] = p[k]
    <3>1. PICK i \in 1..(k - 1) : Unjoins(p[i], j)
      BY <1>3, <1>6, <2>1
    <3>2. i \in 1..(m + n) /\ i <= m
      BY <1>1, <2>1
    <3>3. both[i] = p[i]
      BY <1>1, <3>2
    <3> QED
      BY <3>1, <3>3
  <2>2. CASE k - m \in 1..n /\ both[k] = q[k - m]
    <3>1. PICK i \in 1..((k - m) - 1) : Unjoins(q[i], j)
      BY <1>3, <1>6, <2>2
    <3>2. /\ i + m \in 1..(k - 1) /\ i + m \in 1..(m + n) /\ ~ (i + m <= m)
          /\ (i + m) - m = i
      BY <1>1, <2>2
    <3>3. both[i + m] = q[i]
      BY <1>1, <3>2
    <3> QED
      BY <3>1, <3>2, <3>3
  <2> QED
    BY <1>4, <2>1, <2>2
<1>7. JoinsNone(both)
  BY <1>1, <1>5 DEF JoinsNone
<1>8. Unhooks(both, joints)
  BY <1>1, <1>6 DEF Unhooks, Touches, Unjoins
<1> QED
  BY <1>1, <1>7, <1>8 DEF Orderly, both

(* What the systems queue. *)

LEMMA UnjoinsQueued ==
  ASSUME NEW S, IsFiniteSet(S)
  PROVE  /\ IsList(Queue(Unjoin, S)) /\ Spares(Queue(Unjoin, S))
         /\ JoinsNone(Queue(Unjoin, S))
         /\ \A k \in 1..Len(Queue(Unjoin, S)) : Queue(Unjoin, S)[k].op = "unjoin"
         /\ \A j \in S : \E k \in 1..Len(Queue(Unjoin, S)) : Queue(Unjoin, S)[k].joint = j
<1> DEFINE n == Cardinality(S)
           order == SetToSeq(S)
           q == Queue(Unjoin, S)
<1>1. /\ order \in [1..n -> S] /\ n \in Nat
      /\ \A j \in S : \E k \in 1..n : order[k] = j
  BY LaidOutOnce
<1>2. q = [k \in 1..n |-> Unjoin(order[k])]
  BY <1>1 DEF Queue
<1> HIDE DEF n, order, q
<1>3. \A k \in 1..n : q[k].op = "unjoin" /\ q[k].joint = order[k]
  BY <1>2 DEF Unjoin, Command
<1>4. q \in Seq({q[k] : k \in 1..n}) /\ Len(q) = n
  BY <1>1, <1>2
<1>5. IsList(q) /\ Spares(q) /\ JoinsNone(q)
  BY <1>3, <1>4 DEF IsList, IsSeq, Bears, Spares, JoinsNone
<1>6. \A j \in S : \E k \in 1..n : q[k].joint = j
  BY <1>1, <1>3
<1> QED
  BY <1>3, <1>4, <1>5, <1>6 DEF q

LEMMA DespawnsQueued ==
  ASSUME NEW S, IsFiniteSet(S)
  PROVE  /\ IsList(Queue(Despawn, S)) /\ JoinsNone(Queue(Despawn, S))
         /\ \A k \in 1..Len(Queue(Despawn, S)) : Queue(Despawn, S)[k].body \in S
<1> DEFINE n == Cardinality(S)
           order == SetToSeq(S)
           q == Queue(Despawn, S)
<1>1. order \in [1..n -> S] /\ n \in Nat
  BY LaidOutOnce
<1>2. q = [k \in 1..n |-> Despawn(order[k])]
  BY <1>1 DEF Queue
<1> HIDE DEF n, order, q
<1>3. \A k \in 1..n : q[k].op = "despawn" /\ q[k].body \in S
  BY <1>1, <1>2 DEF Despawn, Command
<1>4. q \in Seq({q[k] : k \in 1..n}) /\ Len(q) = n
  BY <1>1, <1>2
<1> QED
  BY <1>3, <1>4 DEF IsList, IsSeq, Bears, JoinsNone, q

Spawns(S, kind) == [k \in DOMAIN SetToSeq(S) |-> Spawn(SetToSeq(S)[k], kind)]

LEMMA SpawnsQueued ==
  ASSUME NEW S, IsFiniteSet(S), NEW kind, kind # "none"
  PROVE  IsList(Spawns(S, kind)) /\ Spares(Spawns(S, kind)) /\ JoinsNone(Spawns(S, kind))
<1> DEFINE n == Cardinality(S)
           order == SetToSeq(S)
           q == Spawns(S, kind)
<1>1. order \in [1..n -> S] /\ n \in Nat
  BY LaidOutOnce
<1>2. q = [k \in 1..n |-> Spawn(order[k], kind)]
  BY <1>1 DEF Spawns
<1> HIDE DEF n, order, q
<1>3. \A k \in 1..n : q[k].op = "spawn" /\ q[k].value = kind
  BY <1>1, <1>2 DEF Spawn, Command
<1>4. q \in Seq({q[k] : k \in 1..n}) /\ Len(q) = n
  BY <1>1, <1>2
<1> QED
  BY <1>3, <1>4 DEF IsList, IsSeq, Bears, JoinsNone, Spares, q

LEMMA FiniteEntities ==
  IsFiniteSet(Bodies) /\ IsFiniteSet(Joints) /\ Bodies \subseteq Nat
BY FS_Interval, ClampAssumption DEF Bodies, Joints

LEMMA FinitePieces ==
  /\ \A n : IsFiniteSet(FirstBodies(n))
  /\ \A bodies : IsFiniteSet(Touching(bodies)) /\ Touching(bodies) \subseteq Joints
  /\ IsFiniteSet(Orphans)
<1>1. \A n : FirstBodies(n) \in SUBSET Bodies
  BY DEF FirstBodies, FreshBodies
<1>2. \A bodies : Touching(bodies) \in SUBSET Joints
  BY DEF Touching, Held
<1>3. Orphans \in SUBSET Joints
  BY DEF Orphans, Held
<1> QED
  BY <1>1, <1>2, <1>3, FiniteEntities, FS_Subset

\* The joints of bodies that go are queued before the bodies.
LEMMA DespawnIsOrderly ==
  ASSUME NEW bodies \in SUBSET Bodies
  PROVE  Orderly(DespawnEntities(bodies), joint)
<1> DEFINE p == Queue(Unjoin, Touching(bodies))
           q == Queue(Despawn, bodies)
           both == p \o q
           m == Len(p)
           n == Len(q)
<1>1. IsFiniteSet(bodies) /\ IsFiniteSet(Touching(bodies))
  BY FiniteEntities, FinitePieces, FS_Subset
<1>2. /\ IsList(p) /\ JoinsNone(p)
      /\ \A k \in 1..m : p[k].op = "unjoin"
      /\ \A j \in Touching(bodies) : \E k \in 1..m : p[k].joint = j
  BY <1>1, UnjoinsQueued
<1>3. IsList(q) /\ JoinsNone(q) /\ \A k \in 1..n : q[k].body \in bodies
  BY <1>1, DespawnsQueued
<1> HIDE DEF p, q
<1>4. /\ m \in Nat /\ n \in Nat /\ IsList(both) /\ Len(both) = m + n
      /\ \A k \in 1..(m + n) : both[k] = IF k <= m THEN p[k] ELSE q[k - m]
  BY <1>2, <1>3, ListsJoin
<1>5. /\ \A k \in 1..m : p[k].op # "join"
      /\ \A k \in 1..n : q[k].op # "join"
  BY <1>2, <1>3 DEF JoinsNone
<1> HIDE DEF both, m, n
<1>6. ASSUME NEW k \in 1..(m + n)
      PROVE  \/ k \in 1..m /\ both[k] = p[k]
             \/ k - m \in 1..n /\ m < k /\ both[k] = q[k - m]
  BY <1>4
<1>7. \A k \in 1..(m + n) : both[k].op # "join"
  BY <1>5, <1>6
<1>8. ASSUME NEW k \in 1..(m + n), both[k].op = "despawn", NEW j \in Joints,
             joint[j] # NoJoint, both[k].body \in {joint[j].owner, joint[j].target}
      PROVE  \E i \in 1..(k - 1) : both[i].op = "unjoin" /\ both[i].joint = j
  <2>1. k - m \in 1..n /\ m < k /\ both[k] = q[k - m]
    BY <1>2, <1>6, <1>8
  <2>2. both[k].body \in bodies
    BY <1>3, <2>1
  <2>3. j \in Touching(bodies)
    BY <1>8, <2>2 DEF Touching, Held
  <2>4. PICK i \in 1..m : p[i].joint = j
    BY <1>2, <2>3
  <2>5. i \in 1..(k - 1) /\ i \in 1..(m + n) /\ i <= m
    BY <1>4, <2>1
  <2>6. both[i] = p[i]
    BY <1>4, <2>5
  <2> QED
    BY <1>2, <2>4, <2>5, <2>6
<1>9. JoinsNone(both)
  BY <1>4, <1>7 DEF JoinsNone
<1>10. Unhooks(both, joint)
  BY <1>4, <1>8 DEF Unhooks
<1> QED
  BY <1>4, <1>9, <1>10 DEF Orderly, both, p, q, DespawnEntities

(* The queue through the systems of a tick. *)

LEMMA QueueInit == Init => QueueInv
<1> SUFFICES ASSUME Init PROVE QueueInv
  OBVIOUS
<1>1. /\ body \in [Bodies -> Kind \cup {"none"}]
      /\ joint = [j \in Joints |-> NoJoint] /\ commands = <<>>
  BY ClampAssumption DEF Init, ClampInit
<1> QED
  BY <1>1, EmptyList DEF QueueInv

\* A command is applied; what it undid is undone for the commands behind it.
LEMMA ApplyKeepsQueue ==
  ASSUME QueueInv, ApplyCommand
  PROVE  QueueInv'
<1> DEFINE c == commands[1]
           n == Len(commands)
<1>1. /\ commands # <<>> /\ phase # "act" /\ phase' = phase
      /\ commands' = Tail(commands)
      /\ \/ c.op = "unjoin" /\ joint' = [joint EXCEPT ![c.joint] = NoJoint] /\ body' = body
         \/ /\ c.op = "join" /\ body' = body
            /\ joint' = [joint EXCEPT ![c.joint] = [owner |-> c.body, target |-> c.value]]
         \/ c.op = "despawn" /\ joint' = joint /\ body' = [body EXCEPT ![c.body] = "none"]
         \/ c.op = "spawn" /\ joint' = joint /\ body' = [body EXCEPT ![c.body] = c.value]
  BY DEF ApplyCommand
<1>2. commands \in Seq({commands[k] : k \in 1..Len(commands)})
  BY DEF QueueInv, IsList, IsSeq
<1>3. n \in Nat /\ n > 0
  BY <1>1, <1>2
<1>4. /\ Len(commands') = n - 1
      /\ \A k \in 1..(n - 1) : commands'[k] = commands[k + 1]
  BY <1>1, <1>2
<1>5. IsList(commands')
  <2>1. commands' \in Seq({commands[k] : k \in 1..Len(commands)})
    BY <1>1, <1>2
  <2>2. \A k \in 1..n : commands[k].op = "spawn" => commands[k].value # "none"
    BY DEF QueueInv, IsList, Bears
  <2>3. \A k \in 1..(n - 1) : commands'[k].op = "spawn" => commands'[k].value # "none"
    <3> HIDE DEF n
    <3> QED
      BY <1>3, <1>4, <2>2
  <2> QED
    BY <1>4, <2>1, <2>3, Sequences DEF IsList, Bears
<1>6. body' = [b \in Bodies |-> body'[b]] /\ joint' = [j \in Joints |-> joint'[j]]
  BY <1>1 DEF QueueInv
<1> HIDE DEF c, n
<1>7. CASE Spares(commands)
  <2>1. \A k \in 1..n : commands[k].op # "despawn"
    BY <1>7 DEF Spares, n
  <2>2. \A k \in 1..(n - 1) : commands'[k].op # "despawn"
    BY <1>3, <1>4, <2>1
  <2>3. Spares(commands')
    BY <1>4, <2>2 DEF Spares
  <2> QED
    BY <1>1, <1>5, <1>6, <2>3 DEF QueueInv, IsList, IsSeq, Bears, Spares
<1>8. CASE Orderly(commands, joint)
  <2>1. \A k \in 1..n : commands[k].op # "join"
    BY <1>8 DEF Orderly, JoinsNone, n
  <2>2. \A k \in 1..(n - 1) : commands'[k].op # "join"
    BY <1>3, <1>4, <2>1
  <2>3. c.op # "join"
    BY <1>3, <2>1 DEF c
  <2>4. ASSUME NEW j \in Joints, joint'[j] # NoJoint
        PROVE  joint'[j] = joint[j] /\ ~ (c.op = "unjoin" /\ c.joint = j)
    BY <1>1, <2>3, <2>4 DEF QueueInv
  <2>5. ASSUME NEW k \in 1..(n - 1), commands'[k].op = "despawn", NEW j \in Joints,
               joint'[j] # NoJoint, commands'[k].body \in {joint'[j].owner, joint'[j].target}
        PROVE  \E i \in 1..(k - 1) : commands'[i].op = "unjoin" /\ commands'[i].joint = j
    <3>1. k + 1 \in 1..n /\ commands'[k] = commands[k + 1]
      BY <1>3, <1>4
    <3>2. PICK i \in 1..((k + 1) - 1) : commands[i].op = "unjoin" /\ commands[i].joint = j
      BY <1>8, <2>4, <2>5, <3>1 DEF Orderly, Unhooks, n
    <3>3. i # 1
      BY <2>4, <2>5, <3>2 DEF c
    <3>4. i - 1 \in 1..(k - 1) /\ i - 1 \in 1..(n - 1) /\ (i - 1) + 1 = i
      BY <1>3, <3>3
    <3>5. commands'[i - 1] = commands[i]
      BY <1>4, <3>4
    <3> QED
      BY <3>2, <3>4, <3>5
  <2>6. JoinsNone(commands')
    BY <1>4, <2>2 DEF JoinsNone
  <2>7. Unhooks(commands', joint')
    BY <1>4, <2>5 DEF Unhooks
  <2>8. Orderly(commands', joint')
    BY <1>5, <2>6, <2>7 DEF Orderly
  <2>9. QueueInv' <=> /\ body' = [b \in Bodies |-> body'[b]]
                      /\ joint' = [j \in Joints |-> joint'[j]]
                      /\ IsList(commands')
                      /\ Spares(commands') \/ Orderly(commands', joint')
                      /\ phase' = "act" => Spares(commands')
    BY DEF QueueInv, IsList, IsSeq, Bears, Spares, Orderly, JoinsNone, Unhooks
  <2> QED
    BY <1>1, <1>5, <1>6, <2>8, <2>9
<1> QED
  BY <1>7, <1>8 DEF QueueInv

\* A system that leaves bodies and joints alone queues a list of one of two kinds.
LEMMA QueuedAnew ==
  ASSUME QueueInv, UNCHANGED <<body, joint>>, IsList(commands'),
         Spares(commands') \/ (phase' # "act" /\ Orderly(commands', joint))
  PROVE  QueueInv'
<1>1. IsList(commands)' /\ (Spares(commands)' <=> Spares(commands'))
  BY DEF IsList, IsSeq, Bears, Spares
<1>2. Orderly(commands, joint)' <=> Orderly(commands', joint)
  BY DEF Orderly, IsList, IsSeq, Bears, JoinsNone, Unhooks
<1> QED
  BY <1>1, <1>2 DEF QueueInv

\* Nothing is queued and bodies and joints may change.
LEMMA NothingQueued ==
  ASSUME commands' = <<>>, body' = [b \in Bodies |-> body'[b]],
         joint' = [j \in Joints |-> joint'[j]]
  PROVE  QueueInv'
<1>1. IsList(commands)' /\ Spares(commands)'
  BY EmptyList DEF IsList, IsSeq, Bears, Spares
<1> QED
  BY <1>1 DEF QueueInv

LEMMA CleanupKeepsQueue ==
  ASSUME QueueInv, Cleanup
  PROVE  QueueInv'
<1> DEFINE freed == {clamp[a].joint : a \in Broken}
           p == Queue(Unjoin, Orphans)
           q == Queue(Unjoin, freed \ {None})
<1>1. IsFiniteSet(freed \ {None})
  <2>1. IsFiniteSet(Broken)
    <3>1. Broken \in SUBSET Bodies
      BY DEF Broken, Agents
    <3> QED
      BY <3>1, FiniteEntities, FS_Subset
  <2>2. [a \in Broken |-> clamp[a].joint] \in Surjection(Broken, freed)
    BY DEF Surjection
  <2>3. IsFiniteSet(freed)
    BY <2>1, <2>2, FS_Surjection
  <2>4. freed \ {None} \in SUBSET freed
    OBVIOUS
  <2> QED
    BY <2>3, <2>4, FS_Subset
<1> HIDE DEF freed
<1>2. IsList(p) /\ Spares(p)
  BY FinitePieces, UnjoinsQueued
<1>3. IsList(q) /\ Spares(q)
  BY <1>1, UnjoinsQueued
<1>4. UNCHANGED <<body, joint>> /\ commands' = p \o q
  BY DEF Cleanup, freed
<1> HIDE DEF p, q
<1>5. IsList(commands') /\ Spares(commands')
  BY <1>2, <1>3, <1>4, SparedJoin
<1> QED
  BY <1>4, <1>5, QueuedAnew

LEMMA ActKeepsQueue ==
  ASSUME QueueInv, NEW a \in Bodies, Act(a)
  PROVE  QueueInv'
<1>1. IsList(commands) /\ Spares(commands)
  BY DEF QueueInv, Act
<1>2. PICK seized, opened, dropped :
        /\ commands' = commands \o seized \o opened \o dropped
        /\ IsList(seized) /\ Spares(seized)
        /\ IsList(opened) /\ Spares(opened)
        /\ IsList(dropped) /\ Spares(dropped)
  <2>1. \A c : IsList(Unhand(c)) /\ Spares(Unhand(c))
    <3>1. \A c : Unhand(c) = <<>> \/ \E j : Unhand(c) = <<Unjoin(j)>>
      BY DEF Unhand
    <3>2. \A j : Unjoin(j).op \notin {"despawn", "spawn"}
      BY DEF Unjoin, Command
    <3> QED
      BY <3>1, <3>2, EmptyList, SingleList
  <2>2. \A j, t : IsList(<<Join(j, a, t)>>) /\ Spares(<<Join(j, a, t)>>)
    <3>1. \A j, t : Join(j, a, t).op \notin {"despawn", "spawn"}
      BY DEF Join, Command
    <3> QED
      BY <3>1, SingleList
  <2>3. PICK want \in BOOLEAN, spent \in BOOLEAN, near \in (Present \ {a}) \cup {None} :
          ApplyOne(a, want, spent, near)
    BY DEF Act
  <2> DEFINE c == Cooled(clamp[a])
             seizes == want /\ c.cool = 0 /\ c.target = None /\ near # None
             j == CHOOSE k \in FreshJoints : TRUE
             wished == IF seizes THEN [c EXCEPT !.target = near, !.joint = j]
                       ELSE IF want THEN c ELSE Opened(c)
             drops == wished.target # None /\ (wished.target \notin Present \/ spent)
             seized == IF seizes THEN <<Join(j, a, near)>> ELSE <<>>
             opened == IF want THEN <<>> ELSE Unhand(c)
             dropped == IF drops THEN Unhand(wished) ELSE <<>>
  <2>4. commands' = commands \o seized \o opened \o dropped
    BY <2>3 DEF ApplyOne
  <2> HIDE DEF c, seizes, j, wished, drops
  <2>5. /\ IsList(seized) /\ Spares(seized)
        /\ IsList(opened) /\ Spares(opened)
        /\ IsList(dropped) /\ Spares(dropped)
    BY <2>1, <2>2, EmptyList
  <2> HIDE DEF seized, opened, dropped
  <2> QED
    BY <2>4, <2>5
<1>3. IsList(commands') /\ Spares(commands')
  <2>1. IsList(commands \o seized) /\ Spares(commands \o seized)
    BY <1>1, <1>2, SparedJoin
  <2>2. IsList(commands \o seized \o opened) /\ Spares(commands \o seized \o opened)
    BY <1>2, <2>1, SparedJoin
  <2> QED
    BY <1>2, <2>2, SparedJoin
<1>4. UNCHANGED <<body, joint>>
  BY DEF Act
<1> QED
  BY <1>3, <1>4, QueuedAnew

LEMMA EconomyKeepsQueue ==
  ASSUME QueueInv, Economy
  PROVE  QueueInv'
<1>1. UNCHANGED <<body, joint>>
  BY DEF Economy
<1>2. CASE commands' = <<>>
  BY <1>1, <1>2, EmptyList, QueuedAnew
<1>3. CASE commands' # <<>>
  <2>1. PICK kind \in Arrivals : commands' = Spawns(FirstBodies(1), kind)
    BY <1>3 DEF Economy, Queue, Spawns
  <2>2. IsList(commands') /\ Spares(commands')
    BY <2>1, FinitePieces, SpawnsQueued, ClampAssumption
  <2> QED
    BY <1>1, <2>2, QueuedAnew
<1> QED
  BY <1>2, <1>3

LEMMA FragmentKeepsQueue ==
  ASSUME QueueInv, Fragment
  PROVE  QueueInv'
<1>1. PICK victims \in Losses(Present) : \E n :
        commands' = DespawnEntities(victims) \o Spawns(FirstBodies(n), "inert")
  BY DEF Fragment, Queue, Spawns
<1>2. PICK n : commands' = DespawnEntities(victims) \o Spawns(FirstBodies(n), "inert")
  BY <1>1
<1> DEFINE p == DespawnEntities(victims)
           q == Spawns(FirstBodies(n), "inert")
<1>3. victims \in SUBSET Bodies
  BY DEF Losses, Present
<1>4. Orderly(p, joint)
  BY <1>3, DespawnIsOrderly
<1>5. IsList(q) /\ Spares(q) /\ JoinsNone(q)
  BY FinitePieces, SpawnsQueued
<1> HIDE DEF p, q
<1>6. commands' = p \o q
  BY <1>2 DEF p, q
<1>7. Orderly(commands', joint)
  BY <1>4, <1>5, <1>6, SparesIsOrderly, OrderlyJoin
<1>8. IsList(commands')
  BY <1>7 DEF Orderly
<1>9. UNCHANGED <<body, joint>> /\ phase' # "act"
  BY DEF Fragment
<1> QED
  BY <1>7, <1>8, <1>9, QueuedAnew

LEMMA StreamKeepsQueue ==
  ASSUME QueueInv, StreamChunks
  PROVE  QueueInv'
<1>1. PICK gone \in Losses(Present \ Agents),
           new \in {{}} \cup {FirstBodies(1) : kind \in Arrivals \ {"agent"}} :
        commands' = Spawns(new, "inert") \o DespawnEntities(gone)
  BY DEF StreamChunks, Queue, Spawns
<1> DEFINE p == Spawns(new, "inert")
           q == DespawnEntities(gone)
<1>2. gone \in SUBSET Bodies
  BY DEF Losses, Present
<1>3. IsFiniteSet(new)
  <2>1. new = {} \/ new = FirstBodies(1)
    OBVIOUS
  <2> QED
    BY <2>1, FinitePieces, FS_EmptySet
<1>4. IsList(p) /\ Spares(p) /\ JoinsNone(p)
  BY <1>3, SpawnsQueued
<1>5. Orderly(q, joint)
  BY <1>2, DespawnIsOrderly
<1> HIDE DEF p, q
<1>6. commands' = p \o q
  BY <1>1 DEF p, q
<1>7. Orderly(commands', joint)
  BY <1>4, <1>5, <1>6, SparesIsOrderly, OrderlyJoin
<1>8. IsList(commands')
  BY <1>7 DEF Orderly
<1>9. UNCHANGED <<body, joint>> /\ phase' # "act"
  BY DEF StreamChunks
<1> QED
  BY <1>7, <1>8, <1>9, QueuedAnew

LEMMA QueueStep == QueueInv /\ [Next]_vars => QueueInv'
<1> SUFFICES ASSUME QueueInv, [Next]_vars PROVE QueueInv'
  OBVIOUS
<1>1. CASE UNCHANGED <<body, joint, commands>> /\ phase' # "act"
  <2>1. IsList(commands) /\ (Spares(commands) \/ Orderly(commands, joint))
    BY DEF QueueInv
  <2> QED
    BY <1>1, <2>1, QueuedAnew
<1>2. CASE Gather
  BY <1>2, EmptyList, QueuedAnew DEF Gather, Runs
<1>3. CASE RunDeaths
  <2>1. /\ commands' = <<>> /\ body' = [b \in Bodies |-> body'[b]]
        /\ joint' = [j \in Joints |-> joint'[j]]
    BY <1>3 DEF RunDeaths, Runs
  <2> QED
    BY <2>1, NothingQueued
<1>4. CASE NextTick
  BY <1>1, <1>4 DEF NextTick
<1>5. ASSUME NEW b \in Bodies, RemoveEntity(b) PROVE QueueInv'
  <2>1. /\ commands' = <<>> /\ body' = [c \in Bodies |-> body'[c]]
        /\ joint' = [j \in Joints |-> joint'[j]]
    BY <1>5 DEF RemoveEntity, Runs, QueueInv
  <2> QED
    BY <2>1, NothingQueued
<1>6. CASE Restore
  <2>1. /\ commands' = <<>> /\ body' = [c \in Bodies |-> body'[c]]
        /\ joint' = [j \in Joints |-> joint'[j]]
    BY <1>6 DEF Restore, Runs, RestoredBody, RestoredJoint
  <2> QED
    BY <2>1, NothingQueued
<1>7. CASE UNCHANGED clampVars
  <2>1. UNCHANGED <<body, joint, commands, phase>>
    BY <1>7 DEF clampVars
  <2> QED
    BY <2>1 DEF QueueInv, IsList, IsSeq, Bears, Spares, Orderly, JoinsNone, Unhooks
<1>8. CASE EnsureStableIds \/ \E b \in Bodies, s \in ExplicitIds : InsertStableId(b, s)
  BY <1>7, <1>8 DEF EnsureStableIds, InsertStableId
<1>9. CASE UNCHANGED vars
  BY <1>7, <1>9 DEF vars, clampVars
<1>10. CASE Tick
  BY <1>2, <1>3, <1>4, <1>10, ApplyKeepsQueue, CleanupKeepsQueue, ActKeepsQueue,
     EconomyKeepsQueue, FragmentKeepsQueue, StreamKeepsQueue DEF Tick
<1> QED
  BY <1>5, <1>6, <1>8, <1>9, <1>10 DEF Next

\* Only a queued despawn takes a body while commands are queued, and by then no
\* joint holds it.
LEMMA EndpointsStep ==
  ASSUME QueueInv, [Next]_vars, commands # <<>>, NEW j \in Held,
         joint'[j] = joint[j], {joint[j].owner, joint[j].target} \subseteq Present
  PROVE  {joint[j].owner, joint[j].target} \subseteq Present'
<1>1. CASE body' = body
  BY <1>1 DEF Present
<1>2. CASE ApplyCommand
  <2> DEFINE c == commands[1]
  <2>1. \/ body' = body
        \/ c.op = "despawn" /\ body' = [body EXCEPT ![c.body] = "none"]
        \/ c.op = "spawn" /\ body' = [body EXCEPT ![c.body] = c.value]
    BY <1>2 DEF ApplyCommand
  <2>2. 1 \in 1..Len(commands)
    <3>1. commands \in Seq({commands[k] : k \in 1..Len(commands)})
      BY DEF QueueInv, IsList, IsSeq
    <3> QED
      BY <3>1
  <2>3. CASE c.op = "despawn" /\ body' = [body EXCEPT ![c.body] = "none"]
    <3>1. Orderly(commands, joint)
      BY <2>2, <2>3 DEF QueueInv, Spares
    <3>2. ~ \E i \in 1..(1 - 1) : TRUE
      OBVIOUS
    <3>3. c.body \notin {joint[j].owner, joint[j].target}
      BY <2>2, <2>3, <3>1, <3>2 DEF Orderly, Unhooks, Held
    <3> QED
      BY <2>3, <3>3 DEF Present, QueueInv
  <2>4. CASE c.op = "spawn" /\ body' = [body EXCEPT ![c.body] = c.value]
    <3>1. c.value # "none"
      BY <2>2, <2>4 DEF QueueInv, IsList, Bears
    <3> QED
      BY <2>4, <3>1 DEF Present, QueueInv
  <2> QED
    BY <1>1, <2>1, <2>3, <2>4
<1>3. CASE Tick /\ ~ ApplyCommand
  BY <1>1, <1>3 DEF Tick, Cleanup, Gather, Economy, Fragment, RunDeaths, StreamChunks, Act,
     NextTick, Runs
<1>4. CASE \/ \E b \in Bodies : RemoveEntity(b)
           \/ EnsureStableIds \/ \E b \in Bodies, s \in ExplicitIds : InsertStableId(b, s)
           \/ Restore
  BY <1>4 DEF RemoveEntity, EnsureStableIds, InsertStableId, Restore, Runs
<1>5. CASE UNCHANGED vars
  BY <1>1, <1>5 DEF vars
<1> QED
  BY <1>2, <1>3, <1>4, <1>5 DEF Next

\* No command takes an endpoint from under a joint that still exists
\* (despawn_physical_entities, and every system that despawns through it).
THEOREM JointsGoFirst == Spec => EndpointsOutliveJoints
<1>1. QueueInv /\ [Next]_vars =>
        [commands # <<>> =>
           \A j \in Held : /\ joint'[j] = joint[j]
                           /\ {joint[j].owner, joint[j].target} \subseteq Present
                           => {joint[j].owner, joint[j].target} \subseteq Present']_clampVars
  BY EndpointsStep
<1> QED
  BY QueueInit, QueueStep, <1>1, PTL DEF Spec, EndpointsOutliveJoints

(* Identities. *)

Ids == 0..MaxId

\* No two bodies share an identity, and no published one is above the allocator.
IdInv ==
  /\ stableId \in [Bodies -> Ids] /\ next \in Ids /\ restores \in Nat
  /\ \A b \in Bodies \ Present : stableId[b] = NoId
  /\ \A b, c \in Bodies : b # c /\ stableId[b] = stableId[c] => stableId[b] = NoId
  /\ named \subseteq 1..next

LEMMA IdInit == Init => IdInv
BY SnapshotAssumption DEF Init, IdInv, Ids, NoId

\* What the allocator has observed is above every identity there is.
LEMMA ObservedIsAbove ==
  ASSUME IdInv
  PROVE  /\ Observed \in Ids /\ next <= Observed
         /\ \A b \in Bodies : stableId[b] <= Observed
<1> DEFINE S == Named(stableId) \cup {next}
<1>1. MaxId \in Nat
  BY SnapshotAssumption
<1>2. S \in SUBSET (0..MaxId) /\ S # {}
  BY DEF IdInv, Named, Ids
<1>3. next \in S /\ \A b \in Bodies : stableId[b] = 0 \/ stableId[b] \in S
  BY DEF Named, NoId
<1> HIDE DEF S
<1>4. Max(S) \in S /\ \A x \in S : x <= Max(S)
  BY <1>1, <1>2, LargestOfBounded
<1>5. Max(S) \in 0..MaxId
  BY <1>2, <1>4
<1>6. \A b \in Bodies : stableId[b] <= Max(S)
  BY <1>3, <1>4, <1>5
<1> QED
  BY <1>3, <1>4, <1>5, <1>6 DEF Observed, S, Ids

\* Identities given in one round are new, distinct and at most as many as bodies.
LEMMA EnsuredIsSound ==
  ASSUME IdInv, Observed + Cardinality(Unnamed) <= MaxId
  PROVE  /\ Ensured \in [Bodies -> Ids]
         /\ Observed + Cardinality(Unnamed) \in Ids
         /\ \A b \in Bodies \ Present : Ensured[b] = NoId
         /\ \A b, c \in Bodies : b # c /\ Ensured[b] = Ensured[c] => Ensured[b] = NoId
         /\ \A b \in Bodies : Ensured[b] <= Observed + Cardinality(Unnamed)
         /\ \A b \in Unnamed : Ensured[b] > Observed
         /\ \A b \in Bodies \ Unnamed : Ensured[b] = stableId[b]
<1> DEFINE size == Cardinality(Unnamed)
           rank(b) == Rank(b, Unnamed)
<1>1. Unnamed \in SUBSET Bodies /\ Unnamed \subseteq Present
  BY DEF Unnamed, Present
<1>2. Unnamed \in SUBSET Nat /\ IsFiniteSet(Unnamed)
  BY <1>1, FiniteEntities, FS_Subset
<1>3. size \in Nat
  BY <1>2, FS_CardinalityType
<1>4. \A b \in Unnamed : rank(b) \in 1..size
  BY <1>2, RankBounds DEF Rank
<1>5. \A b, c \in Unnamed : rank(b) = rank(c) => b = c
  BY <1>2, RankInjective DEF Rank
<1>6. Ensured = [b \in Bodies |-> IF b \in Unnamed THEN Observed + rank(b) ELSE stableId[b]]
  BY DEF Ensured
<1> HIDE DEF size, rank
<1>7. /\ Observed \in Nat /\ Observed <= MaxId /\ MaxId \in Nat
      /\ Observed + size <= MaxId
      /\ \A b \in Bodies : stableId[b] \in Nat /\ stableId[b] <= Observed
  BY ObservedIsAbove, SnapshotAssumption DEF IdInv, Ids, size
<1>8. \A b \in Unnamed : /\ Ensured[b] = Observed + rank(b)
                         /\ Ensured[b] \in (Observed + 1)..(Observed + size)
  BY <1>1, <1>3, <1>4, <1>6, <1>7
<1>9. \A b \in Bodies \ Unnamed : Ensured[b] = stableId[b]
  BY <1>6
<1>10. \A b \in Bodies : Ensured[b] \in 0..(Observed + size)
  BY <1>3, <1>7, <1>8, <1>9
<1>11. Ensured \in [Bodies -> Ids]
  <2>1. \A b \in Bodies : Ensured[b] \in Ids
    BY <1>3, <1>7, <1>10 DEF Ids
  <2> QED
    BY <1>6, <2>1
<1>12. ASSUME NEW b \in Bodies, NEW c \in Bodies, b # c, Ensured[b] = Ensured[c]
       PROVE  Ensured[b] = NoId
  <2>1. CASE b \in Unnamed /\ c \in Unnamed
    <3>1. rank(b) \in Nat /\ rank(c) \in Nat
      BY <1>3, <1>4, <2>1
    <3>2. rank(b) = rank(c)
      BY <1>7, <1>8, <1>12, <2>1, <3>1
    <3> QED
      BY <1>5, <1>12, <2>1, <3>2
  <2>2. CASE b \in Unnamed /\ c \notin Unnamed
    <3>1. Ensured[b] > Observed /\ Ensured[c] <= Observed
      BY <1>3, <1>7, <1>8, <1>9, <2>2
    <3> QED
      BY <1>7, <1>12, <1>9, <2>2, <3>1
  <2>3. CASE b \notin Unnamed /\ c \in Unnamed
    <3>1. Ensured[c] > Observed /\ Ensured[b] <= Observed
      BY <1>3, <1>7, <1>8, <1>9, <2>3
    <3> QED
      BY <1>7, <1>12, <1>9, <2>3, <3>1
  <2>4. CASE b \notin Unnamed /\ c \notin Unnamed
    BY <1>9, <1>12, <2>4 DEF IdInv
  <2> QED
    BY <2>1, <2>2, <2>3, <2>4
<1>13. \A b \in Bodies \ Present : Ensured[b] = NoId
  BY <1>1, <1>9 DEF IdInv
<1>14. Observed + size \in Ids
  BY <1>3, <1>7 DEF Ids
<1>15. \A b \in Unnamed : Ensured[b] > Observed
  BY <1>3, <1>7, <1>8
<1>16. \A b \in Bodies : Ensured[b] <= Observed + size
  BY <1>3, <1>7, <1>10
<1> QED
  BY <1>9, <1>11, <1>12, <1>13, <1>14, <1>15, <1>16 DEF size

LEMMA EnsureKeepsIds ==
  ASSUME IdInv, EnsureStableIds
  PROVE  IdInv'
<1> DEFINE top == Observed + Cardinality(Unnamed)
<1>1. /\ top <= MaxId /\ stableId' = Ensured /\ next' = top
      /\ named' = named \cup Named(Ensured) /\ body' = body /\ restores' = restores
  BY DEF EnsureStableIds, clampVars
<1>2. /\ Ensured \in [Bodies -> Ids] /\ top \in Ids
      /\ \A b \in Bodies \ Present : Ensured[b] = NoId
      /\ \A b, c \in Bodies : b # c /\ Ensured[b] = Ensured[c] => Ensured[b] = NoId
      /\ \A b \in Bodies : Ensured[b] <= top
  BY <1>1, EnsuredIsSound
<1>3. Observed \in Ids /\ next <= Observed /\ Cardinality(Unnamed) \in Nat
  <2>1. Unnamed \in SUBSET Bodies
    BY DEF Unnamed, Present
  <2> QED
    BY <2>1, ObservedIsAbove, FiniteEntities, FS_Subset, FS_CardinalityType
<1>4. next <= top /\ top \in Nat
  BY <1>3 DEF IdInv, Ids
<1> HIDE DEF top
<1>5. Named(Ensured) \subseteq 1..top
  BY <1>2, <1>4 DEF Named, Ids, NoId
<1>6. named \subseteq 1..top
  BY <1>4 DEF IdInv, Ids
<1>7. Present' = Present
  BY <1>1 DEF Present
<1> QED
  BY <1>1, <1>2, <1>5, <1>6, <1>7 DEF IdInv

LEMMA RestoreKeepsIds ==
  ASSUME IdInv, Restore
  PROVE  IdInv'
<1> DEFINE nodes == Nodes(Ensured)
           S == DOMAIN nodes
<1>1. PICK given \in SUBSET AgentsOf(nodes) :
        /\ body' = RestoredBody(nodes, given) /\ stableId' = RestoredId(nodes)
        /\ next' = Max(S \cup {0}) /\ named' = S /\ restores' = restores + 1
  BY DEF Restore
<1>2. /\ Ensured \in [Bodies -> Ids]
      /\ \A b \in Bodies \ Present : Ensured[b] = NoId
  BY EnsuredIsSound DEF Restore
<1>3. S = Named(Ensured)
  BY DEF Nodes
<1>4. S \cup {0} \in SUBSET (0..MaxId) /\ S \cup {0} # {} /\ MaxId \in Nat /\ NoId \notin S
  BY <1>2, <1>3, SnapshotAssumption DEF Named, Ids
<1>5. Max(S \cup {0}) \in S \cup {0} /\ \A x \in S \cup {0} : x <= Max(S \cup {0})
  BY <1>4, LargestOfBounded
<1>6. next' \in Ids /\ named' \subseteq 1..next'
  <2> HIDE DEF nodes, S
  <2>1. next' \in 0..MaxId /\ \A x \in S : x \in 0..MaxId /\ x # 0 /\ x <= next'
    BY <1>1, <1>4, <1>5 DEF NoId
  <2>2. \A x \in S : x \in 1..next'
    BY <2>1
  <2> QED
    BY <1>1, <2>1, <2>2 DEF Ids
<1>7. \A s \in S : nodes[s].kind # "none"
  <2>1. ASSUME NEW s \in S PROVE nodes[s].kind # "none"
    <3> DEFINE b == CHOOSE c \in Bodies : Ensured[c] = s
    <3>1. \E c \in Bodies : Ensured[c] = s
      BY <1>3 DEF Named
    <3>2. b \in Bodies /\ Ensured[b] = s
      BY <3>1
    <3>3. b \in Present
      BY <1>2, <1>4, <3>2
    <3>4. nodes[s].kind = body[b]
      BY <1>3 DEF Nodes
    <3> QED
      BY <3>3, <3>4 DEF Present
  <2> QED
    BY <2>1
<1>8. stableId' = [b \in Bodies |->
                     IF \E s \in S : EntityOf(nodes, s) = b
                     THEN CHOOSE s \in S : EntityOf(nodes, s) = b ELSE NoId]
  BY <1>1 DEF RestoredId
<1>9. body' = [b \in Bodies |->
                 IF \E s \in S : EntityOf(nodes, s) = b
                 THEN LET s == CHOOSE r \in S : EntityOf(nodes, r) = b
                      IN IF nodes[s].kind = "agent" /\ s \notin given THEN "inert"
                                                                      ELSE nodes[s].kind
                 ELSE "none"]
  BY <1>1 DEF RestoredBody
<1> HIDE DEF nodes, S
<1>10. \A b \in Bodies : \/ stableId'[b] = NoId /\ ~ \E s \in S : EntityOf(nodes, s) = b
                         \/ stableId'[b] \in S /\ EntityOf(nodes, stableId'[b]) = b
  BY <1>8
<1>11. \A b \in Bodies : (\E s \in S : EntityOf(nodes, s) = b) => body'[b] # "none"
  <2>1. ASSUME NEW b \in Bodies, \E s \in S : EntityOf(nodes, s) = b
        PROVE  body'[b] # "none"
    <3>1. PICK s \in S : s = CHOOSE r \in S : EntityOf(nodes, r) = b
      BY <2>1
    <3>2. body'[b] = "inert" \/ body'[b] = nodes[s].kind
      BY <1>9, <2>1, <3>1
    <3> QED
      BY <1>7, <3>2
  <2> QED
    BY <2>1
<1>12. \A b \in Bodies : stableId'[b] # NoId => body'[b] # "none"
  BY <1>10, <1>11
<1>13. \A b \in Bodies \ Present' : stableId'[b] = NoId
  BY <1>12 DEF Present
<1>14. stableId' \in [Bodies -> Ids]
  <2>1. \A b \in Bodies : stableId'[b] \in Ids
    BY <1>4, <1>10 DEF Ids, NoId
  <2> QED
    BY <1>8, <2>1
<1>15. \A b, c \in Bodies : b # c /\ stableId'[b] = stableId'[c] => stableId'[b] = NoId
  BY <1>10
<1> QED
  BY <1>1, <1>6, <1>13, <1>14, <1>15 DEF IdInv

LEMMA IdStep == IdInv /\ [Next]_vars => IdInv'
<1> SUFFICES ASSUME IdInv, [Next]_vars PROVE IdInv'
  OBVIOUS
<1>1. CASE IdsFollow
  <2>1. /\ stableId' = [b \in Bodies |-> IF body'[b] = "none" THEN NoId ELSE stableId[b]]
        /\ UNCHANGED <<next, named, restores>>
    BY <1>1 DEF IdsFollow
  <2>2. \A b \in Bodies : stableId'[b] = NoId \/ stableId'[b] = stableId[b]
    BY <2>1
  <2>3. \A b \in Bodies \ Present' : stableId'[b] = NoId
    BY <2>1 DEF Present
  <2>4. NoId \in Ids
    BY SnapshotAssumption DEF Ids, NoId
  <2>5. stableId' \in [Bodies -> Ids]
    BY <2>1, <2>4 DEF IdInv
  <2>6. \A b, c \in Bodies : b # c /\ stableId'[b] = stableId'[c] => stableId'[b] = NoId
    BY <2>2 DEF IdInv
  <2> QED
    BY <2>1, <2>3, <2>5, <2>6 DEF IdInv
<1>2. CASE EnsureStableIds
  BY <1>2, EnsureKeepsIds
<1>3. ASSUME NEW b \in Bodies, NEW s \in ExplicitIds, InsertStableId(b, s) PROVE IdInv'
  <2>1. /\ stableId' = [stableId EXCEPT ![b] = s] /\ s \notin Named(stableId)
        /\ b \in Present /\ UNCHANGED <<body, next, named, restores>>
    BY <1>3 DEF InsertStableId, Unnamed, clampVars
  <2>2. s \in Ids /\ s # NoId
    BY SnapshotAssumption DEF Ids, NoId
  <2>3. \A c \in Bodies : stableId[c] # s
    BY <2>1, <2>2 DEF Named
  <2>4. Present' = Present
    BY <2>1 DEF Present
  <2> QED
    BY <2>1, <2>2, <2>3, <2>4 DEF IdInv
<1>4. CASE Restore
  BY <1>4, RestoreKeepsIds
<1>5. CASE UNCHANGED vars
  BY <1>5 DEF vars, IdInv, Present
<1> QED
  BY <1>1, <1>2, <1>3, <1>4, <1>5 DEF Next

\* No two bodies answer to one identity (ensure_stable_ids, restore).
THEOREM IdentitiesAreDistinct == Spec => []IdentitiesDistinct
<1>1. IdInv => IdentitiesDistinct
  BY DEF IdInv, IdentitiesDistinct, Present
<1> QED
  BY IdInit, IdStep, <1>1, PTL DEF Spec

LEMMA NewIdsAreUnpublished ==
  ASSUME IdInv, [Next]_vars, restores' = restores, NEW b \in Bodies,
         stableId[b] = NoId, stableId'[b] # NoId
  PROVE  stableId'[b] \notin named
<1>1. CASE IdsFollow
  BY <1>1 DEF IdsFollow
<1>2. CASE EnsureStableIds
  <2>1. stableId'[b] > Observed
    BY <1>2, EnsuredIsSound DEF EnsureStableIds
  <2>2. next <= Observed /\ Observed \in Nat /\ next \in Nat
    BY ObservedIsAbove DEF IdInv, Ids
  <2>3. \A s \in named : s \in Nat /\ s <= next
    BY <2>2 DEF IdInv
  <2>4. stableId'[b] \in Nat
    BY <1>2, EnsuredIsSound DEF EnsureStableIds, Ids
  <2> QED
    BY <2>1, <2>2, <2>3, <2>4
<1>3. ASSUME NEW c \in Bodies, NEW s \in ExplicitIds, InsertStableId(c, s)
      PROVE  stableId'[b] \notin named
  BY <1>3 DEF InsertStableId, IdInv
<1>4. CASE Restore
  BY <1>4 DEF Restore, IdInv
<1>5. CASE UNCHANGED vars
  BY <1>5 DEF vars
<1> QED
  BY <1>1, <1>2, <1>3, <1>4, <1>5 DEF Next

\* A published identity is never given to a second body (StableIdAllocator).
THEOREM IdentitiesAreNew == Spec => IdentitiesNotReused
<1>1. IdInv /\ [Next]_vars =>
        [restores' = restores =>
           \A b \in Bodies :
             stableId[b] = NoId /\ stableId'[b] # NoId => stableId'[b] \notin named]_vars
  BY NewIdsAreUnpublished
<1> QED
  BY IdInit, IdStep, <1>1, PTL DEF Spec, IdentitiesNotReused

(* Clamps and the joints they hold. *)

\* What is queued is typed, and a body is spawned with an open clamp.
CommandsInv ==
  \A c \in ToSet(commands) :
    \/ c.op = "unjoin" /\ c.joint \in Joints
    \/ c.op = "join" /\ c.joint \in Joints /\ c.body \in Bodies /\ c.value \in Bodies
    \/ c.op = "despawn" /\ c.body \in Bodies
    \/ c.op = "spawn" /\ c.body \in Bodies /\ c.value \in Kind /\ clamp[c.body] = Open

Link(owner, target) == [owner |-> owner, target |-> target]

\* A joint that is still to be made is nobody's but its owner's.
JoinsInv ==
  \A c \in ToSet(commands) : c.op = "join" =>
    /\ joint[c.joint] \in {NoJoint, Link(c.body, c.value)}
    /\ \A d \in ToSet(commands) : d.op = "join" /\ d.joint = c.joint =>
         d.body = c.body /\ d.value = c.value
    /\ \A a \in Agents : clamp[a].joint = c.joint =>
         a = c.body /\ clamp[a].target = c.value

\* A clamp that holds a target holds it by a joint of its own.
HoldsInv ==
  /\ \A a \in Agents : clamp[a].target = None <=> clamp[a].joint = None
  /\ \A a \in Agents : clamp[a].joint \in Held =>
       joint[clamp[a].joint] = Link(a, clamp[a].target)
  /\ \A a, b \in Agents : clamp[a].joint = clamp[b].joint /\ clamp[a].joint # None => a = b

\* What cleanup_clamp_joints leaves, but for the joints that it has doomed.
CleanedInv ==
  phase = "gather" =>
    /\ \A c \in ToSet(commands) : c.op = "unjoin"
    /\ \A a \in Agents : clamp[a].target # None =>
         /\ clamp[a].joint \in Held
         /\ \A c \in ToSet(commands) : c.joint # clamp[a].joint
    /\ \A j \in Held :
         \/ joint[j].owner \in Agents /\ clamp[joint[j].owner].joint = j
         \/ \E c \in ToSet(commands) : c.joint = j

PhaseInv ==
  /\ phase # "act" => pending = {}
  /\ phase = "act" => \A c \in ToSet(commands) : c.op \in {"join", "unjoin"}
  /\ phase # "boundary" => ticks < MaxTicks

ClampInv == ClampTypeOK /\ CommandsInv /\ JoinsInv /\ HoldsInv /\ CleanedInv /\ PhaseInv

LEMMA EntriesOf ==
  ASSUME NEW q, IsSeq(q)
  PROVE  ToSet(q) = {q[k] : k \in 1..Len(q)} /\ Len(q) \in Nat
BY DEF ToSet, IsSeq

LEMMA EntriesJoin ==
  ASSUME NEW p, NEW q, IsList(p), IsList(q)
  PROVE  IsList(p \o q) /\ ToSet(p \o q) = ToSet(p) \cup ToSet(q)
<1> DEFINE both == p \o q
           m == Len(p)
           n == Len(q)
<1>1. /\ m \in Nat /\ n \in Nat /\ IsList(both) /\ Len(both) = m + n
      /\ \A k \in 1..(m + n) : both[k] = IF k <= m THEN p[k] ELSE q[k - m]
  BY ListsJoin
<1>2. /\ ToSet(p) = {p[k] : k \in 1..m} /\ ToSet(q) = {q[k] : k \in 1..n}
      /\ ToSet(both) = {both[k] : k \in 1..(m + n)}
  BY <1>1, EntriesOf DEF IsList
<1> HIDE DEF both, m, n
<1>3. ASSUME NEW k \in 1..(m + n) PROVE both[k] \in ToSet(p) \cup ToSet(q)
  <2>1. CASE k <= m
    BY <1>1, <1>2, <2>1
  <2>2. CASE ~ (k <= m)
    <3>1. k - m \in 1..n /\ both[k] = q[k - m]
      BY <1>1, <2>2
    <3> QED
      BY <1>2, <3>1
  <2> QED
    BY <2>1, <2>2
<1>4. ASSUME NEW k \in 1..m PROVE p[k] \in ToSet(both)
  <2>1. k \in 1..(m + n) /\ both[k] = p[k]
    BY <1>1
  <2> QED
    BY <1>2, <2>1
<1>5. ASSUME NEW k \in 1..n PROVE q[k] \in ToSet(both)
  <2>1. k + m \in 1..(m + n) /\ ~ (k + m <= m) /\ (k + m) - m = k
    BY <1>1
  <2>2. both[k + m] = q[k]
    BY <1>1, <2>1
  <2> QED
    BY <1>2, <2>1, <2>2
<1>6. ToSet(both) = ToSet(p) \cup ToSet(q)
  BY <1>2, <1>3, <1>4, <1>5
<1> QED
  BY <1>1, <1>6 DEF both

LEMMA EntriesQueued ==
  ASSUME NEW S, IsFiniteSet(S)
  PROVE  /\ ToSet(Queue(Unjoin, S)) = {Unjoin(j) : j \in S}
         /\ ToSet(Queue(Despawn, S)) = {Despawn(b) : b \in S}
         /\ \A kind : ToSet(Spawns(S, kind)) = {Spawn(b, kind) : b \in S}
<1> DEFINE n == Cardinality(S)
           order == SetToSeq(S)
<1>1. /\ order \in [1..n -> S] /\ n \in Nat
      /\ \A e \in S : \E k \in 1..n : order[k] = e
  BY LaidOutOnce
<1>2. /\ Queue(Unjoin, S) = [k \in 1..n |-> Unjoin(order[k])]
      /\ Queue(Despawn, S) = [k \in 1..n |-> Despawn(order[k])]
      /\ \A kind : Spawns(S, kind) = [k \in 1..n |-> Spawn(order[k], kind)]
  BY <1>1 DEF Queue, Spawns
<1> HIDE DEF n, order
<1>3. \A e : e \in S <=> \E k \in 1..n : order[k] = e
  BY <1>1
<1>4. ToSet(Queue(Unjoin, S)) = {Unjoin(j) : j \in S}
  BY <1>2, <1>3 DEF ToSet
<1>5. ToSet(Queue(Despawn, S)) = {Despawn(b) : b \in S}
  BY <1>2, <1>3 DEF ToSet
<1>6. ASSUME NEW kind PROVE ToSet(Spawns(S, kind)) = {Spawn(b, kind) : b \in S}
  <2>1. Spawns(S, kind) = [k \in 1..n |-> Spawn(order[k], kind)]
    BY <1>2
  <2> QED
    BY <1>3, <2>1 DEF ToSet
<1> QED
  BY <1>4, <1>5, <1>6

LEMMA FirstOfQueue ==
  ASSUME QueueInv, commands # <<>>
  PROVE  /\ Head(commands) \in ToSet(commands)
         /\ ToSet(commands) = {Head(commands)} \cup ToSet(Tail(commands))
<1> DEFINE n == Len(commands)
           rest == Tail(commands)
<1>1. commands \in Seq({commands[k] : k \in 1..n}) /\ IsSeq(commands)
  BY DEF QueueInv, IsList, IsSeq
<1>2. /\ n \in Nat /\ n > 0 /\ Head(commands) = commands[1]
      /\ Len(rest) = n - 1 /\ rest \in Seq({commands[k] : k \in 1..n})
      /\ \A k \in 1..(n - 1) : rest[k] = commands[k + 1]
  BY <1>1
<1>3. IsSeq(rest)
  BY <1>2, Sequences
<1>4. ToSet(commands) = {commands[k] : k \in 1..n} /\ ToSet(rest) = {rest[k] : k \in 1..(n - 1)}
  BY <1>1, <1>2, <1>3, EntriesOf
<1> HIDE DEF n, rest
<1>5. ASSUME NEW k \in 1..n PROVE commands[k] \in {commands[1]} \cup ToSet(rest)
  <2>1. CASE k = 1
    BY <2>1
  <2>2. CASE k # 1
    <3>1. k - 1 \in 1..(n - 1) /\ (k - 1) + 1 = k
      BY <1>2, <2>2
    <3>2. rest[k - 1] = commands[k]
      BY <1>2, <3>1
    <3> QED
      BY <1>4, <3>1, <3>2
  <2> QED
    BY <2>1, <2>2
<1>6. ASSUME NEW k \in 1..(n - 1) PROVE rest[k] \in ToSet(commands)
  <2>1. k + 1 \in 1..n
    BY <1>2
  <2> QED
    BY <1>2, <1>4, <2>1
<1>7. 1 \in 1..n
  BY <1>2
<1>8. commands[1] \in ToSet(commands)
  BY <1>4, <1>7
<1>9. ToSet(commands) = {commands[1]} \cup ToSet(rest)
  BY <1>4, <1>5, <1>6, <1>8
<1> QED
  BY <1>2, <1>8, <1>9 DEF rest

LEMMA ClampsAtFirst == Init => ClampInv
<1> SUFFICES ASSUME Init PROVE ClampInv
  OBVIOUS
<1>1. /\ body \in [Bodies -> Kind \cup {"none"}]
      /\ clamp = [b \in Bodies |-> Open] /\ joint = [j \in Joints |-> NoJoint]
      /\ commands = <<>> /\ phase = "boundary" /\ pending = {} /\ deaths = {} /\ ticks = 0
  BY ClampAssumption DEF Init, ClampInit
<1>2. ToSet(commands) = {}
  BY <1>1 DEF ToSet
<1>3. Agents \subseteq Bodies /\ Held = {}
  BY <1>1 DEF Agents, Held
<1>4. /\ CooldownTicks \in Nat /\ MaxTicks \in Nat
  BY ClampAssumption
<1>5. Open \in [target : Bodies \cup {None}, joint : Joints \cup {None}, cool : 0..CooldownTicks]
  BY <1>4 DEF Open
<1>6. ClampTypeOK
  BY <1>1, <1>4, <1>5 DEF ClampTypeOK
<1>7. CommandsInv /\ JoinsInv /\ CleanedInv /\ PhaseInv
  BY <1>1, <1>2 DEF CommandsInv, JoinsInv, CleanedInv, PhaseInv
<1>8. \A a \in Agents : clamp[a].target = None /\ clamp[a].joint = None
  BY <1>1, <1>3 DEF Open
<1>9. HoldsInv
  BY <1>3, <1>8 DEF HoldsInv, Held
<1> QED
  BY <1>6, <1>7, <1>9 DEF ClampInv

\* What a command does, spelled out.
LEMMA Applied ==
  ASSUME QueueInv, ClampInv, ApplyCommand
  PROVE  \E c \in ToSet(commands) :
           /\ ToSet(commands) = {c} \cup ToSet(commands')
           /\ phase # "act" /\ UNCHANGED <<phase, pending, deaths, ticks>>
           /\ \/ /\ c.op = "unjoin" /\ joint' = [joint EXCEPT ![c.joint] = NoJoint]
                 /\ UNCHANGED <<body, clamp>>
              \/ /\ c.op = "join" /\ joint' = [joint EXCEPT ![c.joint] = Link(c.body, c.value)]
                 /\ UNCHANGED <<body, clamp>>
              \/ /\ c.op = "despawn" /\ body' = [body EXCEPT ![c.body] = "none"]
                 /\ clamp' = [clamp EXCEPT ![c.body] = Open] /\ UNCHANGED joint
              \/ /\ c.op = "spawn" /\ body' = [body EXCEPT ![c.body] = c.value]
                 /\ UNCHANGED <<clamp, joint>>
<1>1. commands # <<>>
  BY DEF ApplyCommand
<1> DEFINE c == Head(commands)
<1>2. c \in ToSet(commands) /\ ToSet(commands) = {c} \cup ToSet(Tail(commands))
  BY <1>1, FirstOfQueue
<1>3. /\ commands' = Tail(commands) /\ phase # "act" /\ UNCHANGED <<phase, pending, deaths, ticks>>
      /\ \/ /\ c.op = "unjoin" /\ joint' = [joint EXCEPT ![c.joint] = NoJoint]
            /\ UNCHANGED <<body, clamp>>
         \/ /\ c.op = "join"
            /\ joint' = [joint EXCEPT ![c.joint] = [owner |-> c.body, target |-> c.value]]
            /\ UNCHANGED <<body, clamp>>
         \/ /\ c.op = "despawn" /\ body' = [body EXCEPT ![c.body] = "none"]
            /\ clamp' = [clamp EXCEPT ![c.body] = Open] /\ UNCHANGED joint
         \/ /\ c.op = "spawn" /\ body' = [body EXCEPT ![c.body] = c.value]
            /\ UNCHANGED <<clamp, joint>>
  BY DEF ApplyCommand
<1> HIDE DEF c
<1> QED
  BY <1>2, <1>3 DEF Link

\* In a queue that is being applied nobody's clamp names a joint wrongly.
LEMMA ApplyKeepsClamps ==
  ASSUME QueueInv, ClampInv, ApplyCommand
  PROVE  ClampInv'
<1>1. PICK c \in ToSet(commands) :
           /\ ToSet(commands) = {c} \cup ToSet(commands')
           /\ phase # "act" /\ UNCHANGED <<phase, pending, deaths, ticks>>
           /\ \/ /\ c.op = "unjoin" /\ joint' = [joint EXCEPT ![c.joint] = NoJoint]
                 /\ UNCHANGED <<body, clamp>>
              \/ /\ c.op = "join" /\ joint' = [joint EXCEPT ![c.joint] = Link(c.body, c.value)]
                 /\ UNCHANGED <<body, clamp>>
              \/ /\ c.op = "despawn" /\ body' = [body EXCEPT ![c.body] = "none"]
                 /\ clamp' = [clamp EXCEPT ![c.body] = Open] /\ UNCHANGED joint
              \/ /\ c.op = "spawn" /\ body' = [body EXCEPT ![c.body] = c.value]
                 /\ UNCHANGED <<clamp, joint>>
  BY Applied
<1> DEFINE old == ToSet(commands)
           new == ToSet(commands')
           Clamp == [target : Bodies \cup {None}, joint : Joints \cup {None}, cool : 0..CooldownTicks]
<1>2. /\ body \in [Bodies -> Kind \cup {"none"}] /\ clamp \in [Bodies -> Clamp]
      /\ joint \in [Joints -> [owner : Bodies, target : Bodies] \cup {NoJoint}]
      /\ \A b \in Bodies \ Agents : clamp[b] = Open
      /\ pending = {} /\ deaths \subseteq Bodies /\ ticks \in 0..MaxTicks
      /\ phase \in {"cleanup", "gather", "act", "economy", "fragment", "deaths", "stream",
                    "boundary"}
  BY <1>1 DEF ClampInv, ClampTypeOK, PhaseInv
<1>3. \/ c.op = "unjoin" /\ c.joint \in Joints
      \/ c.op = "join" /\ c.joint \in Joints /\ c.body \in Bodies /\ c.value \in Bodies
      \/ c.op = "despawn" /\ c.body \in Bodies
      \/ c.op = "spawn" /\ c.body \in Bodies /\ c.value \in Kind /\ clamp[c.body] = Open
  BY DEF ClampInv, CommandsInv
<1>4. new \subseteq old /\ c \in old /\ old \subseteq {c} \cup new
  BY <1>1
<1>5. /\ Open \in Clamp /\ Open.target = None /\ Open.joint = None
      /\ None \notin Joints /\ None \notin Bodies /\ "none" \notin Kind /\ "agent" \in Kind
      /\ \A a, b \in Bodies : Link(a, b) \in [owner : Bodies, target : Bodies] /\ Link(a, b) # NoJoint
  BY ClampAssumption DEF Open, None, Joints, Bodies, Kind, Link, NoJoint
<1> HIDE DEF old, new, Clamp
<1>6. \A b \in Bodies : clamp'[b] = clamp[b] \/ clamp'[b] = Open
  BY <1>1, <1>2, <1>3
<1>7. \A a \in Agents' : \/ a \in Agents /\ clamp'[a] = clamp[a]
                         \/ a \in Bodies /\ clamp'[a] = Open
  BY <1>1, <1>2, <1>3, <1>5, <1>6 DEF Agents
<1>8. \A b \in Bodies \ Agents' : clamp'[b] = Open
  BY <1>1, <1>2, <1>3, <1>5 DEF Agents
<1>9. ClampTypeOK'
  <2>1. /\ body' \in [Bodies -> Kind \cup {"none"}] /\ clamp' \in [Bodies -> Clamp]
    BY <1>1, <1>2, <1>3, <1>5
  <2>2. joint' \in [Joints -> [owner : Bodies, target : Bodies] \cup {NoJoint}]
    BY <1>1, <1>2, <1>3, <1>5
  <2>3. pending' = {} /\ deaths' \subseteq Bodies /\ ticks' = ticks /\ phase' = phase
    BY <1>1, <1>2
  <2> QED
    BY <1>2, <1>8, <2>1, <2>2, <2>3 DEF ClampTypeOK, Clamp
<1>10. CommandsInv'
  <2>1. \A d \in new : \/ d.op = "unjoin" /\ d.joint \in Joints
                       \/ d.op = "join" /\ d.joint \in Joints /\ d.body \in Bodies /\ d.value \in Bodies
                       \/ d.op = "despawn" /\ d.body \in Bodies
                       \/ d.op = "spawn" /\ d.body \in Bodies /\ d.value \in Kind
                          /\ clamp[d.body] = Open
    BY <1>4 DEF ClampInv, CommandsInv, old
  <2> QED
    BY <1>6, <2>1 DEF CommandsInv, new, ToSet
<1>11. JoinsInv'
  <2>1. \A d \in old : d.op = "join" =>
          /\ joint[d.joint] \in {NoJoint, Link(d.body, d.value)}
          /\ \A e \in old : e.op = "join" /\ e.joint = d.joint =>
               e.body = d.body /\ e.value = d.value
          /\ \A a \in Agents : clamp[a].joint = d.joint =>
               a = d.body /\ clamp[a].target = d.value
    BY DEF ClampInv, JoinsInv, old
  <2>2. \A d \in old : d.op = "join" => d.joint \in Joints
    BY <1>2, <1>3, <1>4 DEF ClampInv, CommandsInv, old
  <2>3. \A d \in new : d.op = "join" => joint'[d.joint] \in {NoJoint, Link(d.body, d.value)}
    BY <1>1, <1>2, <1>3, <1>4, <2>1, <2>2
  <2>4. \A d \in new : d.op = "join" =>
          \A a \in Agents' : clamp'[a].joint = d.joint => a = d.body /\ clamp'[a].target = d.value
    BY <1>4, <1>5, <1>7, <2>1, <2>2
  <2> QED
    BY <1>4, <2>1, <2>3, <2>4 DEF JoinsInv, new, ToSet
<1>12. HoldsInv'
  <2>1. /\ \A a \in Agents : clamp[a].target = None <=> clamp[a].joint = None
        /\ \A a \in Agents : clamp[a].joint \in Held => joint[clamp[a].joint] = Link(a, clamp[a].target)
        /\ \A a, b \in Agents : clamp[a].joint = clamp[b].joint /\ clamp[a].joint # None => a = b
    BY DEF ClampInv, HoldsInv
  <2>2. \A a \in Agents' : clamp'[a].target = None <=> clamp'[a].joint = None
    BY <1>5, <1>7, <2>1
  <2>3. \A a, b \in Agents' : clamp'[a].joint = clamp'[b].joint /\ clamp'[a].joint # None => a = b
    BY <1>5, <1>7, <2>1
  <2>4. ASSUME NEW a \in Agents', clamp'[a].joint \in Held'
        PROVE  joint'[clamp'[a].joint] = Link(a, clamp'[a].target)
    <3>1. /\ clamp'[a].joint \in Joints /\ joint'[clamp'[a].joint] # NoJoint
      BY <2>4 DEF Held
    <3>2. a \in Agents /\ clamp'[a] = clamp[a]
      BY <1>5, <1>7, <3>1
    <3>3. CASE joint'[clamp[a].joint] = joint[clamp[a].joint]
      BY <2>1, <3>1, <3>2, <3>3 DEF Held
    <3>4. CASE joint'[clamp[a].joint] # joint[clamp[a].joint]
      <4>1. c.op = "join" /\ joint' = [joint EXCEPT ![c.joint] = Link(c.body, c.value)]
            /\ c.joint = clamp[a].joint
        BY <1>1, <1>2, <3>1, <3>2, <3>4
      <4>2. a = c.body /\ clamp[a].target = c.value
        BY <3>2, <4>1 DEF ClampInv, JoinsInv
      <4> QED
        BY <1>2, <3>1, <3>2, <4>1, <4>2
    <3> QED
      BY <3>3, <3>4
  <2> QED
    BY <2>2, <2>3, <2>4 DEF HoldsInv
<1>13. CleanedInv'
  <2> SUFFICES ASSUME phase = "gather" PROVE CleanedInv'
    BY <1>1 DEF CleanedInv
  <2>1. /\ \A d \in old : d.op = "unjoin"
        /\ \A a \in Agents : clamp[a].target # None =>
             clamp[a].joint \in Held /\ \A d \in old : d.joint # clamp[a].joint
        /\ \A j \in Held : \/ joint[j].owner \in Agents /\ clamp[joint[j].owner].joint = j
                           \/ \E d \in old : d.joint = j
    BY DEF ClampInv, CleanedInv, old
  <2>2. joint' = [joint EXCEPT ![c.joint] = NoJoint] /\ UNCHANGED <<body, clamp>>
    BY <1>1, <1>4, <2>1
  <2>3. Agents' = Agents /\ Held' = Held \ {c.joint}
    BY <1>2, <2>2 DEF Agents, Held
  <2>4. \A a \in Agents : clamp[a].target # None =>
          clamp[a].joint \in Held' /\ \A d \in new : d.joint # clamp[a].joint
    BY <1>4, <2>1, <2>3
  <2>5. \A j \in Held' : \/ joint'[j].owner \in Agents /\ clamp[joint'[j].owner].joint = j
                         \/ \E d \in new : d.joint = j
    <3>1. ASSUME NEW j \in Held' 
          PROVE  \/ joint'[j].owner \in Agents /\ clamp[joint'[j].owner].joint = j
                 \/ \E d \in new : d.joint = j
      <4>1. j \in Held /\ j # c.joint
        BY <2>3
      <4>2. joint'[j] = joint[j]
        BY <1>2, <2>2, <4>1 DEF Held
      <4> QED
        BY <1>4, <2>1, <4>1, <4>2
    <3> QED
      BY <3>1
  <2> QED
    BY <1>4, <2>1, <2>2, <2>3, <2>4, <2>5 DEF CleanedInv, new, ToSet
<1>14. PhaseInv'
  <2>1. pending' = {} /\ phase' = phase /\ ticks' = ticks /\ phase # "act"
    BY <1>1, <1>2
  <2> QED
    BY <2>1 DEF ClampInv, PhaseInv
<1> QED
  BY <1>9, <1>10, <1>11, <1>12, <1>13, <1>14 DEF ClampInv

\* A system that only queues, and no joints, disturbs no clamp.
LEMMA QueuedForClamps ==
  ASSUME ClampInv, UNCHANGED <<body, clamp, joint>>,
         \A c \in ToSet(commands') :
           \/ c.op = "unjoin" /\ c.joint \in Joints
           \/ c.op = "despawn" /\ c.body \in Bodies
           \/ c.op = "spawn" /\ c.body \in Bodies /\ c.value \in Kind /\ clamp[c.body] = Open
  PROVE  CommandsInv' /\ JoinsInv' /\ HoldsInv'
<1> DEFINE new == ToSet(commands')
<1>1. Agents' = Agents /\ Held' = Held
  BY DEF Agents, Held
<1>2. HoldsInv'
  BY <1>1 DEF ClampInv, HoldsInv
<1>3. CommandsInv'
  BY DEF CommandsInv, ToSet
<1>4. \A c \in new : c.op # "join"
  OBVIOUS
<1>5. JoinsInv'
  BY <1>4 DEF JoinsInv, ToSet
<1> QED
  BY <1>2, <1>3, <1>5

LEMMA CleanupKeepsClamps ==
  ASSUME QueueInv, ClampInv, Cleanup
  PROVE  ClampInv'
<1> DEFINE freed == {clamp[a].joint : a \in Broken} \ {None}
           shut == [Open EXCEPT !.cool = CooldownTicks]
           new == ToSet(commands')
           Clamp == [target : Bodies \cup {None}, joint : Joints \cup {None}, cool : 0..CooldownTicks]
<1>1. /\ commands' = Queue(Unjoin, Orphans) \o Queue(Unjoin, freed)
      /\ clamp' = [a \in Bodies |-> IF a \in Broken THEN shut ELSE clamp[a]]
      /\ phase = "cleanup" /\ phase' = "gather"
      /\ UNCHANGED <<body, joint, pending, deaths, ticks>>
  BY DEF Cleanup, Runs
<1>2. /\ ClampTypeOK /\ pending = {} /\ ticks < MaxTicks
      /\ clamp \in [Bodies -> Clamp]
      /\ joint \in [Joints -> [owner : Bodies, target : Bodies] \cup {NoJoint}]
  BY <1>1 DEF ClampInv, ClampTypeOK, PhaseInv
<1>3. IsFiniteSet(freed) /\ Orphans \subseteq Held /\ freed \subseteq Joints
  <2>1. Broken \in SUBSET Bodies
    BY DEF Broken, Agents
  <2>2. freed \in SUBSET Joints
    BY <1>2, <2>1
  <2> QED
    BY <2>2, FiniteEntities, FS_Subset DEF Orphans
<1>4. new = {Unjoin(j) : j \in Orphans \cup freed}
  <2>1. /\ IsList(Queue(Unjoin, Orphans)) /\ IsList(Queue(Unjoin, freed))
        /\ ToSet(Queue(Unjoin, Orphans)) = {Unjoin(j) : j \in Orphans}
        /\ ToSet(Queue(Unjoin, freed)) = {Unjoin(j) : j \in freed}
    BY <1>3, FinitePieces, UnjoinsQueued, EntriesQueued
  <2>2. new = {Unjoin(j) : j \in Orphans} \cup {Unjoin(j) : j \in freed}
    BY <1>1, <2>1, EntriesJoin
  <2> QED
    BY <2>2
<1>5. /\ \A c \in new : c.op = "unjoin" /\ c.joint \in Orphans \cup freed
      /\ \A j \in Orphans \cup freed : \E c \in new : c.joint = j
  <2>1. \A j : Unjoin(j).op = "unjoin" /\ Unjoin(j).joint = j
    BY DEF Unjoin, Command
  <2> HIDE DEF new, freed
  <2> QED
    BY <1>4, <2>1
<1>6. Orphans \cup freed \subseteq Joints
  BY <1>3 DEF Held
<1> HIDE DEF freed, new, Clamp
<1>7. /\ shut \in Clamp /\ shut.target = None /\ shut.joint = None
  BY ClampAssumption DEF Open, Clamp
<1>8. /\ Broken \subseteq Agents /\ Agents \subseteq Bodies
      /\ Agents' = Agents /\ Held' = Held /\ Present' = Present
  BY <1>1 DEF Agents, Held, Broken, Present
<1> HIDE DEF shut
<1>9. \A a \in Agents : clamp'[a] = IF a \in Broken THEN shut ELSE clamp[a]
  BY <1>1, <1>8
<1>10. ClampTypeOK'
  <2>1. clamp' \in [Bodies -> Clamp]
    BY <1>1, <1>2, <1>7
  <2>2. \A b \in Bodies \ Agents' : clamp'[b] = Open
    BY <1>1, <1>2, <1>8 DEF ClampTypeOK
  <2> QED
    BY <1>1, <1>2, <1>8, <2>1, <2>2 DEF ClampTypeOK, Clamp
<1>11. CommandsInv' /\ JoinsInv'
  BY <1>5, <1>6 DEF CommandsInv, JoinsInv, ToSet, new
<1>12. /\ \A a \in Agents : clamp[a].target = None <=> clamp[a].joint = None
       /\ \A a \in Agents : clamp[a].joint \in Held => joint[clamp[a].joint] = Link(a, clamp[a].target)
       /\ \A a, b \in Agents : clamp[a].joint = clamp[b].joint /\ clamp[a].joint # None => a = b
  BY DEF ClampInv, HoldsInv
<1>13. HoldsInv'
  <2>1. None \notin Held
    BY DEF None, Held, Joints
  <2> QED
    BY <1>1, <1>7, <1>8, <1>9, <1>12, <2>1 DEF HoldsInv
<1>14. ASSUME NEW a \in Agents, clamp'[a].target # None
       PROVE  clamp'[a].joint \in Held /\ clamp'[a].joint \notin Orphans \cup freed
  <2>1. a \notin Broken /\ clamp'[a] = clamp[a]
    BY <1>7, <1>9, <1>14
  <2>2. clamp[a].joint # None /\ clamp[a].joint \in Held
    BY <1>12, <1>14, <2>1 DEF Broken
  <2>3. clamp[a].joint \notin Orphans
    <3>0. joint[clamp[a].joint] = Link(a, clamp[a].target)
      BY <1>12, <2>2
    <3>1. joint[clamp[a].joint].owner = a
      BY <3>0 DEF Link
    <3> QED
      BY <3>1 DEF Orphans
  <2>4. clamp[a].joint \notin freed
    BY <1>8, <1>12, <2>1, <2>2 DEF freed
  <2> QED
    BY <2>1, <2>2, <2>3, <2>4
<1>15. ASSUME NEW j \in Held, j \notin Orphans \cup freed
       PROVE  joint[j].owner \in Agents /\ clamp'[joint[j].owner].joint = j
  <2>1. joint[j].owner \in Agents /\ clamp[joint[j].owner].joint = j
    BY <1>15 DEF Orphans
  <2>2. j # None
    BY DEF Held, Joints, None
  <2>3. joint[j].owner \notin Broken
    BY <1>15, <2>1, <2>2 DEF freed
  <2> QED
    BY <1>9, <2>1, <2>3
<1>16. CleanedInv'
  <2>1. \A a \in Agents : clamp'[a].target # None =>
          clamp'[a].joint \in Held /\ \A c \in new : c.joint # clamp'[a].joint
    BY <1>5, <1>14
  <2>2. \A j \in Held : \/ joint[j].owner \in Agents /\ clamp'[joint[j].owner].joint = j
                        \/ \E c \in new : c.joint = j
    BY <1>5, <1>15
  <2> QED
    BY <1>1, <1>5, <1>8, <2>1, <2>2 DEF CleanedInv, new, ToSet
<1>17. PhaseInv'
  BY <1>1, <1>2 DEF PhaseInv
<1> QED
  BY <1>10, <1>11, <1>13, <1>16, <1>17 DEF ClampInv

LEMMA GatherKeepsClamps ==
  ASSUME QueueInv, ClampInv, Gather
  PROVE  ClampInv'
<1>1. /\ phase = "gather" /\ commands = <<>> /\ commands' = <<>> /\ pending' = Agents
      /\ phase' = IF Agents = {} THEN "economy" ELSE "act"
      /\ UNCHANGED <<body, clamp, joint, deaths, ticks>>
  BY DEF Gather, Runs
<1>2. ToSet(commands') = {}
  BY <1>1 DEF ToSet
<1>3. CommandsInv' /\ JoinsInv' /\ HoldsInv'
  BY <1>1, <1>2, QueuedForClamps
<1>4. Agents' = Agents
  BY <1>1 DEF Agents
<1>5. ClampTypeOK' /\ CleanedInv' /\ PhaseInv'
  BY <1>1, <1>2, <1>4 DEF ClampInv, ClampTypeOK, CleanedInv, PhaseInv, ToSet
<1> QED
  BY <1>3, <1>5 DEF ClampInv

\* A tail that queues something, or nothing, after the actors are done.
LEMMA SystemKeepsClamps ==
  ASSUME ClampInv, UNCHANGED <<body, clamp, joint, pending>>,
         phase \in {"economy", "fragment", "deaths", "stream"}, deaths' \subseteq Bodies,
         \/ phase' \in {"fragment", "deaths", "stream"} /\ ticks' = ticks
         \/ phase' = "boundary" /\ ticks' = ticks + 1,
         \A c \in ToSet(commands') :
           \/ c.op = "unjoin" /\ c.joint \in Joints
           \/ c.op = "despawn" /\ c.body \in Bodies
           \/ c.op = "spawn" /\ c.body \in Bodies /\ c.value \in Kind /\ clamp[c.body] = Open
  PROVE  ClampInv'
<1>1. CommandsInv' /\ JoinsInv' /\ HoldsInv'
  BY QueuedForClamps
<1>2. Agents' = Agents
  BY DEF Agents
<1>3. ticks < MaxTicks /\ ticks \in 0..MaxTicks /\ MaxTicks \in Nat /\ pending = {}
  BY ClampAssumption DEF ClampInv, ClampTypeOK, PhaseInv
<1>4. ClampTypeOK'
  BY <1>2, <1>3 DEF ClampInv, ClampTypeOK
<1>5. CleanedInv' /\ PhaseInv'
  BY <1>3 DEF CleanedInv, PhaseInv
<1> QED
  BY <1>1, <1>4, <1>5 DEF ClampInv

\* Bodies that are given away have open clamps.
LEMMA SpawnsAreOpen ==
  ASSUME ClampInv, NEW n, NEW kind \in {"agent", "inert"}
  PROVE  /\ IsList(Spawns(FirstBodies(n), kind))
         /\ \A c \in ToSet(Spawns(FirstBodies(n), kind)) :
              c.op = "spawn" /\ c.body \in Bodies /\ c.value \in Kind /\ clamp[c.body] = Open
<1>1. IsFiniteSet(FirstBodies(n)) /\ FirstBodies(n) \subseteq Bodies \ Agents
  BY FinitePieces DEF FirstBodies, FreshBodies, Present, Agents
<1>2. ToSet(Spawns(FirstBodies(n), kind)) = {Spawn(b, kind) : b \in FirstBodies(n)}
  BY <1>1, EntriesQueued
<1>3. \A b \in FirstBodies(n) : clamp[b] = Open /\ b \in Bodies
  BY <1>1 DEF ClampInv, ClampTypeOK
<1>4. IsList(Spawns(FirstBodies(n), kind))
  BY <1>1, SpawnsQueued
<1> QED
  BY <1>2, <1>3, <1>4 DEF Spawn, Command, Kind

LEMMA DespawnsAreTyped ==
  ASSUME NEW bodies \in SUBSET Bodies
  PROVE  /\ IsList(DespawnEntities(bodies))
         /\ \A c \in ToSet(DespawnEntities(bodies)) :
              \/ c.op = "unjoin" /\ c.joint \in Joints
              \/ c.op = "despawn" /\ c.body \in Bodies
<1>1. IsFiniteSet(bodies) /\ IsFiniteSet(Touching(bodies)) /\ Touching(bodies) \subseteq Joints
  BY FiniteEntities, FinitePieces, FS_Subset
<1> DEFINE p == Queue(Unjoin, Touching(bodies))
           q == Queue(Despawn, bodies)
<1>2. /\ IsList(p) /\ IsList(q)
      /\ ToSet(p) = {Unjoin(j) : j \in Touching(bodies)} /\ ToSet(q) = {Despawn(b) : b \in bodies}
  BY <1>1, UnjoinsQueued, DespawnsQueued, EntriesQueued
<1> HIDE DEF p, q
<1>3. IsList(p \o q) /\ ToSet(p \o q) = ToSet(p) \cup ToSet(q)
  BY <1>2, EntriesJoin
<1>4. \A c \in ToSet(p) : c.op = "unjoin" /\ c.joint \in Joints
  BY <1>1, <1>2 DEF Unjoin, Command
<1>5. \A c \in ToSet(q) : c.op = "despawn" /\ c.body \in Bodies
  BY <1>2 DEF Despawn, Command
<1> QED
  BY <1>3, <1>4, <1>5 DEF DespawnEntities, p, q

LEMMA EconomyKeepsClamps ==
  ASSUME QueueInv, ClampInv, Economy
  PROVE  ClampInv'
<1>1. /\ phase = "economy" /\ phase' = "fragment" /\ UNCHANGED <<body, clamp, joint, pending, ticks>>
      /\ deaths' \subseteq Bodies
  BY DEF Economy, Runs, Losses, Present
<1>2. CASE commands' = <<>>
  <2>1. ToSet(commands') = {}
    BY <1>2 DEF ToSet
  <2> QED
    <3>1. UNCHANGED <<body, clamp, joint, pending>> /\ ticks' = ticks
      BY <1>1
    <3> QED
      BY <1>1, <2>1, <3>1, SystemKeepsClamps
<1>3. CASE commands' # <<>>
  <2>1. PICK kind \in Arrivals : commands' = Spawns(FirstBodies(1), kind)
    BY <1>3 DEF Economy, Queue, Spawns
  <2>2. kind \in {"agent", "inert"}
    BY ClampAssumption
  <2>3. \A c \in ToSet(commands') :
          c.op = "spawn" /\ c.body \in Bodies /\ c.value \in Kind /\ clamp[c.body] = Open
    BY <2>1, <2>2, SpawnsAreOpen
  <2> QED
    <3>1. UNCHANGED <<body, clamp, joint, pending>> /\ ticks' = ticks
      BY <1>1
    <3> QED
      BY <1>1, <2>3, <3>1, SystemKeepsClamps
<1> QED
  BY <1>2, <1>3

LEMMA FragmentKeepsClamps ==
  ASSUME QueueInv, ClampInv, Fragment
  PROVE  ClampInv'
<1>1. PICK victims \in Losses(Present) : \E n :
        commands' = DespawnEntities(victims) \o Spawns(FirstBodies(n), "inert")
  BY DEF Fragment, Queue, Spawns
<1>2. PICK n : commands' = DespawnEntities(victims) \o Spawns(FirstBodies(n), "inert")
  BY <1>1
<1> DEFINE p == DespawnEntities(victims)
           q == Spawns(FirstBodies(n), "inert")
<1>3. victims \in SUBSET Bodies
  BY DEF Losses, Present
<1>4. /\ phase = "fragment" /\ phase' = "deaths"
      /\ UNCHANGED <<body, clamp, joint, pending, deaths, ticks>> /\ deaths \subseteq Bodies
  BY DEF Fragment, Runs, ClampInv, ClampTypeOK
<1>5. IsList(p) /\ \A c \in ToSet(p) : \/ c.op = "unjoin" /\ c.joint \in Joints
                                       \/ c.op = "despawn" /\ c.body \in Bodies
  BY <1>3, DespawnsAreTyped
<1>6. IsList(q) /\ \A c \in ToSet(q) :
        c.op = "spawn" /\ c.body \in Bodies /\ c.value \in Kind /\ clamp[c.body] = Open
  BY SpawnsAreOpen
<1>7. commands' = p \o q
  BY <1>2
<1> HIDE DEF p, q
<1>8. ToSet(commands') = ToSet(p) \cup ToSet(q)
  BY <1>5, <1>6, <1>7, EntriesJoin
<1> QED
  <2>1. UNCHANGED <<body, clamp, joint, pending>> /\ ticks' = ticks /\ deaths' \subseteq Bodies
    BY <1>4
  <2> QED
    BY <1>4, <1>5, <1>6, <1>8, <2>1, SystemKeepsClamps

LEMMA StreamKeepsClamps ==
  ASSUME QueueInv, ClampInv, StreamChunks
  PROVE  ClampInv'
<1>1. PICK gone \in Losses(Present \ Agents),
           new \in {{}} \cup {FirstBodies(1) : kind \in Arrivals \ {"agent"}} :
        commands' = Spawns(new, "inert") \o DespawnEntities(gone)
  BY DEF StreamChunks, Queue, Spawns
<1> DEFINE p == Spawns(new, "inert")
           q == DespawnEntities(gone)
<1>2. gone \in SUBSET Bodies
  BY DEF Losses, Present
<1>3. /\ phase = "stream" /\ phase' = "boundary" /\ ticks' = ticks + 1
      /\ UNCHANGED <<body, clamp, joint, pending, deaths>> /\ deaths \subseteq Bodies
  BY DEF StreamChunks, Runs, ClampInv, ClampTypeOK
<1>4. IsList(p) /\ \A c \in ToSet(p) :
        c.op = "spawn" /\ c.body \in Bodies /\ c.value \in Kind /\ clamp[c.body] = Open
  <2>1. CASE new = {}
    <3>1. IsFiniteSet(new)
      BY <2>1, FS_EmptySet
    <3>2. IsList(p)
      BY <3>1, SpawnsQueued
    <3>3. ToSet(p) = {Spawn(b, "inert") : b \in new}
      <4>1. \A kind : ToSet(Spawns(new, kind)) = {Spawn(b, kind) : b \in new}
        BY <3>1, EntriesQueued
      <4> QED
        BY <4>1
    <3> QED
      BY <2>1, <3>2, <3>3
  <2>2. CASE new = FirstBodies(1)
    BY <2>2, SpawnsAreOpen
  <2> QED
    BY <2>1, <2>2
<1>5. IsList(q) /\ \A c \in ToSet(q) : \/ c.op = "unjoin" /\ c.joint \in Joints
                                       \/ c.op = "despawn" /\ c.body \in Bodies
  BY <1>2, DespawnsAreTyped
<1>6. commands' = p \o q
  BY <1>1
<1> HIDE DEF p, q
<1>7. ToSet(commands') = ToSet(p) \cup ToSet(q)
  BY <1>4, <1>5, <1>6, EntriesJoin
<1> QED
  BY <1>3, <1>4, <1>5, <1>7, SystemKeepsClamps

LEMMA RunDeathsKeepsClamps ==
  ASSUME QueueInv, ClampInv, RunDeaths
  PROVE  ClampInv'
<1> DEFINE dead == deaths \cap Present
           Clamp == [target : Bodies \cup {None}, joint : Joints \cup {None}, cool : 0..CooldownTicks]
<1>1. /\ phase = "deaths" /\ phase' = "stream" /\ commands' = <<>> /\ deaths' = {}
      /\ joint' = [j \in Joints |-> IF j \in Touching(dead) THEN NoJoint ELSE joint[j]]
      /\ body' = [b \in Bodies |-> IF b \in dead THEN "dead" ELSE body[b]]
      /\ clamp' = [b \in Bodies |-> IF b \in dead THEN Open ELSE clamp[b]]
      /\ UNCHANGED <<pending, ticks>>
  BY DEF RunDeaths, Runs, ClampsAfter
<1>2. /\ body \in [Bodies -> Kind \cup {"none"}] /\ clamp \in [Bodies -> Clamp]
      /\ joint \in [Joints -> [owner : Bodies, target : Bodies] \cup {NoJoint}]
      /\ \A b \in Bodies \ Agents : clamp[b] = Open
      /\ pending = {} /\ ticks \in 0..MaxTicks /\ ticks < MaxTicks
  BY <1>1 DEF ClampInv, ClampTypeOK, PhaseInv
<1>3. Open \in Clamp /\ "dead" \in Kind
  BY ClampAssumption DEF Open, Kind
<1> HIDE DEF dead, Clamp
<1>4. /\ body' \in [Bodies -> Kind \cup {"none"}] /\ clamp' \in [Bodies -> Clamp]
      /\ joint' \in [Joints -> [owner : Bodies, target : Bodies] \cup {NoJoint}]
  BY <1>1, <1>2, <1>3
<1>5. \A a \in Agents' : a \in Agents /\ clamp'[a] = clamp[a]
  BY <1>1 DEF Agents
<1>6. \A b \in Bodies \ Agents' : clamp'[b] = Open
  BY <1>1, <1>2 DEF Agents
<1>7. ClampTypeOK'
  BY <1>1, <1>2, <1>4, <1>6 DEF ClampTypeOK, Clamp
<1>8. ToSet(commands') = {}
  BY <1>1 DEF ToSet
<1>9. CommandsInv' /\ JoinsInv' /\ CleanedInv' /\ PhaseInv'
  BY <1>1, <1>2, <1>8 DEF CommandsInv, JoinsInv, CleanedInv, PhaseInv, ToSet
<1>10. \A j \in Held' : j \in Held /\ joint'[j] = joint[j]
  BY <1>1 DEF Held
<1>11. HoldsInv'
  BY <1>5, <1>10 DEF ClampInv, HoldsInv
<1> QED
  BY <1>7, <1>9, <1>11 DEF ClampInv

LEMMA RemoveKeepsClamps ==
  ASSUME QueueInv, ClampInv, NEW b \in Bodies, RemoveEntity(b)
  PROVE  ClampInv'
<1> DEFINE Clamp == [target : Bodies \cup {None}, joint : Joints \cup {None}, cool : 0..CooldownTicks]
<1>1. /\ phase = "boundary" /\ commands = <<>>
      /\ body' = [body EXCEPT ![b] = "none"] /\ clamp' = [clamp EXCEPT ![b] = Open]
      /\ UNCHANGED <<joint, commands, phase, pending, deaths, ticks>>
  BY DEF RemoveEntity, Runs
<1>2. /\ body \in [Bodies -> Kind \cup {"none"}] /\ clamp \in [Bodies -> Clamp]
      /\ \A c \in Bodies \ Agents : clamp[c] = Open
      /\ pending = {}
  BY <1>1 DEF ClampInv, ClampTypeOK, PhaseInv
<1>3. Open \in Clamp
  BY ClampAssumption DEF Open
<1> HIDE DEF Clamp
<1>4. body' \in [Bodies -> Kind \cup {"none"}] /\ clamp' \in [Bodies -> Clamp]
  BY <1>1, <1>2, <1>3
<1>5. \A a \in Agents' : a \in Agents /\ clamp'[a] = clamp[a]
  BY <1>1, <1>2 DEF Agents
<1>6. \A c \in Bodies \ Agents' : clamp'[c] = Open
  BY <1>1, <1>2 DEF Agents
<1>7. ClampTypeOK'
  BY <1>1, <1>2, <1>4, <1>6 DEF ClampInv, ClampTypeOK, Clamp
<1>8. ToSet(commands') = {}
  BY <1>1 DEF ToSet
<1>9. CommandsInv' /\ JoinsInv' /\ CleanedInv' /\ PhaseInv'
  BY <1>1, <1>2, <1>8 DEF CommandsInv, JoinsInv, CleanedInv, PhaseInv, ToSet
<1>10. Held' = Held
  BY <1>1 DEF Held
<1>11. HoldsInv'
  BY <1>1, <1>5, <1>10 DEF ClampInv, HoldsInv
<1> QED
  BY <1>7, <1>9, <1>11 DEF ClampInv

LEMMA NextTickKeepsClamps ==
  ASSUME QueueInv, ClampInv, NextTick
  PROVE  ClampInv'
<1>1. /\ phase' = "cleanup" /\ ticks < MaxTicks /\ commands = <<>> /\ phase = "boundary"
      /\ UNCHANGED <<body, clamp, joint, commands, pending, deaths, ticks>>
  BY DEF NextTick, Runs
<1>2. ToSet(commands') = {}
  BY <1>1 DEF ToSet
<1>3. CommandsInv' /\ JoinsInv' /\ HoldsInv'
  BY <1>1, <1>2, QueuedForClamps
<1>4. Agents' = Agents
  BY <1>1 DEF Agents
<1>5. ClampTypeOK' /\ CleanedInv' /\ PhaseInv'
  BY <1>1, <1>4 DEF ClampInv, ClampTypeOK, CleanedInv, PhaseInv
<1> QED
  BY <1>3, <1>5 DEF ClampInv

LEMMA FewEntries == ToSet(<<>>) = {} /\ \A c : ToSet(<<c>>) = {c}
BY DEF ToSet

LEMMA UnhandedEntries ==
  ASSUME NEW c
  PROVE  /\ IsList(Unhand(c))
         /\ ToSet(Unhand(c)) = IF c.joint = None THEN {} ELSE {Unjoin(c.joint)}
<1>1. CASE c.joint = None
  BY <1>1, EmptyList DEF Unhand, ToSet
<1>2. CASE c.joint # None
  <2>1. Unhand(c) = <<Unjoin(c.joint)>> /\ Unjoin(c.joint).op = "unjoin"
    BY <1>2 DEF Unhand, Unjoin, Command
  <2>2. IsList(Unhand(c))
    BY <2>1, SingleList
  <2>3. ToSet(<<Unjoin(c.joint)>>) = {Unjoin(c.joint)}
    BY DEF ToSet
  <2> QED
    BY <1>2, <2>1, <2>2, <2>3
<1> QED
  BY <1>1, <1>2

\* What an actor does to its clamp and to the queue: it seizes by a joint that
\* nothing refers to, or it keeps what it holds or lets it go.
LEMMA ActedOnClamp ==
  ASSUME QueueInv, ClampInv, NEW a \in Bodies, Act(a)
  PROVE  \E v, X :
           /\ clamp' = [clamp EXCEPT ![a] = v] /\ ToSet(commands') = ToSet(commands) \cup X
           /\ v.cool \in 0..CooldownTicks
           /\ v = [target |-> v.target, joint |-> v.joint, cool |-> v.cool]
           /\ \/ \E j \in FreshJoints, near \in Present :
                   /\ \/ v.target = near /\ v.joint = j
                      \/ v.target = None /\ v.joint = None
                   /\ X \subseteq {Join(j, a, near), Unjoin(j)}
              \/ /\ \/ v.target = clamp[a].target /\ v.joint = clamp[a].joint
                    \/ v.target = None /\ v.joint = None
                 /\ X \subseteq {Unjoin(clamp[a].joint)}
                 /\ X # {} => clamp[a].joint # None
<1>1. PICK want \in BOOLEAN, spent \in BOOLEAN, near \in (Present \ {a}) \cup {None} :
        ApplyOne(a, want, spent, near)
  BY DEF Act
<1> DEFINE c == Cooled(clamp[a])
           seizes == want /\ c.cool = 0 /\ c.target = None /\ near # None
           j == CHOOSE k \in FreshJoints : TRUE
           wished == IF seizes THEN [c EXCEPT !.target = near, !.joint = j]
                     ELSE IF want THEN c ELSE Opened(c)
           drops == wished.target # None /\ (wished.target \notin Present \/ spent)
           v == IF drops THEN Dropped ELSE wished
           seized == IF seizes THEN <<Join(j, a, near)>> ELSE <<>>
           opened == IF want THEN <<>> ELSE Unhand(c)
           dropped == IF drops THEN Unhand(wished) ELSE <<>>
           X == ToSet(seized) \cup ToSet(opened) \cup ToSet(dropped)
           Clamp == [target : Bodies \cup {None}, joint : Joints \cup {None}, cool : 0..CooldownTicks]
           ThreeFields(d) == d = [target |-> d.target, joint |-> d.joint, cool |-> d.cool]
<1>2. /\ seizes => FreshJoints # {}
      /\ clamp' = [clamp EXCEPT ![a] = v]
      /\ commands' = commands \o seized \o opened \o dropped
  BY <1>1 DEF ApplyOne
<1>3. clamp[a] \in Clamp /\ CooldownTicks \in Nat
  BY ClampAssumption DEF ClampInv, ClampTypeOK
<1>4. /\ c.target = clamp[a].target /\ c.joint = clamp[a].joint
      /\ c.cool \in 0..CooldownTicks /\ ThreeFields(c)
  BY <1>3 DEF Cooled
<1> HIDE DEF c
<1>5. /\ Opened(c).target = None /\ Opened(c).joint = None
      /\ Opened(c).cool \in 0..CooldownTicks /\ ThreeFields(Opened(c))
  BY <1>3, <1>4 DEF Opened, Open
<1>6. /\ Dropped.target = None /\ Dropped.joint = None
      /\ Dropped.cool \in 0..CooldownTicks /\ ThreeFields(Dropped)
  BY <1>3 DEF Dropped, Open
<1>7. /\ seizes => wished.target = near /\ wished.joint = j
      /\ ~ seizes => wished = IF want THEN c ELSE Opened(c)
      /\ wished.cool \in 0..CooldownTicks /\ ThreeFields(wished)
  BY <1>4, <1>5
<1>8. seizes => want /\ j \in FreshJoints /\ near \in Present
  BY <1>2
<1>9. /\ IsList(seized) /\ ToSet(seized) = IF seizes THEN {Join(j, a, near)} ELSE {}
      /\ IsList(opened)
      /\ ToSet(opened) = IF want \/ c.joint = None THEN {} ELSE {Unjoin(c.joint)}
      /\ IsList(dropped)
      /\ ToSet(dropped) = IF drops /\ wished.joint # None THEN {Unjoin(wished.joint)} ELSE {}
  <2>1. IsList(<<>>) /\ ToSet(<<>>) = {}
    BY EmptyList, FewEntries
  <2>2. ToSet(<<Join(j, a, near)>>) = {Join(j, a, near)}
    BY FewEntries
  <2>3. IsList(<<Join(j, a, near)>>)
    <3>1. Join(j, a, near).op = "join"
      BY DEF Join, Command
    <3> QED
      BY <3>1, SingleList
  <2> HIDE DEF seizes, j, wished, drops
  <2> QED
    BY <2>1, <2>2, <2>3, UnhandedEntries
<1> HIDE DEF wished, j
<1>10. drops => wished.target # None
  OBVIOUS
<1> HIDE DEF seized, opened, dropped, drops
<1>11. ToSet(commands') = ToSet(commands) \cup X
  <2>1. IsList(commands)
    BY DEF QueueInv
  <2>2. IsList(commands \o seized) /\ ToSet(commands \o seized) = ToSet(commands) \cup ToSet(seized)
    BY <1>9, <2>1, EntriesJoin
  <2>3. /\ IsList(commands \o seized \o opened)
        /\ ToSet(commands \o seized \o opened)
             = ToSet(commands) \cup ToSet(seized) \cup ToSet(opened)
    BY <1>9, <2>2, EntriesJoin
  <2>4. ToSet(commands \o seized \o opened \o dropped)
          = ToSet(commands) \cup ToSet(seized) \cup ToSet(opened) \cup ToSet(dropped)
    BY <1>9, <2>3, EntriesJoin
  <2> QED
    BY <1>2, <2>4
<1>12. /\ v.cool \in 0..CooldownTicks /\ ThreeFields(v)
       /\ \/ v.target = wished.target /\ v.joint = wished.joint
          \/ v.target = None /\ v.joint = None
  BY <1>6, <1>7
<1>13. CASE seizes
  <2>1. X \subseteq {Join(j, a, near), Unjoin(j)}
    BY <1>7, <1>8, <1>9, <1>13
  <2>2. \/ v.target = near /\ v.joint = j
        \/ v.target = None /\ v.joint = None
    BY <1>7, <1>12, <1>13
  <2> HIDE DEF v, X, seizes
  <2> QED
    BY <1>2, <1>8, <1>11, <1>12, <1>13, <2>1, <2>2
<1>14. CASE ~ seizes
  <2>1. /\ \/ v.target = clamp[a].target /\ v.joint = clamp[a].joint
           \/ v.target = None /\ v.joint = None
    BY <1>4, <1>5, <1>7, <1>12, <1>14
  <2>2. X \subseteq {Unjoin(clamp[a].joint)} /\ (X # {} => clamp[a].joint # None)
    BY <1>4, <1>5, <1>7, <1>9, <1>14
  <2> HIDE DEF v, X, seizes
  <2> QED
    BY <1>2, <1>11, <1>12, <2>1, <2>2
<1> QED
  BY <1>13, <1>14

LEMMA ActKeepsClamps ==
  ASSUME QueueInv, ClampInv, NEW a \in Bodies, Act(a)
  PROVE  ClampInv'
<1> DEFINE old == ToSet(commands)
           new == ToSet(commands')
           Clamp == [target : Bodies \cup {None}, joint : Joints \cup {None}, cool : 0..CooldownTicks]
           Seizes(v, X, j, near) ==
             /\ \/ v.target = near /\ v.joint = j
                \/ v.target = None /\ v.joint = None
             /\ X \subseteq {Join(j, a, near), Unjoin(j)}
           Keeps(v, X) ==
             /\ \/ v.target = clamp[a].target /\ v.joint = clamp[a].joint
                \/ v.target = None /\ v.joint = None
             /\ X \subseteq {Unjoin(clamp[a].joint)}
             /\ X # {} => clamp[a].joint # None
<1>1. PICK v, X :
        /\ clamp' = [clamp EXCEPT ![a] = v] /\ new = old \cup X
        /\ v.cool \in 0..CooldownTicks
        /\ v = [target |-> v.target, joint |-> v.joint, cool |-> v.cool]
        /\ \/ \E j \in FreshJoints, near \in Present : Seizes(v, X, j, near)
           \/ Keeps(v, X)
  BY ActedOnClamp
<1>2. /\ phase = "act" /\ a \in pending /\ pending' = pending \ {a}
      /\ phase' = IF pending' = {} THEN "economy" ELSE "act"
      /\ UNCHANGED <<body, joint, deaths, ticks>>
  BY DEF Act
<1>3. /\ clamp \in [Bodies -> Clamp] /\ ClampTypeOK /\ a \in Agents /\ ticks < MaxTicks
      /\ \A c \in old : c.op \in {"join", "unjoin"}
  BY <1>2 DEF ClampInv, ClampTypeOK, PhaseInv
<1>4. Agents' = Agents /\ Held' = Held /\ Held \subseteq Joints /\ Agents \subseteq Bodies
  BY <1>2 DEF Agents, Held
<1>5. None \notin Joints /\ Present \subseteq Bodies
  BY DEF None, Joints, Present
<1>6. \A j \in FreshJoints : /\ j \in Joints \ Held /\ joint[j] = NoJoint
                             /\ \A b \in Agents : clamp[b].joint # j
                             /\ \A c \in old : c.joint # j
  BY DEF FreshJoints, Held, ToSet
<1>7. \A j, b, t : /\ Join(j, b, t).op = "join" /\ Join(j, b, t).joint = j
                   /\ Join(j, b, t).body = b /\ Join(j, b, t).value = t
                   /\ Unjoin(j).op = "unjoin" /\ Unjoin(j).joint = j
  BY DEF Join, Unjoin, Command
<1>8. /\ \A b \in Agents : clamp[b].target = None <=> clamp[b].joint = None
      /\ \A b \in Agents : clamp[b].joint \in Held => joint[clamp[b].joint] = Link(b, clamp[b].target)
      /\ \A b, c \in Agents : clamp[b].joint = clamp[c].joint /\ clamp[b].joint # None => b = c
  BY DEF ClampInv, HoldsInv
<1>9. /\ clamp[a].joint \in Joints \cup {None} /\ clamp[a].target \in Bodies \cup {None}
  BY <1>3 DEF Clamp
<1>10. \A c \in old : \/ c.op = "unjoin" /\ c.joint \in Joints
                      \/ c.op = "join" /\ c.joint \in Joints /\ c.body \in Bodies /\ c.value \in Bodies
  BY <1>3 DEF ClampInv, CommandsInv, old
<1>11. \A c \in old : c.op = "join" =>
    /\ joint[c.joint] \in {NoJoint, Link(c.body, c.value)}
    /\ \A d \in old : d.op = "join" /\ d.joint = c.joint => d.body = c.body /\ d.value = c.value
    /\ \A b \in Agents : clamp[b].joint = c.joint => b = c.body /\ clamp[b].target = c.value
  BY DEF ClampInv, JoinsInv, old
<1> HIDE DEF old, new
<1>12. /\ clamp'[a] = v /\ \A b \in Bodies \ {a} : clamp'[b] = clamp[b]
  BY <1>1, <1>3
<1>13. v \in Clamp
  <2>1. CASE \E j \in FreshJoints, near \in Present : Seizes(v, X, j, near)
    BY <1>1, <1>5, <1>6, <2>1
  <2>2. CASE Keeps(v, X)
    BY <1>1, <1>9, <2>2
  <2> QED
    BY <1>1, <2>1, <2>2
<1>14. ClampTypeOK'
  <2>1. clamp' \in [Bodies -> Clamp]
    BY <1>1, <1>3, <1>13
  <2>2. \A b \in Bodies \ Agents' : clamp'[b] = Open
    BY <1>3, <1>4, <1>12 DEF ClampTypeOK
  <2> QED
    BY <1>2, <1>3, <1>4, <2>1, <2>2 DEF ClampTypeOK, Clamp
<1>15. \A c \in new : \/ c.op = "unjoin" /\ c.joint \in Joints
                      \/ c.op = "join" /\ c.joint \in Joints /\ c.body \in Bodies /\ c.value \in Bodies
  <2>1. CASE \E j \in FreshJoints, near \in Present : Seizes(v, X, j, near)
    BY <1>1, <1>5, <1>6, <1>7, <1>10, <2>1
  <2>2. CASE Keeps(v, X)
    BY <1>1, <1>7, <1>9, <1>10, <2>2
  <2> QED
    BY <1>1, <2>1, <2>2
<1>16. CommandsInv'
  BY <1>15 DEF CommandsInv, ToSet, new
<1>17. \A c \in new : c.op = "join" =>
    /\ joint[c.joint] \in {NoJoint, Link(c.body, c.value)}
    /\ \A d \in new : d.op = "join" /\ d.joint = c.joint => d.body = c.body /\ d.value = c.value
    /\ \A b \in Agents : clamp'[b].joint = c.joint => b = c.body /\ clamp'[b].target = c.value
  <2>1. CASE \E j \in FreshJoints, near \in Present : Seizes(v, X, j, near)
    <3>1. PICK j \in FreshJoints, near \in Present : Seizes(v, X, j, near)
      BY <2>1
    <3>2. \A c \in new : c.op = "join" =>
            \/ c \in old /\ c.joint # j
            \/ c.joint = j /\ c.body = a /\ c.value = near
      BY <1>1, <1>6, <1>7, <3>1
    <3>3. \A c \in new : c.op = "join" => c.joint \in Joints
      BY <1>15
    <3>4. \A b \in Agents : b # a => clamp'[b] = clamp[b] /\ clamp[b].joint # j
      BY <1>4, <1>6, <1>12
    <3> HIDE DEF Seizes
    <3>5. (v.target = near /\ v.joint = j) \/ (v.target = None /\ v.joint = None)
      BY <3>1 DEF Seizes
    <3> QED
      BY <1>3, <1>5, <1>6, <1>11, <1>12, <3>2, <3>3, <3>4, <3>5
  <2>2. CASE Keeps(v, X)
    <3>1. \A c \in new : c.op = "join" => c \in old
      BY <1>1, <1>7, <2>2
    <3>2. \A c \in new : c.op = "join" => c.joint # None
      BY <1>5, <1>15
    <3>3. \A b \in Agents : \/ clamp'[b].joint = clamp[b].joint /\ clamp'[b].target = clamp[b].target
                            \/ clamp'[b].joint = None
      BY <1>4, <1>12, <2>2
    <3> QED
      BY <1>11, <3>1, <3>2, <3>3
  <2> QED
    BY <1>1, <2>1, <2>2
<1>18. JoinsInv'
  BY <1>2, <1>4, <1>17 DEF JoinsInv, ToSet, new
<1>19. HoldsInv'
  <2>1. CASE \E j \in FreshJoints, near \in Present : Seizes(v, X, j, near)
    <3>1. PICK j \in FreshJoints, near \in Present : Seizes(v, X, j, near)
      BY <2>1
    <3>2. \/ v.target = near /\ v.joint = j
          \/ v.target = None /\ v.joint = None
      BY <3>1
    <3>3. near # None /\ j # None /\ None \notin Held /\ j \notin Held
      BY <1>4, <1>5, <1>6 DEF Bodies, None
    <3>4. \A b \in Agents : b # a => clamp'[b] = clamp[b] /\ clamp[b].joint # j
      BY <1>4, <1>6, <1>12
    <3>5. \A b \in Agents : clamp'[b].target = None <=> clamp'[b].joint = None
      BY <1>8, <1>12, <3>2, <3>3, <3>4
    <3>6. \A b \in Agents : clamp'[b].joint \in Held => joint[clamp'[b].joint] = Link(b, clamp'[b].target)
      BY <1>8, <1>12, <3>2, <3>3, <3>4
    <3>7. \A b, c \in Agents : clamp'[b].joint = clamp'[c].joint /\ clamp'[b].joint # None => b = c
      BY <1>8, <1>12, <3>2, <3>3, <3>4
    <3> QED
      BY <1>2, <1>4, <3>5, <3>6, <3>7 DEF HoldsInv
  <2>2. CASE Keeps(v, X)
    <3>1. \A b \in Agents : \/ clamp'[b].joint = clamp[b].joint /\ clamp'[b].target = clamp[b].target
                            \/ clamp'[b].joint = None /\ clamp'[b].target = None
      BY <1>4, <1>12, <2>2
    <3>2. None \notin Held
      BY <1>4, <1>5
    <3> QED
      BY <1>2, <1>4, <1>8, <3>1, <3>2 DEF HoldsInv
  <2> QED
    BY <1>1, <2>1, <2>2
<1>20. CleanedInv' /\ PhaseInv'
  <2>1. \A c \in new : c.op \in {"join", "unjoin"}
    BY <1>15
  <2> QED
    BY <1>2, <1>3, <2>1 DEF CleanedInv, PhaseInv, ToSet, new
<1> QED
  BY <1>14, <1>16, <1>18, <1>19, <1>20 DEF ClampInv

(* What a restore makes of a snapshot. *)

\* Every body that is present has a node, and every node is of one of them.
LEMMA NodesOfBodies ==
  ASSUME IdInv, Observed + Cardinality(Unnamed) <= MaxId
  PROVE  /\ DOMAIN Nodes(Ensured) = Named(Ensured)
         /\ DOMAIN Nodes(Ensured) \subseteq Nat \ {NoId}
         /\ IsFiniteSet(DOMAIN Nodes(Ensured))
         /\ Cardinality(DOMAIN Nodes(Ensured)) \in 0..MaxBodies
         /\ \A b \in Present :
              /\ Ensured[b] \in DOMAIN Nodes(Ensured)
              /\ Nodes(Ensured)[Ensured[b]] =
                   [kind |-> body[b],
                    target |-> IF clamp[b].target \in Present THEN Ensured[clamp[b].target] ELSE NoId,
                    cool |-> clamp[b].cool]
         /\ \A s \in DOMAIN Nodes(Ensured) : \E b \in Present : Ensured[b] = s
         /\ \A b, c \in Present : Ensured[b] = Ensured[c] => b = c
<1> DEFINE nodes == Nodes(Ensured)
           S == DOMAIN nodes
           Node(b) == [kind |-> body[b],
                       target |-> IF clamp[b].target \in Present THEN Ensured[clamp[b].target]
                                                                 ELSE NoId,
                       cool |-> clamp[b].cool]
<1>1. /\ Ensured \in [Bodies -> Ids]
      /\ \A b \in Bodies \ Present : Ensured[b] = NoId
      /\ \A b, c \in Bodies : b # c /\ Ensured[b] = Ensured[c] => Ensured[b] = NoId
      /\ \A b \in Unnamed : Ensured[b] > Observed
      /\ \A b \in Bodies \ Unnamed : Ensured[b] = stableId[b]
  BY EnsuredIsSound
<1>2. Observed \in Nat
  BY ObservedIsAbove DEF Ids
<1>3. Present \subseteq Bodies /\ \A b \in Present : Ensured[b] # NoId
  <2>1. ASSUME NEW b \in Present PROVE Ensured[b] # NoId
    <3>1. b \in Bodies
      BY DEF Present
    <3>2. CASE b \in Unnamed
      BY <1>1, <1>2, <3>2 DEF NoId
    <3>3. CASE b \notin Unnamed
      BY <1>1, <3>1, <3>3 DEF Unnamed
    <3> QED
      BY <3>2, <3>3
  <2> QED
    BY <2>1 DEF Present
<1>4. /\ S = Named(Ensured)
      /\ \A s \in S : nodes[s] = Node(CHOOSE c \in Bodies : Ensured[c] = s)
  BY DEF Nodes
<1> HIDE DEF nodes, S, Node
<1>5. \A s : s \in S <=> s # NoId /\ \E b \in Bodies : Ensured[b] = s
  BY <1>4 DEF Named
<1>6. \A s \in S : \E b \in Present : Ensured[b] = s
  BY <1>1, <1>5
<1>7. \A b, c \in Present : Ensured[b] = Ensured[c] => b = c
  BY <1>1, <1>3
<1>8. ASSUME NEW b \in Present PROVE Ensured[b] \in S /\ nodes[Ensured[b]] = Node(b)
  <2>1. b \in Bodies /\ Ensured[b] \in S
    BY <1>3, <1>5
  <2>2. \A c \in Bodies : Ensured[c] = Ensured[b] => c = b
    BY <1>1, <1>3
  <2>3. (CHOOSE c \in Bodies : Ensured[c] = Ensured[b]) = b
    BY <2>1, <2>2
  <2> QED
    BY <1>4, <2>1, <2>3
<1>9. S \subseteq Nat \ {NoId}
  BY <1>1, <1>5, SnapshotAssumption DEF Ids
<1>10. IsFiniteSet(S) /\ Cardinality(S) \in 0..MaxBodies
  <2>1. IsFiniteSet(Present) /\ Cardinality(Present) <= Cardinality(Bodies)
    <3>1. Present \in SUBSET Bodies
      BY <1>3
    <3> QED
      BY <3>1, FiniteEntities, FS_Subset
  <2>2. Cardinality(Bodies) = MaxBodies
    <3>1. MaxBodies \in Nat
      BY ClampAssumption
    <3>2. Cardinality(1..MaxBodies) = IF 1 > MaxBodies THEN 0 ELSE MaxBodies - 1 + 1
      BY <3>1, FS_Interval
    <3> QED
      BY <3>1, <3>2 DEF Bodies
  <2>3. [b \in Present |-> Ensured[b]] \in Surjection(Present, S)
    BY <1>6, <1>8 DEF Surjection
  <2>4. IsFiniteSet(S) /\ Cardinality(S) <= Cardinality(Present)
    BY <2>1, <2>3, FS_Surjection
  <2>5. Cardinality(S) \in Nat /\ Cardinality(Present) \in Nat /\ MaxBodies \in Nat
    BY <2>1, <2>4, FS_CardinalityType, ClampAssumption
  <2> QED
    BY <2>1, <2>2, <2>4, <2>5
<1> QED
  BY <1>4, <1>6, <1>7, <1>8, <1>9, <1>10 DEF nodes, S, Node

\* Nodes become entities of their own.
LEMMA EntitiesOfNodes ==
  ASSUME NEW nodes, DOMAIN nodes \subseteq Nat \ {NoId}, IsFiniteSet(DOMAIN nodes),
         Cardinality(DOMAIN nodes) \in 0..MaxBodies
  PROVE  /\ \A s \in DOMAIN nodes : EntityOf(nodes, s) \in Bodies
         /\ \A r, s \in DOMAIN nodes : EntityOf(nodes, r) = EntityOf(nodes, s) => r = s
<1> DEFINE S == DOMAIN nodes
<1>1. S \in SUBSET Nat /\ IsFiniteSet(S) /\ Cardinality(S) \in 0..MaxBodies /\ MaxBodies \in Nat
  BY ClampAssumption
<1>2. \A s \in S : EntityOf(nodes, s) = Cardinality({g \in S : g <= s})
  BY DEF EntityOf, Rank
<1> HIDE DEF S
<1>3. ASSUME NEW s \in S PROVE EntityOf(nodes, s) \in Bodies
  <2>1. EntityOf(nodes, s) \in 1..Cardinality(S)
    BY <1>1, <1>2, RankBounds
  <2> QED
    BY <1>1, <2>1 DEF Bodies
<1>4. ASSUME NEW r \in S, NEW s \in S, EntityOf(nodes, r) = EntityOf(nodes, s) PROVE r = s
  <2>1. Cardinality({g \in S : g <= r}) = Cardinality({g \in S : g <= s})
    BY <1>2, <1>4
  <2> QED
    BY <1>1, <2>1, RankInjective
<1> QED
  BY <1>3, <1>4 DEF S

\* Clamps that hold a body get joints of their own: there are enough, for in the
\* world that was saved they had as many.
LEMMA JointsOfNodes ==
  ASSUME IdInv, ClampInv, Observed + Cardinality(Unnamed) <= MaxId
  PROVE  /\ \A s \in Clamping(Nodes(Ensured)) : JointOf(Nodes(Ensured), s) \in Joints
         /\ \A r, s \in Clamping(Nodes(Ensured)) :
              JointOf(Nodes(Ensured), r) = JointOf(Nodes(Ensured), s) => r = s
<1> DEFINE nodes == Nodes(Ensured)
           C == Clamping(nodes)
           Of(s) == CHOOSE b \in Present : Ensured[b] = s
           held == [s \in C |-> clamp[Of(s)].joint]
<1>1. /\ DOMAIN nodes \subseteq Nat \ {NoId} /\ IsFiniteSet(DOMAIN nodes)
      /\ \A b \in Present :
           nodes[Ensured[b]] =
                   [kind |-> body[b],
                    target |-> IF clamp[b].target \in Present THEN Ensured[clamp[b].target] ELSE NoId,
                    cool |-> clamp[b].cool]
      /\ \A s \in DOMAIN nodes : \E b \in Present : Ensured[b] = s
  BY NodesOfBodies
<1>2. C \subseteq DOMAIN nodes /\ \A s \in C : nodes[s].kind = "agent" /\ nodes[s].target \in DOMAIN nodes
  BY DEF Clamping, AgentsOf
<1> HIDE DEF nodes, C
<1>3. C \in SUBSET Nat /\ IsFiniteSet(C)
  BY <1>1, <1>2, FS_Subset
<1>4. /\ clamp \in [Bodies -> [target : Bodies \cup {None}, joint : Joints \cup {None},
                               cool : 0..CooldownTicks]]
      /\ \A a \in Agents : clamp[a].target = None <=> clamp[a].joint = None
      /\ \A a, b \in Agents : clamp[a].joint = clamp[b].joint /\ clamp[a].joint # None => a = b
  BY DEF ClampInv, ClampTypeOK, HoldsInv
<1>5. ASSUME NEW s \in C
      PROVE  Of(s) \in Agents /\ Ensured[Of(s)] = s /\ clamp[Of(s)].joint \in Joints
  <2>1. Of(s) \in Present /\ Ensured[Of(s)] = s
    BY <1>1, <1>2
  <2> HIDE DEF Of
  <2>2. body[Of(s)] = "agent" /\ clamp[Of(s)].target \in Present
    <3>1. nodes[s] = [kind |-> body[Of(s)],
                      target |-> IF clamp[Of(s)].target \in Present
                                 THEN Ensured[clamp[Of(s)].target] ELSE NoId,
                      cool |-> clamp[Of(s)].cool]
      BY <1>1, <2>1
    <3>2. nodes[s].kind = body[Of(s)] /\ (clamp[Of(s)].target \notin Present => nodes[s].target = NoId)
      BY <3>1
    <3> QED
      BY <1>1, <1>2, <3>2
  <2>3. Of(s) \in Agents /\ Of(s) \in Bodies
    BY <2>1, <2>2 DEF Agents, Present
  <2>4. clamp[Of(s)].target # None
    BY <2>2 DEF Present, Bodies, None
  <2> QED
    BY <1>4, <2>1, <2>3, <2>4
<1> HIDE DEF Of
<1>6. held \in Injection(C, Joints)
  <2>1. held \in [C -> Joints]
    BY <1>5
  <2>2. \A r, s \in C : held[r] = held[s] => r = s
    <3>1. None \notin Joints
      BY DEF None, Joints
    <3> QED
      BY <1>4, <1>5, <3>1
  <2> QED
    BY <2>1, <2>2 DEF Injection, IsInjective
<1>7. Cardinality(C) <= Cardinality(Joints)
  BY <1>6, FiniteEntities, FS_Injection
<1>8. Cardinality(Joints) = MaxJoints /\ MaxJoints \in Nat
  <2>1. MaxJoints \in Nat
    BY ClampAssumption
  <2>2. Cardinality(1..MaxJoints) = IF 1 > MaxJoints THEN 0 ELSE MaxJoints - 1 + 1
    BY <2>1, FS_Interval
  <2> QED
    BY <2>1, <2>2 DEF Joints
<1>9. \A s \in C : JointOf(nodes, s) = Cardinality({g \in C : g <= s})
  BY DEF JointOf, Rank, C
<1>10. ASSUME NEW s \in C PROVE JointOf(nodes, s) \in Joints
  <2>1. JointOf(nodes, s) \in 1..Cardinality(C)
    BY <1>3, <1>9, RankBounds
  <2>2. Cardinality(C) \in Nat
    BY <1>3, FS_CardinalityType
  <2> QED
    BY <1>7, <1>8, <2>1, <2>2 DEF Joints
<1>11. ASSUME NEW r \in C, NEW s \in C, JointOf(nodes, r) = JointOf(nodes, s) PROVE r = s
  <2>1. Cardinality({g \in C : g <= r}) = Cardinality({g \in C : g <= s})
    BY <1>9, <1>11
  <2> QED
    BY <1>3, <2>1, RankInjective
<1> QED
  BY <1>10, <1>11 DEF nodes, C

\* The restored world, body by body and joint by joint.
LEMMA RestoredWorld ==
  ASSUME IdInv, ClampInv, Observed + Cardinality(Unnamed) <= MaxId,
         NEW given \in SUBSET AgentsOf(Nodes(Ensured)),
         body' = RestoredBody(Nodes(Ensured), given), clamp' = RestoredClamp(Nodes(Ensured), given),
         joint' = RestoredJoint(Nodes(Ensured)), stableId' = RestoredId(Nodes(Ensured))
  PROVE  LET nodes == Nodes(Ensured)
             S == DOMAIN nodes
             C == Clamping(nodes)
         IN /\ \A s \in S :
                 /\ EntityOf(nodes, s) \in Bodies
                 /\ body'[EntityOf(nodes, s)] = IF nodes[s].kind = "agent" /\ s \notin given
                                                THEN "inert" ELSE nodes[s].kind
                 /\ stableId'[EntityOf(nodes, s)] = s
                 /\ s \notin given => clamp'[EntityOf(nodes, s)] = Open
            /\ \A s \in given :
                 clamp'[EntityOf(nodes, s)] =
                   [target |-> IF s \in C THEN EntityOf(nodes, nodes[s].target) ELSE None,
                    joint |-> JointOf(nodes, s), cool |-> nodes[s].cool]
            /\ \A b \in Bodies : (~ \E s \in S : EntityOf(nodes, s) = b) =>
                 body'[b] = "none" /\ clamp'[b] = Open /\ stableId'[b] = NoId
            /\ \A s \in C : joint'[JointOf(nodes, s)] =
                              Link(EntityOf(nodes, s), EntityOf(nodes, nodes[s].target))
            /\ \A j \in Joints : (~ \E s \in C : JointOf(nodes, s) = j) => joint'[j] = NoJoint
<1> DEFINE nodes == Nodes(Ensured)
           S == DOMAIN nodes
           C == Clamping(nodes)
           E(s) == EntityOf(nodes, s)
           J(s) == JointOf(nodes, s)
<1>1. /\ \A s \in S : E(s) \in Bodies
      /\ \A r, s \in S : E(r) = E(s) => r = s
  BY NodesOfBodies, EntitiesOfNodes
<1>2. /\ \A s \in C : J(s) \in Joints
      /\ \A r, s \in C : J(r) = J(s) => r = s
  BY JointsOfNodes
<1>3. given \subseteq S /\ C \subseteq S
  BY DEF AgentsOf, Clamping
<1>4. /\ body' = [b \in Bodies |->
            IF \E s \in S : E(s) = b
            THEN LET s == CHOOSE r \in S : E(r) = b
                 IN IF nodes[s].kind = "agent" /\ s \notin given THEN "inert" ELSE nodes[s].kind
            ELSE "none"]
      /\ clamp' = [b \in Bodies |->
            IF \E s \in given : E(s) = b
            THEN LET s == CHOOSE r \in given : E(r) = b
                 IN [target |-> IF s \in C THEN E(nodes[s].target) ELSE None,
                     joint |-> J(s), cool |-> nodes[s].cool]
            ELSE Open]
      /\ joint' = [j \in Joints |->
            IF \E s \in C : J(s) = j
            THEN LET s == CHOOSE r \in C : J(r) = j
                 IN [owner |-> E(s), target |-> E(nodes[s].target)]
            ELSE NoJoint]
      /\ stableId' = [b \in Bodies |->
            IF \E s \in S : E(s) = b THEN CHOOSE s \in S : E(s) = b ELSE NoId]
  BY DEF RestoredBody, RestoredClamp, RestoredJoint, RestoredId
<1> HIDE DEF nodes, S, C, E, J
<1>5. ASSUME NEW s \in S
      PROVE  /\ body'[E(s)] = IF nodes[s].kind = "agent" /\ s \notin given
                              THEN "inert" ELSE nodes[s].kind
             /\ stableId'[E(s)] = s
             /\ s \notin given => clamp'[E(s)] = Open
  <2>1. E(s) \in Bodies /\ (CHOOSE r \in S : E(r) = E(s)) = s
    BY <1>1
  <2>2. s \notin given => ~ \E r \in given : E(r) = E(s)
    BY <1>1, <1>3
  <2> QED
    BY <1>4, <2>1, <2>2
<1>6. ASSUME NEW s \in given
      PROVE  clamp'[E(s)] = [target |-> IF s \in C THEN E(nodes[s].target) ELSE None,
                             joint |-> J(s), cool |-> nodes[s].cool]
  <2>1. E(s) \in Bodies /\ (CHOOSE r \in given : E(r) = E(s)) = s
    BY <1>1, <1>3
  <2> QED
    BY <1>4, <2>1
<1>7. ASSUME NEW b \in Bodies, ~ \E s \in S : E(s) = b
      PROVE  body'[b] = "none" /\ clamp'[b] = Open /\ stableId'[b] = NoId
  BY <1>3, <1>4, <1>7
<1>8. ASSUME NEW s \in C PROVE joint'[J(s)] = Link(E(s), E(nodes[s].target))
  <2>1. J(s) \in Joints /\ (CHOOSE r \in C : J(r) = J(s)) = s
    BY <1>2
  <2> QED
    BY <1>4, <2>1 DEF Link
<1>9. ASSUME NEW j \in Joints, ~ \E s \in C : J(s) = j PROVE joint'[j] = NoJoint
  BY <1>4, <1>9
<1> QED
  BY <1>1, <1>5, <1>6, <1>7, <1>8, <1>9 DEF nodes, S, C, E, J

LEMMA RestoreKeepsClamps ==
  ASSUME IdInv, ClampInv, Restore
  PROVE  ClampInv'
<1> DEFINE nodes == Nodes(Ensured)
           S == DOMAIN nodes
           C == Clamping(nodes)
           E(s) == EntityOf(nodes, s)
           J(s) == JointOf(nodes, s)
           T(s) == IF s \in C THEN E(nodes[s].target) ELSE None
           Clamp == [target : Bodies \cup {None}, joint : Joints \cup {None}, cool : 0..CooldownTicks]
<1>1. PICK given \in SUBSET AgentsOf(nodes) :
        /\ body' = RestoredBody(nodes, given) /\ clamp' = RestoredClamp(nodes, given)
        /\ joint' = RestoredJoint(nodes) /\ stableId' = RestoredId(nodes)
  BY DEF Restore
<1>2. /\ phase = "boundary" /\ commands = <<>> /\ Observed + Cardinality(Unnamed) <= MaxId
      /\ UNCHANGED <<commands, phase, pending, deaths, ticks>>
  BY DEF Restore, Runs
<1>3. /\ \A s \in S :
           /\ E(s) \in Bodies
           /\ body'[E(s)] = IF nodes[s].kind = "agent" /\ s \notin given
                            THEN "inert" ELSE nodes[s].kind
           /\ s \notin given => clamp'[E(s)] = Open
      /\ \A s \in given :
           clamp'[E(s)] = [target |-> T(s), joint |-> J(s), cool |-> nodes[s].cool]
      /\ \A b \in Bodies : (~ \E s \in S : E(s) = b) => body'[b] = "none" /\ clamp'[b] = Open
      /\ \A s \in C : joint'[J(s)] = Link(E(s), E(nodes[s].target))
      /\ \A j \in Joints : (~ \E s \in C : J(s) = j) => joint'[j] = NoJoint
  BY <1>1, <1>2, RestoredWorld
<1>4. /\ \A s \in C : J(s) \in Joints
      /\ \A r, s \in C : J(r) = J(s) => r = s
      /\ \A r, s \in S : E(r) = E(s) => r = s
  BY <1>2, JointsOfNodes, NodesOfBodies, EntitiesOfNodes
<1>5. \A s : s \notin C => J(s) = None
  BY DEF JointOf
<1>6. /\ C \subseteq AgentsOf(nodes) /\ given \subseteq AgentsOf(nodes) /\ AgentsOf(nodes) \subseteq S
      /\ \A s \in AgentsOf(nodes) : nodes[s].kind = "agent"
      /\ \A s \in C : nodes[s].target \in S
  BY DEF Clamping, AgentsOf
<1>7. /\ body \in [Bodies -> Kind \cup {"none"}] /\ clamp \in [Bodies -> Clamp]
      /\ pending = {} /\ deaths \subseteq Bodies /\ ticks \in 0..MaxTicks
  BY <1>2 DEF ClampInv, ClampTypeOK, PhaseInv
<1>8. \A s \in S : nodes[s].kind \in Kind /\ nodes[s].cool \in 0..CooldownTicks
  <2>1. ASSUME NEW s \in S PROVE nodes[s].kind \in Kind /\ nodes[s].cool \in 0..CooldownTicks
    <3>1. PICK b \in Present : Ensured[b] = s
      BY <1>2, NodesOfBodies
    <3>2. nodes[s].kind = body[b] /\ nodes[s].cool = clamp[b].cool
      <4>1. nodes[s] =
              [kind |-> body[b],
               target |-> IF clamp[b].target \in Present THEN Ensured[clamp[b].target] ELSE NoId,
               cool |-> clamp[b].cool]
        BY <1>2, <3>1, NodesOfBodies
      <4> QED
        BY <4>1
    <3>3. b \in Bodies /\ body[b] # "none"
      BY DEF Present
    <3> HIDE DEF nodes
    <3> QED
      BY <1>7, <3>2, <3>3
  <2> QED
    BY <2>1
<1>9. /\ body' = [b \in Bodies |-> body'[b]] /\ clamp' = [b \in Bodies |-> clamp'[b]]
      /\ joint' = [j \in Joints |-> joint'[j]]
  BY <1>1 DEF RestoredBody, RestoredClamp, RestoredJoint
<1>10. Open \in Clamp /\ "inert" \in Kind /\ None \notin Bodies /\ None \notin Joints
  BY ClampAssumption DEF Open, Kind, None, Bodies, Joints
<1> HIDE DEF nodes, S, C, E, J, Clamp, T
<1>11. \A b \in Bodies : body'[b] \in Kind \cup {"none"}
  <2>1. ASSUME NEW b \in Bodies PROVE body'[b] \in Kind \cup {"none"}
    <3>1. CASE \E s \in S : E(s) = b
      BY <1>3, <1>8, <1>10, <3>1
    <3>2. CASE ~ \E s \in S : E(s) = b
      BY <1>3, <3>2
    <3> QED
      BY <3>1, <3>2
  <2> QED
    BY <2>1
<1>12. \A b \in Bodies : \/ clamp'[b] = Open
                         \/ \E s \in given : E(s) = b
  BY <1>3
<1>13. \A s \in given : clamp'[E(s)] \in Clamp
  <2>1. ASSUME NEW s \in given PROVE clamp'[E(s)] \in Clamp
    <3>1. T(s) \in Bodies \cup {None} /\ J(s) \in Joints \cup {None}
      BY <1>3, <1>4, <1>5, <1>6 DEF T
    <3>2. nodes[s].cool \in 0..CooldownTicks
      BY <1>6, <1>8
    <3>3. clamp'[E(s)] = [target |-> T(s), joint |-> J(s), cool |-> nodes[s].cool]
      BY <1>3
    <3> QED
      BY <3>1, <3>2, <3>3 DEF Clamp
  <2> QED
    BY <2>1
<1>14. \A b \in Bodies : clamp'[b] \in Clamp
  BY <1>10, <1>12, <1>13
<1>15. \A j \in Joints : joint'[j] \in [owner : Bodies, target : Bodies] \cup {NoJoint}
  <2>1. \A s \in C : Link(E(s), E(nodes[s].target)) \in [owner : Bodies, target : Bodies]
    BY <1>3, <1>6 DEF Link
  <2> QED
    BY <1>3, <2>1
<1>16. \A s \in given : E(s) \in Agents'
  BY <1>3, <1>6 DEF Agents
<1>17. \A b \in Bodies \ Agents' : clamp'[b] = Open
  BY <1>12, <1>16
<1>18. \A a \in Agents' : \E s \in given : E(s) = a
  <2>1. ASSUME NEW a \in Agents' PROVE \E s \in given : E(s) = a
    <3>1. a \in Bodies /\ body'[a] = "agent"
      BY DEF Agents
    <3>2. PICK s \in S : E(s) = a
      BY <1>3, <3>1
    <3>3. s \in given
      BY <1>3, <3>1, <3>2
    <3> QED
      BY <3>2, <3>3
  <2> QED
    BY <2>1
<1>19. ClampTypeOK'
  <2>1. /\ body' \in [Bodies -> Kind \cup {"none"}] /\ clamp' \in [Bodies -> Clamp]
        /\ joint' \in [Joints -> [owner : Bodies, target : Bodies] \cup {NoJoint}]
    BY <1>9, <1>11, <1>14, <1>15
  <2> QED
    BY <1>2, <1>7, <1>17, <2>1 DEF ClampInv, ClampTypeOK, Clamp
<1>20. ToSet(commands') = {}
  BY <1>2 DEF ToSet
<1>21. CommandsInv' /\ JoinsInv' /\ CleanedInv' /\ PhaseInv'
  BY <1>2, <1>7, <1>20 DEF CommandsInv, JoinsInv, CleanedInv, PhaseInv, ToSet
<1>22. HoldsInv'
  <2>1. ASSUME NEW s \in given
        PROVE  /\ clamp'[E(s)].target = IF s \in C THEN E(nodes[s].target) ELSE None
               /\ clamp'[E(s)].joint = J(s)
    <3>1. clamp'[E(s)] = [target |-> T(s), joint |-> J(s), cool |-> nodes[s].cool]
      BY <1>3
    <3> QED
      BY <3>1 DEF T
  <2>2. \A s \in C : E(nodes[s].target) # None /\ J(s) # None
    BY <1>3, <1>4, <1>6, <1>10
  <2>3. \A a \in Agents' : clamp'[a].target = None <=> clamp'[a].joint = None
    BY <1>5, <1>18, <2>1, <2>2
  <2>4. \A a, b \in Agents' : clamp'[a].joint = clamp'[b].joint /\ clamp'[a].joint # None => a = b
    BY <1>4, <1>5, <1>18, <2>1
  <2>5. ASSUME NEW a \in Agents', clamp'[a].joint \in Held'
        PROVE  joint'[clamp'[a].joint] = Link(a, clamp'[a].target)
    <3>1. PICK s \in given : E(s) = a
      BY <1>18
    <3>2. clamp'[a].joint # None
      BY <1>10, <2>5 DEF Held
    <3>3. s \in C
      BY <1>5, <2>1, <3>1, <3>2
    <3> QED
      BY <1>3, <2>1, <3>1, <3>3
  <2> QED
    BY <2>3, <2>4, <2>5 DEF HoldsInv
<1> QED
  BY <1>19, <1>21, <1>22 DEF ClampInv

LEMMA ClampStep == IdInv /\ QueueInv /\ ClampInv /\ [Next]_vars => ClampInv'
<1> SUFFICES ASSUME IdInv, QueueInv, ClampInv, [Next]_vars PROVE ClampInv'
  OBVIOUS
<1>1. CASE UNCHANGED clampVars
  <2>1. UNCHANGED <<body, clamp, joint, commands, phase, pending, deaths, ticks>>
    BY <1>1 DEF clampVars
  <2> QED
    BY <2>1 DEF ClampInv, ClampTypeOK, CommandsInv, JoinsInv, HoldsInv, CleanedInv, PhaseInv,
       Agents, Held, ToSet
<1>2. CASE EnsureStableIds \/ \E b \in Bodies, s \in ExplicitIds : InsertStableId(b, s)
  BY <1>1, <1>2 DEF EnsureStableIds, InsertStableId
<1>3. CASE UNCHANGED vars
  BY <1>1, <1>3 DEF vars, clampVars
<1>4. CASE Restore
  BY <1>4, RestoreKeepsClamps
<1>5. CASE Tick
  BY <1>5, ApplyKeepsClamps, CleanupKeepsClamps, GatherKeepsClamps, ActKeepsClamps,
     EconomyKeepsClamps, FragmentKeepsClamps, RunDeathsKeepsClamps, StreamKeepsClamps,
     NextTickKeepsClamps DEF Tick
<1>6. ASSUME NEW b \in Bodies, RemoveEntity(b) PROVE ClampInv'
  BY <1>6, RemoveKeepsClamps
<1> QED
  BY <1>2, <1>3, <1>4, <1>5, <1>6 DEF Next

RestoresInv == restores \in 0..MaxRestores

LEMMA RestoresStep == RestoresInv /\ [Next]_vars => RestoresInv'
<1> SUFFICES ASSUME RestoresInv, [Next]_vars PROVE RestoresInv'
  OBVIOUS
<1>1. MaxRestores \in Nat
  BY SnapshotAssumption
<1>2. IdsFollow => restores' = restores
  BY DEF IdsFollow
<1>3. EnsureStableIds \/ (\E b \in Bodies, s \in ExplicitIds : InsertStableId(b, s))
        => restores' = restores
  BY DEF EnsureStableIds, InsertStableId
<1>4. Restore => restores < MaxRestores /\ restores' = restores + 1
  BY DEF Restore
<1>5. UNCHANGED vars => restores' = restores
  BY DEF vars
<1>6. restores' = restores \/ (restores < MaxRestores /\ restores' = restores + 1)
  BY <1>2, <1>3, <1>4, <1>5 DEF Next
<1> QED
  BY <1>1, <1>6 DEF RestoresInv

\* Types of bodies, clamps, joints and identities.
THEOREM SnapshotsTypeCorrect == Spec => []TypeOK
<1>1. Init => RestoresInv
  BY SnapshotAssumption DEF Init, RestoresInv
<1>2. ClampInv /\ IdInv /\ RestoresInv => TypeOK
  <2>1. MaxId \in Nat /\ Ids = AllIds \cup {NoId}
    BY SnapshotAssumption DEF Ids, AllIds, NoId
  <2> SUFFICES ASSUME ClampInv, IdInv, RestoresInv PROVE TypeOK
    OBVIOUS
  <2>2. named \subseteq AllIds
    BY <2>1 DEF IdInv, Ids, AllIds
  <2> QED
    BY <2>1, <2>2 DEF ClampInv, IdInv, RestoresInv, TypeOK, Ids
<1> QED
  BY QueueInit, QueueStep, IdInit, IdStep, ClampsAtFirst, ClampStep, RestoresStep, <1>1, <1>2,
     PTL DEF Spec

\* When the actors of a tick are about to act, clamps and joints agree
\* (cleanup_clamp_joints).
THEOREM ClampsHoldTheirJoints == Spec => []ClampsAgree
<1>1. ClampInv => ClampsAgree
  <2> SUFFICES ASSUME ClampInv, Runs("gather") PROVE ClampsAgree
    BY DEF ClampsAgree
  <2>1. phase = "gather" /\ ToSet(commands) = {}
    BY DEF Runs, ToSet
  <2>2. /\ \A a \in Agents : clamp[a].target # None => clamp[a].joint \in Held
        /\ \A j \in Held : joint[j].owner \in Agents /\ clamp[joint[j].owner].joint = j
    BY <2>1 DEF ClampInv, CleanedInv
  <2> QED
    BY <2>2 DEF ClampInv, HoldsInv, ClampsAgree, Link
<1> QED
  BY QueueInit, QueueStep, IdInit, IdStep, ClampsAtFirst, ClampStep, <1>1, PTL DEF Spec

\* A restore that loses no agent was given every controller.
LEMMA EveryControllerGiven ==
  ASSUME IdInv, ClampInv, Observed + Cardinality(Unnamed) <= MaxId,
         NEW given \in SUBSET AgentsOf(Nodes(Ensured)),
         body' = RestoredBody(Nodes(Ensured), given), clamp' = RestoredClamp(Nodes(Ensured), given),
         joint' = RestoredJoint(Nodes(Ensured)), stableId' = RestoredId(Nodes(Ensured)),
         Cardinality(Agents') = Cardinality(Agents)
  PROVE  given = AgentsOf(Nodes(Ensured))
<1> DEFINE nodes == Nodes(Ensured)
           S == DOMAIN nodes
           A == AgentsOf(nodes)
           E(s) == EntityOf(nodes, s)
<1>1. /\ IsFiniteSet(S)
      /\ \A b \in Present : Ensured[b] \in S /\ nodes[Ensured[b]].kind = body[b]
      /\ \A s \in S : \E b \in Present : Ensured[b] = s
      /\ \A b, c \in Present : Ensured[b] = Ensured[c] => b = c
  <2>1. ASSUME NEW b \in Present PROVE nodes[Ensured[b]].kind = body[b]
    <3>1. nodes[Ensured[b]] =
            [kind |-> body[b],
             target |-> IF clamp[b].target \in Present THEN Ensured[clamp[b].target] ELSE NoId,
             cool |-> clamp[b].cool]
      BY NodesOfBodies
    <3> QED
      BY <3>1
  <2> HIDE DEF nodes
  <2> QED
    BY <2>1, NodesOfBodies DEF nodes
<1>2. \A s \in S : /\ E(s) \in Bodies
                   /\ body'[E(s)] = IF nodes[s].kind = "agent" /\ s \notin given
                                    THEN "inert" ELSE nodes[s].kind
  BY RestoredWorld
<1>3. \A b \in Bodies : (~ \E s \in S : E(s) = b) => body'[b] = "none"
  BY RestoredWorld
<1>4. \A r, s \in S : E(r) = E(s) => r = s
  BY NodesOfBodies, EntitiesOfNodes
<1>5. A = {s \in S : nodes[s].kind = "agent"} /\ given \subseteq A
  BY DEF AgentsOf
<1> HIDE DEF nodes, S, A, E
<1>6. IsFiniteSet(A) /\ IsFiniteSet(given) /\ given \in SUBSET A
  BY <1>1, <1>5, FS_Subset
<1>7. Cardinality(A) = Cardinality(Agents)
  <2>1. [b \in Agents |-> Ensured[b]] \in Bijection(Agents, A)
    <3>1. \A b \in Agents : b \in Present /\ body[b] = "agent"
      BY DEF Agents, Present
    <3>2. \A b \in Present : body[b] = "agent" => b \in Agents
      BY DEF Agents, Present
    <3>3. [b \in Agents |-> Ensured[b]] \in [Agents -> A]
      BY <1>1, <1>5, <3>1
    <3>4. \A b, c \in Agents : Ensured[b] = Ensured[c] => b = c
      BY <1>1, <3>1
    <3>5. \A s \in A : \E b \in Agents : Ensured[b] = s
      BY <1>1, <1>5, <3>2
    <3> QED
      BY <3>3, <3>4, <3>5 DEF Bijection, Injection, Surjection, IsInjective
  <2>2. IsFiniteSet(Agents)
    <3>1. Agents \in SUBSET Bodies
      BY DEF Agents
    <3> QED
      BY <3>1, FiniteEntities, FS_Subset
  <2>3. ExistsBijection(Agents, A)
    BY <2>1 DEF ExistsBijection
  <2> QED
    BY <2>2, <2>3, FS_Bijection
<1>8. Cardinality(given) = Cardinality(Agents')
  <2>1. [s \in given |-> E(s)] \in Bijection(given, Agents')
    <3>1. \A s \in given : s \in S /\ E(s) \in Agents'
      BY <1>2, <1>5 DEF Agents
    <3>2. \A s, r \in given : E(s) = E(r) => s = r
      BY <1>4, <3>1
    <3>3. \A a \in Agents' : \E s \in given : E(s) = a
      <4>1. ASSUME NEW a \in Agents' PROVE \E s \in given : E(s) = a
        <5>1. a \in Bodies /\ body'[a] = "agent"
          BY DEF Agents
        <5>2. PICK s \in S : E(s) = a
          BY <1>3, <5>1
        <5>3. s \in given
          BY <1>2, <5>1, <5>2
        <5> QED
          BY <5>2, <5>3
      <4> QED
        BY <4>1
    <3> QED
      BY <3>1, <3>2, <3>3 DEF Bijection, Injection, Surjection, IsInjective
  <2>2. ExistsBijection(given, Agents')
    BY <2>1 DEF ExistsBijection
  <2> QED
    BY <1>6, <2>2, FS_Bijection
<1>9. Cardinality(given) = Cardinality(A)
  BY <1>7, <1>8
<1> QED
  BY <1>6, <1>9, FS_Subset DEF A, nodes

\* With every controller, the identities name what they named.
LEMMA RestoreRecaptures ==
  ASSUME IdInv, ClampInv, Restore, Cardinality(Agents') = Cardinality(Agents)
  PROVE  Nodes(stableId)' = Nodes(Ensured)
<1> DEFINE nodes == Nodes(Ensured)
           S == DOMAIN nodes
           C == Clamping(nodes)
           A == AgentsOf(nodes)
           E(s) == EntityOf(nodes, s)
           T(s) == IF s \in C THEN E(nodes[s].target) ELSE None
           after == Nodes(stableId)'
           Found(b) == [kind |-> body'[b],
                        target |-> IF clamp'[b].target \in Present' THEN stableId'[clamp'[b].target]
                                                                    ELSE NoId,
                        cool |-> clamp'[b].cool]
<1>1. PICK given \in SUBSET A :
        /\ body' = RestoredBody(nodes, given) /\ clamp' = RestoredClamp(nodes, given)
        /\ joint' = RestoredJoint(nodes) /\ stableId' = RestoredId(nodes)
  BY DEF Restore
<1>2. Observed + Cardinality(Unnamed) <= MaxId
  BY DEF Restore
<1>3. given = A
  BY <1>1, <1>2, EveryControllerGiven
<1>4. /\ \A s \in S :
           /\ E(s) \in Bodies
           /\ body'[E(s)] = IF nodes[s].kind = "agent" /\ s \notin given
                            THEN "inert" ELSE nodes[s].kind
           /\ stableId'[E(s)] = s
           /\ s \notin given => clamp'[E(s)] = Open
      /\ \A s \in given : clamp'[E(s)] = [target |-> T(s), joint |-> JointOf(nodes, s),
                                          cool |-> nodes[s].cool]
      /\ \A b \in Bodies : (~ \E s \in S : E(s) = b) => stableId'[b] = NoId
  BY <1>1, <1>2, RestoredWorld
<1>5. /\ S \subseteq Nat \ {NoId}
      /\ \A r, s \in S : E(r) = E(s) => r = s
      /\ \A s \in S : \E b \in Present : Ensured[b] = s
  BY <1>2, NodesOfBodies, EntitiesOfNodes
<1>6. /\ \A s : s \in A <=> s \in S /\ nodes[s].kind = "agent"
      /\ \A s : s \in C <=> s \in A /\ nodes[s].target \in S
  BY DEF Clamping, AgentsOf
<1>7. ASSUME NEW s \in S
      PROVE  /\ nodes[s].kind # "none" /\ nodes[s].target \in S \cup {NoId}
             /\ nodes[s] = [kind |-> nodes[s].kind, target |-> nodes[s].target, cool |-> nodes[s].cool]
             /\ s \notin A => nodes[s].target = NoId /\ nodes[s].cool = 0
  <2>1. PICK b \in Present : Ensured[b] = s
    BY <1>5
  <2>2. nodes[s] = [kind |-> body[b],
                    target |-> IF clamp[b].target \in Present THEN Ensured[clamp[b].target] ELSE NoId,
                    cool |-> clamp[b].cool]
    BY <1>2, <2>1, NodesOfBodies
  <2>3. \A c \in Present : Ensured[c] \in S
    BY <1>2, NodesOfBodies
  <2>4. b \in Bodies /\ body[b] # "none"
    BY DEF Present
  <2>5. body[b] # "agent" => clamp[b] = Open
    BY <2>4 DEF ClampInv, ClampTypeOK, Agents
  <2>6. Open.target \notin Present /\ Open.cool = 0
    BY DEF Open, Present, None, Bodies
  <2> HIDE DEF nodes, S, A
  <2>7. /\ nodes[s].kind = body[b] /\ nodes[s].cool = clamp[b].cool
        /\ nodes[s].target = IF clamp[b].target \in Present THEN Ensured[clamp[b].target] ELSE NoId
    BY <2>2
  <2>8. nodes[s] = [kind |-> nodes[s].kind, target |-> nodes[s].target, cool |-> nodes[s].cool]
    BY <2>2
  <2> QED
    BY <1>6, <2>3, <2>4, <2>5, <2>6, <2>7, <2>8
<1>8. /\ DOMAIN after = {stableId'[b] : b \in Bodies} \ {NoId}
      /\ \A s \in DOMAIN after : after[s] = Found(CHOOSE c \in Bodies : stableId'[c] = s)
      /\ after = [s \in DOMAIN after |-> after[s]]
  BY DEF Nodes, Named
<1>9. nodes = [s \in S |-> nodes[s]]
  BY DEF Nodes
<1> HIDE DEF nodes, S, C, A, E, after, Found
<1>10. \A b \in Bodies : stableId'[b] = NoId \/ \E s \in S : E(s) = b /\ stableId'[b] = s
  BY <1>4
<1>11. DOMAIN after = S
  BY <1>4, <1>5, <1>8, <1>10
<1>12. \A s \in S : E(s) \in Present'
  <2>1. ASSUME NEW s \in S PROVE body'[E(s)] # "none" /\ E(s) \in Bodies
    <3>1. E(s) \in Bodies /\ (body'[E(s)] = "inert" \/ body'[E(s)] = nodes[s].kind)
      BY <1>4
    <3>2. nodes[s].kind # "none"
      BY <1>7
    <3> QED
      BY <3>1, <3>2
  <2> QED
    BY <2>1 DEF Present
<1>13. None \notin Present'
  BY DEF Present, Bodies, None
<1>14. ASSUME NEW s \in S PROVE after[s] = nodes[s]
  <2>1. (CHOOSE c \in Bodies : stableId'[c] = s) = E(s)
    <3>1. \A c \in Bodies : stableId'[c] = s => c = E(s)
      BY <1>5, <1>10
    <3> QED
      BY <1>4, <3>1
  <2>2. after[s] = Found(E(s))
    BY <1>8, <1>11, <2>1
  <2>3. body'[E(s)] = nodes[s].kind
    BY <1>3, <1>4, <1>6
  <2>4. CASE s \in A
    <3>1. /\ clamp'[E(s)].target = T(s) /\ clamp'[E(s)].cool = nodes[s].cool
      <4>1. clamp'[E(s)] = [target |-> T(s), joint |-> JointOf(nodes, s), cool |-> nodes[s].cool]
        BY <1>3, <1>4, <2>4
      <4> HIDE DEF T
      <4> QED
        BY <4>1
    <3>2. (IF T(s) \in Present' THEN stableId'[T(s)] ELSE NoId) = nodes[s].target
      BY <1>4, <1>6, <1>7, <1>12, <1>13, <2>4
    <3> QED
      BY <1>7, <2>2, <2>3, <3>1, <3>2 DEF Found
  <2>5. CASE s \notin A
    <3>1. clamp'[E(s)].target = None /\ clamp'[E(s)].cool = 0
      BY <1>3, <1>4, <2>5 DEF Open
    <3>2. nodes[s].target = NoId /\ nodes[s].cool = 0
      BY <1>7, <2>5
    <3> QED
      BY <1>7, <1>13, <2>2, <2>3, <3>1, <3>2 DEF Found
  <2> QED
    BY <2>4, <2>5
<1>15. after = nodes
  BY <1>8, <1>9, <1>11, <1>14
<1> QED
  BY <1>15 DEF after, nodes

\* A world that is restored with every controller is captured as the snapshot
\* it was restored from (capture, restore).
THEOREM RestoredWorldsRecapture == Spec => RecapturesTheSame
<1>1. IdInv /\ ClampInv /\ [Next]_vars =>
        [restores' # restores /\ Cardinality(Agents') = Cardinality(Agents)
           => Nodes(stableId)' = Nodes(Ensured)]_vars
  <2> SUFFICES ASSUME IdInv, ClampInv, [Next]_vars, restores' # restores,
                      Cardinality(Agents') = Cardinality(Agents)
               PROVE  Nodes(stableId)' = Nodes(Ensured)
    OBVIOUS
  <2>1. /\ ~ IdsFollow /\ ~ UNCHANGED vars /\ ~ EnsureStableIds
        /\ ~ \E b \in Bodies, s \in ExplicitIds : InsertStableId(b, s)
    BY DEF IdsFollow, vars, EnsureStableIds, InsertStableId
  <2>2. Restore
    BY <2>1 DEF Next
  <2> QED
    BY <2>2, RestoreRecaptures
<1> QED
  BY QueueInit, QueueStep, IdInit, IdStep, ClampsAtFirst, ClampStep, <1>1,
     PTL DEF Spec, RecapturesTheSame
=============================================================================
