------------------------ MODULE EconomySharesProofs ------------------------
(***************************************************************************)
(* Who may pay what.  Every system but the drain spares a node: it leaves  *)
(* the reserve above zero or no lower than it was.  So what a kill         *)
(* promises at the contact is still there when it is paid, because each    *)
(* victim is in the queue once and contacts touch no reserve.              *)
(***************************************************************************)
EXTENDS EnergyEconomyProofs

\* The reserve of `r` is not below zero, or not lower than that of `n`.
Spared(n, r) == r.energy >= 0 \/ r.energy >= n.energy

\* Nothing vanishes and everybody is spared.
Spares(world, result) ==
  \A i \in Ids : world[i] # Absent => result[i] # Absent /\ Spared(world[i], result[i])

\* Nothing vanishes and no reserve moves.
SameReserves(world, result) ==
  \A i \in Ids : world[i] # Absent =>
    result[i] # Absent /\ result[i].energy = world[i].energy

LEMMA EnergyIsInt == ASSUME NEW n, Good(n) PROVE n.energy \in Int
BY DEF Good, Node

LEMMA SparedTransitive ==
  ASSUME NEW a, NEW b, NEW c, Good(a), Good(b), Good(c), Spared(a, b), Spared(b, c)
  PROVE  Spared(a, c)
<1>1. a.energy \in Int /\ b.energy \in Int /\ c.energy \in Int BY EnergyIsInt
<1> QED BY <1>1 DEF Spared

LEMMA SparedReflexive ==
  ASSUME NEW a, NEW b, Good(a), b.energy = a.energy
  PROVE  Spared(a, b)
<1>1. a.energy \in Int BY EnergyIsInt
<1> QED BY <1>1 DEF Spared

LEMMA CreditSpared ==
  ASSUME NEW n, Good(n), NEW flow, NEW amount \in Amount
  PROVE  Spared(n, Credit(n, flow, amount))
BY CreditVoluntary DEF Spared

LEMMA DebitExactSpared ==
  ASSUME NEW n, Good(n), NEW flow, NEW amount \in Amount
  PROVE  Spared(n, DebitExact(n, flow, amount))
<1>1. n.energy \in Int BY EnergyIsInt
<1>2. CASE CanFund(n, flow, amount)
  <2>1. ValidAmount(amount) \in Nat /\ n.energy >= ValidAmount(amount) /\ flow \in Sinks
    BY <1>2, ValidIsNatural DEF CanFund
  <2>2. Sound(n) BY GoodIsSound
  <2>3. DebitExact(n, flow, amount).energy = n.energy - ValidAmount(amount)
    BY <1>2, <2>1, <2>2, RecordSpend DEF DebitExact
  <2> QED BY <1>1, <2>1, <2>3 DEF Spared
<1>3. CASE ~CanFund(n, flow, amount)
  BY <1>1, <1>3 DEF DebitExact, Spared
<1> QED BY <1>2, <1>3

LEMMA DebitAvailableSpared ==
  ASSUME NEW n, Good(n), NEW flow, NEW amount \in Amount
  PROVE  Spared(n, DebitAvailable(n, flow, amount))
<1>1. n.energy \in Int BY EnergyIsInt
<1>2. CASE flow \in Sinks
  <2>1. Available(n, amount) \in Nat BY <1>1, AvailableIsNatural
  <2>2. Sound(n) BY GoodIsSound
  <2>3. DebitAvailable(n, flow, amount).energy = n.energy - Available(n, amount)
    BY <1>2, <2>1, <2>2, RecordSpend DEF DebitAvailable
  <2>4. n.energy >= 0 => n.energy - Available(n, amount) >= 0
    BY <1>1, ValidIsNatural DEF Available, Lesser, AtLeastZero
  <2>5. n.energy < 0 => Available(n, amount) = 0
    BY <1>1, ValidIsNatural DEF Available, Lesser, AtLeastZero
  <2> QED BY <1>1, <2>1, <2>3, <2>4, <2>5 DEF Spared
<1>3. CASE flow \notin Sinks
  BY <1>1, <1>3 DEF DebitAvailable, Spared
<1> QED BY <1>2, <1>3

LEMMA ReplaceSpares ==
  ASSUME NEW world, NEW queue, GoodWorld(world, queue), NEW i \in Ids, NEW n, Good(n),
         world[i] # Absent => Spared(world[i], n)
  PROVE  Spares(world, [world EXCEPT ![i] = n])
<1> DEFINE result == [world EXCEPT ![i] = n]
<1> SUFFICES ASSUME NEW j \in Ids, world[j] # Absent
             PROVE  result[j] # Absent /\ Spared(world[j], result[j])
  BY DEF Spares
<1>1. CASE j = i
  <2>1. result[j] = n BY <1>1 DEF GoodWorld
  <2> QED BY <1>1, <2>1, AbsentIsNoNode DEF Good
<1>2. CASE j # i
  <2>1. result[j] = world[j] BY <1>2 DEF GoodWorld
  <2>2. Good(world[j]) BY Zenon DEF GoodWorld
  <2> HIDE DEF result
  <2> QED BY <2>1, <2>2, SparedReflexive
<1> QED BY <1>1, <1>2

\* A node pays for a node that was not there.
LEMMA SpawnSpares ==
  ASSUME IInv, Fresh # {}, NEW i \in Ids, node[i] # Absent,
         NEW n, Good(n), Spared(node[i], n), NEW new
  PROVE  Spares(node, [node EXCEPT ![i] = n, ![New] = new])
<1> DEFINE spent == [node EXCEPT ![i] = n]
           result == [node EXCEPT ![i] = n, ![New] = new]
<1>1. GoodWorld(node, deaths) BY Zenon DEF IInv
<1>2. Spares(node, spent) BY <1>1, ReplaceSpares
<1>3. New \in Ids /\ node[New] = Absent BY NewIsFresh
<1>4. \A j \in Ids : j # New => result[j] = spent[j]
  BY <1>1, <1>3 DEF GoodWorld
<1> HIDE DEF spent, result
<1>5. ASSUME NEW j \in Ids, node[j] # Absent
      PROVE  result[j] # Absent /\ Spared(node[j], result[j])
  <2>1. j # New BY <1>3, <1>5
  <2>2. result[j] = spent[j] BY <1>4, <2>1
  <2> QED BY <1>2, <1>5, <2>2 DEF Spares
<1>6. Spares(node, result) BY <1>5 DEF Spares
<1> QED BY <1>6 DEF result
-----------------------------------------------------------------------------
\* What the systems do, one at a time.
LEMMA ExertedSpared ==
  ASSUME NEW n, Good(n), NEW c \in Commands
  PROVE  Spared(n, Cooled(Exerted(n, c)))
<1> DEFINE moved == DebitExact(n, "actuation", c.move)
           driven == DebitExact(moved, "actuation", c.drive)
           held == DebitAvailable(driven, "actuation", ClampDrain)
<1>1. Good(moved) /\ Spared(n, moved)
  BY CommandAmounts, DebitExactVoluntary, DebitExactSpared DEF Voluntary
<1>2. Good(driven) /\ Spared(moved, driven)
  BY <1>1, CommandAmounts, DebitExactVoluntary, DebitExactSpared DEF Voluntary
<1>3. Good(held) /\ Spared(driven, held)
  BY <1>2, CommandAmounts, DebitAvailableVoluntary, DebitAvailableSpared DEF Voluntary
<1>4. Spared(n, driven) /\ Spared(n, held)
  <2> HIDE DEF moved, driven, held
  <2>1. Spared(n, driven) BY <1>1, <1>2, SparedTransitive
  <2> QED BY <1>2, <1>3, <2>1, SparedTransitive
<1>5. Good(Exerted(n, c)) /\ Spared(n, Exerted(n, c))
  BY <1>2, <1>3, <1>4, Zenon DEF Exerted
<1>6. Cooled(Exerted(n, c)).energy = Exerted(n, c).energy
  BY <1>5 DEF Cooled, Good, Node
<1> QED BY <1>5, <1>6 DEF Spared

LEMMA InvestedSpared ==
  ASSUME NEW n, Good(n), n.mass >= FabricateMass
  PROVE  Good(Invested(n)) /\ Spared(n, Invested(n))
<1> DEFINE paid == DebitExact(n, "fabrication", FabricateEnergy)
<1>1. FabricateEnergy \in Amount BY EconomyAssumption DEF Amount
<1>2. Good(paid) /\ Spared(n, paid)
  BY <1>1, DebitExactVoluntary, DebitExactSpared DEF Voluntary
<1>3. Invested(n).energy = paid.energy
  BY <1>2 DEF Invested, Good, Node
<1>4. Good(Invested(n)) BY InvestedVoluntary
<1> HIDE DEF paid
<1> QED BY <1>2, <1>3, <1>4 DEF Spared

LEMMA ActSpares == ASSUME IInv, NEW i \in Ids, Act(i) PROVE Spares(node, node')
<1>1. PICK c \in Commands :
        LET n == Cooled(Exerted(node[i], c))
        IN IF Fabricates(n, c)
             THEN /\ Fresh # {}
                  /\ node' = [node EXCEPT ![i] = Invested(n), ![New] = Structure]
             ELSE node' = [node EXCEPT ![i] = n]
  BY DEF Act
<1> DEFINE n == Cooled(Exerted(node[i], c))
<1>2. node[i] # Absent BY DEF Act, Turn, Running, IInv, TurnsPresent
<1>3. Good(node[i]) /\ GoodWorld(node, deaths) BY <1>2, PresentGood
<1>4. Good(n)
  BY <1>3, ExertedVoluntary, CooledVoluntary DEF Voluntary
<1>5. Spared(node[i], n) BY <1>3, ExertedSpared
<1> HIDE DEF n
<1>6. CASE Fabricates(n, c)
  <2>1. Good(Invested(n)) /\ Spared(n, Invested(n))
    BY <1>4, <1>6, InvestedSpared DEF Fabricates
  <2>2. Spared(node[i], Invested(n)) BY <1>3, <1>4, <1>5, <2>1, SparedTransitive
  <2>3. Fresh # {} /\ node' = [node EXCEPT ![i] = Invested(n), ![New] = Structure]
    BY <1>1, <1>6 DEF n
  <2> QED BY <1>2, <2>1, <2>2, <2>3, SpawnSpares
<1>7. CASE ~Fabricates(n, c)
  <2>1. node' = [node EXCEPT ![i] = n] BY <1>1, <1>7 DEF n
  <2> QED BY <1>3, <1>4, <1>5, <2>1, ReplaceSpares
<1> QED BY <1>6, <1>7

\* The payer is spared, the payee gains and nobody else changes.
LEMMA MovedReserves ==
  ASSUME NEW world, NEW queue, GoodWorld(world, queue),
         NEW from \in Ids, NEW to \in Ids, from # to,
         world[from] # Absent, world[to] # Absent, NEW sink, NEW source, NEW amount \in Nat
  PROVE  LET result == Moved(world, from, to, sink, source, amount)
         IN /\ Spares(world, result)
            /\ \A i \in Ids : i # from /\ world[i] # Absent =>
                 result[i] # Absent /\ result[i].energy >= world[i].energy
<1> DEFINE result == Moved(world, from, to, sink, source, amount)
           gain == Available(world[from], amount)
           payer == DebitAvailable(world[from], sink, amount)
           payee == Credit(world[to], source, gain)
<1>1. Good(world[from]) /\ Good(world[to])
  BY Zenon DEF GoodWorld
<1>2. amount \in Amount /\ gain \in Amount
  BY <1>1, AvailableIsNatural DEF Amount, Good, Node
<1>3. Good(payer) /\ Spared(world[from], payer)
  BY <1>1, <1>2, DebitAvailableVoluntary, DebitAvailableSpared DEF Voluntary
<1>4. Good(payee) /\ Spared(world[to], payee) /\ payee.energy >= world[to].energy
  BY <1>1, <1>2, CreditVoluntary, CreditSpared DEF Voluntary
<1>5. result = [world EXCEPT ![from] = payer, ![to] = payee]
  BY DEF Moved, GoodWorld
<1>6. /\ result[from] = payer /\ result[to] = payee
      /\ \A i \in Ids : i # from /\ i # to => result[i] = world[i]
  BY <1>5 DEF GoodWorld
<1> HIDE DEF result, payer, payee
<1>7. ASSUME NEW i \in Ids, world[i] # Absent
      PROVE  /\ result[i] # Absent /\ Spared(world[i], result[i])
             /\ i # from => result[i].energy >= world[i].energy
  <2>1. CASE i = from
    BY <1>3, <1>6, <2>1, AbsentIsNoNode DEF Good
  <2>2. CASE i = to
    BY <1>4, <1>6, <2>2, AbsentIsNoNode DEF Good
  <2>3. CASE i # from /\ i # to
    <3>1. result[i] = world[i] BY <1>6, <2>3
    <3>2. Good(world[i]) BY <1>7, Zenon DEF GoodWorld
    <3>3. world[i].energy \in Int BY <3>2, EnergyIsInt
    <3> QED BY <1>7, <3>1, <3>3 DEF Spared
  <2> QED BY <2>1, <2>2, <2>3
<1>8. /\ Spares(world, result)
      /\ \A i \in Ids : i # from /\ world[i] # Absent =>
           result[i] # Absent /\ result[i].energy >= world[i].energy
  BY <1>7 DEF Spares
<1> QED BY <1>8 DEF result

LEMMA HarvestSpares ==
  ASSUME IInv, NEW a \in Ids, NEW o \in Ids, Harvest(a, o)
  PROVE  Spares(node, node')
<1>1. a # o /\ node[a] # Absent /\ node[o] # Absent
  BY DEF Harvest, Running, IInv, TurnsPresent
<1>2. GoodWorld(node, deaths) BY Zenon DEF IInv
<1>3. PICK rate \in Rates :
        node' = IF Available(node[o], rate) > 0
                  THEN Moved(node, o, a, "transferred", "harvested", rate)
                  ELSE node
  BY DEF Harvest
<1>4. rate \in Nat BY EconomyAssumption
<1>5. Spares(node, Moved(node, o, a, "transferred", "harvested", rate))
  BY <1>1, <1>2, <1>4, MovedReserves
<1>6. Spares(node, node) BY <1>2, SparedReflexive, Zenon DEF Spares, GoodWorld
<1> QED BY <1>3, <1>5, <1>6

LEMMA DischargeSpares == ASSUME IInv, NEW t \in Ids, Discharge(t) PROVE Spares(node, node')
<1>1. node[t] # Absent BY DEF Discharge, Turn, Running, IInv, TurnsPresent
<1>2. GoodWorld(node, deaths) BY Zenon DEF IInv
<1> DEFINE released == Half(node[t].energy)
<1>3. released \in Nat
  <2>1. node[t].energy \in Int BY <1>1, PresentGood DEF Good, Node
  <2> QED BY <2>1, Floored, Quotient DEF Half
<1>4. PICK near \in SUBSET (Agents \ {t}) : \E part \in [near -> 1..Parts] :
        node' = Discharged(t, part, released) \/ node' = node
  BY DEF Discharge
<1>7. PICK part \in [near -> 1..Parts] :
        node' = Discharged(t, part, released) \/ node' = node
  BY <1>4
<1> HIDE DEF released
<1>5. ASSUME NEW i \in Ids, node[i] # Absent, node' = Discharged(t, part, released)
      PROVE  node'[i] # Absent /\ Spared(node[i], node'[i])
  <2>1. Good(node[i]) BY <1>2, <1>5, Zenon DEF GoodWorld
  <2>2. CASE i = t
    <3>1. node'[i] = DebitAvailable(node[t], "transferred", released)
      BY <1>5, <2>2 DEF Discharged
    <3>2. released \in Amount BY <1>3 DEF Amount
    <3>3. Good(node'[i]) /\ Spared(node[i], node'[i])
      BY <2>1, <2>2, <3>1, <3>2, DebitAvailableVoluntary, DebitAvailableSpared DEF Voluntary
    <3> QED BY <3>3, AbsentIsNoNode DEF Good
  <2>3. CASE i # t /\ i \in near
    <3>1. node'[i] = Credit(node[i], "harvested", (released * part[i]) \div Parts)
      BY <1>5, <2>3 DEF Discharged
    <3>2. part[i] \in Nat /\ Parts \in Nat \ {0} BY <2>3, EconomyAssumption
    <3>3. (released * part[i]) \div Parts \in Amount
      BY <1>3, <3>2, Product, Quotient DEF Amount
    <3>4. Good(node'[i]) /\ Spared(node[i], node'[i])
      BY <2>1, <3>1, <3>3, CreditVoluntary, CreditSpared DEF Voluntary
    <3> QED BY <3>4, AbsentIsNoNode DEF Good
  <2>4. CASE i # t /\ i \notin near
    <3>1. node'[i] = node[i] BY <1>5, <2>4 DEF Discharged
    <3> QED BY <1>5, <2>1, <3>1, SparedReflexive
  <2> QED BY <2>2, <2>3, <2>4
<1>6. Spares(node, node) BY <1>2, SparedReflexive, Zenon DEF Spares, GoodWorld
<1> QED BY <1>5, <1>6, <1>7 DEF Spares

LEMMA RestedSame ==
  ASSUME NEW n, Good(n)
  PROVE  Good(Rested(n)) /\ Rested(n).energy = n.energy
<1>1. Good(Rested(n)) BY RestedVoluntary DEF Voluntary
<1>2. Rested(n).energy = n.energy BY DEF Rested, Good, Node
<1> QED BY <1>1, <1>2

LEMMA ParentSpared ==
  ASSUME NEW n, Good(n), Eligible(n)
  PROVE  Good(Parent(n)) /\ Spared(n, Parent(n))
<1> DEFINE paid == DebitExact(n, "offspring", BirthEnergy)
<1>1. BirthEnergy \in Amount BY EconomyAssumption DEF Amount
<1>2. Good(paid) /\ Spared(n, paid)
  BY <1>1, DebitExactVoluntary, DebitExactSpared DEF Voluntary
<1>3. Parent(n).energy = paid.energy BY <1>2 DEF Parent, Good, Node
<1>4. Good(Parent(n)) BY ParentGood
<1> HIDE DEF paid
<1> QED BY <1>2, <1>3, <1>4 DEF Spared

LEMMA ReproduceSpares == ASSUME IInv, NEW i \in Ids, Reproduce(i) PROVE Spares(node, node')
<1> DEFINE n == Rested(node[i])
<1>1. node[i] # Absent BY DEF Reproduce, Turn, Running, IInv, TurnsPresent
<1>2. Good(node[i]) /\ GoodWorld(node, deaths) BY <1>1, PresentGood
<1>3. Good(n) /\ n.energy = node[i].energy BY <1>2, RestedSame
<1>4. n \in Node /\ n.surplus + 1 \in Nat /\ RestTicks \in Nat
  BY <1>3, EconomyAssumption DEF Good, Node
<1>5. \/ node' = [node EXCEPT ![i] = [n EXCEPT !.surplus = 0]]
      \/ node' = [node EXCEPT ![i] = [n EXCEPT !.surplus = n.surplus + 1]]
      \/ node' = [node EXCEPT ![i] = [n EXCEPT !.surplus = 0, !.rest = RestTicks]]
      \/ /\ Eligible(n) /\ Fresh # {}
         /\ node' = [node EXCEPT ![i] = Parent(n), ![New] = Child]
  BY DEF Reproduce
<1> HIDE DEF n
<1>6. ASSUME NEW r, node' = [node EXCEPT ![i] = r], r \in Node,
             r.energy = n.energy, r.opening = n.opening, r.ledger = n.ledger
      PROVE  Spares(node, node')
  <2>1. Good(r) BY <1>3, <1>6, OtherFields
  <2>2. Spared(node[i], r) BY <1>2, <1>3, <1>6, SparedReflexive
  <2> QED BY <1>2, <1>6, <2>1, <2>2, ReplaceSpares
<1>7. ASSUME NEW s \in Nat
      PROVE  LET r == [n EXCEPT !.surplus = s]
             IN /\ r \in Node /\ r.energy = n.energy
                /\ r.opening = n.opening /\ r.ledger = n.ledger
  BY <1>4 DEF Node
<1>8. LET r == [n EXCEPT !.surplus = 0, !.rest = RestTicks]
      IN /\ r \in Node /\ r.energy = n.energy
         /\ r.opening = n.opening /\ r.ledger = n.ledger
  BY <1>4 DEF Node
<1>9. CASE node' = [node EXCEPT ![i] = [n EXCEPT !.surplus = 0]]
  BY <1>6, <1>7, <1>9
<1>10. CASE node' = [node EXCEPT ![i] = [n EXCEPT !.surplus = n.surplus + 1]]
  BY <1>4, <1>6, <1>7, <1>10
<1>11. CASE node' = [node EXCEPT ![i] = [n EXCEPT !.surplus = 0, !.rest = RestTicks]]
  BY <1>6, <1>8, <1>11
<1>12. CASE /\ Eligible(n) /\ Fresh # {}
            /\ node' = [node EXCEPT ![i] = Parent(n), ![New] = Child]
  <2>1. Good(Parent(n)) /\ Spared(n, Parent(n)) BY <1>3, <1>12, ParentSpared
  <2>2. Spared(node[i], Parent(n)) BY <1>3, <2>1 DEF Spared
  <2> QED BY <1>1, <1>12, <2>1, <2>2, SpawnSpares
<1> QED BY <1>5, <1>9, <1>10, <1>11, <1>12

\* `r` queues the victim, if at all, with a share that it can pay.
Queues(world, victim, r) ==
  \/ r.fragments = world.fragments
  \/ \E killer \in Ids \cup {NoOne}, share \in Nat :
       /\ victim # killer
       /\ r.fragments = Enqueue(world.fragments, victim, killer, share)
       /\ world.node[victim].energy >= share

\* A contact moves no reserve.
LEMMA HitReserves ==
  ASSUME NEW world, GoodWorld(world.node, deaths), world.fragments \in Seq(Entry),
         NEW victim \in Ids, world.node[victim] # Absent,
         NEW source \in Ids, world.node[source] # Absent,
         victim # source, NEW impulse \in Nat,
         DOMAIN world = {"node", "fragments"}
  PROVE  LET r == Hit(world, victim, source, impulse)
         IN SameReserves(world.node, r.node) /\ Queues(world, victim, r)
<1> DEFINE n == world.node[victim]
           stress == n.stress + impulse
           held == [n EXCEPT !.stress = stress]
           hurt == [n EXCEPT !.structure = @ - (stress - n.yield), !.stress = n.yield \div 2]
           r == Hit(world, victim, source, impulse)
<1>1. Good(n) BY Zenon DEF GoodWorld
<1>2. n \in Node BY <1>1 DEF Good
<1>3. /\ held.energy = n.energy /\ hurt.energy = n.energy
      /\ held # Absent /\ hurt # Absent
  BY <1>2 DEF Node, Absent
<1>4. ASSUME NEW x, x.energy = n.energy, x # Absent
      PROVE  SameReserves(world.node, [world.node EXCEPT ![victim] = x])
  BY <1>4 DEF SameReserves, GoodWorld
<1> HIDE DEF stress, held, hurt
<1>5. CASE stress <= n.yield
  <2>1. r = [world EXCEPT !.node[victim].stress = stress]
    BY <1>5 DEF Hit, stress
  <2>2. r = [world EXCEPT !.node = [world.node EXCEPT ![victim] = held]]
    BY <2>1 DEF held
  <2>3. /\ r.node = [world.node EXCEPT ![victim] = held]
        /\ r.fragments = world.fragments
    BY <2>2
  <2> HIDE DEF r
  <2>4. SameReserves(world.node, r.node) BY <1>3, <1>4, <2>3
  <2>5. Queues(world, victim, r) BY <2>3 DEF Queues
  <2> QED BY <2>4, <2>5 DEF r
<1>6. CASE ~(stress <= n.yield)
  <2> DEFINE killed == "AGENT" \in world.node[source].tags
             killer == IF killed THEN source ELSE NoOne
             share == IF killed THEN hurt.energy \div 2 ELSE 0
  <2>1. r = [node |-> [world.node EXCEPT ![victim] = hurt],
             fragments |-> IF Fails(hurt) THEN Enqueue(world.fragments, victim, killer, share)
                                          ELSE world.fragments]
    BY <1>6 DEF Hit, stress, hurt
  <2>2. hurt.energy \in Int BY <1>2, <1>3 DEF Node
  <2>3. Fails(hurt) => share \in Nat /\ hurt.energy >= share
    <3>1. hurt.energy > 0 =>
            /\ hurt.energy \div 2 \in Nat /\ hurt.energy >= hurt.energy \div 2
            /\ hurt.energy >= 0
      BY <2>2
    <3> QED BY <3>1 DEF Fails
  <2>4. killer \in Ids \cup {NoOne} /\ victim # killer BY DEF Ids, NoOne
  <2>5. SameReserves(world.node, [world.node EXCEPT ![victim] = hurt]) BY <1>3, <1>4
  <2> HIDE DEF r, killer, share
  <2>6. r.node = [world.node EXCEPT ![victim] = hurt] BY <2>1
  <2>7. CASE Fails(hurt)
    <3>1. r.fragments = Enqueue(world.fragments, victim, killer, share) BY <2>1, <2>7
    <3>2. Queues(world, victim, r) BY <1>3, <2>3, <2>4, <2>7, <3>1 DEF Queues
    <3> QED BY <2>5, <2>6, <3>2 DEF r
  <2>8. CASE ~Fails(hurt)
    <3>1. r.fragments = world.fragments BY <2>1, <2>8
    <3>2. Queues(world, victim, r) BY <3>1 DEF Queues
    <3> QED BY <2>5, <2>6, <3>2 DEF r
  <2> QED BY <2>7, <2>8
<1> QED BY <1>5, <1>6

LEMMA CollideReserves ==
  ASSUME IInv, NEW first \in Present, NEW second \in Present, NEW impulse \in Impulses,
         first # second, Collide(first, second, impulse)
  PROVE  SameReserves(node, node')
<1> DEFINE world == [node |-> node, fragments |-> fragments]
           once == Hit(world, first, second, impulse)
           both == Hit(once, second, first, impulse)
<1>1. /\ first \in Ids /\ second \in Ids /\ node[first] # Absent /\ node[second] # Absent
      /\ impulse \in Nat
  BY EconomyAssumption DEF Present
<1>2. /\ GoodWorld(world.node, deaths) /\ world.fragments \in Seq(Entry)
      /\ DOMAIN world = {"node", "fragments"}
      /\ world.node = node
  BY DEF IInv, TypeOK
<1>3. node' = both.node /\ fragments' = both.fragments
  BY DEF Collide
<1> HIDE DEF world
<1>4. /\ GoodWorld(once.node, deaths) /\ Keeps(node, once.node)
      /\ once.fragments \in Seq(Entry) /\ DOMAIN once = {"node", "fragments"}
  BY <1>1, <1>2, HitGood
<1>5. SameReserves(node, once.node) BY <1>1, <1>2, HitReserves
<1> HIDE DEF once
<1>6. once.node[first] # Absent /\ once.node[second] # Absent
  BY <1>1, <1>4 DEF Keeps
<1>7. SameReserves(once.node, both.node) BY <1>1, <1>4, <1>6, HitReserves
<1> HIDE DEF both
<1>8. SameReserves(node, both.node) BY <1>5, <1>7 DEF SameReserves
<1> QED BY <1>3, <1>8

LEMMA TransferReserves ==
  ASSUME IInv, NEW k \in DOMAIN fragments, Transfer(k)
  PROVE  /\ Spares(node, node')
         /\ \A i \in Ids : i # fragments[k].victim /\ node[i] # Absent =>
              node'[i] # Absent /\ node'[i].energy >= node[i].energy
<1> DEFINE entry == fragments[k]
<1>1. GoodWorld(node, deaths) BY Zenon DEF IInv
<1>2. entry \in Entry BY SeqDef DEF IInv, TypeOK
<1>3. \/ node' = node
      \/ /\ entry.killer # NoOne /\ {entry.victim, entry.killer} \subseteq Present
         /\ node' = Moved(node, entry.victim, entry.killer,
                          "transferred", "consumed", entry.share)
  BY DEF Transfer
<1>4. CASE node' = node
  <2>1. ASSUME NEW i \in Ids, node[i] # Absent
        PROVE  Good(node[i]) /\ node[i].energy \in Int
    <3>1. Good(node[i]) BY <1>1, <2>1, Zenon DEF GoodWorld
    <3> QED BY <3>1, EnergyIsInt
  <2> QED BY <1>4, <2>1 DEF Spares, Spared
<1>5. CASE /\ entry.killer # NoOne /\ {entry.victim, entry.killer} \subseteq Present
           /\ node' = Moved(node, entry.victim, entry.killer,
                            "transferred", "consumed", entry.share)
  <2>1. /\ entry.victim \in Ids /\ entry.killer \in Ids /\ entry.share \in Nat
        /\ node[entry.victim] # Absent /\ node[entry.killer] # Absent
        /\ entry.victim # entry.killer
    BY <1>2, <1>5 DEF Entry, Present
  <2> QED BY <1>1, <1>5, <2>1, MovedReserves
<1> QED BY <1>3, <1>4, <1>5

\* Fragmentation ends its victim and leaves the other nodes as they are.
LEMMA FragmentReserves ==
  ASSUME IInv, NEW k \in DOMAIN fragments, Fragment(k)
  PROVE  \A i \in Ids : node[i] # Absent =>
           \/ node'[i] = node[i]
           \/ node'[i] = Absent /\ i = fragments[k].victim
<1> DEFINE v == fragments[k].victim
<1>1. CASE UNCHANGED <<node, closed>> BY <1>1
<1>2. CASE \E count \in 2..DaughterLimit(node[v]) : Split(v, count)
  <2>1. PICK new, tags, count :
          /\ new \in kSubset(count, Fresh)
          /\ node' = [i \in Ids |-> IF i = v THEN Absent
                                    ELSE IF i \in new THEN Daughter(node[v], count, tags[i])
                                    ELSE node[i]]
    BY <1>2 DEF Split
  <2>2. new \subseteq Fresh BY <2>1 DEF kSubset
  <2> QED BY <2>1, <2>2 DEF Fresh, Present
<1> QED BY <1>1, <1>2 DEF Fragment

LEMMA DecayedSame ==
  ASSUME IInv, NEW i \in Ids, node[i] # Absent
  PROVE  Decayed(i) # Absent /\ Decayed(i).energy = node[i].energy
<1>1. node[i] \in Node BY PresentGood DEF Good
<1>2. Decayed(i) = [node[i] EXCEPT !.stress = (@ * 92) \div 100] BY DEF Decayed
<1>3. \A x : [node[i] EXCEPT !.stress = x] # Absent
             /\ [node[i] EXCEPT !.stress = x].energy = node[i].energy
  BY <1>1 DEF Node, Absent
<1>4. Decayed(i) = [node[i] EXCEPT !.stress = (node[i].stress * 92) \div 100]
  BY <1>1, <1>2 DEF Node
<1> QED BY <1>3, <1>4

LEMMA NextPhaseReserves == ASSUME IInv, NextPhase PROVE SameReserves(node, node')
<1>1. node' = node \/ node' = [i \in Ids |-> Decayed(i)] BY DEF NextPhase
<1> QED BY <1>1, DecayedSame DEF SameReserves

LEMMA RunDeathsReserves == ASSUME IInv, RunDeaths PROVE SameReserves(node, node')
<1> SUFFICES ASSUME NEW i \in Ids, node[i] # Absent
             PROVE  node'[i] # Absent /\ node'[i].energy = node[i].energy
  BY DEF SameReserves
<1>1. node'[i] = node[i] \/ node'[i] = Dead(node[i]) BY DEF RunDeaths
<1>2. Good(node[i]) BY PresentGood
<1>3. Dead(node[i]).energy = node[i].energy BY <1>2 DEF Dead, Good, Node
<1>4. Dead(node[i]) # Absent BY <1>2, DeadGood, AbsentIsNoNode DEF Good
<1> QED BY <1>1, <1>3, <1>4

LEMMA SameReservesSpare ==
  ASSUME IInv, SameReserves(node, node')
  PROVE  Spares(node, node')
BY PresentGood, SparedReflexive DEF SameReserves, Spares

-----------------------------------------------------------------------------
\* The drain writes down all that it takes.
LEMMA DrainWritesDown ==
  ASSUME NEW n, Good(n), NEW thermal \in Thermal, NEW sheltered \in BOOLEAN
  PROVE  LET r == Exposed(n, thermal, sheltered)
         IN r.ledger["dissipated"] - n.ledger["dissipated"] >= n.energy - r.energy
<1> DEFINE gained == Credit(n, "vented", VentGain * thermal)
           heated == [gained EXCEPT !.structure = @ - thermal]
           amount == DrainAmount(thermal, sheltered)
<1>1. VentGain * thermal \in Amount
  <2>1. thermal \in Nat /\ VentGain \in Nat BY EconomyAssumption
  <2> QED BY <2>1, Product DEF Amount
<1>2. Good(gained) /\ gained.energy >= n.energy
  BY <1>1, CreditVoluntary DEF Voluntary
<1>3. gained.ledger["dissipated"] = n.ledger["dissipated"]
  <2>1. gained = Record(n, "vented", ValidAmount(VentGain * thermal),
                        n.energy + ValidAmount(VentGain * thermal))
    BY DEF Credit, Sources
  <2> DEFINE v == ValidAmount(VentGain * thermal)
  <2>2. Record(n, "vented", v, n.energy + v).ledger["dissipated"] = n.ledger["dissipated"]
    <3>1. n \in Node BY DEF Good
    <3> HIDE DEF v
    <3> QED BY <3>1 DEF Record, Node, EnergyFlow, Sources, Sinks
  <2> QED BY <2>1, <2>2
<1> HIDE DEF gained
<1>4. /\ Good(heated) /\ heated.energy = gained.energy /\ heated.ledger = gained.ledger
  <2>1. gained \in Node BY <1>2 DEF Good
  <2>2. gained.structure - thermal \in Int BY <2>1, EconomyAssumption DEF Node
  <2>3. /\ heated \in Node /\ heated.opening = gained.opening
        /\ heated.energy = gained.energy /\ heated.ledger = gained.ledger
    BY <2>1, <2>2 DEF Node
  <2> QED BY <1>2, <2>3, OtherFields
<1>5. ValidAmount(amount) \in Nat BY DrainAmountNatural, ValidIsNatural DEF Amount
<1>6. ASSUME NEW m, Good(m)
      PROVE  Drain(m, amount).ledger["dissipated"] - m.ledger["dissipated"]
               = m.energy - Drain(m, amount).energy
  <2> DEFINE v == ValidAmount(amount)
  <2>1. Drain(m, amount) = Record(m, "dissipated", v, m.energy - v) BY DEF Drain
  <2>2. /\ m \in Node /\ m.energy \in Int /\ m.ledger \in [EnergyFlow -> Nat]
        /\ "dissipated" \in EnergyFlow
    BY <1>6 DEF Good, Node, EnergyFlow, Sinks
  <2>3. m.ledger["dissipated"] \in Nat BY <2>2
  <2> HIDE DEF v
  <2>4. /\ Record(m, "dissipated", v, m.energy - v).energy = m.energy - v
        /\ Record(m, "dissipated", v, m.energy - v).ledger["dissipated"]
             = m.ledger["dissipated"] + v
    BY <2>2 DEF Record, Node
  <2>5. v \in Int BY <1>5 DEF v
  <2> QED BY <2>1, <2>2, <2>3, <2>4, <2>5
<1> HIDE DEF heated, amount
<1>7. /\ n.energy \in Int /\ n.ledger["dissipated"] \in Int
      /\ gained.energy \in Int /\ heated.energy \in Int
      /\ heated.ledger["dissipated"] = n.ledger["dissipated"]
  BY <1>2, <1>3, <1>4 DEF Good, Node, EnergyFlow, Sinks
<1>8. Exposed(n, thermal, sheltered)
        = IF "THERMAL_VENT" \in n.tags THEN Drain(heated, amount) ELSE Drain(n, amount)
  BY DEF Exposed, heated, amount, gained
<1>9. CASE "THERMAL_VENT" \in n.tags
  <2>1. Good(Drain(heated, amount))
    BY <1>4, DrainAmountNatural, DrainGood DEF amount, Amount
  <2>2. /\ Drain(heated, amount).energy \in Int
        /\ Drain(heated, amount).ledger["dissipated"] \in Int
    BY <2>1 DEF Good, Node, EnergyFlow, Sinks
  <2>3. Drain(heated, amount).ledger["dissipated"] - n.ledger["dissipated"]
          = heated.energy - Drain(heated, amount).energy
    BY <1>4, <1>6, <1>7
  <2>4. heated.energy >= n.energy BY <1>2, <1>4
  <2> QED BY <1>7, <1>8, <1>9, <2>2, <2>3, <2>4
<1>10. CASE "THERMAL_VENT" \notin n.tags
  <2>1. Good(Drain(n, amount)) BY DrainAmountNatural, DrainGood DEF amount, Amount
  <2>2. /\ Drain(n, amount).energy \in Int
        /\ Drain(n, amount).ledger["dissipated"] \in Int
    BY <2>1 DEF Good, Node, EnergyFlow, Sinks
  <2>3. Drain(n, amount).ledger["dissipated"] - n.ledger["dissipated"]
          = n.energy - Drain(n, amount).energy
    BY <1>6
  <2> QED BY <1>7, <1>8, <1>10, <2>2, <2>3
<1> QED BY <1>9, <1>10

\* What OnlyDrainOverdraws says of one node in one step.
Excused(i) ==
  /\ node'[i] # Absent
  /\ node'[i].energy < node[i].energy /\ node'[i].energy < 0
  => node'[i].ledger["dissipated"] - node[i].ledger["dissipated"]
       >= node[i].energy - node'[i].energy

LEMMA SparedIsExcused ==
  ASSUME IInv, IInv', Spares(node, node'), NEW i \in Present
  PROVE  Excused(i)
<1>1. i \in Ids /\ node[i] # Absent BY DEF Present
<1>2. Good(node[i]) BY <1>1, PresentGood
<1>3. ASSUME node'[i] # Absent PROVE node'[i].energy \in Int
  <2>1. Good(node'[i]) BY <1>1, <1>3, Zenon DEF IInv, GoodWorld
  <2> QED BY <2>1, EnergyIsInt
<1>4. Spared(node[i], node'[i]) BY <1>1 DEF Spares
<1> QED BY <1>2, <1>3, <1>4, EnergyIsInt DEF Excused, Spared

LEMMA DrainIsExcused ==
  ASSUME IInv, NEW j \in Ids, DrainNode(j), NEW i \in Present
  PROVE  Excused(i)
<1>1. i \in Ids /\ node[i] # Absent BY DEF Present
<1>2. Good(node[i]) /\ node[i].energy \in Int BY <1>1, PresentGood, EnergyIsInt
<1>3. PICK thermal \in Thermal, sheltered \in BOOLEAN :
        node' = [node EXCEPT ![j] = Exposed(node[j], thermal, sheltered)]
  BY DEF DrainNode
<1>4. node \in [Ids -> Node \cup {Absent}] BY DEF IInv, TypeOK
<1>5. CASE i = j
  <2>1. node'[i] = Exposed(node[i], thermal, sheltered) BY <1>1, <1>3, <1>4, <1>5
  <2> QED BY <1>2, <2>1, DrainWritesDown DEF Excused
<1>6. CASE i # j
  <2>1. node'[i] = node[i] BY <1>1, <1>3, <1>4, <1>6
  <2> QED BY <1>2, <2>1 DEF Excused
<1> QED BY <1>5, <1>6

LEMMA FragmentIsExcused ==
  ASSUME IInv, NEW k \in DOMAIN fragments, Fragment(k), NEW i \in Present
  PROVE  Excused(i)
<1>1. i \in Ids /\ node[i] # Absent BY DEF Present
<1>2. node'[i] = node[i] \/ node'[i] = Absent BY <1>1, FragmentReserves
<1>3. node[i].energy \in Int BY <1>1, PresentGood, EnergyIsInt
<1> QED BY <1>2, <1>3 DEF Excused

LEMMA NextIsExcused == ASSUME IInv, Next, NEW i \in Present PROVE Excused(i)
<1>1. IInv' BY NextKeeps
<1>2. CASE NextPhase BY <1>1, <1>2, NextPhaseReserves, SameReservesSpare, SparedIsExcused
<1>3. ASSUME NEW j \in Ids, Act(j) PROVE Excused(i)
  BY <1>1, <1>3, ActSpares, SparedIsExcused
<1>4. ASSUME NEW j \in Ids, DrainNode(j) PROVE Excused(i) BY <1>4, DrainIsExcused
<1>5. ASSUME NEW j \in Ids, Discharge(j) PROVE Excused(i)
  BY <1>1, <1>5, DischargeSpares, SparedIsExcused
<1>6. ASSUME NEW j \in Ids, Reproduce(j) PROVE Excused(i)
  BY <1>1, <1>6, ReproduceSpares, SparedIsExcused
<1>7. ASSUME NEW a \in Ids, NEW o \in Ids, Harvest(a, o) PROVE Excused(i)
  BY <1>1, <1>7, HarvestSpares, SparedIsExcused
<1>8. ASSUME NEW first \in Present, NEW second \in Present, NEW impulse \in Impulses,
             first # second, Collide(first, second, impulse)
      PROVE  Excused(i)
  BY <1>1, <1>8, CollideReserves, SameReservesSpare, SparedIsExcused
<1>9. CASE NoMoreContacts
  <2>1. SameReserves(node, node') BY <1>9 DEF NoMoreContacts, SameReserves
  <2> QED BY <1>1, <2>1, SameReservesSpare, SparedIsExcused
<1>10. ASSUME NEW k \in DOMAIN fragments, Transfer(k) PROVE Excused(i)
  BY <1>1, <1>10, TransferReserves, SparedIsExcused
<1>11. ASSUME NEW k \in DOMAIN fragments, Fragment(k) PROVE Excused(i)
  BY <1>11, FragmentIsExcused
<1>12. CASE RunDeaths BY <1>1, <1>12, RunDeathsReserves, SameReservesSpare, SparedIsExcused
<1> QED
  BY <1>2, <1>3, <1>4, <1>5, <1>6, <1>7, <1>8, <1>9, <1>10, <1>11, <1>12 DEF Next

\* For every population, input and bound: nothing but the drain takes a reserve
\* below zero, and the drain writes down all it takes.
THEOREM OnlyTheDrainOverdraws == Spec => OnlyDrainOverdraws
<1>1. ASSUME IInv, [Next]_vars
      PROVE  [\A i \in Present : Excused(i)]_vars
  BY <1>1, NextIsExcused
<1>2. [\A i \in Present : Excused(i)]_vars
        <=> [\A i \in Present :
               /\ node'[i] # Absent
               /\ node'[i].energy < node[i].energy /\ node'[i].energy < 0
               => node'[i].ledger["dissipated"] - node[i].ledger["dissipated"]
                    >= node[i].energy - node'[i].energy]_vars
  BY DEF Excused
<1> QED BY <1>1, <1>2, InitIInv, NextKeeps, PTL DEF Spec, OnlyDrainOverdraws

-----------------------------------------------------------------------------
(* The queue of fragments between the drain that begins it and the         *)
(* fragmentation that empties it.                                          *)

Victim(k) == fragments[k].victim
Share(k) == fragments[k].share
There(k) == Victim(k) \in Ids /\ node[Victim(k)] # Absent
Reserve(k) == node[Victim(k)].energy

OncePerVictim(queue) ==
  \A j, k \in DOMAIN queue : queue[j].victim = queue[k].victim => j = k

\* What entry `k` can count on in the present phase.
Covered(k) ==
  /\ phase \in {"drain", "harvest", "trap", "reproduce"} =>
       There(k) /\ Share(k) = 0 /\ Reserve(k) >= 0
  /\ phase = "collide" => There(k) /\ Reserve(k) >= Share(k)
  /\ phase = "transfer" =>
       There(k) /\ Reserve(k) >= 0 /\ (k \in todo => Reserve(k) >= Share(k))
  /\ phase = "fragment" => (k \in todo => There(k) /\ Reserve(k) >= 0)

SharesInv ==
  /\ OncePerVictim(fragments)
  /\ \A k \in DOMAIN fragments : Covered(k)
  /\ phase = "drain" => \A k \in DOMAIN fragments : Victim(k) \notin todo
  /\ phase \in {"deaths", "act"} => fragments = <<>>

LEMMA EntryTyped ==
  ASSUME IInv, NEW k \in DOMAIN fragments
  PROVE  Victim(k) \in Ids /\ Share(k) \in Nat
<1>1. fragments[k] \in Entry BY SeqDef DEF IInv, TypeOK
<1> QED BY <1>1 DEF Entry, Victim, Share

LEMMA ReserveIsInt ==
  ASSUME IInv, NEW i \in Ids, node[i] # Absent
  PROVE  node[i].energy \in Int
BY PresentGood, EnergyIsInt

LEMMA SharesFundedFromInv == ASSUME IInv, SharesInv PROVE SharesFunded
<1> SUFFICES ASSUME NEW k \in DOMAIN fragments
             PROVE  /\ phase = "collide" \/ (phase = "transfer" /\ k \in todo) =>
                         Victim(k) \in Present /\ Reserve(k) >= Share(k)
                    /\ phase = "fragment" /\ k \in todo =>
                         Victim(k) \in Present /\ Reserve(k) >= 0
  BY DEF SharesFunded, Victim, Reserve, Share
<1> QED BY DEF SharesInv, Covered, There, Present

\* A step of a loop that leaves the queue alone and spares everybody.
LEMMA SparingTurn ==
  ASSUME IInv, IInv', SharesInv, Spares(node, node'), UNCHANGED <<phase, fragments>>,
         todo' \subseteq todo,
         phase \in {"act", "drain", "harvest", "trap", "reproduce"}
  PROVE  SharesInv'
<1>1. ASSUME NEW k \in DOMAIN fragments, phase # "act"
      PROVE  There(k)' /\ Share(k)' = 0 /\ Reserve(k)' >= 0
  <2>1. There(k) /\ Share(k) = 0 /\ Reserve(k) >= 0 BY <1>1 DEF SharesInv, Covered
  <2>2. Victim(k)' = Victim(k) /\ Share(k)' = Share(k) BY DEF Victim, Share
  <2>3. Victim(k) \in Ids /\ node[Victim(k)] # Absent BY <2>1 DEF There
  <2>4. /\ node'[Victim(k)] # Absent
        /\ Spared(node[Victim(k)], node'[Victim(k)])
    BY <2>3 DEF Spares
  <2>5. node[Victim(k)].energy \in Int BY <2>3, ReserveIsInt
  <2>6. Good(node'[Victim(k)]) BY <2>3, <2>4, Zenon DEF IInv, GoodWorld
  <2>7. node'[Victim(k)].energy \in Int BY <2>6, EnergyIsInt
  <2>8. node'[Victim(k)].energy >= 0 BY <2>1, <2>4, <2>5, <2>7 DEF Spared, Reserve
  <2> QED BY <2>1, <2>2, <2>3, <2>4, <2>8 DEF There, Reserve
<1>2. \A k \in DOMAIN fragments' : Covered(k)'
  BY <1>1 DEF Covered
<1>3. OncePerVictim(fragments') BY DEF SharesInv
<1>4. phase' = "drain" => \A k \in DOMAIN fragments' : Victim(k)' \notin todo'
  BY DEF SharesInv, Victim
<1>5. phase' \in {"deaths", "act"} => fragments' = <<>> BY DEF SharesInv
<1> QED BY <1>2, <1>3, <1>4, <1>5 DEF SharesInv

\* `longer` has the entries of `queue`, and any other asks `victim` for `share`.
Extends(queue, longer, victim, share) ==
  /\ \A k \in DOMAIN queue : longer[k] = queue[k]
  /\ \A k \in DOMAIN longer \ DOMAIN queue :
       longer[k].victim = victim /\ longer[k].share = share

LEMMA EnqueueExtends ==
  ASSUME NEW queue \in Seq(Entry), NEW victim \in Ids, NEW killer \in Ids \cup {NoOne},
         victim # killer, NEW share \in Nat, OncePerVictim(queue)
  PROVE  /\ OncePerVictim(Enqueue(queue, victim, killer, share))
         /\ Extends(queue, Enqueue(queue, victim, killer, share), victim, share)
<1> DEFINE e == [victim |-> victim, killer |-> killer, share |-> share]
           longer == Append(queue, e)
           r == Enqueue(queue, victim, killer, share)
<1>2. CASE \E k \in DOMAIN queue : queue[k].victim = victim
  BY <1>2 DEF Enqueue, Extends
<1>3. CASE ~ \E k \in DOMAIN queue : queue[k].victim = victim
  <2>1. r = longer BY <1>3 DEF Enqueue
  <2>2. e.victim = victim /\ e.share = share /\ e \in Entry BY DEF Entry
  <2> HIDE DEF e
  <2>3. /\ DOMAIN longer = DOMAIN queue \cup {Len(queue) + 1}
        /\ \A k \in DOMAIN queue : longer[k] = queue[k]
        /\ longer[Len(queue) + 1] = e
    BY <2>2, AppendProperties, LenProperties
  <2> HIDE DEF longer, r
  <2>4. OncePerVictim(longer) BY <1>3, <2>2, <2>3 DEF OncePerVictim
  <2>5. Extends(queue, longer, victim, share) BY <2>2, <2>3 DEF Extends
  <2> QED BY <2>1, <2>4, <2>5 DEF r
<1> QED BY <1>2, <1>3

LEMMA DrainNodeShares ==
  ASSUME IInv, IInv', SharesInv, NEW i \in Ids, DrainNode(i)
  PROVE  SharesInv'
<1>1. PICK thermal \in Thermal, sheltered \in BOOLEAN :
        LET n == Exposed(node[i], thermal, sheltered)
        IN /\ node' = [node EXCEPT ![i] = n]
           /\ fragments' = IF Fails(n) THEN Enqueue(fragments, i, NoOne, 0) ELSE fragments
  BY DEF DrainNode
<1> DEFINE n == Exposed(node[i], thermal, sheltered)
           queue == Enqueue(fragments, i, NoOne, 0)
<1>2. /\ node[i] # Absent /\ phase = "drain" /\ phase' = "drain"
      /\ i \in todo /\ todo' = todo \ {i}
  BY DEF DrainNode, Turn, Running, TurnTaken, IInv, TurnsPresent
<1>3. Good(n) BY <1>2, PresentGood, ExposedGood
<1> HIDE DEF n
<1>4. node' = [node EXCEPT ![i] = n] BY <1>1 DEF n
<1>5. node \in [Ids -> Node \cup {Absent}] /\ fragments \in Seq(Entry) BY DEF IInv, TypeOK
<1>6. node'[i] = n /\ n # Absent /\ \A j \in Ids : j # i => node'[j] = node[j]
  BY <1>3, <1>4, <1>5, AbsentIsNoNode DEF Good
<1>7. OncePerVictim(fragments) BY DEF SharesInv
<1>8. \A k \in DOMAIN fragments : Victim(k) # i BY <1>2 DEF SharesInv
<1>9. ASSUME NEW k \in DOMAIN fragments
      PROVE  Victim(k) \in Ids /\ node'[Victim(k)] # Absent /\ Share(k) = 0
             /\ node'[Victim(k)].energy >= 0 /\ Victim(k) \notin todo'
  <2>1. There(k) /\ Share(k) = 0 /\ Reserve(k) >= 0 /\ Victim(k) \notin todo
    BY <1>2, <1>9 DEF SharesInv, Covered
  <2>2. Victim(k) \in Ids BY <2>1 DEF There
  <2>3. node'[Victim(k)] = node[Victim(k)] BY <1>6, <1>8, <1>9, <2>2
  <2> QED BY <1>2, <2>1, <2>2, <2>3 DEF There, Reserve
<1>10. CASE ~Fails(n)
  <2>1. fragments' = fragments BY <1>1, <1>10 DEF n
  <2>2. \A k \in DOMAIN fragments' : Covered(k)' /\ Victim(k)' \notin todo'
    BY <1>2, <1>9, <2>1 DEF Covered, There, Reserve, Victim, Share
  <2> QED BY <1>2, <1>7, <2>1, <2>2 DEF SharesInv
<1>11. CASE Fails(n)
  <2>1. fragments' = queue BY <1>1, <1>11 DEF n
  <2>2. i # NoOne /\ 0 \in Nat BY DEF Ids, NoOne
  <2>3. OncePerVictim(queue) /\ Extends(fragments, queue, i, 0)
    BY <1>5, <1>7, <2>2, EnqueueExtends, Zenon
  <2> HIDE DEF queue
  <2>4. n.energy > 0 BY <1>11 DEF Fails
  <2>5. ASSUME NEW k \in DOMAIN queue
        PROVE  /\ queue[k].victim \in Ids /\ node'[queue[k].victim] # Absent
               /\ queue[k].share = 0 /\ node'[queue[k].victim].energy >= 0
               /\ queue[k].victim \notin todo'
    <3>1. CASE k \in DOMAIN fragments
      BY <1>9, <2>3, <3>1 DEF Extends, Victim, Share
    <3>2. CASE k \notin DOMAIN fragments
      <4>1. n.energy \in Int BY <1>3, EnergyIsInt
      <4> QED BY <1>2, <1>6, <2>3, <2>4, <3>2, <4>1 DEF Extends
    <3> QED BY <3>1, <3>2
  <2>6. \A k \in DOMAIN fragments' : Covered(k)' /\ Victim(k)' \notin todo'
    BY <1>2, <2>1, <2>5 DEF Covered, There, Reserve, Victim, Share
  <2> QED BY <1>2, <2>1, <2>3, <2>6 DEF SharesInv
<1> QED BY <1>10, <1>11

\* Every victim in the queue of `world` is there and can pay its share.
CanPay(world, k) ==
  LET v == world.fragments[k].victim
  IN /\ v \in Ids /\ world.node[v] # Absent
     /\ world.node[v].energy >= world.fragments[k].share

Funded(world) ==
  OncePerVictim(world.fragments) /\ \A k \in DOMAIN world.fragments : CanPay(world, k)

\* While reserves stand still, what is in the queue is funded, whoever joins it.
LEMMA QueuedFunded ==
  ASSUME NEW world, NEW result, SameReserves(world.node, result.node),
         world.fragments \in Seq(Entry), Funded(world),
         NEW victim \in Ids, world.node[victim] # Absent, Queues(world, victim, result)
  PROVE  Funded(result)
<1>1. CASE result.fragments = world.fragments
  BY <1>1 DEF SameReserves, Funded, CanPay
<1>2. CASE \E killer \in Ids \cup {NoOne}, share \in Nat :
             /\ victim # killer
             /\ result.fragments = Enqueue(world.fragments, victim, killer, share)
             /\ world.node[victim].energy >= share
  <2>1. PICK killer \in Ids \cup {NoOne}, share \in Nat :
             /\ victim # killer
             /\ result.fragments = Enqueue(world.fragments, victim, killer, share)
             /\ world.node[victim].energy >= share
    BY <1>2
  <2> DEFINE old == world.fragments
             queue == Enqueue(old, victim, killer, share)
  <2>2. OncePerVictim(queue) /\ Extends(old, queue, victim, share)
    BY <2>1, EnqueueExtends, Zenon DEF Funded
  <2>3. result.fragments = queue BY <2>1
  <2> HIDE DEF queue
  <2>4. ASSUME NEW k \in DOMAIN queue PROVE CanPay(result, k)
    <3>1. CASE k \in DOMAIN old
      <4>1. CanPay(world, k) BY <3>1 DEF Funded
      <4> QED BY <2>2, <2>3, <3>1, <4>1 DEF SameReserves, Extends, CanPay
    <3>2. CASE k \notin DOMAIN old
      BY <2>1, <2>2, <2>3, <3>2 DEF SameReserves, Extends, CanPay
    <3> QED BY <3>1, <3>2
  <2> QED BY <2>2, <2>3, <2>4 DEF Funded
<1> QED BY <1>1, <1>2 DEF Queues

LEMMA CollideShares ==
  ASSUME IInv, SharesInv, NEW first \in Present, NEW second \in Present,
         NEW impulse \in Impulses, first # second, Collide(first, second, impulse)
  PROVE  SharesInv'
<1> DEFINE world == [node |-> node, fragments |-> fragments]
           once == Hit(world, first, second, impulse)
           both == Hit(once, second, first, impulse)
<1>1. /\ first \in Ids /\ second \in Ids /\ node[first] # Absent /\ node[second] # Absent
      /\ impulse \in Nat
  BY EconomyAssumption DEF Present
<1>2. /\ GoodWorld(world.node, deaths) /\ world.fragments \in Seq(Entry)
      /\ DOMAIN world = {"node", "fragments"}
      /\ world.node = node /\ world.fragments = fragments
  BY DEF IInv, TypeOK
<1>3. /\ node' = both.node /\ fragments' = both.fragments
      /\ phase = "collide" /\ phase' = "collide"
  BY DEF Collide, Running, TurnTaken
<1> HIDE DEF world
<1>4. Funded(world)
  BY <1>2, <1>3 DEF SharesInv, Covered, There, Reserve, Victim, Share, Funded, CanPay
<1>5. /\ GoodWorld(once.node, deaths) /\ Keeps(world.node, once.node)
      /\ once.fragments \in Seq(Entry) /\ DOMAIN once = {"node", "fragments"}
      /\ SameReserves(world.node, once.node) /\ Queues(world, first, once)
  BY <1>1, <1>2, HitGood, HitReserves
<1> HIDE DEF once
<1>6. Funded(once) BY <1>1, <1>2, <1>4, <1>5, QueuedFunded
<1>7. once.node[first] # Absent /\ once.node[second] # Absent
  BY <1>1, <1>2, <1>5 DEF Keeps
<1>8. SameReserves(once.node, both.node) /\ Queues(once, second, both)
  BY <1>1, <1>5, <1>7, HitReserves
<1> HIDE DEF both
<1>9. Funded(both) BY <1>1, <1>5, <1>6, <1>7, <1>8, QueuedFunded
<1>10. OncePerVictim(fragments') /\ \A k \in DOMAIN fragments' : Covered(k)'
  BY <1>3, <1>9 DEF Covered, There, Reserve, Victim, Share, Funded, CanPay
<1> QED BY <1>3, <1>10 DEF SharesInv

LEMMA NoMoreContactsShares == ASSUME SharesInv, NoMoreContacts PROVE SharesInv'
<1>1. phase = "collide" /\ UNCHANGED <<node, phase, fragments>>
  BY DEF NoMoreContacts, Running
<1>2. \A k \in DOMAIN fragments' : Covered(k)'
  BY <1>1 DEF SharesInv, Covered, There, Reserve, Victim, Share
<1> QED BY <1>1, <1>2 DEF SharesInv

LEMMA TransferShares ==
  ASSUME IInv, IInv', SharesInv, NEW k \in DOMAIN fragments, Transfer(k)
  PROVE  SharesInv'
<1>1. /\ phase = "transfer" /\ phase' = "transfer" /\ fragments' = fragments
      /\ todo' = todo \ {k}
  BY DEF Transfer, Turn, Running, TurnTaken
<1>2. ASSUME NEW j \in DOMAIN fragments PROVE Covered(j)'
  <2>1. There(j) /\ Reserve(j) >= 0 /\ (j \in todo => Reserve(j) >= Share(j))
    BY <1>1 DEF SharesInv, Covered
  <2>2. Victim(j)' = Victim(j) /\ Share(j)' = Share(j) BY <1>1 DEF Victim, Share
  <2> DEFINE v == Victim(j)
  <2>3. v \in Ids /\ node[v] # Absent BY <2>1 DEF There
  <2>4. node'[v] # Absent /\ Spared(node[v], node'[v])
    BY <2>3, TransferReserves DEF Spares
  <2>5. node[v].energy \in Int /\ node'[v].energy \in Int
    <3>1. Good(node'[v]) BY <2>3, <2>4, Zenon DEF IInv, GoodWorld
    <3> QED BY <2>3, <3>1, ReserveIsInt, EnergyIsInt
  <2>6. node'[v].energy >= 0 BY <2>1, <2>4, <2>5 DEF Spared, Reserve
  <2>7. ASSUME j \in todo' PROVE node'[v].energy >= Share(j)
    <3>1. j \in todo /\ j # k BY <1>1, <2>7
    <3>2. v # fragments[k].victim BY <3>1 DEF SharesInv, OncePerVictim, Victim
    <3>3. node'[v].energy >= node[v].energy BY <2>3, <3>2, TransferReserves
    <3>4. Share(j) \in Int BY EntryTyped
    <3> QED BY <2>1, <2>5, <3>1, <3>3, <3>4 DEF Reserve
  <2>8. There(j)' /\ Reserve(j)' >= 0 /\ (j \in todo' => Reserve(j)' >= Share(j)')
    BY <2>2, <2>3, <2>4, <2>6, <2>7 DEF There, Reserve
  <2> QED BY <1>1, <2>8 DEF Covered
<1>3. \A j \in DOMAIN fragments' : Covered(j)' BY <1>1, <1>2
<1>4. OncePerVictim(fragments') BY <1>1 DEF SharesInv
<1> QED BY <1>1, <1>3, <1>4 DEF SharesInv

LEMMA FragmentShares ==
  ASSUME IInv, SharesInv, NEW k \in DOMAIN fragments, Fragment(k)
  PROVE  SharesInv'
<1>1. /\ phase = "fragment" /\ phase' = "fragment" /\ fragments' = fragments
      /\ todo' = todo \ {k}
  BY DEF Fragment, Turn, Running, TurnTaken
<1>2. ASSUME NEW j \in DOMAIN fragments, j \in todo'
      PROVE  There(j)' /\ Reserve(j)' >= 0
  <2>1. j \in todo /\ j # k BY <1>1, <1>2
  <2>2. There(j) /\ Reserve(j) >= 0 BY <1>1, <2>1 DEF SharesInv, Covered
  <2>3. Victim(j) # fragments[k].victim BY <2>1 DEF SharesInv, OncePerVictim, Victim
  <2>4. node'[Victim(j)] = node[Victim(j)]
    BY <2>2, <2>3, FragmentReserves DEF There
  <2> QED BY <1>1, <2>2, <2>4 DEF There, Reserve, Victim
<1>3. \A j \in DOMAIN fragments' : Covered(j)' BY <1>1, <1>2 DEF Covered
<1>4. OncePerVictim(fragments') BY <1>1 DEF SharesInv
<1> QED BY <1>1, <1>3, <1>4 DEF SharesInv

LEMMA NextPhaseShares == ASSUME IInv, SharesInv, NextPhase PROVE SharesInv'
<1>1. /\ phase \in DOMAIN After /\ phase' = After[phase] /\ todo' = Turns(phase')
      /\ fragments' = IF phase = "fragment" THEN <<>> ELSE fragments
      /\ todo = {}
  BY DEF NextPhase, IInv, TypeOK
<1>2. SameReserves(node, node') BY NextPhaseReserves
<1>3. CASE phase \in {"act", "fragment"}
  <2>1. fragments' = <<>> /\ phase' \in {"drain", "deaths"}
    BY <1>1, <1>3 DEF SharesInv, After
  <2>2. \A k \in DOMAIN fragments' : Covered(k)' /\ Victim(k)' \notin todo'
    BY <2>1
  <2> QED BY <2>1, <2>2 DEF SharesInv, OncePerVictim
<1>4. CASE phase \in {"drain", "harvest", "trap", "reproduce", "collide", "transfer"}
  <2>1. fragments' = fragments BY <1>1, <1>4
  <2>2. ASSUME NEW k \in DOMAIN fragments
        PROVE  There(k)' /\ Reserve(k)' = Reserve(k) /\ Share(k)' = Share(k)
    <3>1. There(k) BY <1>4, <2>2 DEF SharesInv, Covered
    <3>2. Victim(k)' = Victim(k) /\ Share(k)' = Share(k) BY <2>1 DEF Victim, Share
    <3> QED BY <1>2, <3>1, <3>2 DEF There, Reserve, SameReserves
  <2>3. CASE phase \in {"drain", "harvest", "trap"}
    <3>1. phase' \in {"harvest", "trap", "reproduce"} BY <1>1, <2>3 DEF After
    <3>2. \A k \in DOMAIN fragments : Share(k) = 0 /\ Reserve(k) >= 0
      BY <2>3 DEF SharesInv, Covered
    <3>3. \A k \in DOMAIN fragments' : Covered(k)' BY <2>1, <2>2, <3>1, <3>2 DEF Covered
    <3> QED BY <2>1, <3>1, <3>3 DEF SharesInv
  <2>4. CASE phase = "reproduce"
    <3>1. phase' = "collide" BY <1>1, <2>4 DEF After
    <3>2. \A k \in DOMAIN fragments : Share(k) = 0 /\ Reserve(k) >= 0
      BY <2>4 DEF SharesInv, Covered
    <3>3. \A k \in DOMAIN fragments' : Covered(k)' BY <2>1, <2>2, <3>1, <3>2 DEF Covered
    <3> QED BY <2>1, <3>1, <3>3 DEF SharesInv
  <2>5. CASE phase = "collide"
    <3>1. phase' = "transfer" BY <1>1, <2>5 DEF After
    <3>2. ASSUME NEW k \in DOMAIN fragments PROVE Reserve(k) >= Share(k) /\ Reserve(k) >= 0
      <4>1. There(k) /\ Reserve(k) >= Share(k) BY <2>5 DEF SharesInv, Covered
      <4>2. Reserve(k) \in Int BY <4>1, ReserveIsInt DEF There, Reserve
      <4>3. Share(k) \in Nat BY EntryTyped
      <4> QED BY <4>1, <4>2, <4>3
    <3>3. \A k \in DOMAIN fragments' : Covered(k)' BY <2>1, <2>2, <3>1, <3>2 DEF Covered
    <3> QED BY <2>1, <3>1, <3>3 DEF SharesInv
  <2>6. CASE phase = "transfer"
    <3>1. phase' = "fragment" BY <1>1, <2>6 DEF After
    <3>2. \A k \in DOMAIN fragments : Reserve(k) >= 0 BY <2>6 DEF SharesInv, Covered
    <3>3. \A k \in DOMAIN fragments' : Covered(k)' BY <2>1, <2>2, <3>1, <3>2 DEF Covered
    <3> QED BY <2>1, <3>1, <3>3 DEF SharesInv
  <2> QED BY <1>4, <2>3, <2>4, <2>5, <2>6
<1> QED BY <1>1, <1>3, <1>4 DEF After

LEMMA RunDeathsShares == ASSUME SharesInv, RunDeaths PROVE SharesInv'
<1>1. fragments' = <<>> /\ phase' = "act" BY DEF RunDeaths, SharesInv
<1>2. \A k \in DOMAIN fragments' : Covered(k)' BY <1>1
<1> QED BY <1>1, <1>2 DEF SharesInv, OncePerVictim

LEMMA NextShares == ASSUME IInv, SharesInv, [Next]_vars PROVE SharesInv'
<1>1. IInv' BY NextKeeps
<1>2. CASE NextPhase BY <1>2, NextPhaseShares
<1>3. ASSUME NEW i \in Ids, Act(i) PROVE SharesInv'
  <2>1. /\ phase = "act" /\ UNCHANGED <<phase, fragments>> /\ todo' \subseteq todo
    BY <1>3 DEF Act, Turn, Running, TurnTaken
  <2> QED BY <1>1, <1>3, <2>1, ActSpares, SparingTurn
<1>4. ASSUME NEW i \in Ids, DrainNode(i) PROVE SharesInv' BY <1>1, <1>4, DrainNodeShares
<1>5. ASSUME NEW i \in Ids, Discharge(i) PROVE SharesInv'
  <2>1. /\ phase = "trap" /\ UNCHANGED <<phase, fragments>> /\ todo' \subseteq todo
    BY <1>5 DEF Discharge, Turn, Running, TurnTaken
  <2> QED BY <1>1, <1>5, <2>1, DischargeSpares, SparingTurn
<1>6. ASSUME NEW i \in Ids, Reproduce(i) PROVE SharesInv'
  <2>1. /\ phase = "reproduce" /\ UNCHANGED <<phase, fragments>> /\ todo' \subseteq todo
    BY <1>6 DEF Reproduce, Turn, Running, TurnTaken
  <2> QED BY <1>1, <1>6, <2>1, ReproduceSpares, SparingTurn
<1>7. ASSUME NEW a \in Ids, NEW o \in Ids, Harvest(a, o) PROVE SharesInv'
  <2>1. /\ phase = "harvest" /\ UNCHANGED <<phase, fragments>> /\ todo' \subseteq todo
    BY <1>7 DEF Harvest, Running, TurnTaken
  <2> QED BY <1>1, <1>7, <2>1, HarvestSpares, SparingTurn
<1>8. ASSUME NEW first \in Present, NEW second \in Present, NEW impulse \in Impulses,
             first # second, Collide(first, second, impulse)
      PROVE  SharesInv'
  BY <1>8, CollideShares
<1>9. CASE NoMoreContacts BY <1>9, NoMoreContactsShares
<1>10. ASSUME NEW k \in DOMAIN fragments, Transfer(k) PROVE SharesInv'
  BY <1>1, <1>10, TransferShares
<1>11. ASSUME NEW k \in DOMAIN fragments, Fragment(k) PROVE SharesInv'
  BY <1>11, FragmentShares
<1>12. CASE RunDeaths BY <1>12, RunDeathsShares
<1>13. CASE UNCHANGED vars
  <2>1. UNCHANGED <<node, phase, todo, fragments>> BY <1>13 DEF vars
  <2>2. \A k \in DOMAIN fragments' : Covered(k)'
    BY <2>1 DEF SharesInv, Covered, There, Reserve, Victim, Share
  <2> QED BY <2>1, <2>2 DEF SharesInv, Victim
<1> QED
  BY <1>2, <1>3, <1>4, <1>5, <1>6, <1>7, <1>8, <1>9, <1>10, <1>11, <1>12, <1>13 DEF Next

LEMMA InitShares == Init => SharesInv
BY DEF Init, SharesInv, OncePerVictim

\* For every population, input and bound: no order of hits, mutual kills and
\* chains of kills takes from a victim what it owes its killer.
THEOREM SharesAreFunded == Spec => []SharesFunded
<1>1. IInv /\ SharesInv => SharesFunded BY SharesFundedFromInv
<1>2. IInv /\ SharesInv /\ [Next]_vars => IInv' /\ SharesInv' BY NextKeeps, NextShares
<1>3. Init => IInv /\ SharesInv BY InitIInv, InitShares
<1> QED BY <1>1, <1>2, <1>3, PTL DEF Spec
=============================================================================
