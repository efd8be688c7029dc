------------------------ MODULE EnergyEconomyProofs -------------------------
(***************************************************************************)
(* What the economy keeps for every population, every input and every      *)
(* bound.  A node is good when it is typed and its ledger balances; every  *)
(* system replaces good nodes by good nodes.  A node below zero is dead or *)
(* queued for death: only the drain takes a reserve below zero, and it     *)
(* queues the node in the same turn.                                       *)
(***************************************************************************)
EXTENDS EnergyEconomy, SequenceTheorems, TLAPS

-----------------------------------------------------------------------------
(* Every ledger call keeps an account sound: its fields typed and its reserve *)
(* equal to its opening plus what the ledger gained, minus what it spent.     *)

Sound(account) ==
  /\ {"energy", "opening", "ledger"} \subseteq DOMAIN account
  /\ account.energy \in Int
  /\ account.opening \in Int
  /\ account.ledger \in [EnergyFlow -> Nat]
  /\ Balanced(account)

Amount == Int \cup {NonFinite}

\* The same node apart from its reserve and its ledger.
SameBody(account, result) ==
  /\ DOMAIN result = DOMAIN account
  /\ \A field \in DOMAIN account \ {"energy", "ledger"} : result[field] = account[field]

\* A valid amount is a natural number, whatever the caller passes.
LEMMA ValidIsNatural == ASSUME NEW amount \in Amount PROVE ValidAmount(amount) \in Nat
BY NonFiniteAssumption DEF ValidAmount, AtLeastZero, Amount

\* What a reserve can pay is a natural number no larger than asked for.
LEMMA AvailableIsNatural ==
  ASSUME NEW account, account.energy \in Int, NEW amount \in Amount
  PROVE  Available(account, amount) \in Nat
BY ValidIsNatural DEF Available, Lesser, AtLeastZero

\* Recording an amount under a source and adding it to the reserve.
LEMMA RecordGain ==
  ASSUME NEW account, Sound(account), NEW flow \in Sources, NEW amount \in Nat
  PROVE  LET r == Record(account, flow, amount, account.energy + amount)
         IN Sound(r) /\ SameBody(account, r) /\ r.energy = account.energy + amount
<1> DEFINE r == Record(account, flow, amount, account.energy + amount)
<1>1. /\ DOMAIN r = DOMAIN account
      /\ r.energy = account.energy + amount
      /\ r.opening = account.opening
      /\ r.ledger = [account.ledger EXCEPT ![flow] = @ + amount]
      /\ \A field \in DOMAIN account \ {"energy", "ledger"} : r[field] = account[field]
  BY DEF Sound, Record
<1>2. /\ r.ledger \in [EnergyFlow -> Nat]
      /\ \A f \in EnergyFlow :
           r.ledger[f] = IF f = flow THEN account.ledger[f] + amount ELSE account.ledger[f]
  BY <1>1 DEF Sound, EnergyFlow
<1>3. Gained(r) = Gained(account) + amount /\ Spent(r) = Spent(account)
  BY <1>2 DEF Gained, Spent, EnergyFlow, Sources, Sinks, Sound
<1>4. Gained(account) \in Int /\ Spent(account) \in Int
  BY DEF Gained, Spent, EnergyFlow, Sources, Sinks, Sound
<1>5. Balanced(r)
  BY <1>1, <1>3, <1>4 DEF Sound, Balanced
<1> QED BY <1>1, <1>2, <1>5 DEF Sound, SameBody

\* Recording an amount under a sink and taking it from the reserve.
LEMMA RecordSpend ==
  ASSUME NEW account, Sound(account), NEW flow \in Sinks, NEW amount \in Nat
  PROVE  LET r == Record(account, flow, amount, account.energy - amount)
         IN Sound(r) /\ SameBody(account, r) /\ r.energy = account.energy - amount
<1> DEFINE r == Record(account, flow, amount, account.energy - amount)
<1>1. /\ DOMAIN r = DOMAIN account
      /\ r.energy = account.energy - amount
      /\ r.opening = account.opening
      /\ r.ledger = [account.ledger EXCEPT ![flow] = @ + amount]
      /\ \A field \in DOMAIN account \ {"energy", "ledger"} : r[field] = account[field]
  BY DEF Sound, Record
<1>2. /\ r.ledger \in [EnergyFlow -> Nat]
      /\ \A f \in EnergyFlow :
           r.ledger[f] = IF f = flow THEN account.ledger[f] + amount ELSE account.ledger[f]
  BY <1>1 DEF Sound, EnergyFlow
<1>3. Gained(r) = Gained(account) /\ Spent(r) = Spent(account) + amount
  BY <1>2 DEF Gained, Spent, EnergyFlow, Sources, Sinks, Sound
<1>4. Gained(account) \in Int /\ Spent(account) \in Int
  BY DEF Gained, Spent, EnergyFlow, Sources, Sinks, Sound
<1>5. Balanced(r)
  BY <1>1, <1>3, <1>4 DEF Sound, Balanced
<1> QED BY <1>1, <1>2, <1>5 DEF Sound, SameBody

\* The same account is sound and the same body.
LEMMA Unchanged == ASSUME NEW account PROVE SameBody(account, account)
BY DEF SameBody

LEMMA CreditSound ==
  ASSUME NEW account, Sound(account), NEW flow, NEW amount \in Amount
  PROVE  /\ Sound(Credit(account, flow, amount))
         /\ SameBody(account, Credit(account, flow, amount))
BY RecordGain, ValidIsNatural, Unchanged DEF Credit

LEMMA DebitExactSound ==
  ASSUME NEW account, Sound(account), NEW flow, NEW amount \in Amount
  PROVE  /\ Sound(DebitExact(account, flow, amount))
         /\ SameBody(account, DebitExact(account, flow, amount))
BY RecordSpend, ValidIsNatural, Unchanged DEF DebitExact, CanFund

LEMMA DebitAvailableSound ==
  ASSUME NEW account, Sound(account), NEW flow, NEW amount \in Amount
  PROVE  /\ Sound(DebitAvailable(account, flow, amount))
         /\ SameBody(account, DebitAvailable(account, flow, amount))
BY RecordSpend, AvailableIsNatural, Unchanged DEF DebitAvailable, Sound

LEMMA DrainSound ==
  ASSUME NEW account, Sound(account), NEW amount \in Amount
  PROVE  /\ Sound(Drain(account, amount))
         /\ SameBody(account, Drain(account, amount))
BY RecordSpend, ValidIsNatural DEF Drain, Sinks

-----------------------------------------------------------------------------
(* Good nodes *)

Good(n) == n \in Node /\ Balanced(n)

\* `r` is the node `n` after voluntary spends and credits only.
Voluntary(n, r) ==
  /\ Good(r)
  /\ r.mass = n.mass /\ r.tags = n.tags /\ r.dead = n.dead /\ r.structure = n.structure
  /\ r.energy < 0 => n.energy < 0

LEMMA GoodIsSound == ASSUME NEW n, Good(n) PROVE Sound(n)
BY DEF Good, Node, Sound

LEMMA RecordTyped ==
  ASSUME NEW n \in Node, NEW flow \in EnergyFlow, NEW amount \in Nat, NEW energy \in Int
  PROVE  Record(n, flow, amount, energy) \in Node
<1>1. [n.ledger EXCEPT ![flow] = @ + amount] \in [EnergyFlow -> Nat]
  BY DEF Node
<1> QED BY <1>1 DEF Record, Node

LEMMA CreditVoluntary ==
  ASSUME NEW n, Good(n), NEW flow, NEW amount \in Amount
  PROVE  /\ Voluntary(n, Credit(n, flow, amount))
         /\ Credit(n, flow, amount).energy >= n.energy
<1>1. Sound(n) BY GoodIsSound
<1>2. CASE flow \in Sources
  <2>1. ValidAmount(amount) \in Nat BY ValidIsNatural
  <2>2. Credit(n, flow, amount)
          = Record(n, flow, ValidAmount(amount), n.energy + ValidAmount(amount))
    BY <1>2 DEF Credit
  <2>3. Credit(n, flow, amount) \in Node
    <3>1. flow \in EnergyFlow /\ n \in Node /\ n.energy + ValidAmount(amount) \in Int
      BY <1>1, <1>2, <2>1 DEF Good, Sound, EnergyFlow
    <3> QED BY <2>1, <2>2, <3>1, RecordTyped
  <2>4. /\ Sound(Credit(n, flow, amount))
        /\ SameBody(n, Credit(n, flow, amount))
        /\ Credit(n, flow, amount).energy = n.energy + ValidAmount(amount)
    BY <1>1, <1>2, <2>1, <2>2, RecordGain
  <2> QED BY <2>1, <2>3, <2>4 DEF Voluntary, Good, Node, Sound, SameBody
<1>3. CASE flow \notin Sources
  BY <1>3 DEF Credit, Voluntary, Good, Node
<1> QED BY <1>2, <1>3

LEMMA DebitExactVoluntary ==
  ASSUME NEW n, Good(n), NEW flow, NEW amount \in Amount
  PROVE  Voluntary(n, DebitExact(n, flow, amount))
<1>1. Sound(n) BY GoodIsSound
<1>2. CASE CanFund(n, flow, amount)
  <2>1. ValidAmount(amount) \in Nat /\ flow \in Sinks
    BY <1>2, ValidIsNatural DEF CanFund
  <2>2. DebitExact(n, flow, amount)
          = Record(n, flow, ValidAmount(amount), n.energy - ValidAmount(amount))
    BY <1>2 DEF DebitExact
  <2>3. DebitExact(n, flow, amount) \in Node
    <3>1. flow \in EnergyFlow /\ n \in Node /\ n.energy - ValidAmount(amount) \in Int
      BY <1>1, <2>1 DEF Good, Sound, EnergyFlow
    <3> QED BY <2>1, <2>2, <3>1, RecordTyped
  <2>4. /\ Sound(DebitExact(n, flow, amount))
        /\ SameBody(n, DebitExact(n, flow, amount))
        /\ DebitExact(n, flow, amount).energy = n.energy - ValidAmount(amount)
    BY <1>1, <2>1, <2>2, RecordSpend
  <2>5. n.energy - ValidAmount(amount) >= 0
    BY <1>1, <1>2, <2>1 DEF CanFund, Sound
  <2> QED BY <2>3, <2>4, <2>5 DEF Voluntary, Good, Node, Sound, SameBody
<1>3. CASE ~CanFund(n, flow, amount)
  BY <1>3 DEF DebitExact, Voluntary, Good, Node
<1> QED BY <1>2, <1>3

LEMMA DebitAvailableVoluntary ==
  ASSUME NEW n, Good(n), NEW flow, NEW amount \in Amount
  PROVE  Voluntary(n, DebitAvailable(n, flow, amount))
<1>1. Sound(n) BY GoodIsSound
<1>2. CASE flow \in Sinks
  <2>1. Available(n, amount) \in Nat
    BY <1>1, AvailableIsNatural DEF Sound
  <2>2. DebitAvailable(n, flow, amount)
          = Record(n, flow, Available(n, amount), n.energy - Available(n, amount))
    BY <1>2 DEF DebitAvailable
  <2>3. DebitAvailable(n, flow, amount) \in Node
    <3>1. flow \in EnergyFlow /\ n \in Node /\ n.energy - Available(n, amount) \in Int
      BY <1>1, <1>2, <2>1 DEF Good, Sound, EnergyFlow
    <3> QED BY <2>1, <2>2, <3>1, RecordTyped
  <2>4. /\ Sound(DebitAvailable(n, flow, amount))
        /\ SameBody(n, DebitAvailable(n, flow, amount))
        /\ DebitAvailable(n, flow, amount).energy = n.energy - Available(n, amount)
    BY <1>1, <1>2, <2>1, <2>2, RecordSpend
  <2>5. n.energy >= 0 => n.energy - Available(n, amount) >= 0
    BY <1>1, ValidIsNatural DEF Available, Lesser, AtLeastZero, Sound
  <2> QED BY <1>1, <2>3, <2>4, <2>5 DEF Voluntary, Good, Node, Sound, SameBody
<1>3. CASE flow \notin Sinks
  BY <1>3 DEF DebitAvailable, Voluntary, Good, Node
<1> QED BY <1>2, <1>3

LEMMA DrainGood ==
  ASSUME NEW n, Good(n), NEW amount \in Amount
  PROVE  Good(Drain(n, amount))
<1>1. Sound(n) BY GoodIsSound
<1>2. ValidAmount(amount) \in Nat BY ValidIsNatural
<1>3. Drain(n, amount) \in Node
  <2>1. /\ "dissipated" \in EnergyFlow /\ n \in Node
        /\ n.energy - ValidAmount(amount) \in Int
    BY <1>1, <1>2 DEF Good, Sound, EnergyFlow, Sinks
  <2> QED BY <1>2, <2>1, RecordTyped DEF Drain
<1> QED BY <1>1, <1>3, DrainSound DEF Good, Sound

\* A spawned body is good and not overdrawn.
LEMMA BodyGood ==
  ASSUME NEW energy \in Nat, NEW mass \in Nat, NEW structure \in Int, NEW yield \in Nat,
         NEW tags \in SUBSET Tag
  PROVE  /\ Good(Body(energy, mass, structure, yield, tags))
         /\ Body(energy, mass, structure, yield, tags).energy = energy
BY DEF Good, Body, Node, Balanced, Gained, Spent, EmptyLedger, EnergyFlow, Sources, Sinks

\* Fields other than the account's may change.
LEMMA OtherFields ==
  ASSUME NEW n, NEW r, Good(n), r \in Node,
         r.energy = n.energy, r.opening = n.opening, r.ledger = n.ledger
  PROVE  Good(r)
BY DEF Good, Balanced, Gained, Spent

-----------------------------------------------------------------------------
Overdrawn(n) == n.energy < 0 /\ ~n.dead

\* Good nodes only, and every overdrawn one is in the queue.
GoodWorld(world, queue) ==
  /\ world \in [Ids -> Node \cup {Absent}]
  /\ \A i \in Ids : world[i] # Absent =>
       Good(world[i]) /\ (Overdrawn(world[i]) => i \in queue)

\* Nothing removes a node before fragmentation does, so the loops before it only
\* meet nodes that are there.
TurnsPresent ==
  /\ phase \in {"act", "drain", "trap", "reproduce"} =>
       \A i \in todo : i \in Ids /\ node[i] # Absent
  /\ phase = "harvest" =>
       \A p \in todo : /\ p[1] \in Ids /\ p[2] \in Ids /\ p[1] # p[2]
                       /\ node[p[1]] # Absent /\ node[p[2]] # Absent

IInv ==
  /\ TypeOK
  /\ GoodWorld(node, deaths)
  /\ TurnsPresent
  /\ phase = "act" => deaths = {}

LEMMA AbsentIsNoNode == Absent \notin Node
BY DEF Absent, Node

LEMMA Quotient == ASSUME NEW a \in Nat, NEW b \in Nat \ {0} PROVE a \div b \in Nat
OBVIOUS

LEMMA Product == ASSUME NEW a \in Nat, NEW b \in Nat PROVE a * b \in Nat
OBVIOUS

LEMMA Floored == ASSUME NEW e \in Int PROVE AtLeastZero(e) \in Nat
BY DEF AtLeastZero

\* One node is replaced or spawned.
LEMMA Replace ==
  ASSUME NEW world, NEW queue, GoodWorld(world, queue), NEW i \in Ids, NEW n,
         Good(n), Overdrawn(n) => i \in queue
  PROVE  GoodWorld([world EXCEPT ![i] = n], queue)
<1>1. n \in Node BY DEF Good
<1> QED BY <1>1, Zenon DEF GoodWorld

\* A node that spends and gains voluntarily stays in a good world.
LEMMA ReplaceVoluntary ==
  ASSUME NEW world, NEW queue, GoodWorld(world, queue), NEW i \in Ids, world[i] # Absent,
         NEW n, Voluntary(world[i], n)
  PROVE  GoodWorld([world EXCEPT ![i] = n], queue)
<1>1. Good(n) /\ (Overdrawn(n) => Overdrawn(world[i]))
  BY Zenon DEF Voluntary, Overdrawn
<1>2. Overdrawn(world[i]) => i \in queue
  BY Zenon DEF GoodWorld
<1> QED BY <1>1, <1>2, Replace

LEMMA VoluntaryTransitive ==
  ASSUME NEW a, NEW b, NEW c, Voluntary(a, b), Voluntary(b, c)
  PROVE  Voluntary(a, c)
BY DEF Voluntary

LEMMA VoluntaryReflexive == ASSUME NEW a, Good(a) PROVE Voluntary(a, a)
BY DEF Voluntary

LEMMA MovedGood ==
  ASSUME NEW world, NEW queue, GoodWorld(world, queue),
         NEW from \in Ids, NEW to \in Ids, from # to,
         world[from] # Absent, world[to] # Absent, NEW sink, NEW source, NEW amount \in Nat
  PROVE  GoodWorld(Moved(world, from, to, sink, source, amount), queue)
<1> DEFINE paid == [world EXCEPT ![from] = DebitAvailable(@, sink, amount)]
           gain == Available(world[from], amount)
<1>1. Good(world[from]) /\ Good(world[to])
  BY Zenon DEF GoodWorld
<1>2. amount \in Amount /\ gain \in Amount
  BY <1>1, AvailableIsNatural DEF Amount, Good, Node
<1>3. GoodWorld(paid, queue)
  BY <1>1, <1>2, DebitAvailableVoluntary, ReplaceVoluntary
<1>4. paid[to] = world[to]
  BY DEF GoodWorld
<1>5. GoodWorld([paid EXCEPT ![to] = Credit(paid[to], source, gain)], queue)
  BY <1>1, <1>2, <1>3, <1>4, CreditVoluntary, ReplaceVoluntary
<1>6. Moved(world, from, to, sink, source, amount)
        = [paid EXCEPT ![to] = Credit(paid[to], source, gain)]
  BY DEF Moved, GoodWorld
<1> QED BY <1>5, <1>6

LEMMA InitIInv == Init => IInv
<1> SUFFICES ASSUME Init PROVE IInv
  OBVIOUS
<1>1. node \in [Ids -> Node \cup {Absent}]
  BY EconomyAssumption DEF Init
<1>2. GoodWorld(node, deaths)
  BY <1>1, EconomyAssumption DEF Init, GoodWorld, Good, Overdrawn
<1>3. TypeOK
  <2>1. todo \subseteq Nat \ {0}
    BY DEF Init, Agents, Tagged, Present, Ids
  <2>2. fragments \in Seq(Entry) /\ ticks \in 0..MaxTicks
    BY EconomyAssumption DEF Init
  <2>3. phase = "act" /\ phase \in DOMAIN After
    BY DEF Init, After
  <2> QED BY <1>1, <2>1, <2>2, <2>3 DEF Init, TypeOK
<1>4. TurnsPresent
  BY DEF Init, TurnsPresent, Agents, Tagged, Present
<1> QED BY <1>2, <1>3, <1>4 DEF IInv, Init

\* No node of `world` is absent from `result`.
Keeps(world, result) == \A i \in Ids : world[i] # Absent => result[i] # Absent

LEMMA TurnsStayPresent ==
  ASSUME TurnsPresent, NEW i, TurnTaken(i), Keeps(node, node')
  PROVE  TurnsPresent'
<1>1. phase' = phase /\ todo' \subseteq todo BY DEF TurnTaken
<1>2. ASSUME phase' \in {"act", "drain", "trap", "reproduce"}, NEW j \in todo'
      PROVE  j \in Ids /\ node'[j] # Absent
  BY <1>1, <1>2 DEF TurnsPresent, Keeps
<1>3. ASSUME phase' = "harvest", NEW p \in todo'
      PROVE  /\ p[1] \in Ids /\ p[2] \in Ids /\ p[1] # p[2]
             /\ node'[p[1]] # Absent /\ node'[p[2]] # Absent
  BY <1>1, <1>3 DEF TurnsPresent, Keeps
<1> QED BY <1>2, <1>3 DEF TurnsPresent

\* A turn that changes nothing but nodes keeps the invariant.
LEMMA NodeTurn ==
  ASSUME IInv, NEW i, TurnTaken(i), GoodWorld(node', deaths), Keeps(node, node'),
         UNCHANGED <<fragments, deaths, closed>>
  PROVE  IInv'
<1>1. node' \in [Ids -> Node \cup {Absent}] BY DEF GoodWorld
<1>2. TypeOK' BY <1>1 DEF IInv, TypeOK, TurnTaken
<1>3. GoodWorld(node', deaths') BY Zenon
<1>4. phase' = "act" => deaths' = {} BY DEF IInv, TurnTaken
<1>5. TurnsPresent' BY TurnsStayPresent DEF IInv
<1> QED BY <1>2, <1>3, <1>4, <1>5 DEF IInv, GoodWorld

LEMMA ReplaceKeeps ==
  ASSUME NEW world, NEW queue, GoodWorld(world, queue), NEW i \in Ids, NEW n, Good(n)
  PROVE  Keeps(world, [world EXCEPT ![i] = n])
BY AbsentIsNoNode DEF Keeps, GoodWorld, Good

LEMMA KeepsTransitive ==
  ASSUME NEW a, NEW b, NEW c, Keeps(a, b), Keeps(b, c)
  PROVE  Keeps(a, c)
BY DEF Keeps

\* What IInv says of a node.
LEMMA PresentGood ==
  ASSUME IInv, NEW i \in Ids, node[i] # Absent
  PROVE  Good(node[i]) /\ GoodWorld(node, deaths)
BY Zenon DEF IInv, GoodWorld

LEMMA TaggedPresent == ASSUME NEW tag, NEW i \in Tagged(tag) PROVE i \in Ids /\ node[i] # Absent
BY DEF Tagged, Present

-----------------------------------------------------------------------------
LEMMA CommandAmounts ==
  ASSUME NEW c \in Commands
  PROVE  c.move \in Amount /\ c.drive \in Amount /\ ClampDrain \in Amount
BY EconomyAssumption DEF Command, Amount

LEMMA ExertedVoluntary ==
  ASSUME NEW n, Good(n), NEW c \in Commands
  PROVE  Voluntary(n, Exerted(n, c))
<1> DEFINE moved == DebitExact(n, "actuation", c.move)
           driven == DebitExact(moved, "actuation", c.drive)
<1>1. Voluntary(n, moved)
  BY CommandAmounts, DebitExactVoluntary
<1>2. Good(moved)
  BY <1>1 DEF Voluntary
<1>3. Voluntary(moved, driven)
  BY <1>2, CommandAmounts, DebitExactVoluntary
<1>4. Voluntary(n, driven) /\ Good(driven)
  BY <1>1, <1>3, VoluntaryTransitive DEF Voluntary
<1>5. Voluntary(driven, DebitAvailable(driven, "actuation", ClampDrain))
  BY <1>4, CommandAmounts, DebitAvailableVoluntary
<1>6. Voluntary(n, DebitAvailable(driven, "actuation", ClampDrain))
  BY <1>4, <1>5, VoluntaryTransitive
<1> QED BY <1>4, <1>6 DEF Exerted

LEMMA CooledVoluntary ==
  ASSUME NEW n, Good(n)
  PROVE  Voluntary(n, Cooled(n))
<1>1. n \in Node BY DEF Good
<1>2. AtLeastZero(n.fab - 1) \in Nat BY <1>1, Floored DEF Node
<1>3. Cooled(n) \in Node BY <1>1, <1>2 DEF Cooled, Node
<1>4. /\ Cooled(n).energy = n.energy /\ Cooled(n).opening = n.opening
      /\ Cooled(n).ledger = n.ledger /\ Cooled(n).mass = n.mass /\ Cooled(n).tags = n.tags
      /\ Cooled(n).dead = n.dead /\ Cooled(n).structure = n.structure
  BY <1>1 DEF Cooled, Node
<1>5. Good(Cooled(n)) BY <1>3, <1>4, OtherFields
<1> QED BY <1>4, <1>5 DEF Voluntary

LEMMA NewIsFresh == ASSUME Fresh # {} PROVE New \in Ids /\ node[New] = Absent
BY DEF New, Fresh, Present

LEMMA StructureGood == Good(Structure) /\ ~Overdrawn(Structure)
<1>1. {"SHELTER"} \in SUBSET Tag BY DEF Tag
<1>2. 4 * FabricateYield \in Int BY EconomyAssumption
<1>3. FabricateEnergy \in Nat /\ FabricateMass \in Nat /\ FabricateYield \in Nat
  BY EconomyAssumption
<1> QED BY <1>1, <1>2, <1>3, BodyGood DEF Structure, Overdrawn

LEMMA InvestedVoluntary ==
  ASSUME NEW n, Good(n), n.mass >= FabricateMass
  PROVE  Good(Invested(n)) /\ (Overdrawn(Invested(n)) => Overdrawn(n))
<1> DEFINE paid == DebitExact(n, "fabrication", FabricateEnergy)
<1>1. FabricateEnergy \in Amount /\ FabricateMass \in Nat /\ FabricateTicks \in Nat
  BY EconomyAssumption DEF Amount
<1>2. Voluntary(n, paid) BY <1>1, DebitExactVoluntary
<1>3. paid \in Node /\ paid.mass = n.mass /\ n.mass \in Nat
  BY <1>2 DEF Voluntary, Good, Node
<1>4. Invested(n) = [paid EXCEPT !.mass = @ - FabricateMass, !.fab = FabricateTicks]
  BY DEF Invested
<1> HIDE DEF paid
<1>5. paid.mass - FabricateMass \in Nat BY <1>1, <1>3
<1>6. /\ Invested(n) \in Node
      /\ Invested(n).energy = paid.energy /\ Invested(n).opening = paid.opening
      /\ Invested(n).ledger = paid.ledger /\ Invested(n).dead = paid.dead
  BY <1>1, <1>3, <1>4, <1>5 DEF Node
<1>7. Good(Invested(n)) BY <1>2, <1>6, OtherFields DEF Voluntary
<1> QED BY <1>2, <1>6, <1>7 DEF Voluntary, Overdrawn

\* A node spends on a new node.
LEMMA Spawned ==
  ASSUME IInv, Fresh # {}, NEW i \in Ids, node[i] # Absent,
         NEW n, Good(n), Overdrawn(n) => Overdrawn(node[i]),
         NEW new, Good(new), ~Overdrawn(new)
  PROVE  LET world == [node EXCEPT ![i] = n, ![New] = new]
         IN GoodWorld(world, deaths) /\ Keeps(node, world)
<1> DEFINE spent == [node EXCEPT ![i] = n]
<1>1. GoodWorld(node, deaths) BY Zenon DEF IInv
<1>2. Overdrawn(node[i]) => i \in deaths BY <1>1, Zenon DEF GoodWorld
<1>3. GoodWorld(spent, deaths) /\ Keeps(node, spent)
  BY <1>1, <1>2, Replace, ReplaceKeeps
<1>4. New \in Ids BY NewIsFresh
<1>5. /\ GoodWorld([spent EXCEPT ![New] = new], deaths)
      /\ Keeps(spent, [spent EXCEPT ![New] = new])
  BY <1>3, <1>4, Replace, ReplaceKeeps
<1> QED BY <1>3, <1>5, KeepsTransitive

LEMMA ActKeeps == ASSUME IInv, NEW i \in Ids, Act(i) PROVE IInv'
<1>1. PICK c \in Commands :
        LET n == Cooled(Exerted(node[i], c))
        IN IF Fabricates(n, c)
             THEN /\ Fresh # {}
                  /\ node' = [node EXCEPT ![i] = Invested(n), ![New] = Structure]
             ELSE node' = [node EXCEPT ![i] = n]
  BY DEF Act
<1> DEFINE n == Cooled(Exerted(node[i], c))
<1>2. node[i] # Absent /\ TurnTaken(i) /\ UNCHANGED <<fragments, deaths, closed>>
  BY DEF Act, Turn, Running, IInv, TurnsPresent
<1>3. Good(node[i]) /\ GoodWorld(node, deaths) BY <1>2, PresentGood
<1>4. Voluntary(node[i], n)
  BY <1>3, ExertedVoluntary, CooledVoluntary, VoluntaryTransitive DEF Voluntary
<1>5. Good(n) /\ (Overdrawn(n) => Overdrawn(node[i]))
  BY <1>4, Zenon DEF Voluntary, Overdrawn
<1>6. CASE Fabricates(n, c)
  <2>1. Good(Invested(n)) /\ (Overdrawn(Invested(n)) => Overdrawn(n))
    BY <1>5, <1>6, InvestedVoluntary DEF Fabricates
  <2>2. GoodWorld(node', deaths) /\ Keeps(node, node')
    BY <1>1, <1>2, <1>5, <1>6, <2>1, Spawned, StructureGood
  <2> QED BY <1>2, <2>2, NodeTurn
<1>7. CASE ~Fabricates(n, c)
  <2>1. node' = [node EXCEPT ![i] = n] BY <1>1, <1>7
  <2>2. GoodWorld(node', deaths) /\ Keeps(node, node')
    BY <1>2, <1>3, <1>4, <1>5, <2>1, ReplaceVoluntary, ReplaceKeeps
  <2> QED BY <1>2, <2>2, NodeTurn
<1> QED BY <1>6, <1>7

LEMMA MovedKeeps ==
  ASSUME NEW world, NEW queue, GoodWorld(world, queue),
         NEW from \in Ids, NEW to \in Ids, from # to,
         world[from] # Absent, world[to] # Absent, NEW sink, NEW source, NEW amount \in Nat
  PROVE  Keeps(world, Moved(world, from, to, sink, source, amount))
<1> DEFINE result == Moved(world, from, to, sink, source, amount)
           gain == Available(world[from], amount)
<1>1. Good(world[from]) /\ Good(world[to])
  BY Zenon DEF GoodWorld
<1>2. amount \in Amount /\ gain \in Amount
  BY <1>1, AvailableIsNatural DEF Amount, Good, Node
<1>3. /\ Good(DebitAvailable(world[from], sink, amount))
      /\ Good(Credit(world[to], source, gain))
  BY <1>1, <1>2, DebitAvailableVoluntary, CreditVoluntary DEF Voluntary
<1>4. result = [world EXCEPT ![from] = DebitAvailable(world[from], sink, amount),
                             ![to] = Credit(world[to], source, gain)]
  BY DEF Moved, GoodWorld
<1> QED BY <1>3, <1>4, AbsentIsNoNode DEF Keeps, GoodWorld, Good

LEMMA HarvestKeeps ==
  ASSUME IInv, NEW a \in Ids, NEW o \in Ids, Harvest(a, o)
  PROVE  IInv'
<1>1. /\ TurnTaken(<<a, o>>) /\ UNCHANGED <<fragments, deaths, closed>>
      /\ a # o /\ node[a] # Absent /\ node[o] # Absent
  BY DEF Harvest, Running, IInv, TurnsPresent
<1>2. GoodWorld(node, deaths) BY Zenon DEF IInv
<1>3. PICK rate \in Rates :
        node' = IF Available(node[o], rate) > 0
                  THEN Moved(node, o, a, "transferred", "harvested", rate)
                  ELSE node
  BY DEF Harvest
<1>4. rate \in Nat BY EconomyAssumption
<1>5. GoodWorld(node', deaths) /\ Keeps(node, node')
  BY <1>1, <1>2, <1>3, <1>4, MovedGood, MovedKeeps DEF Keeps
<1> QED BY <1>1, <1>5, NodeTurn

LEMMA DischargedGood ==
  ASSUME IInv, NEW t \in Ids, node[t] # Absent, NEW near \in SUBSET (Agents \ {t}),
         NEW part \in [near -> 1..Parts], NEW released \in Nat
  PROVE  /\ GoodWorld(Discharged(t, part, released), deaths)
         /\ Keeps(node, Discharged(t, part, released))
<1> DEFINE result == Discharged(t, part, released)
<1>1. GoodWorld(node, deaths) BY Zenon DEF IInv
<1>2. ASSUME NEW i \in Ids
      PROVE  \/ result[i] = node[i]
             \/ node[i] # Absent /\ Voluntary(node[i], result[i])
  <2>1. CASE i = t
    <3>1. result[i] = DebitAvailable(node[t], "transferred", released)
      BY <2>1 DEF Discharged
    <3>2. Good(node[t]) /\ released \in Amount
      BY PresentGood DEF Amount
    <3> QED BY <2>1, <3>1, <3>2, DebitAvailableVoluntary
  <2>2. CASE i # t /\ i \in near
    <3>1. result[i] = Credit(node[i], "harvested", (released * part[i]) \div Parts)
      BY <2>2 DEF Discharged
    <3>2. node[i] # Absent BY <2>2 DEF Agents, Tagged, Present
    <3>3. Good(node[i]) BY <3>2, PresentGood
    <3>4. part[i] \in Nat /\ Parts \in Nat \ {0} BY <2>2, EconomyAssumption
    <3>5. (released * part[i]) \div Parts \in Amount
      BY <3>4, Product, Quotient DEF Amount
    <3> QED BY <3>1, <3>2, <3>3, <3>5, CreditVoluntary
  <2>3. CASE i # t /\ i \notin near
    BY <2>3 DEF Discharged
  <2> QED BY <2>1, <2>2, <2>3
<1>3. ASSUME NEW i \in Ids
      PROVE  /\ result[i] \in Node \cup {Absent}
             /\ result[i] # Absent =>
                  Good(result[i]) /\ (Overdrawn(result[i]) => i \in deaths)
             /\ node[i] # Absent => result[i] # Absent
  <2>1. CASE result[i] = node[i] BY <1>1, <2>1, Zenon DEF GoodWorld
  <2>2. CASE node[i] # Absent /\ Voluntary(node[i], result[i])
    <3>1. Good(result[i]) /\ (Overdrawn(result[i]) => Overdrawn(node[i]))
      BY <2>2, Zenon DEF Voluntary, Overdrawn
    <3>2. Overdrawn(node[i]) => i \in deaths BY <1>1, <2>2, Zenon DEF GoodWorld
    <3>3. result[i] \in Node /\ result[i] # Absent BY <3>1, AbsentIsNoNode DEF Good
    <3> QED BY <3>1, <3>2, <3>3
  <2> QED BY <1>2, <2>1, <2>2
<1>4. result \in [Ids -> Node \cup {Absent}]
  <2>1. result = [i \in Ids |-> result[i]] BY DEF Discharged
  <2> HIDE DEF result
  <2> QED BY <1>3, <2>1
<1> QED BY <1>3, <1>4 DEF GoodWorld, Keeps

LEMMA DischargeKeeps == ASSUME IInv, NEW t \in Ids, Discharge(t) PROVE IInv'
<1>1. /\ TurnTaken(t) /\ UNCHANGED <<fragments, deaths, closed>> /\ node[t] # Absent
  BY DEF Discharge, Turn, Running, IInv, TurnsPresent
<1>2. GoodWorld(node, deaths) BY Zenon DEF IInv
<1>3. Half(node[t].energy) \in Nat
  <2>1. node[t].energy \in Int BY <1>1, PresentGood DEF Good, Node
  <2> QED BY <2>1, Floored, Quotient DEF Half
<1>4. PICK near \in SUBSET (Agents \ {t}) : \E part \in [near -> 1..Parts] :
        node' = Discharged(t, part, Half(node[t].energy)) \/ node' = node
  BY DEF Discharge
<1>5. GoodWorld(node', deaths) /\ Keeps(node, node')
  BY <1>1, <1>2, <1>3, <1>4, DischargedGood DEF Keeps
<1> QED BY <1>1, <1>5, NodeTurn

-----------------------------------------------------------------------------
\* A refused or counted turn of reproduction touches counters only.
LEMMA CountersVoluntary ==
  ASSUME NEW n, Good(n), NEW surplus \in Nat, NEW rest \in Nat
  PROVE  Voluntary(n, [n EXCEPT !.surplus = surplus, !.rest = rest])
<1> DEFINE r == [n EXCEPT !.surplus = surplus, !.rest = rest]
<1>1. n \in Node BY DEF Good
<1>2. /\ r \in Node
      /\ r.energy = n.energy /\ r.opening = n.opening /\ r.ledger = n.ledger
      /\ r.mass = n.mass /\ r.tags = n.tags /\ r.dead = n.dead /\ r.structure = n.structure
  BY <1>1 DEF Node
<1>3. Good(r) BY <1>2, OtherFields
<1> QED BY <1>2, <1>3 DEF Voluntary

LEMMA RestedVoluntary ==
  ASSUME NEW n, Good(n)
  PROVE  Voluntary(n, Rested(n)) /\ Rested(n).surplus = n.surplus
<1>1. n \in Node BY DEF Good
<1>2. AtLeastZero(n.rest - 1) \in Nat /\ n.surplus \in Nat BY <1>1, Floored DEF Node
<1>3. Rested(n) = [n EXCEPT !.surplus = n.surplus, !.rest = AtLeastZero(n.rest - 1)]
  BY <1>1 DEF Rested, Node
<1>4. Rested(n).surplus = n.surplus BY <1>1 DEF Rested, Node
<1> DEFINE rest == AtLeastZero(n.rest - 1)
<1>5. Voluntary(n, [n EXCEPT !.surplus = n.surplus, !.rest = rest])
  <2> HIDE DEF rest
  <2> QED BY <1>2, CountersVoluntary DEF rest
<1> QED BY <1>3, <1>4, <1>5, Zenon

LEMMA ChildGood == Good(Child) /\ ~Overdrawn(Child)
<1>1. {"AGENT"} \in SUBSET Tag BY DEF Tag
<1>2. 4 * BirthYield \in Int BY EconomyAssumption
<1>3. BirthEnergy \in Nat /\ BirthMass \in Nat /\ BirthYield \in Nat
  BY EconomyAssumption
<1> QED BY <1>1, <1>2, <1>3, BodyGood DEF Child, Overdrawn

LEMMA ParentGood ==
  ASSUME NEW n, Good(n), Eligible(n)
  PROVE  Good(Parent(n)) /\ (Overdrawn(Parent(n)) => Overdrawn(n))
<1> DEFINE paid == DebitExact(n, "offspring", BirthEnergy)
<1>1. BirthEnergy \in Amount /\ BirthMass \in Nat /\ MassMargin \in Nat /\ RestTicks \in Nat
  BY EconomyAssumption DEF Amount
<1>2. Voluntary(n, paid) BY <1>1, DebitExactVoluntary
<1>3. paid \in Node /\ paid.mass = n.mass /\ n.mass \in Nat
  BY <1>2 DEF Voluntary, Good, Node
<1>4. Parent(n) = [paid EXCEPT !.mass = @ - BirthMass, !.surplus = 0, !.rest = RestTicks]
  BY DEF Parent
<1> HIDE DEF paid
<1>5. paid.mass - BirthMass \in Nat BY <1>1, <1>3 DEF Eligible
<1> DEFINE mass == paid.mass - BirthMass
<1>6. /\ Parent(n) \in Node
      /\ Parent(n).energy = paid.energy /\ Parent(n).opening = paid.opening
      /\ Parent(n).ledger = paid.ledger /\ Parent(n).dead = paid.dead
  <2>1. Parent(n) = [paid EXCEPT !.mass = mass, !.surplus = 0, !.rest = RestTicks]
    BY <1>4
  <2>2. mass \in Nat /\ 0 \in Nat BY <1>5
  <2> HIDE DEF mass
  <2> QED BY <1>1, <1>3, <2>1, <2>2 DEF Node
<1>7. Good(Parent(n)) BY <1>2, <1>6, OtherFields DEF Voluntary
<1> QED BY <1>2, <1>6, <1>7 DEF Voluntary, Overdrawn

LEMMA ReproduceKeeps == ASSUME IInv, NEW i \in Ids, Reproduce(i) PROVE IInv'
<1> DEFINE n == Rested(node[i])
<1>1. node[i] # Absent /\ TurnTaken(i) /\ UNCHANGED <<fragments, deaths, closed>>
  BY DEF Reproduce, Turn, Running, IInv, TurnsPresent
<1>2. Good(node[i]) /\ GoodWorld(node, deaths) BY <1>1, PresentGood
<1>3. Voluntary(node[i], n) BY <1>2, RestedVoluntary
<1>4. Good(n) /\ (Overdrawn(n) => Overdrawn(node[i]))
  BY <1>3, Zenon DEF Voluntary, Overdrawn
<1>5. n.surplus \in Nat /\ n.surplus + 1 \in Nat /\ n.rest \in Nat /\ RestTicks \in Nat
  BY <1>4, EconomyAssumption DEF Good, Node
<1>6. \/ \E surplus, rest \in Nat :
           node' = [node EXCEPT ![i] = [n EXCEPT !.surplus = surplus, !.rest = rest]]
      \/ /\ Eligible(n) /\ Fresh # {}
         /\ node' = [node EXCEPT ![i] = Parent(n), ![New] = Child]
  <2>1. \A s \in Nat : [n EXCEPT !.surplus = s] = [n EXCEPT !.surplus = s, !.rest = n.rest]
    BY <1>4 DEF Good, Node
  <2>2. \/ node' = [node EXCEPT ![i] = [n EXCEPT !.surplus = 0]]
        \/ node' = [node EXCEPT ![i] = [n EXCEPT !.surplus = n.surplus + 1]]
        \/ node' = [node EXCEPT ![i] = [n EXCEPT !.surplus = 0, !.rest = RestTicks]]
        \/ /\ Eligible(n) /\ Fresh # {}
           /\ node' = [node EXCEPT ![i] = Parent(n), ![New] = Child]
    BY DEF Reproduce
  <2>3. 0 \in Nat OBVIOUS
  <2> HIDE DEF n
  <2>4. CASE node' = [node EXCEPT ![i] = [n EXCEPT !.surplus = 0]]
    <3>1. node' = [node EXCEPT ![i] = [n EXCEPT !.surplus = 0, !.rest = n.rest]]
      BY <2>1, <2>3, <2>4, Zenon
    <3> QED BY <1>5, <2>3, <3>1, Zenon
  <2>5. CASE node' = [node EXCEPT ![i] = [n EXCEPT !.surplus = n.surplus + 1]]
    <3>1. node' = [node EXCEPT ![i] = [n EXCEPT !.surplus = n.surplus + 1, !.rest = n.rest]]
      BY <1>5, <2>1, <2>5, Zenon
    <3> QED BY <1>5, <3>1, Zenon
  <2> QED BY <1>5, <2>2, <2>3, <2>4, <2>5, Zenon
<1>7. CASE \E surplus, rest \in Nat :
             node' = [node EXCEPT ![i] = [n EXCEPT !.surplus = surplus, !.rest = rest]]
  <2>1. PICK surplus \in Nat, rest \in Nat :
          node' = [node EXCEPT ![i] = [n EXCEPT !.surplus = surplus, !.rest = rest]]
    BY <1>7
  <2> DEFINE r == [n EXCEPT !.surplus = surplus, !.rest = rest]
  <2>2. Voluntary(n, r) BY <1>4, CountersVoluntary
  <2>3. Voluntary(node[i], r) /\ Good(r) BY <1>3, <2>2, VoluntaryTransitive DEF Voluntary
  <2>4. GoodWorld(node', deaths) /\ Keeps(node, node')
    BY <1>1, <1>2, <2>1, <2>3, ReplaceVoluntary, ReplaceKeeps
  <2> QED BY <1>1, <2>4, NodeTurn
<1>8. CASE /\ Eligible(n) /\ Fresh # {}
           /\ node' = [node EXCEPT ![i] = Parent(n), ![New] = Child]
  <2>1. Good(Parent(n)) /\ (Overdrawn(Parent(n)) => Overdrawn(n))
    BY <1>4, <1>8, ParentGood
  <2>2. GoodWorld(node', deaths) /\ Keeps(node, node')
    BY <1>1, <1>4, <1>8, <2>1, Spawned, ChildGood
  <2> QED BY <1>1, <2>2, NodeTurn
<1> QED BY <1>6, <1>7, <1>8

-----------------------------------------------------------------------------
LEMMA EnqueueTyped ==
  ASSUME NEW queue \in Seq(Entry), NEW victim \in Ids, NEW killer \in Ids \cup {NoOne},
         victim # killer, NEW share \in Nat
  PROVE  Enqueue(queue, victim, killer, share) \in Seq(Entry)
<1>1. [victim |-> victim, killer |-> killer, share |-> share] \in Entry BY DEF Entry
<1>2. Append(queue, [victim |-> victim, killer |-> killer, share |-> share]) \in Seq(Entry)
  BY <1>1, AppendProperties
<1> QED BY <1>2, Zenon DEF Enqueue

LEMMA DrainAmountNatural ==
  ASSUME NEW thermal \in Thermal, NEW sheltered \in BOOLEAN
  PROVE  DrainAmount(thermal, sheltered) \in Nat
<1>1. thermal \in Nat /\ BaseDrain \in Nat BY EconomyAssumption
<1>2. BaseDrain * thermal \in Nat BY <1>1, Product
<1>3. (BaseDrain * thermal) \div 4 \in Nat /\ (BaseDrain * thermal) \div 1 \in Nat
  <2> DEFINE x == BaseDrain * thermal
  <2> HIDE DEF x
  <2>1. x \in Nat BY <1>2 DEF x
  <2>2. x \div 4 \in Nat /\ x \div 1 \in Nat BY <2>1
  <2> QED BY <2>2 DEF x
<1>4. \A a, b \in Nat : a + b \in Nat OBVIOUS
<1> QED BY <1>1, <1>3, <1>4, Zenon DEF DrainAmount

LEMMA ExposedGood ==
  ASSUME NEW n, Good(n), NEW thermal \in Thermal, NEW sheltered \in BOOLEAN
  PROVE  Good(Exposed(n, thermal, sheltered))
<1> DEFINE gained == Credit(n, "vented", VentGain * thermal)
           heated == [gained EXCEPT !.structure = @ - thermal]
<1>1. thermal \in Nat /\ VentGain \in Nat BY EconomyAssumption
<1>2. VentGain * thermal \in Amount BY <1>1, Product DEF Amount
<1>3. Good(gained) BY <1>2, CreditVoluntary DEF Voluntary
<1> HIDE DEF gained
<1>4. Good(heated)
  <2>1. gained \in Node BY <1>3 DEF Good
  <2>2. gained.structure - thermal \in Int BY <1>1, <2>1 DEF Node
  <2>3. /\ heated \in Node
        /\ heated.energy = gained.energy /\ heated.opening = gained.opening
        /\ heated.ledger = gained.ledger
    BY <2>1, <2>2 DEF Node
  <2> QED BY <1>3, <2>3, OtherFields
<1>5. DrainAmount(thermal, sheltered) \in Amount BY DrainAmountNatural DEF Amount
<1>6. /\ Good(Drain(heated, DrainAmount(thermal, sheltered)))
      /\ Good(Drain(n, DrainAmount(thermal, sheltered)))
  BY <1>4, <1>5, DrainGood
<1> QED BY <1>6, Zenon DEF Exposed, gained

LEMMA DrainNodeKeeps == ASSUME IInv, NEW i \in Ids, DrainNode(i) PROVE IInv'
<1>1. PICK thermal \in Thermal, sheltered \in BOOLEAN :
        LET n == Exposed(node[i], thermal, sheltered)
        IN /\ node' = [node EXCEPT ![i] = n]
           /\ fragments' = IF Fails(n) THEN Enqueue(fragments, i, NoOne, 0) ELSE fragments
           /\ deaths' = IF Depleted(n) THEN deaths \cup {i} ELSE deaths
  BY DEF DrainNode
<1> DEFINE n == Exposed(node[i], thermal, sheltered)
<1>2. /\ node[i] # Absent /\ TurnTaken(i) /\ closed' = closed /\ phase = "drain"
  BY DEF DrainNode, Turn, Running, IInv, TurnsPresent
<1>3. Good(node[i]) /\ GoodWorld(node, deaths) BY <1>2, PresentGood
<1>4. Good(n) BY <1>3, ExposedGood
<1> HIDE DEF n
<1>5. GoodWorld(node, deaths')
  BY <1>1, <1>3, Zenon DEF GoodWorld, n
<1>6. Overdrawn(n) => i \in deaths'
  <2>1. n.energy \in Int BY <1>4 DEF Good, Node
  <2>2. Overdrawn(n) => Depleted(n) BY <2>1 DEF Overdrawn, Depleted
  <2> QED BY <1>1, <2>2 DEF n
<1>7. GoodWorld(node', deaths') /\ Keeps(node, node')
  BY <1>1, <1>3, <1>4, <1>5, <1>6, Replace, ReplaceKeeps DEF n
<1>8. fragments' \in Seq(Entry)
  <2>1. fragments \in Seq(Entry) /\ 0 \in Nat /\ i # NoOne
    BY DEF IInv, TypeOK, Ids, NoOne
  <2>2. Enqueue(fragments, i, NoOne, 0) \in Seq(Entry) BY <2>1, EnqueueTyped
  <2> QED BY <1>1, <2>1, <2>2
<1>9. deaths' \subseteq Ids BY <1>1 DEF IInv, TypeOK
<1>10. TypeOK'
  BY <1>2, <1>7, <1>8, <1>9 DEF IInv, TypeOK, TurnTaken, GoodWorld
<1>11. TurnsPresent' BY <1>2, <1>7, TurnsStayPresent DEF IInv
<1> QED BY <1>2, <1>7, <1>10, <1>11 DEF IInv, TurnTaken, GoodWorld

-----------------------------------------------------------------------------
\* One side of a contact.
LEMMA HitGood ==
  ASSUME NEW world, GoodWorld(world.node, deaths), world.fragments \in Seq(Entry),
         NEW victim \in Ids, world.node[victim] # Absent,
         NEW source \in Ids, world.node[source] # Absent,
         victim # source, NEW impulse \in Nat,
         DOMAIN world = {"node", "fragments"}
  PROVE  LET r == Hit(world, victim, source, impulse)
         IN /\ GoodWorld(r.node, deaths) /\ Keeps(world.node, r.node)
            /\ r.fragments \in Seq(Entry) /\ DOMAIN r = {"node", "fragments"}
<1> DEFINE n == world.node[victim]
           stress == n.stress + impulse
           held == [n EXCEPT !.stress = stress]
           hurt == [n EXCEPT !.structure = @ - (stress - n.yield), !.stress = n.yield \div 2]
<1>1. Good(n) BY Zenon DEF GoodWorld
<1>2. n \in Node /\ stress \in Nat BY <1>1 DEF Good, Node
<1> DEFINE whole == n.structure - (stress - n.yield)
           half == n.yield \div 2
<1>3. whole \in Int /\ half \in Nat
  <2>1. n.structure \in Int /\ n.yield \in Nat BY <1>2 DEF Node
  <2>2. \A a \in Int, b, c \in Nat : a - (b - c) \in Int OBVIOUS
  <2>3. \A b \in Nat : b \div 2 \in Nat OBVIOUS
  <2> HIDE DEF stress, n
  <2>4. whole \in Int BY <1>2, <2>1, <2>2
  <2>5. half \in Nat BY <2>1, <2>3
  <2> QED BY <2>4, <2>5
<1>4. hurt = [n EXCEPT !.structure = whole, !.stress = half] BY <1>2 DEF Node
<1> HIDE DEF stress, whole, half
<1>5. /\ held \in Node /\ held.energy = n.energy /\ held.opening = n.opening
      /\ held.ledger = n.ledger /\ held.dead = n.dead
  BY <1>2 DEF Node
<1>6. /\ hurt \in Node /\ hurt.energy = n.energy /\ hurt.opening = n.opening
      /\ hurt.ledger = n.ledger /\ hurt.dead = n.dead
  <2> DEFINE wounded == [n EXCEPT !.structure = whole, !.stress = half]
  <2>1. /\ wounded \in Node /\ wounded.energy = n.energy /\ wounded.opening = n.opening
        /\ wounded.ledger = n.ledger /\ wounded.dead = n.dead
    BY <1>2, <1>3 DEF Node
  <2> HIDE DEF n
  <2> QED BY <1>4, <2>1, Zenon
<1>7. /\ Good(held) /\ (Overdrawn(held) => victim \in deaths)
      /\ Good(hurt) /\ (Overdrawn(hurt) => victim \in deaths)
  <2>1. Overdrawn(n) => victim \in deaths BY Zenon DEF GoodWorld
  <2> HIDE DEF n
  <2> QED BY <1>1, <1>5, <1>6, <2>1, OtherFields DEF Overdrawn
<1> HIDE DEF n
<1>8. CASE stress <= n.yield
  <2>1. Hit(world, victim, source, impulse) = [world EXCEPT !.node[victim].stress = stress]
    BY <1>8 DEF Hit, stress, n
  <2>2. Hit(world, victim, source, impulse)
          = [world EXCEPT !.node = [world.node EXCEPT ![victim] = held]]
    BY <2>1 DEF n
  <2>3. /\ Hit(world, victim, source, impulse).node = [world.node EXCEPT ![victim] = held]
        /\ Hit(world, victim, source, impulse).fragments = world.fragments
        /\ DOMAIN Hit(world, victim, source, impulse) = {"node", "fragments"}
    BY <2>2
  <2> HIDE DEF held
  <2>4. /\ GoodWorld([world.node EXCEPT ![victim] = held], deaths)
        /\ Keeps(world.node, [world.node EXCEPT ![victim] = held])
    BY <1>7, Replace, ReplaceKeeps
  <2> QED BY <2>3, <2>4
<1>9. CASE ~(stress <= n.yield)
  <2> DEFINE killed == "AGENT" \in world.node[source].tags
             killer == IF killed THEN source ELSE NoOne
             share == IF killed THEN hurt.energy \div 2 ELSE 0
  <2>1. Hit(world, victim, source, impulse)
          = [node |-> [world.node EXCEPT ![victim] = hurt],
             fragments |-> IF Fails(hurt) THEN Enqueue(world.fragments, victim, killer, share)
                                          ELSE world.fragments]
    BY <1>9 DEF Hit, stress, n
  <2>2. hurt.energy \in Int BY <1>6 DEF Node
  <2> HIDE DEF hurt
  <2>3. Fails(hurt) => share \in Nat
    <3>1. hurt.energy > 0 => hurt.energy \div 2 \in Nat BY <2>2
    <3> QED BY <3>1 DEF Fails
  <2>4. killer \in Ids \cup {NoOne} /\ victim # killer BY DEF Ids, NoOne
  <2> HIDE DEF killer, share
  <2>5. Fails(hurt) => Enqueue(world.fragments, victim, killer, share) \in Seq(Entry)
    BY <2>3, <2>4, EnqueueTyped
  <2>6. /\ GoodWorld([world.node EXCEPT ![victim] = hurt], deaths)
        /\ Keeps(world.node, [world.node EXCEPT ![victim] = hurt])
    BY <1>7, Replace, ReplaceKeeps
  <2> QED BY <2>1, <2>5, <2>6
<1> QED BY <1>8, <1>9

\* Any change of nodes and fragments that keeps the world good.
LEMMA FragmentingTurn ==
  ASSUME IInv, NEW i, TurnTaken(i), GoodWorld(node', deaths), Keeps(node, node'),
         fragments' \in Seq(Entry), UNCHANGED <<deaths, closed>>
  PROVE  IInv'
<1>1. node' \in [Ids -> Node \cup {Absent}] BY DEF GoodWorld
<1>2. TypeOK' BY <1>1 DEF IInv, TypeOK, TurnTaken
<1>3. GoodWorld(node', deaths') BY Zenon
<1>4. phase' = "act" => deaths' = {} BY DEF IInv, TurnTaken
<1>5. TurnsPresent' BY TurnsStayPresent DEF IInv
<1> QED BY <1>2, <1>3, <1>4, <1>5 DEF IInv, GoodWorld

LEMMA CollideKeeps ==
  ASSUME IInv, NEW first \in Present, NEW second \in Present, NEW impulse \in Impulses,
         first # second, Collide(first, second, impulse)
  PROVE  IInv'
<1> DEFINE world == [node |-> node, fragments |-> fragments]
           once == Hit(world, first, second, impulse)
           both == Hit(once, second, first, impulse)
<1>1. /\ first \in Ids /\ second \in Ids /\ node[first] # Absent /\ node[second] # Absent
      /\ impulse \in Nat
  BY EconomyAssumption DEF Present
<1>2. /\ GoodWorld(world.node, deaths) /\ world.fragments \in Seq(Entry)
      /\ DOMAIN world = {"node", "fragments"}
      /\ world.node = node
  BY DEF IInv, TypeOK
<1>3. /\ node' = both.node /\ fragments' = both.fragments
      /\ TurnTaken(Min(todo)) /\ UNCHANGED <<deaths, closed>>
  BY DEF Collide
<1> HIDE DEF world
<1>4. /\ GoodWorld(once.node, deaths) /\ Keeps(node, once.node)
      /\ once.fragments \in Seq(Entry) /\ DOMAIN once = {"node", "fragments"}
  BY <1>1, <1>2, HitGood
<1> HIDE DEF once
<1>5. once.node[first] # Absent /\ once.node[second] # Absent
  BY <1>1, <1>4 DEF Keeps
<1>6. /\ GoodWorld(both.node, deaths) /\ Keeps(once.node, both.node)
      /\ both.fragments \in Seq(Entry)
  BY <1>1, <1>4, <1>5, HitGood
<1>7. Keeps(node, both.node) BY <1>4, <1>6, KeepsTransitive
<1> HIDE DEF both
<1> QED BY <1>3, <1>6, <1>7, FragmentingTurn

LEMMA NoMoreContactsKeeps == ASSUME IInv, NoMoreContacts PROVE IInv'
<1>1. /\ phase = "collide" /\ todo' = {}
      /\ UNCHANGED <<node, phase, fragments, deaths, ticks, closed>>
  BY DEF NoMoreContacts, Running
<1>2. TypeOK' BY <1>1 DEF IInv, TypeOK
<1>3. TurnsPresent' BY <1>1 DEF TurnsPresent
<1> QED BY <1>1, <1>2, <1>3 DEF IInv, GoodWorld

-----------------------------------------------------------------------------
LEMMA TransferKeeps ==
  ASSUME IInv, NEW k \in DOMAIN fragments, Transfer(k)
  PROVE  IInv'
<1> DEFINE entry == fragments[k]
<1>1. TurnTaken(k) /\ UNCHANGED <<fragments, deaths, closed>> BY DEF Transfer
<1>2. GoodWorld(node, deaths) BY Zenon DEF IInv
<1>3. entry \in Entry
  BY SeqDef DEF IInv, TypeOK
<1>4. \/ node' = node
      \/ /\ entry.killer # NoOne /\ {entry.victim, entry.killer} \subseteq Present
         /\ node' = Moved(node, entry.victim, entry.killer,
                          "transferred", "consumed", entry.share)
  BY DEF Transfer
<1>5. CASE node' = node
  BY <1>1, <1>2, <1>5, NodeTurn DEF Keeps
<1>6. CASE /\ entry.killer # NoOne /\ {entry.victim, entry.killer} \subseteq Present
           /\ node' = Moved(node, entry.victim, entry.killer,
                            "transferred", "consumed", entry.share)
  <2>1. /\ entry.victim \in Ids /\ entry.killer \in Ids /\ entry.share \in Nat
        /\ node[entry.victim] # Absent /\ node[entry.killer] # Absent
    BY <1>3, <1>6 DEF Entry, Present
  <2>2. entry.victim # entry.killer
    BY <1>3 DEF Entry
  <2> QED BY <1>1, <1>2, <1>6, <2>1, <2>2, MovedGood, MovedKeeps, NodeTurn
<1> QED BY <1>4, <1>5, <1>6

LEMMA DaughterGood ==
  ASSUME NEW n, Good(n), NEW count \in Nat \ {0}, NEW tags \in SUBSET Tag
  PROVE  Good(Daughter(n, count, tags)) /\ ~Overdrawn(Daughter(n, count, tags))
<1>1. n.energy \in Int /\ n.mass \in Nat /\ n.yield \in Nat BY DEF Good, Node
<1>2. /\ AtLeastZero(n.energy) \div count \in Nat
      /\ n.mass \div count \in Nat /\ n.yield \div count \in Nat
  BY <1>1, Floored, Quotient
<1> DEFINE energy == AtLeastZero(n.energy) \div count
           mass == n.mass \div count
           yield == n.yield \div count
<1>3. Daughter(n, count, tags) = Body(energy, mass, 4 * yield, yield, tags)
  BY DEF Daughter
<1>4. energy \in Nat /\ mass \in Nat /\ yield \in Nat BY <1>2
<1> HIDE DEF energy, mass, yield
<1>5. 4 * yield \in Int BY <1>4
<1>6. /\ Good(Body(energy, mass, 4 * yield, yield, tags))
      /\ Body(energy, mass, 4 * yield, yield, tags).energy = energy
  BY <1>4, <1>5, BodyGood
<1> QED BY <1>3, <1>4, <1>6 DEF Overdrawn

LEMMA FragmentKeeps == ASSUME IInv, NEW k \in DOMAIN fragments, Fragment(k) PROVE IInv'
<1> DEFINE v == fragments[k].victim
<1>1. TurnTaken(k) /\ phase = "fragment" /\ UNCHANGED <<fragments, deaths>>
  BY DEF Fragment, Turn, Running
<1>2. GoodWorld(node, deaths) BY Zenon DEF IInv
<1>3. GoodWorld(node', deaths) /\ closed' \in [vented : Nat, spent : Nat]
  <2>1. CASE UNCHANGED <<node, closed>>
    BY <1>2, <2>1 DEF IInv, TypeOK
  <2>2. CASE v \in Present /\ \E count \in 2..DaughterLimit(node[v]) : Split(v, count)
    <3>1. PICK count \in 2..DaughterLimit(node[v]) : Split(v, count) BY <2>2
    <3>2. count \in Nat \ {0} BY <3>1
    <3>3. PICK new, tags :
            /\ tags \in [new -> Mutants(node[v].tags)]
            /\ node' = [i \in Ids |-> IF i = v THEN Absent
                                      ELSE IF i \in new THEN Daughter(node[v], count, tags[i])
                                      ELSE node[i]]
            /\ closed' = Closing(node[v])
      BY <3>1 DEF Split
    <3>4. Good(node[v]) BY <1>2, <2>2, PresentGood DEF Present
    <3>5. Mutants(node[v].tags) \subseteq SUBSET Tag
      <4>1. node[v].tags \in SUBSET Tag /\ Mutations \subseteq Tag
        BY <3>4, EconomyAssumption DEF Good, Node
      <4> QED BY <4>1 DEF Mutants
    <3>6. ASSUME NEW i \in Ids
          PROVE  /\ node'[i] \in Node \cup {Absent}
                 /\ node'[i] # Absent =>
                      Good(node'[i]) /\ (Overdrawn(node'[i]) => i \in deaths)
      <4>1. CASE i = v BY <3>3, <4>1
      <4>2. CASE i # v /\ i \in new
        <5>1. tags[i] \in SUBSET Tag BY <3>3, <3>5, <4>2
        <5>2. node'[i] = Daughter(node[v], count, tags[i]) BY <3>3, <4>2
        <5> QED BY <3>2, <3>4, <5>1, <5>2, DaughterGood DEF Good
      <4>3. CASE i # v /\ i \notin new
        <5>1. node'[i] = node[i] BY <3>3, <4>3
        <5> QED BY <1>2, <5>1, Zenon DEF GoodWorld
      <4> QED BY <4>1, <4>2, <4>3
    <3>7. node' \in [Ids -> Node \cup {Absent}]
      <4>1. node' = [i \in Ids |-> node'[i]] BY <3>3
      <4> QED BY <3>6, <4>1
    <3>8. closed' \in [vented : Nat, spent : Nat]
      <4>1. /\ closed.vented \in Nat /\ closed.spent \in Nat
        BY DEF IInv, TypeOK
      <4>2. /\ node[v].ledger["vented"] \in Nat /\ node[v].ledger["dissipated"] \in Nat
            /\ node[v].ledger["actuation"] \in Nat
        BY <3>4 DEF Good, Node, EnergyFlow, Sources, Sinks
      <4>3. \A a, b, c \in Nat : a + b \in Nat /\ a + b + c \in Nat OBVIOUS
      <4>4. Closing(node[v]) \in [vented : Nat, spent : Nat]
        BY <4>1, <4>2, <4>3 DEF Closing
      <4> QED BY <3>3, <4>4
    <3> QED BY <3>6, <3>7, <3>8 DEF GoodWorld
  <2> QED BY <2>1, <2>2 DEF Fragment
<1>4. node' \in [Ids -> Node \cup {Absent}] BY <1>3 DEF GoodWorld
<1>5. TypeOK' BY <1>1, <1>3, <1>4 DEF IInv, TypeOK, TurnTaken
<1>6. TurnsPresent' BY <1>1 DEF TurnsPresent, TurnTaken
<1> QED BY <1>1, <1>3, <1>5, <1>6 DEF IInv, GoodWorld, TurnTaken

-----------------------------------------------------------------------------
LEMMA DecayedGood ==
  ASSUME GoodWorld(node, deaths)
  PROVE  GoodWorld([i \in Ids |-> Decayed(i)], deaths)
<1>1. ASSUME NEW i \in Ids
      PROVE  /\ Decayed(i) \in Node \cup {Absent}
             /\ Decayed(i) # Absent =>
                  Good(Decayed(i)) /\ (Overdrawn(Decayed(i)) => i \in deaths)
  <2>1. CASE node[i] = Absent BY <2>1 DEF Decayed
  <2>2. CASE node[i] # Absent
    <3>1. Good(node[i]) /\ (Overdrawn(node[i]) => i \in deaths)
      BY <2>2, Zenon DEF GoodWorld
    <3>2. node[i] \in Node /\ node[i].stress \in Nat BY <3>1 DEF Good, Node
    <3> DEFINE n == node[i]
               less == (n.stress * 92) \div 100
    <3>3. less \in Nat BY <3>2
    <3>4. Decayed(i) = [n EXCEPT !.stress = less] BY <2>2, <3>2 DEF Decayed, Node
    <3> HIDE DEF less
    <3>5. /\ Decayed(i) \in Node /\ Decayed(i).energy = n.energy
          /\ Decayed(i).opening = n.opening /\ Decayed(i).ledger = n.ledger
          /\ Decayed(i).dead = n.dead
      <4>1. /\ [n EXCEPT !.stress = less] \in Node
            /\ [n EXCEPT !.stress = less].energy = n.energy
            /\ [n EXCEPT !.stress = less].opening = n.opening
            /\ [n EXCEPT !.stress = less].ledger = n.ledger
            /\ [n EXCEPT !.stress = less].dead = n.dead
        BY <3>2, <3>3 DEF Node
      <4> HIDE DEF n
      <4> QED BY <3>4, <4>1, Zenon
    <3> QED BY <3>1, <3>5, OtherFields DEF Overdrawn
  <2> QED BY <2>1, <2>2
<1> QED BY <1>1 DEF GoodWorld

LEMMA NextPhaseKeeps == ASSUME IInv, NextPhase PROVE IInv'
<1>1. GoodWorld(node, deaths) /\ phase \in DOMAIN After BY DEF IInv, NextPhase, TypeOK
<1>2. /\ phase' = After[phase] /\ todo' = Turns(phase')
      /\ node' = IF phase' = "collide" THEN [i \in Ids |-> Decayed(i)] ELSE node
      /\ fragments' = IF phase = "fragment" THEN <<>> ELSE fragments
      /\ UNCHANGED <<deaths, ticks, closed>>
  BY DEF NextPhase
<1>3. phase' \in {"drain", "harvest", "trap", "reproduce", "collide", "transfer",
                  "fragment", "deaths"}
  BY <1>1, <1>2 DEF After
<1>4. GoodWorld(node', deaths') BY <1>1, <1>2, DecayedGood
<1>5. fragments' \in Seq(Entry) BY <1>2 DEF IInv, TypeOK
<1>6. IF phase' = "harvest" THEN todo' \subseteq Ids \X Ids ELSE todo' \subseteq Nat \ {0}
  <2>1. DOMAIN fragments \subseteq Nat \ {0}
    BY LenProperties DEF IInv, TypeOK
  <2>2. MaxContacts \in Nat BY EconomyAssumption
  <2> QED BY <1>2, <1>3, <2>1, <2>2 DEF Turns, Agents, Tagged, Present, Ids, Pairs
<1>7. TypeOK'
  BY <1>2, <1>3, <1>4, <1>5, <1>6 DEF IInv, TypeOK, GoodWorld, After
<1>8. TurnsPresent'
  <2>1. CASE phase' \in {"drain", "trap", "reproduce"}
    <3>1. node' = node BY <1>2, <2>1
    <3>2. \A i \in todo' : i \in Ids /\ node[i] # Absent
      BY <1>2, <2>1 DEF Turns, Agents, Tagged, Present
    <3> QED BY <2>1, <3>1, <3>2 DEF TurnsPresent
  <2>2. CASE phase' = "harvest"
    <3>1. node' = node BY <1>2, <2>2
    <3>2. \A p \in todo' : /\ p[1] \in Ids /\ p[2] \in Ids /\ p[1] # p[2]
                           /\ node[p[1]] # Absent /\ node[p[2]] # Absent
      BY <1>2, <2>2 DEF Turns, Pairs, Agents, Tagged, Present
    <3> QED BY <2>2, <3>1, <3>2 DEF TurnsPresent
  <2>3. CASE phase' \in {"collide", "transfer", "fragment", "deaths"}
    BY <2>3 DEF TurnsPresent
  <2> QED BY <1>3, <2>1, <2>2, <2>3
<1> QED BY <1>3, <1>4, <1>7, <1>8 DEF IInv, GoodWorld

LEMMA DeadGood == ASSUME NEW n, Good(n) PROVE Good(Dead(n)) /\ ~Overdrawn(Dead(n))
<1>1. n \in Node /\ n.tags \ {"AGENT"} \in SUBSET Tag BY DEF Good, Node
<1> DEFINE r == [n EXCEPT !.tags = n.tags \ {"AGENT"}, !.dead = TRUE,
                          !.surplus = 0, !.rest = 0, !.fab = 0]
<1>2. Dead(n) = r BY <1>1 DEF Dead, Node
<1>3. /\ r \in Node /\ r.energy = n.energy /\ r.opening = n.opening
      /\ r.ledger = n.ledger /\ r.dead
  BY <1>1 DEF Node
<1> QED BY <1>2, <1>3, OtherFields DEF Overdrawn

LEMMA RunDeathsKeeps == ASSUME IInv, RunDeaths PROVE IInv'
<1>1. GoodWorld(node, deaths) BY DEF IInv
<1>2. GoodWorld(node', deaths')
  <2>1. ASSUME NEW i \in Ids
        PROVE  /\ node'[i] \in Node \cup {Absent}
               /\ node'[i] # Absent => Good(node'[i]) /\ ~Overdrawn(node'[i])
    <3>1. CASE i \in deaths \cap Present
      <4>1. node'[i] = Dead(node[i]) BY <3>1 DEF RunDeaths
      <4>2. Good(node[i]) BY <1>1, <3>1, PresentGood DEF Present
      <4> QED BY <4>1, <4>2, DeadGood DEF Good
    <3>2. CASE i \notin deaths \cap Present
      <4>1. node'[i] = node[i] BY <3>2 DEF RunDeaths
      <4> QED BY <1>1, <3>2, <4>1, Zenon DEF GoodWorld, Present
    <3> QED BY <3>1, <3>2
  <2>2. node' = [i \in Ids |-> node'[i]] BY DEF RunDeaths
  <2>3. node' \in [Ids -> Node \cup {Absent}] BY <2>1, <2>2
  <2> QED BY <2>1, <2>3 DEF GoodWorld
<1>3. /\ phase' = "act" /\ deaths' = {} /\ UNCHANGED <<fragments, closed>>
      /\ todo' = {i \in Ids : node'[i] # Absent /\ "AGENT" \in node'[i].tags}
  BY DEF RunDeaths
<1>4. todo' \subseteq Nat \ {0} BY <1>3 DEF Ids
<1>5. TypeOK'
  <2>1. ticks' \in 0..MaxTicks
    <3>1. ticks \in 0..MaxTicks /\ ticks < MaxTicks /\ ticks' = ticks + 1
      BY DEF RunDeaths, IInv, TypeOK
    <3>2. MaxTicks \in Nat BY EconomyAssumption
    <3> QED BY <3>1, <3>2
  <2> QED BY <1>2, <1>3, <1>4, <2>1 DEF IInv, TypeOK, GoodWorld, After
<1>6. TurnsPresent' BY <1>3 DEF TurnsPresent
<1> QED BY <1>2, <1>3, <1>5, <1>6 DEF IInv, GoodWorld

-----------------------------------------------------------------------------
LEMMA NextKeeps == ASSUME IInv, [Next]_vars PROVE IInv'
<1>1. CASE NextPhase BY <1>1, NextPhaseKeeps
<1>2. ASSUME NEW i \in Ids, Act(i) PROVE IInv' BY <1>2, ActKeeps
<1>3. ASSUME NEW i \in Ids, DrainNode(i) PROVE IInv' BY <1>3, DrainNodeKeeps
<1>4. ASSUME NEW i \in Ids, Discharge(i) PROVE IInv' BY <1>4, DischargeKeeps
<1>5. ASSUME NEW i \in Ids, Reproduce(i) PROVE IInv' BY <1>5, ReproduceKeeps
<1>6. ASSUME NEW a \in Ids, NEW o \in Ids, Harvest(a, o) PROVE IInv'
  BY <1>6, HarvestKeeps
<1>7. ASSUME NEW first \in Present, NEW second \in Present, NEW impulse \in Impulses,
             first # second, Collide(first, second, impulse)
      PROVE  IInv'
  BY <1>7, CollideKeeps
<1>8. CASE NoMoreContacts BY <1>8, NoMoreContactsKeeps
<1>9. ASSUME NEW k \in DOMAIN fragments, Transfer(k) PROVE IInv' BY <1>9, TransferKeeps
<1>10. ASSUME NEW k \in DOMAIN fragments, Fragment(k) PROVE IInv' BY <1>10, FragmentKeeps
<1>11. CASE RunDeaths BY <1>11, RunDeathsKeeps
<1>12. CASE UNCHANGED vars
  BY <1>12 DEF vars, IInv, TypeOK, GoodWorld, TurnsPresent
<1> QED
  BY <1>1, <1>2, <1>3, <1>4, <1>5, <1>6, <1>7, <1>8, <1>9, <1>10, <1>11, <1>12 DEF Next

\* For every population, input and bound: every variable keeps its type.
THEOREM EconomyTyped == Spec => []TypeOK
<1>1. IInv => TypeOK BY DEF IInv
<1> QED BY <1>1, InitIInv, NextKeeps, PTL DEF Spec

\* For every population, input and bound: no system of the tick moves energy past
\* a node's ledger.
THEOREM EconomyBalanced == Spec => []EveryNodeBalanced
<1>1. IInv => EveryNodeBalanced
  BY DEF IInv, GoodWorld, Good, EveryNodeBalanced, Present
<1> QED BY <1>1, InitIInv, NextKeeps, PTL DEF Spec

\* For every population, input and bound: a node that was drained below zero is
\* dead before any controller is asked again.
THEOREM EconomyOverdrawnAreDead == Spec => []OverdrawnAreDead
<1>1. IInv => OverdrawnAreDead
  <2> SUFFICES ASSUME IInv, phase = "act", NEW i \in Present, node[i].energy < 0
               PROVE  node[i].dead
    BY DEF OverdrawnAreDead
  <2>1. i \in Ids /\ node[i] # Absent BY DEF Present
  <2>2. deaths = {} /\ (Overdrawn(node[i]) => i \in deaths)
    BY <2>1, Zenon DEF IInv, GoodWorld
  <2> QED BY <2>2 DEF Overdrawn
<1> QED BY <1>1, InitIInv, NextKeeps, PTL DEF Spec
=============================================================================
