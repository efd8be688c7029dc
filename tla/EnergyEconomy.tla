---------------------------- MODULE EnergyEconomy ---------------------------
(***************************************************************************)
(* One tick after another of the systems that move energy and matter, in   *)
(* the order configure_world chains them: actions and actuators, drain,    *)
(* harvest, traps, births, collision damage, consumption, fragmentation    *)
(* and deaths.  A system is a phase; its loop over nodes, contacts or      *)
(* queue entries takes one step per turn.  Positions, velocities and       *)
(* fields are inputs: which nodes are near, how fast and how hot.          *)
(*                                                                         *)
(* Energy, mass and yield are counted in units fine enough for the halves  *)
(* and thirds of the code; structure in quarter units (DAMAGE_SCALE).      *)
(* The tag AGENT stands for the AgentMarker too: the systems below only    *)
(* ever set and remove the two together.                                   *)
(***************************************************************************)
EXTENDS EnergyLedger, FiniteSetsExt, SequencesExt

CONSTANTS
  MaxNodes,             \* bound: nodes that exist at one time
  Populations,          \* worlds the simulation may start from
  Commands,             \* what a controller may ask for in one tick
  Thermal,              \* thermal loads of the field
  Rates,                \* what a relative motion may transfer, 0 for too slow
  Parts,                \* parts of a discharge that neighbours share by weight
  Impulses,             \* contact impulses
  MaxContacts,          \* bound: contacts in a tick
  MaxTicks,             \* bound: ticks
  Mutations,            \* tags that a mutation may flip
  BaseDrain, VentGain, ClampDrain, FabricateEnergy, FabricateMass, FabricateYield,
  FabricateTicks,
  BirthThreshold, BirthEnergy, BirthMass, MassMargin, BirthYield,
  SurplusTicks, RestTicks,
  MinMass, MinYield     \* MIN_DAUGHTER_MASS and MIN_DAUGHTER_STRUCTURE

Tag == {"AGENT", "ENERGY_CONVERTIBLE", "SHELTER", "THERMAL_VENT", "VOLATILE_TRAP"}

Command == [move : Nat, drive : Nat, clamp : BOOLEAN, fabricate : BOOLEAN]

Ids == 1..MaxNodes
Absent == [absent |-> TRUE]

Node == [energy : Int, opening : Int, ledger : [EnergyFlow -> Nat],
         mass : Nat, structure : Int, yield : Nat, tags : SUBSET Tag,
         dead : BOOLEAN, stress : Nat,
         surplus : Nat, rest : Nat, fab : Nat]

Body(energy, mass, structure, yield, tags) ==
  [energy |-> energy, opening |-> energy, ledger |-> EmptyLedger,
   mass |-> mass, structure |-> structure, yield |-> yield, tags |-> tags,
   dead |-> FALSE, stress |-> 0, surplus |-> 0, rest |-> 0, fab |-> 0]

ASSUME EconomyAssumption ==
  /\ {MaxNodes, MaxContacts, MaxTicks} \subseteq Nat
  /\ Populations \subseteq [Ids -> Node \cup {Absent}]
  /\ \A world \in Populations, i \in Ids :
       world[i] # Absent =>
         Balanced(world[i]) /\ (world[i].energy < 0 => world[i].dead)
  /\ Commands \subseteq Command
  /\ Thermal \cup Rates \cup Impulses \subseteq Nat
  /\ Mutations \subseteq Tag
  /\ {BaseDrain, VentGain, ClampDrain, FabricateEnergy, FabricateMass, FabricateYield,
      FabricateTicks, BirthThreshold, BirthEnergy, BirthMass, MassMargin,
      BirthYield, SurplusTicks, RestTicks} \subseteq Nat
  /\ {MinMass, MinYield, Parts} \subseteq Nat \ {0}

\* The order in which the systems are chained.
After == [act |-> "drain", drain |-> "harvest", harvest |-> "trap",
          trap |-> "reproduce", reproduce |-> "collide", collide |-> "transfer",
          transfer |-> "fragment", fragment |-> "deaths"]

VARIABLES
  node,                 \* the nodes with a Physical component
  phase,                \* the system that is running
  todo,                 \* turns its loop has still to take
  fragments,            \* FragmentQueue
  deaths,               \* DeathQueue
  ticks,                \* ticks completed
  closed                \* history: energy gained and spent by despawned nodes

vars == <<node, phase, todo, fragments, deaths, ticks, closed>>

Present == {i \in Ids : node[i] # Absent}
Tagged(tag) == {i \in Present : tag \in node[i].tags}
Agents == Tagged("AGENT")
Queued == {fragments[k].victim : k \in DOMAIN fragments}
Fresh == Ids \ (Present \cup Queued \cup deaths)
New == CHOOSE i \in Fresh : TRUE

NoOne == 0

-----------------------------------------------------------------------------
(* Turns of the phases. *)

Pairs == {p \in Agents \X Tagged("ENERGY_CONVERTIBLE") : p[1] # p[2]}

Turns(p) ==
  CASE p \in {"act", "reproduce"} -> Agents
    [] p = "drain" -> {i \in Present : ~node[i].dead}
    [] p = "harvest" -> Pairs
    [] p = "trap" -> Tagged("VOLATILE_TRAP")
    [] p = "collide" -> 1..MaxContacts
    [] p \in {"transfer", "fragment"} -> DOMAIN fragments
    [] p = "deaths" -> {}

Running(p) == phase = p /\ todo # {} /\ ticks < MaxTicks
Turn(p, i) == Running(p) /\ i \in todo /\ \A j \in todo : i <= j
TurnTaken(i) == todo' = todo \ {i} /\ UNCHANGED <<phase, ticks>>

\* Stress decays before the contacts of the tick are looked at.
Decayed(i) ==
  IF node[i] = Absent THEN Absent
  ELSE [node[i] EXCEPT !.stress = (@ * 92) \div 100]

NextPhase ==
  /\ todo = {} /\ phase # "deaths" /\ ticks < MaxTicks
  /\ phase' = After[phase]
  /\ todo' = Turns(phase')
  /\ node' = IF phase' = "collide" THEN [i \in Ids |-> Decayed(i)] ELSE node
  /\ fragments' = IF phase = "fragment" THEN <<>> ELSE fragments
  /\ UNCHANGED <<deaths, ticks, closed>>

-----------------------------------------------------------------------------
(* Actions and actuators. *)

\* Locomotion is paid in full or not at all, and so is the oscillator; a held
\* clamp takes what there is.
Exerted(n, c) ==
  LET moved == DebitExact(n, "actuation", c.move)
      driven == DebitExact(moved, "actuation", c.drive)
  IN IF c.clamp THEN DebitAvailable(driven, "actuation", ClampDrain) ELSE driven

Cooled(n) == [n EXCEPT !.fab = AtLeastZero(@ - 1)]

Fabricates(n, c) ==
  /\ c.fabricate /\ n.fab = 0
  /\ n.energy >= FabricateEnergy /\ n.mass >= FabricateMass

Structure ==
  Body(FabricateEnergy, FabricateMass, 4 * FabricateYield, FabricateYield, {"SHELTER"})

Invested(n) ==
  [DebitExact(n, "fabrication", FabricateEnergy)
     EXCEPT !.mass = @ - FabricateMass, !.fab = FabricateTicks]

Act(i) ==
  /\ Turn("act", i)
  /\ \E c \in Commands :
       LET n == Cooled(Exerted(node[i], c))
       IN IF Fabricates(n, c)
            THEN \* bound: a fabrication has room in Ids
                 /\ Fresh # {}
                 /\ node' = [node EXCEPT ![i] = Invested(n), ![New] = Structure]
            ELSE node' = [node EXCEPT ![i] = n]
  /\ TurnTaken(i)
  /\ UNCHANGED <<fragments, deaths, closed>>

-----------------------------------------------------------------------------
(* Drain: thermodynamic_drain. *)

CanFragment(n) == n.mass >= 2 * MinMass /\ n.yield >= 2 * MinYield

\* A slip: an entry that is already in the queue is pushed again.
EnqueueAgain(queue, victim, killer, share) ==
  Append(queue, [victim |-> victim, killer |-> killer, share |-> share])

Enqueue(queue, victim, killer, share) ==
  IF \E k \in DOMAIN queue : queue[k].victim = victim
    THEN queue
    ELSE Append(queue, [victim |-> victim, killer |-> killer, share |-> share])

\* A shelter within reach takes three quarters of the thermal exposure away.
DrainAmount(thermal, sheltered) ==
  BaseDrain + (BaseDrain * thermal) \div (IF sheltered THEN 4 ELSE 1)

Exposed(n, thermal, sheltered) ==
  LET heated == IF "THERMAL_VENT" \in n.tags
                  THEN [Credit(n, "vented", VentGain * thermal) EXCEPT !.structure = @ - thermal]
                  ELSE n
  IN Drain(heated, DrainAmount(thermal, sheltered))

Fails(n) == n.structure <= 0 /\ n.energy > 0 /\ CanFragment(n)

\* A slip: only a reserve of exactly zero counts as depleted.
DepletedExactly(n) == n.energy = 0

Depleted(n) == n.energy <= 0

DrainNode(i) ==
  /\ Turn("drain", i)
  /\ \E thermal \in Thermal, sheltered \in BOOLEAN :
       LET n == Exposed(node[i], thermal, sheltered)
       IN /\ sheltered => Tagged("SHELTER") \ {i} # {}
          /\ node' = [node EXCEPT ![i] = n]
          /\ fragments' = IF Fails(n) THEN Enqueue(fragments, i, NoOne, 0) ELSE fragments
          /\ deaths' = IF Depleted(n) THEN deaths \cup {i} ELSE deaths
  /\ TurnTaken(i)
  /\ UNCHANGED closed

-----------------------------------------------------------------------------
(* Transfers: kinetic_harvest and volatile_trap_discharge. *)

\* A slip: the agent is credited with the rate, not with what was debited.
MovedInFull(accounts, from, to, sink, source, amount) ==
  [accounts EXCEPT ![from] = DebitAvailable(@, sink, amount),
                   ![to] = Credit(@, source, amount)]

Moved(accounts, from, to, sink, source, amount) ==
  [accounts EXCEPT ![from] = DebitAvailable(@, sink, amount),
                   ![to] = Credit(@, source, Available(accounts[from], amount))]

\* Agents in turn, each with its neighbours in the order the hash lists them.
Harvest(a, o) ==
  /\ Running("harvest") /\ <<a, o>> \in todo
  /\ \A p \in todo : a <= p[1]
  /\ \E rate \in Rates :
       node' = IF Available(node[o], rate) > 0
                 THEN Moved(node, o, a, "transferred", "harvested", rate)
                 ELSE node
  /\ TurnTaken(<<a, o>>)
  /\ UNCHANGED <<fragments, deaths, closed>>

Half(e) == AtLeastZero(e) \div 2

Discharged(t, part, released) ==
  [i \in Ids |->
     IF i = t THEN DebitAvailable(node[t], "transferred", released)
     ELSE IF i \in DOMAIN part
            THEN Credit(node[i], "harvested", (released * part[i]) \div Parts)
     ELSE node[i]]

\* Without a spike or without neighbours nothing is released; what is released
\* is divided among the neighbours by weight.
Discharge(t) ==
  /\ Turn("trap", t)
  /\ \E near \in SUBSET (Agents \ {t}) : \E part \in [near -> 1..Parts] :
       IF near # {} /\ Half(node[t].energy) > 0
         THEN /\ MapThenSumSet(LAMBDA a : part[a], near) = Parts
              /\ node' = Discharged(t, part, Half(node[t].energy))
         ELSE node' = node
  /\ TurnTaken(t)
  /\ UNCHANGED <<fragments, deaths, closed>>

-----------------------------------------------------------------------------
(* Births: reproduce_agents. *)

Rested(n) == [n EXCEPT !.rest = AtLeastZero(@ - 1)]

Eligible(n) ==
  n.energy >= BirthThreshold /\ n.mass >= BirthMass + MassMargin /\ n.rest = 0

Child == Body(BirthEnergy, BirthMass, 4 * BirthYield, BirthYield, {"AGENT"})

Parent(n) ==
  [DebitExact(n, "offspring", BirthEnergy)
     EXCEPT !.mass = @ - BirthMass, !.surplus = 0, !.rest = RestTicks]

Reproduce(i) ==
  /\ Turn("reproduce", i)
  /\ LET n == Rested(node[i])
     IN \/ /\ ~Eligible(n)
           /\ node' = [node EXCEPT ![i] = [n EXCEPT !.surplus = 0]]
        \/ /\ Eligible(n) /\ n.surplus + 1 < SurplusTicks
           /\ node' = [node EXCEPT ![i] = [n EXCEPT !.surplus = @ + 1]]
        \/ \* the controller declines
           /\ Eligible(n) /\ n.surplus + 1 >= SurplusTicks
           /\ node' = [node EXCEPT ![i] = [n EXCEPT !.surplus = 0, !.rest = RestTicks]]
        \/ /\ Eligible(n) /\ n.surplus + 1 >= SurplusTicks
           /\ IF CanFund(n, "offspring", BirthEnergy)
                THEN \* bound: a birth has room in Ids
                     /\ Fresh # {}
                     /\ node' = [node EXCEPT ![i] = Parent(n), ![New] = Child]
                ELSE node' = [node EXCEPT ![i] = [n EXCEPT !.surplus = 0]]
  /\ TurnTaken(i)
  /\ UNCHANGED <<fragments, deaths, closed>>

-----------------------------------------------------------------------------
(* Collisions: accumulate_collision_damage. *)

Hit(world, victim, source, impulse) ==
  LET n == world.node[victim]
      stress == n.stress + impulse
      hurt == [n EXCEPT !.structure = @ - (stress - n.yield), !.stress = n.yield \div 2]
      killed == "AGENT" \in world.node[source].tags
  IN IF stress <= n.yield
       THEN [world EXCEPT !.node[victim].stress = stress]
       ELSE [node |-> [world.node EXCEPT ![victim] = hurt],
             fragments |-> IF Fails(hurt)
                             THEN Enqueue(world.fragments, victim,
                                          IF killed THEN source ELSE NoOne,
                                          IF killed THEN hurt.energy \div 2 ELSE 0)
                             ELSE world.fragments]

Collide(first, second, impulse) ==
  /\ Running("collide")
  /\ LET once == Hit([node |-> node, fragments |-> fragments], first, second, impulse)
         both == Hit(once, second, first, impulse)
     IN node' = both.node /\ fragments' = both.fragments
  /\ TurnTaken(Min(todo))
  /\ UNCHANGED <<deaths, closed>>

NoMoreContacts ==
  /\ Running("collide")
  /\ todo' = {}
  /\ UNCHANGED <<node, phase, fragments, deaths, ticks, closed>>

-----------------------------------------------------------------------------
(* Consumption and fragmentation. *)

Transfer(k) ==
  /\ Turn("transfer", k)
  /\ LET entry == fragments[k]
     IN node' = IF /\ entry.killer # NoOne /\ entry.share > 0
                   /\ {entry.victim, entry.killer} \subseteq Present
                  THEN Moved(node, entry.victim, entry.killer,
                             "transferred", "consumed", entry.share)
                  ELSE node
  /\ TurnTaken(k)
  /\ UNCHANGED <<fragments, deaths, closed>>

DaughterLimit(n) ==
  Min({n.mass \div MinMass, n.yield \div MinYield, 3})

\* A slip: only energy and yield are divided.
DaughterOfFullMass(n, count, tags) ==
  Body(AtLeastZero(n.energy) \div count, n.mass, 4 * (n.yield \div count),
       n.yield \div count, tags)

Daughter(n, count, tags) ==
  Body(AtLeastZero(n.energy) \div count, n.mass \div count,
       4 * (n.yield \div count), n.yield \div count, tags)

Mutants(tags) ==
  {tags \ {"AGENT"}} \cup
  {((tags \cup {t}) \ (tags \cap {t})) \ {"AGENT"} : t \in Mutations}

Closing(n) ==
  [vented |-> closed.vented + n.ledger["vented"],
   spent |-> closed.spent + n.ledger["dissipated"] + n.ledger["actuation"]]

\* The count is drawn by the node's generator; bound: the daughters fit in Ids.
Split(v, count) ==
  \E new \in kSubset(count, Fresh) : \E tags \in [new -> Mutants(node[v].tags)] :
    /\ \A i \in new, j \in Fresh \ new : i < j
    /\ node' = [i \in Ids |-> IF i = v THEN Absent
                              ELSE IF i \in new THEN Daughter(node[v], count, tags[i])
                              ELSE node[i]]
    /\ closed' = Closing(node[v])

Fragment(k) ==
  /\ Turn("fragment", k)
  /\ LET v == fragments[k].victim
     IN IF v \in Present /\ DaughterLimit(node[v]) >= 2
          THEN \E count \in 2..DaughterLimit(node[v]) :
                 count <= Cardinality(Fresh) /\ Split(v, count)
          ELSE UNCHANGED <<node, closed>>
  /\ TurnTaken(k)
  /\ UNCHANGED <<fragments, deaths>>

-----------------------------------------------------------------------------
(* Deaths: run_deaths.  Energy is not looked at again. *)

Dead(n) == [n EXCEPT !.tags = @ \ {"AGENT"}, !.dead = TRUE,
                     !.surplus = 0, !.rest = 0, !.fab = 0]

RunDeaths ==
  /\ phase = "deaths" /\ ticks < MaxTicks
  /\ node' = [i \in Ids |-> IF i \in deaths \cap Present THEN Dead(node[i]) ELSE node[i]]
  /\ deaths' = {}
  /\ ticks' = ticks + 1
  /\ phase' = "act"
  /\ todo' = {i \in Ids : node'[i] # Absent /\ "AGENT" \in node'[i].tags}
  /\ UNCHANGED <<fragments, closed>>

-----------------------------------------------------------------------------
Init ==
  /\ node \in Populations
  /\ phase = "act"
  /\ todo = Agents
  /\ fragments = <<>>
  /\ deaths = {}
  /\ ticks = 0
  /\ closed = [vented |-> 0, spent |-> 0]

Next ==
  \/ NextPhase
  \/ \E i \in Ids : Act(i) \/ DrainNode(i) \/ Discharge(i) \/ Reproduce(i)
  \/ \E a, o \in Ids : Harvest(a, o)
  \/ \E first, second \in Present, impulse \in Impulses :
       first # second /\ Collide(first, second, impulse)
  \/ NoMoreContacts
  \/ \E k \in DOMAIN fragments : Transfer(k) \/ Fragment(k)
  \/ RunDeaths

Spec == Init /\ [][Next]_vars

-----------------------------------------------------------------------------
Total(quantity(_)) == MapThenSumSet(LAMBDA i : quantity(node[i]), Present)

Budget == INSTANCE EnergyBudget WITH
  matter <- Total(LAMBDA n : n.mass),
  reserves <- Total(LAMBDA n : n.energy),
  vented <- closed.vented + Total(LAMBDA n : n.ledger["vented"]),
  spent <- closed.spent
             + Total(LAMBDA n : n.ledger["dissipated"] + n.ledger["actuation"])

Entry == {e \in [victim : Ids, killer : Ids \cup {NoOne}, share : Nat] :
            e.victim # e.killer}

TypeOK ==
  /\ node \in [Ids -> Node \cup {Absent}]
  /\ phase \in DOMAIN After \cup {"deaths"}
  /\ IF phase = "harvest" THEN todo \subseteq Ids \X Ids
                          ELSE todo \subseteq Nat \ {0}
  /\ fragments \in Seq(Entry)
  /\ deaths \subseteq Ids
  /\ ticks \in 0..MaxTicks
  /\ closed \in [vented : Nat, spent : Nat]

\* Every node's ledger accounts for its reserve, through every order of
\* harvests, discharges, kills, births and refused spends: no system moves
\* energy past the ledger ("All production energy mutation passes through the
\* EnergyLedger transaction API", ARCHITECTURE.md).
EveryNodeBalanced == \A i \in Present : Balanced(node[i])

\* No system makes or loses matter, and energy only enters through vents and
\* leaves by drain and actuation: fabrication, births, mutual kills, discharges
\* and fragmentation only move it (the economy implements EnergyBudget).
KeepsBudget == Budget!Spec

\* Between the contact that broke a victim and the transfer, nothing takes the
\* killer's share away: further hits, the victim's own kills and the other
\* entries of the queue leave the victim able to pay it in full, and what is
\* left for the daughters is never below zero
\* (accumulate_collision_damage, transfer_to_killers, run_fragmentation).
SharesFunded ==
  \A k \in DOMAIN fragments :
    LET victim == fragments[k].victim
    IN /\ phase = "collide" \/ (phase = "transfer" /\ k \in todo) =>
            victim \in Present /\ node[victim].energy >= fragments[k].share
       /\ phase = "fragment" /\ k \in todo =>
            victim \in Present /\ node[victim].energy >= 0

\* A node that the environment drained below zero is dead before the next tick
\* begins, so no living node ever acts with a negative reserve
\* (thermodynamic_drain queues it, run_deaths ends it).
OverdrawnAreDead ==
  phase = "act" => \A i \in Present : node[i].energy < 0 => node[i].dead

\* Only the environmental drain takes a reserve below zero, or lower when it is
\* below zero already: no spend, transfer or purchase does, in whatever order the
\* systems drain and feed a node before it is asked to pay (debit_exact and
\* debit_available against drain, components.rs).
OnlyDrainOverdraws ==
  [][\A i \in Present :
       /\ node'[i] # Absent
       /\ node'[i].energy < node[i].energy /\ node'[i].energy < 0
       => node'[i].ledger["dissipated"] - node[i].ledger["dissipated"]
            >= node[i].energy - node'[i].energy]_vars
=============================================================================
