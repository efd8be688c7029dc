--------------------------- MODULE MCEnergyEconomy --------------------------
EXTENDS EnergyEconomy

\* Energy unit: divisible by every half, third and weighted share of two ticks.
U == 6 * 288

Empty == [i \in Ids |-> Absent]
World(bodies) == [i \in Ids |-> IF i \in DOMAIN bodies THEN bodies[i] ELSE Absent]

Agent(energy, structure) == Body(energy * U, 72, structure, 4, {"AGENT"})
Terrain(energy, tag) == Body(energy * U, 36, 16, 4, {tag})

\* An agent with a surplus beside a source, a trap, a vent or a shelter, and one
\* that dies unless it is fed.
FlowPopulations ==
  {World(<<Agent(9, 16), Agent(1, 16), Terrain(2, "ENERGY_CONVERTIBLE"), Terrain(4, t)>>)
     : t \in {"VOLATILE_TRAP", "SHELTER"}}

\* An agent that can live on a vent for several ticks.
VentPopulations == {World(<<Agent(9, 16), Terrain(3, "THERMAL_VENT")>>)}

MCPopulations == FlowPopulations \cup VentPopulations

FlowCommands ==
  {[move |-> 0, drive |-> 0, clamp |-> FALSE, fabricate |-> FALSE],
   [move |-> 2 * U, drive |-> U, clamp |-> TRUE, fabricate |-> TRUE]}

FlowRates == {0, U, 4 * U}

\* Agents and a victim whose structure is nearly gone; the first agent is
\* drained to nothing in the first tick.
KillPopulations ==
  {World(<<Agent(1, 1), Agent(8, 1), Agent(8, 8)>>),
   World(<<Agent(1, 1), Terrain(8, "ENERGY_CONVERTIBLE"), Agent(8, 1)>>)}

Idle == {[move |-> 0, drive |-> 0, clamp |-> FALSE, fabricate |-> FALSE]}
=============================================================================
