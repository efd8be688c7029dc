----------------------------- MODULE Population -----------------------------
(***************************************************************************)
(* Agents that are born, move, break, die and are restored, tick by tick:  *)
(* the controllers and the history of Lineage over the chunks of           *)
(* ChunkStreaming, in the order configure_world chains the systems.  Who   *)
(* can pay, who breaks and who is depleted is decided by the economy and   *)
(* is an input here.                                                       *)
(***************************************************************************)
EXTENDS Lineage, ChunkStreaming

CONSTANTS
  Founders,             \* agents the world starts with
  Grounds,              \* what its chunks may start as
  MaxTicks,             \* bound: ticks
  MaxRestores           \* bound: restores

ASSUME PopulationAssumption ==
  /\ Founders \subseteq Entities /\ Founders = 1..Cardinality(Founders)
  /\ Cardinality(Founders) <= MaxControllers
  /\ Grounds \subseteq [seeded : SUBSET Chunks, preloaded : SUBSET Chunks]
  /\ {MaxTicks, MaxRestores} \subseteq Nat

VARIABLES
  phase,                \* the system that runs next
  todo,                 \* agents reproduce_agents has still to look at
  deaths,               \* DeathQueue
  step,                 \* SimClock
  seen,                 \* history: agents that were live when a tick ended
  restores

controlVars == <<phase, todo, deaths, step, seen, restores>>
vars == <<lineageVars, streamVars, controlVars>>

Runs(system) == phase = system /\ step < MaxTicks

\* Inert matter stays behind in one of these chunks.
Left(places) == rubble' \in {rubble} \cup (IF rubble = Nowhere THEN places ELSE {})

Placed == at' = [e \in Entities |-> IF e \in Live' THEN at[e] ELSE 0]

-----------------------------------------------------------------------------
Gather ==
  /\ Runs("gather")
  /\ controllers' = Retained
  /\ phase' = "drain"
  /\ UNCHANGED <<marker, nextController, used, active, completed, streamVars,
                 todo, deaths, step, seen, restores>>

\* Who is depleted is queued before anyone is born.
Drain ==
  /\ Runs("drain")
  /\ deaths' \in SUBSET Live
  /\ todo' = Live
  /\ phase' = IF Live = {} THEN "physics" ELSE "births"
  /\ UNCHANGED <<lineageVars, streamVars, step, seen, restores>>

\* The newborn is where its parent is.
Reproduce(e) ==
  /\ Runs("births") /\ e \in todo /\ \A f \in todo : e <= f
  /\ \E accepts, funded \in BOOLEAN : Birth(e, accepts, funded)
  /\ at' = [f \in Entities |-> IF f \in used' \ used THEN at[e] ELSE at[f]]
  /\ todo' = todo \ {e}
  /\ phase' = IF todo' = {} THEN "physics" ELSE "births"
  /\ UNCHANGED <<chunks, terrain, rubble, deaths, step, seen, restores>>

\* An agent, or rubble, is carried into another chunk.
Physics ==
  /\ Runs("physics")
  /\ \/ UNCHANGED <<at, rubble>>
     \/ \E e \in Live, c \in Reachable : at' = [at EXCEPT ![e] = c] /\ UNCHANGED rubble
     \/ rubble # Nowhere /\ rubble' \in Reachable /\ UNCHANGED at
  /\ phase' = "fragment"
  /\ UNCHANGED <<lineageVars, chunks, terrain, todo, deaths, step, seen, restores>>

\* What breaks leaves rubble where it was; terrain may have drifted anywhere.
Fragment ==
  /\ Runs("fragment")
  /\ \/ \E victims \in SUBSET Live :
          /\ Ended(victims)
          /\ Left({at[e] : e \in victims})
          /\ Placed
          /\ UNCHANGED terrain
     \/ \E c \in Chunks :
          /\ terrain[c] > 0
          /\ terrain' = [terrain EXCEPT ![c] = @ - 1]
          /\ Left(Reachable)
          /\ UNCHANGED <<lineageVars, at>>
  /\ phase' = "deaths"
  /\ UNCHANGED <<chunks, todo, deaths, step, seen, restores>>

RunDeaths ==
  /\ Runs("deaths")
  /\ Ended(deaths)
  /\ Left({at[e] : e \in deaths \cap Live})
  /\ deaths' = {}
  /\ Placed
  /\ phase' = "stream"
  /\ UNCHANGED <<chunks, terrain, todo, step, seen, restores>>

StreamChunks ==
  /\ Runs("stream")
  /\ Stream(Live, step)
  /\ phase' = "record"
  /\ UNCHANGED <<lineageVars, todo, deaths, step, seen, restores>>

Record ==
  /\ Runs("record")
  /\ RecordHistory
  /\ seen' = seen \cup Live
  /\ step' = step + 1
  /\ phase' = "gather"
  /\ UNCHANGED <<streamVars, todo, deaths, restores>>

\* A slip: the set of active chunks is not restored.
RestoredChunksNone == {}

RestoredChunks == chunks

\* A snapshot is restored with the controllers "given"; an agent without one
\* stays as an inert body.
Restore ==
  /\ Runs("gather") /\ restores < MaxRestores
  /\ \E given \in SUBSET Live :
       /\ Restored(given)
       /\ Left({at[e] : e \in Live \ given})
       /\ Placed
  /\ chunks' = RestoredChunks
  /\ seen' = {}
  /\ restores' = restores + 1
  /\ UNCHANGED <<terrain, phase, todo, deaths, step>>

-----------------------------------------------------------------------------
Init ==
  /\ Founded(Founders)
  /\ at = [e \in Entities |-> 0]
  /\ \E g \in Grounds : StreamInit(g.seeded, g.preloaded)
  /\ phase = "gather" /\ todo = {} /\ deaths = {} /\ step = 0
  /\ seen = {} /\ restores = 0

Next ==
  \/ Gather \/ Drain \/ Physics \/ Fragment \/ RunDeaths \/ StreamChunks \/ Record
  \/ \E e \in Entities : Reproduce(e)
  \/ Restore

Spec == Init /\ [][Next]_vars

-----------------------------------------------------------------------------
TypeOK ==
  /\ LineageTypeOK /\ StreamTypeOK
  /\ at \in [Entities -> Reachable]
  /\ phase \in {"gather", "drain", "births", "physics", "fragment", "deaths", "stream",
                "record"}
  /\ todo \subseteq Live /\ deaths \subseteq used
  /\ seen \subseteq used
  /\ step \in 0..MaxTicks /\ restores \in 0..MaxRestores

\* Every live agent has a controller of its own, through births, deaths before the
\* next retain, controllers that were dropped and numbers that were given before
\* (WorldAgents; "Each live agent entity owns a controller ID", ARCHITECTURE.md).
EveryAgentControlled ==
  /\ \A e \in Live : marker[e].controller \in controllers
  /\ \A e, f \in Live : marker[e].controller = marker[f].controller => e = f

\* Between ticks the evaluator is given each agent that was ever live when a tick
\* of this process ended, exactly once, whichever way it ended and whoever else
\* did (record_agent_history: "Maintains an append-only outcome record so dead
\* agents remain visible"; collect_competence).
OutcomesComplete ==
  phase = "gather" /\ seen # {} =>
    \A e \in seen :
      Cardinality({k \in DOMAIN Competence : Competence[k].entity = e}) = 1

\* No piece of terrain exists twice: what a chunk generated is gone before it may
\* generate again, wherever it drifted, also in a world that was restored
\* (stream_chunks, ChunkOrigin, restore_active_chunks).
TerrainOnce ==
  \A c \in Chunks : terrain[c] <= 1 /\ (terrain[c] > 0 => c \in chunks)
=============================================================================
