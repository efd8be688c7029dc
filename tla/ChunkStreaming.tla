---------------------------- MODULE ChunkStreaming --------------------------
(***************************************************************************)
(* The chunks that are active around the agents, and the terrain that is   *)
(* generated when one becomes active and discarded when it no longer is.   *)
(* Terrain belongs to the chunk that generated it wherever physics moves   *)
(* it; other inert matter (rubble, structures, dead agents) belongs to the *)
(* chunk it lies in.                                                       *)
(*                                                                         *)
(* One row of chunks stands for the plane, one node for the five that a    *)
(* chunk is generated with, and one piece of rubble for all of it.         *)
(***************************************************************************)
EXTENDS Integers, FiniteSets

CONSTANTS
  Width,                \* bound: chunks agents may reach, on either side of 0
  Period                \* ticks between two looks at the chunks (120)

ASSUME StreamingAssumption == Width \in Nat /\ Period \in Nat \ {0}

Reachable == -Width..Width
Chunks == (-Width - 1)..(Width + 1)
Nowhere == Width + 2

VARIABLES
  at,                   \* where each agent is
  chunks,               \* ChunkManager: the active chunks
  terrain,              \* nodes with each ChunkOrigin
  rubble                \* where an inert node without one lies, if there is one

streamVars == <<at, chunks, terrain, rubble>>

\* A slip: the halo is counted from the edge of the agent's own halo.
HaloOfTwo(c) == (c - 2)..(c + 2)

Halo(c) == {c - 1, c, c + 1}

Desired(agents) == UNION {Halo(at[a]) : a \in agents}

\* A slip: terrain is generated for every desired chunk.
LoadedAll(desired) == desired

Loaded(desired) == desired \ chunks
Unloaded(desired) == chunks \ desired

\* step: ticks completed before this one.
Stream(agents, step) ==
  IF step % Period # 0
    THEN UNCHANGED streamVars
    ELSE /\ terrain' = [c \in Chunks |->
              IF c \in Unloaded(Desired(agents)) THEN 0
              ELSE terrain[c] + (IF c \in Loaded(Desired(agents)) THEN 1 ELSE 0)]
         /\ rubble' = IF rubble \in Unloaded(Desired(agents)) THEN Nowhere ELSE rubble
         /\ chunks' = Desired(agents)
         /\ UNCHANGED at

\* A world is seeded, or agents are put into an empty one, or its chunks are
\* marked active beforehand so that no terrain is generated.
StreamInit(seeded, preloaded) ==
  /\ chunks = seeded \cup preloaded
  /\ terrain = [c \in Chunks |-> IF c \in seeded THEN 1 ELSE 0]
  /\ rubble = Nowhere

StreamTypeOK ==
  /\ chunks \subseteq Chunks /\ rubble \in Reachable \cup {Nowhere}
  /\ terrain \in [Chunks -> Nat]
=============================================================================
