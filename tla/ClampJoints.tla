----------------------------- MODULE ClampJoints ----------------------------
(***************************************************************************)
(* Clamps of agents and the joint entities they hold, through every system *)
(* of a tick that spawns or despawns an entity.  Systems do not change the *)
(* world at once: they queue commands, applied one at a time before the    *)
(* next system of the chain runs.  A clamp names its joint and its target  *)
(* by entity, and nothing tells it when either is gone.                    *)
(*                                                                         *)
(* Which bodies are near, which break, die, are born or leave the active   *)
(* chunks is decided elsewhere and is an input here.  An entity number is  *)
(* used again only when nothing refers to it (Bevy's generations).         *)
(***************************************************************************)
EXTENDS Naturals, SequencesExt, FiniteSetsExt

CONSTANTS
  MaxBodies,            \* bound: bodies that exist at one time
  MaxJoints,            \* bound: joints that exist at one time
  Crowds,               \* bodies the world may start with
  MaxTicks,             \* bound: ticks
  MaxLosses,            \* bound: bodies that one system takes away in a tick
  CooldownTicks,        \* CLAMP_COOLDOWN in ticks
  Arrivals,             \* kinds of body that are fabricated, born or streamed in
  Embedded              \* TRUE: the embedding program may despawn bodies itself

Bodies == 1..MaxBodies
Joints == 1..MaxJoints
Kind == {"agent", "inert", "dead"}
None == 0

ASSUME ClampAssumption ==
  /\ {MaxBodies, MaxJoints, MaxTicks, MaxLosses} \subseteq Nat
  /\ CooldownTicks \in Nat \ {0}
  /\ Crowds \subseteq [Bodies -> Kind \cup {"none"}]
  /\ Arrivals \subseteq {"agent", "inert"}
  /\ Embedded \in BOOLEAN

VARIABLES
  body,                 \* what each body is; "none": no such entity
  clamp,                \* ClampState of the agents
  joint,                \* ClampJoint entities
  commands,             \* the queue of the system that ran last
  phase,                \* the system that runs next
  pending,              \* actors whose actuators have still to be applied
  deaths,               \* DeathQueue
  ticks

clampVars == <<body, clamp, joint, commands, phase, pending, deaths, ticks>>

Open == [target |-> None, joint |-> None, cool |-> 0]
NoJoint == [owner |-> None, target |-> None]

Present == {b \in Bodies : body[b] # "none"}
Agents == {b \in Bodies : body[b] = "agent"}
Held == {j \in Joints : joint[j] # NoJoint}
Touching(bodies) == {j \in Held : {joint[j].owner, joint[j].target} \cap bodies # {}}

\* Entities that nothing refers to.
FreshBodies ==
  {b \in Bodies \ (Present \cup deaths) :
     /\ \A a \in Agents : clamp[a].target # b
     /\ \A j \in Held : b \notin {joint[j].owner, joint[j].target}}
FreshJoints ==
  {j \in Joints \ Held :
     /\ \A a \in Agents : clamp[a].joint # j
     /\ \A k \in DOMAIN commands : commands[k].joint # j}
FirstBodies(n) == {b \in FreshBodies : Cardinality({c \in FreshBodies : c <= b}) <= n}

-----------------------------------------------------------------------------
(* Commands. *)

Command(op, b, j, value) == [op |-> op, body |-> b, joint |-> j, value |-> value]
Unjoin(j) == Command("unjoin", None, j, None)
Join(j, owner, target) == Command("join", owner, j, target)
Despawn(b) == Command("despawn", b, None, None)
Spawn(b, kind) == Command("spawn", b, None, kind)

Queue(operator(_), entities) ==
  LET order == SetToSeq(entities) IN [k \in DOMAIN order |-> operator(order[k])]

\* A slip: endpoints are queued before the joints that hold on to them.
DespawnBodiesFirst(bodies) == Queue(Despawn, bodies) \o Queue(Unjoin, Touching(bodies))

DespawnEntities(bodies) == Queue(Unjoin, Touching(bodies)) \o Queue(Despawn, bodies)

\* A command on an entity that is gone does nothing.
ApplyCommand ==
  /\ commands # <<>> /\ phase # "act"
  /\ LET c == Head(commands)
     IN \/ /\ c.op = "unjoin"
           /\ joint' = [joint EXCEPT ![c.joint] = NoJoint]
           /\ UNCHANGED <<body, clamp>>
        \/ /\ c.op = "join"
           /\ joint' = [joint EXCEPT ![c.joint] = [owner |-> c.body, target |-> c.value]]
           /\ UNCHANGED <<body, clamp>>
        \/ /\ c.op = "despawn"
           /\ body' = [body EXCEPT ![c.body] = "none"]
           /\ clamp' = [clamp EXCEPT ![c.body] = Open]
           /\ UNCHANGED joint
        \/ /\ c.op = "spawn"
           /\ body' = [body EXCEPT ![c.body] = c.value]
           /\ UNCHANGED <<clamp, joint>>
  /\ commands' = Tail(commands)
  /\ UNCHANGED <<phase, pending, deaths, ticks>>

Runs(system) == phase = system /\ commands = <<>>

-----------------------------------------------------------------------------
(* cleanup_clamp_joints *)

Orphans ==
  {j \in Held : joint[j].owner \notin Agents \/ clamp[joint[j].owner].joint # j}

\* A slip: a clamp is repaired when its target is gone, not when its joint is.
BrokenByTarget == {a \in Agents : clamp[a].target \notin Present \cup {None}}

Broken ==
  {a \in Agents : \/ clamp[a].target \notin Present \cup {None}
                  \/ clamp[a].joint \notin Held \cup {None}}

Cleanup ==
  /\ Runs("cleanup")
  /\ commands' = Queue(Unjoin, Orphans)
                   \o Queue(Unjoin, {clamp[a].joint : a \in Broken} \ {None})
  /\ clamp' = [a \in Bodies |-> IF a \in Broken
                                  THEN [Open EXCEPT !.cool = CooldownTicks]
                                  ELSE clamp[a]]
  /\ phase' = "gather"
  /\ UNCHANGED <<body, joint, pending, deaths, ticks>>

-----------------------------------------------------------------------------
(* gather_agent_actions and the clamp of apply_one *)

Gather ==
  /\ Runs("gather")
  /\ pending' = Agents
  /\ phase' = IF Agents = {} THEN "economy" ELSE "act"
  /\ UNCHANGED <<body, clamp, joint, commands, deaths, ticks>>

Cooled(c) == [c EXCEPT !.cool = IF @ > 0 THEN @ - 1 ELSE 0]

\* A clamp let go on purpose cools only if it held something.
Opened(c) ==
  [Open EXCEPT !.cool = IF c.joint # None THEN CooldownTicks ELSE c.cool]

Dropped == [Open EXCEPT !.cool = CooldownTicks]

Unhand(c) == IF c.joint = None THEN <<>> ELSE <<Unjoin(c.joint)>>

\* near: the nearest body within reach, if any; spent: no reserve is left after
\* the clamp has drawn what it costs.
ApplyOne(a, want, spent, near) ==
  LET c == Cooled(clamp[a])
      seizes == want /\ c.cool = 0 /\ c.target = None /\ near # None
      j == CHOOSE k \in FreshJoints : TRUE
      wished == IF seizes THEN [c EXCEPT !.target = near, !.joint = j]
                ELSE IF want THEN c ELSE Opened(c)
      drops == wished.target # None /\ (wished.target \notin Present \/ spent)
  IN /\ seizes => FreshJoints # {}     \* bound
     /\ clamp' = [clamp EXCEPT ![a] = IF drops THEN Dropped ELSE wished]
     /\ commands' = commands
          \o (IF seizes THEN <<Join(j, a, near)>> ELSE <<>>)
          \o (IF want THEN <<>> ELSE Unhand(c))
          \o (IF drops THEN Unhand(wished) ELSE <<>>)

Act(a) ==
  /\ phase = "act" /\ a \in pending
  /\ \E want, spent \in BOOLEAN, near \in (Present \ {a}) \cup {None} :
       ApplyOne(a, want, spent, near)
  /\ pending' = pending \ {a}
  /\ phase' = IF pending' = {} THEN "economy" ELSE "act"
  /\ UNCHANGED <<body, joint, deaths, ticks>>

-----------------------------------------------------------------------------
(* Fabrication, births and the drain; fragmentation, deaths and streaming. *)

Losses(bodies) == {s \in SUBSET bodies : Cardinality(s) <= MaxLosses}

Economy ==
  /\ Runs("economy")
  /\ deaths' \in Losses({b \in Present : body[b] # "dead"})
  /\ \/ commands' = <<>>
     \/ \E kind \in Arrivals : commands' = Queue(LAMBDA b : Spawn(b, kind), FirstBodies(1))
  /\ phase' = "fragment"
  /\ UNCHANGED <<body, clamp, joint, pending, ticks>>

\* The queued bodies that are large enough are replaced by two or three each.
Fragment ==
  /\ Runs("fragment")
  /\ \E victims \in Losses(Present) :
       \E n \in (2 * Cardinality(victims))..(3 * Cardinality(victims)) :
         /\ n <= Cardinality(FreshBodies)   \* bound
         /\ commands' = DespawnEntities(victims)
                          \o Queue(LAMBDA b : Spawn(b, "inert"), FirstBodies(n))
  /\ phase' = "deaths"
  /\ UNCHANGED <<body, clamp, joint, pending, deaths, ticks>>

\* A slip: the dead keep their ClampState.
ClampsLeft(dead) == clamp

ClampsAfter(dead) == [b \in Bodies |-> IF b \in dead THEN Open ELSE clamp[b]]

\* run_deaths has the world to itself: nothing is queued.
RunDeaths ==
  /\ Runs("deaths")
  /\ LET dead == deaths \cap Present
     IN /\ joint' = [j \in Joints |-> IF j \in Touching(dead) THEN NoJoint ELSE joint[j]]
        /\ body' = [b \in Bodies |-> IF b \in dead THEN "dead" ELSE body[b]]
        /\ clamp' = ClampsAfter(dead)
  /\ deaths' = {}
  /\ phase' = "stream"
  /\ UNCHANGED <<commands, pending, ticks>>

StreamChunks ==
  /\ Runs("stream")
  /\ \E gone \in Losses(Present \ Agents) :
       \E new \in {{}} \cup {FirstBodies(1) : kind \in Arrivals \ {"agent"}} :
         commands' = Queue(LAMBDA b : Spawn(b, "inert"), new) \o DespawnEntities(gone)
  /\ phase' = "boundary"
  /\ ticks' = ticks + 1
  /\ UNCHANGED <<body, clamp, joint, pending, deaths>>

-----------------------------------------------------------------------------
(* Between ticks. *)

\* The embedding program despawns a body as it likes.
RemoveEntity(b) ==
  /\ Embedded /\ Runs("boundary") /\ b \in Present
  /\ body' = [body EXCEPT ![b] = "none"]
  /\ clamp' = [clamp EXCEPT ![b] = Open]
  /\ UNCHANGED <<joint, commands, phase, pending, deaths, ticks>>

NextTick ==
  /\ Runs("boundary") /\ ticks < MaxTicks
  /\ phase' = "cleanup"
  /\ UNCHANGED <<body, clamp, joint, commands, pending, deaths, ticks>>

ClampInit ==
  /\ body \in Crowds
  /\ clamp = [b \in Bodies |-> Open]
  /\ joint = [j \in Joints |-> NoJoint]
  /\ commands = <<>>
  /\ phase = "boundary"
  /\ pending = {}
  /\ deaths = {}
  /\ ticks = 0

Tick ==
  \/ ApplyCommand
  \/ Cleanup \/ Gather \/ Economy \/ Fragment \/ RunDeaths \/ StreamChunks
  \/ \E a \in Bodies : Act(a)
  \/ NextTick

-----------------------------------------------------------------------------
ClampTypeOK ==
  /\ body \in [Bodies -> Kind \cup {"none"}]
  /\ clamp \in [Bodies -> [target : Bodies \cup {None}, joint : Joints \cup {None},
                           cool : 0..CooldownTicks]]
  /\ \A b \in Bodies \ Agents : clamp[b] = Open
  /\ joint \in [Joints -> [owner : Bodies, target : Bodies] \cup {NoJoint}]
  /\ phase \in {"cleanup", "gather", "act", "economy", "fragment", "deaths", "stream",
                "boundary"}
  /\ pending \subseteq Agents /\ deaths \subseteq Bodies
  /\ ticks \in 0..MaxTicks

\* No command of any system takes an endpoint from under a joint that still
\* exists, whatever broke, died or left the active chunks in the same tick:
\* "Queue joint entities before queueing their physical endpoints for despawn.
\* Avian relationship hooks require this ordering" (despawn_physical_entities).
EndpointsOutliveJoints ==
  [][commands # <<>> =>
       \A j \in Held : /\ joint'[j] = joint[j]
                       /\ {joint[j].owner, joint[j].target} \subseteq Present
                       => {joint[j].owner, joint[j].target} \subseteq Present']_clampVars

\* When the actors of a tick are about to act, clamps and joints agree: every
\* clamp that holds a target holds it by a joint of its own between the two,
\* and every joint is held by its owner's clamp, whatever the previous tick,
\* the embedding program or a restore did to either end
\* (cleanup_clamp_joints: "Remove orphaned joint entities and reset clamp state
\* after either endpoint disappears").
ClampsAgree ==
  Runs("gather") =>
    /\ \A a \in Agents :
         LET c == clamp[a]
         IN IF c.target = None THEN c.joint = None
            ELSE c.joint \in Held /\ joint[c.joint] = [owner |-> a, target |-> c.target]
    /\ \A j \in Held : joint[j].owner \in Agents /\ clamp[joint[j].owner].joint = j
=============================================================================
