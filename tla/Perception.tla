----------------------------- MODULE Perception -----------------------------
(***************************************************************************)
(* What an agent is shown and what its answer does, tick by tick: the hash *)
(* of positions is rebuilt, every agent in turn is shown its surroundings  *)
(* and answers, the clamps it asks for seize a neighbour, and physics      *)
(* moves a body.  Observations and answers cross the wire of WireTensor.   *)
(* Bodies keep to a grid and turn by quarters; a place where the fields    *)
(* are sampled is given by its distance and direction from a body.         *)
(***************************************************************************)
EXTENDS WireTensor, FiniteSets

CONSTANTS
  Bodies,
  Agents,
  Places,               \* where bodies may be
  Arrangements,         \* where they may start
  TagsOf,               \* tag mask of each body
  Radius,               \* sensor_radius of each agent
  Reach,                \* how far a clamp reaches
  CellSize,             \* CELL_SIZE of the hash
  Answers,              \* actions a program may send
  Starts,               \* clock readings to start from
  Circle,               \* a whole turn, in units that its parts are whole numbers of
  Slope(_, _),          \* gradient of a field at a sampled place
  MaxTicks              \* bound: ticks

None == 0
Away == <<>>            \* where a body is that is not in the world

ASSUME PerceptionAssumption ==
  /\ Bodies \subseteq Nat \ {None} /\ IsFiniteSet(Bodies) /\ Agents \subseteq Bodies
  /\ Places \subseteq Int \X Int
  /\ Arrangements \subseteq [Bodies -> Places \cup {Away}]
  /\ \A pos \in Arrangements, a \in Agents : pos[a] # Away
  /\ TagsOf \in [Bodies -> 0..(Chunk * Chunk * Chunk * Chunk - 1)]
  /\ Radius \in [Agents -> Nat] /\ Reach \in Nat /\ CellSize \in Nat \ {0}
  /\ Answers \subseteq [force : Nat \cup {NonFinite}, torque : Int \cup {NonFinite},
                          clamp : Int \cup {NonFinite}, freq : Int \cup {NonFinite},
                          phase : Int \cup {NonFinite}]
  /\ Bodies \cup Starts \subseteq 0..(Word * Word - 1) /\ MaxTicks \in Nat

\* Where the fields may be sampled.
Probes ==
  [from : Places, out : {0} \cup {Radius[a] : a \in Agents}, angle : 0..(Circle - 1)]

ASSUME FieldAssumption ==
  /\ Circle \in Nat \ {0} /\ Circle % 4 = 0
  /\ FieldSamples > 1 => Circle % (FieldSamples - 1) = 0
  /\ \A f \in 0..(FieldCount - 1), place \in Probes : Slope(f, place) \in Int \X Int

VARIABLES
  pos, turn,            \* Transform of the bodies, turn in quarters
  cells,                \* SpatialHash
  step, ticks,          \* SimClock; ticks so far
  phase,                \* the system that runs next
  jobs,                 \* agents it has still to visit
  scratch,              \* ObservationScratch.views
  floats,               \* the observation each agent was last sent
  pending,              \* PendingActions: action and stamp of each agent
  seized                \* the body each agent's clamp took in this tick

vars == <<pos, turn, cells, step, ticks, phase, jobs, scratch, floats, pending, seized>>

Present == {b \in Bodies : pos[b] # Away}
Minus(p, q) == <<p[1] - q[1], p[2] - q[2]>>
Plus(p, q) == <<p[1] + q[1], p[2] + q[2]>>
Square(p) == p[1] * p[1] + p[2] * p[2]

\* A vector turned by quarters.
Turned(p, quarters) ==
  CASE quarters % 4 = 0 -> p
    [] quarters % 4 = 1 -> <<-p[2], p[1]>>
    [] quarters % 4 = 2 -> <<-p[1], -p[2]>>
    [] OTHER -> <<p[2], -p[1]>>

-----------------------------------------------------------------------------
(* The spatial hash. *)

CellOf(p) == <<p[1] \div CellSize, p[2] \div CellSize>>

\* A slip: the radius in cells is rounded down.
CellsAcrossDown(radius) == radius \div CellSize

CellsAcross(radius) == (radius + CellSize - 1) \div CellSize

Rebuilt == [c \in {CellOf(pos[b]) : b \in Present} |-> {b \in Present : CellOf(pos[b]) = c}]

\* What is in the square of cells around p, near enough or not.
QueryRadius(p, radius) ==
  LET r == CellsAcross(radius)
      Square1(c) == \A i \in {1, 2} : c[i] - CellOf(p)[i] \in -r..r
  IN UNION {cells[c] : c \in {d \in DOMAIN cells : Square1(d)}}

Distance(a, b) == Square(Minus(pos[b], pos[a]))

Sensed(a, radius) ==
  {b \in QueryRadius(pos[a], radius) \ {a} :
     b \in Present /\ Distance(a, b) <= radius * radius}

-----------------------------------------------------------------------------
(* Observations. *)

InFrame(a, v) == Turned(v, -turn[a])

View(a, b) == [rel |-> InFrame(a, Minus(pos[b], pos[a])), tags |-> TagsOf[b], valid |-> TRUE]

\* A slip: the scratch still holds what the agent before was shown.
ClearedNot == scratch

Cleared == <<>>

\* The nearest come first; equals come in any order.
Nearest(a, candidates) ==
  LET n == Cardinality(candidates)
      keep == IF n < MaxNeighbors THEN n ELSE MaxNeighbors
  IN {s \in [1..keep -> candidates] :
        /\ \A i, j \in 1..keep : i < j => s[i] # s[j] /\ Distance(a, s[i]) <= Distance(a, s[j])
        /\ \A b \in candidates \ {s[i] : i \in 1..keep}, i \in 1..keep :
             Distance(a, s[i]) <= Distance(a, b)}

\* A slip: the ring is divided among all samples, the one at the centre too.
ProbeOverAll(a, s) ==
  IF s = 0 \/ FieldSamples = 1 THEN [from |-> pos[a], out |-> 0, angle |-> 0]
  ELSE [from |-> pos[a], out |-> Radius[a],
        angle |-> ((turn[a] * Circle) \div 4 + ((s - 1) * Circle) \div FieldSamples) % Circle]

\* A slip: the ring does not turn with the agent.
ProbeUnturned(a, s) ==
  IF s = 0 \/ FieldSamples = 1 THEN [from |-> pos[a], out |-> 0, angle |-> 0]
  ELSE [from |-> pos[a], out |-> Radius[a],
        angle |-> (((s - 1) * Circle) \div (FieldSamples - 1)) % Circle]

\* Sample 0 is where the agent is, the others are on the ring around it.
ProbeOf(a, s) ==
  IF s = 0 \/ FieldSamples = 1 THEN [from |-> pos[a], out |-> 0, angle |-> 0]
  ELSE LET ahead == (turn[a] * Circle) \div 4
           local == ((s - 1) * Circle) \div (FieldSamples - 1)
       IN [from |-> pos[a], out |-> Radius[a], angle |-> (ahead + local) % Circle]

\* FieldSampler: what is read of a field tells the field and the place.
Sampled(f, place) == [field |-> f, place |-> place]

\* A slip: the gradient is left in the world's frame.
ChannelsOfWorld(a, f, s) ==
  LET place == ProbeOf(a, s)
  IN <<Sampled(f, place), Slope(f, place)[1], Slope(f, place)[2]>>

Channels(a, f, s) ==
  LET place == ProbeOf(a, s)
      gradient == InFrame(a, Slope(f, place))
  IN <<Sampled(f, place), gradient[1], gradient[2]>>

\* A slip: samples and fields change places.
FieldOfSamples(a) ==
  [i \in 1..FieldFloatCount |->
     LET at == (i - 1) \div FieldChannels
     IN Channels(a, at % FieldCount, at \div FieldCount)[((i - 1) % FieldChannels) + 1]]

FieldFloats(a) ==
  [i \in 1..FieldFloatCount |->
     LET at == (i - 1) \div FieldChannels
     IN Channels(a, at \div FieldSamples, at % FieldSamples)[((i - 1) % FieldChannels) + 1]]

Observed(a, order) ==
  LET views == Cleared \o [k \in DOMAIN order |-> View(a, order[k])]
  IN /\ scratch' = views
     /\ floats' = [floats EXCEPT ![a] = ToFloats(0, FieldFloats(a), Padded(views))]

-----------------------------------------------------------------------------
Runs(system) == phase = system /\ ticks < MaxTicks
NextJob(a) == a \in jobs /\ \A b \in jobs : a <= b

NoAction ==
  [action |-> Sanitized([force |-> 0, torque |-> 0, clamp |-> 0, freq |-> 0, phase |-> 0]),
   step |-> None, entity |-> None]

RebuildSpatialHash ==
  /\ Runs("rebuild")
  /\ cells' = Rebuilt
  /\ phase' = "gather" /\ jobs' = Agents
  /\ pending' = [a \in Agents |-> NoAction]
  /\ UNCHANGED <<pos, turn, step, ticks, scratch, floats, seized>>

\* A program answers under the stamp of what it was shown; what it sends is
\* sanitized when it is decoded and again before it is queued.
GatherAction(a) ==
  /\ Runs("gather") /\ NextJob(a)
  /\ \E order \in Nearest(a, Sensed(a, Radius[a])) : Observed(a, order)
  /\ \E answer \in Answers :
       pending' = [pending EXCEPT ![a] = [action |-> Sanitized(Sanitized(answer)),
                                          step |-> Number(Words(step)),
                                          entity |-> Number(Words(a))]]
  /\ jobs' = IF jobs = {a} THEN Agents ELSE jobs \ {a}
  /\ phase' = IF jobs = {a} THEN "apply" ELSE "gather"
  /\ UNCHANGED <<pos, turn, cells, step, ticks, seized>>

\* A slip: of two bodies the later one scanned is taken.
ClosestAny(a) == Sensed(a, Reach)

Closest(a) ==
  {b \in Sensed(a, Reach) : \A c \in Sensed(a, Reach) : Distance(a, b) <= Distance(a, c)}

\* The clamp of an action that finds the agent free.
ApplyActuators(a) ==
  /\ Runs("apply") /\ NextJob(a)
  /\ IF 2 * pending[a].action.clamp > Unit /\ Closest(a) # {}
     THEN \E b \in Closest(a) : seized' = [seized EXCEPT ![a] = b]
     ELSE UNCHANGED seized
  /\ jobs' = jobs \ {a}
  /\ phase' = IF jobs = {a} THEN "physics" ELSE "apply"
  /\ UNCHANGED <<pos, turn, cells, step, ticks, scratch, floats, pending>>

\* A body moves, turns, leaves the world or enters it; the clock saturates.
Physics ==
  /\ Runs("physics")
  /\ \E b \in Bodies :
       \/ \E p \in Places \cup (IF b \in Agents THEN {} ELSE {Away}) :
            pos' = [pos EXCEPT ![b] = p] /\ UNCHANGED turn
       \/ turn' = [turn EXCEPT ![b] = (@ + 1) % 4] /\ UNCHANGED pos
  /\ step' = IF step = Word * Word - 1 THEN step ELSE step + 1
  /\ ticks' = ticks + 1
  /\ phase' = "rebuild"
  /\ seized' = [a \in Agents |-> None]
  /\ UNCHANGED <<cells, jobs, scratch, floats, pending>>

Init ==
  /\ pos \in Arrangements /\ turn = [b \in Bodies |-> 0]
  /\ cells = <<>> /\ scratch = <<>>
  /\ step \in Starts /\ ticks = 0
  /\ phase = "rebuild" /\ jobs = {}
  /\ floats = [a \in Agents |-> <<>>]
  /\ pending = [a \in Agents |-> NoAction]
  /\ seized = [a \in Agents |-> None]

Next ==
  \/ RebuildSpatialHash \/ Physics
  \/ \E a \in Agents : GatherAction(a)
  \/ \E a \in Agents : ApplyActuators(a)

Spec == Init /\ [][Next]_vars

-----------------------------------------------------------------------------
\* The agent has been shown the world as it is now.
Shown(a) == phase \in {"apply", "physics"} \/ (phase = "gather" /\ a \notin jobs)

\* Every frame has the length the configuration announces, whatever is near.
TypeOK ==
  /\ pos \in [Bodies -> Places \cup {Away}] /\ turn \in [Bodies -> 0..3]
  /\ step \in 0..(Word * Word - 1) /\ ticks \in 0..MaxTicks
  /\ phase \in {"rebuild", "gather", "apply", "physics"} /\ jobs \subseteq Agents
  /\ \A a \in Agents : Shown(a) => Len(floats[a]) = ObservationLen
  /\ seized \in [Agents -> Bodies \cup {None}]

\* Decoded, an observation lists bodies that are there, each at its place
\* and with its whole tag mask, nearest first, ghosts last; a body left out is
\* out of the radius, or no nearer than every one of a full list.
\* (build_observation, to_f32_vec and from_f32_slice)
ViewFaithful ==
  \A a \in Agents : Shown(a) =>
    LET shown == NeighborsOf(floats[a])
        Valid == {k \in 1..MaxNeighbors : shown[k].valid}
        Where(k) == Plus(pos[a], Turned(shown[k].rel, turn[a]))
        Is(k, b) == pos[b] = Where(k) /\ TagsOf[b] = shown[k].tags
    IN /\ \A k \in Valid : \A j \in 1..k :
            j \in Valid /\ Square(shown[j].rel) <= Square(shown[k].rel)
       /\ \A k \in Valid :
            /\ Square(shown[k].rel) <= Radius[a] * Radius[a]
            /\ \E b \in Present \ {a} : Is(k, b)
       /\ \A b \in Present \ {a} :
            \/ \E k \in Valid : Is(k, b)
            \/ Distance(a, b) > Radius[a] * Radius[a]
            \/ Valid = 1..MaxNeighbors /\ Square(shown[MaxNeighbors].rel) <= Distance(a, b)

\* Decoded, every field is sampled where PROTOCOL.md says: "Probe zero is at the
\* agent; remaining probes form an egocentric ring at the sensor radius": the
\* first of them straight ahead, and from each to the next, as from the last
\* back to the first, the same part of one whole turn.  The gradient beside a
\* value is the slope at the very place of that value, "in the agent's local
\* frame".  (build_observation, to_f32_vec and from_f32_slice)
FieldsFaithful ==
  \A a \in Agents : Shown(a) =>
    \A f \in 0..(FieldCount - 1) :
      LET Channel(s, c) == FieldOf(floats[a])[FieldIndex(f, s, c)]
          Place(s) == Channel(s, 0).place
          corners == FieldSamples - 1
          Apart(s, t) == (Place(t).angle - Place(s).angle) % Circle
      IN /\ \A s \in 0..corners :
              /\ Channel(s, 0).field = f /\ Place(s).from = pos[a]
              /\ Place(s).out = IF s = 0 THEN 0 ELSE Radius[a]
              /\ Turned(<<Channel(s, 1), Channel(s, 2)>>, turn[a]) = Slope(f, Place(s))
         /\ corners > 0 => 4 * Place(1).angle = turn[a] * Circle
         /\ corners > 1 => /\ \A s \in 1..(corners - 1) : corners * Apart(s, s + 1) = Circle
                           /\ corners * Apart(corners, 1) = Circle

\* The body a clamp seizes is as near as the first neighbour its program was
\* shown; nothing is seized that a program with sensors as long as its reach was
\* not shown.  (nearest_neighbor against build_observation)
SeizesWhatWasShown ==
  \A a \in Agents : phase \in {"apply", "physics"} /\ seized[a] # None =>
    LET first == NeighborsOf(floats[a])[1]
    IN /\ Radius[a] >= Reach => first.valid
       /\ first.valid /\ Square(first.rel) <= Reach * Reach =>
            Distance(a, seized[a]) = Square(first.rel)

\* Whatever a program sends, the command that is queued for its agent is finite,
\* within its bands, and stamped as the answer to this tick's observation of
\* that agent, however large clock and entity are.  (sanitize, "so downstream
\* code never sees NaN/inf or out-of-band values"; decode_action)
CommandsSound ==
  \A a \in Agents :
    LET p == pending[a]
        c == p.action
    IN /\ c.force \in 0..Unit /\ c.torque \in -Unit..Unit /\ c.clamp \in 0..Unit
       /\ c.freq \in (-16 * Unit)..(16 * Unit) /\ c.phase \in 0..Turn
       /\ phase \in {"apply", "physics"} => p.step = step /\ p.entity = a
=============================================================================
