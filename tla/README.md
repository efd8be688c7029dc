# ERTW in TLA+

This directory holds the formal development of ERTW, the Extensible Relational
Tensor World: TLA+ modules translated from the Rust crates and the Python
client, TLC configurations that check them on small instances, and proofs that
TLAPS checks for every value of the constants. Source paths are relative to the
repository; `PROJECT.json` maps every definition to the lines it models.

## 1. The system

| Component | State | Operations | What is hard |
| --- | --- | --- | --- |
| Lockstep session (`ertw_server/src/lockstep.rs`) | listener, attached stream, lifecycle sequence, queue of undelivered events; held action, remaining ticks, decision sequence, last physical state | `attach`, `accept_resume`, `emit_lifecycle`, `exchange`, `LockstepAgent::act` | a connection may break between any two socket calls; replies may be late, repeated or foreign; nothing has a timeout |
| Lockstep binary (`bin/ertw-lockstep.rs`) | world, known agents | accept, tick loop, lifecycle events, exit | events are emitted on a stream that may be broken or detached |
| Python client (`clients/python`) | socket, metadata with the credentials, pending decision, lifecycle queue | `connect`, `next_decision`, `send_action`, `reconnect` | resending after a resume, frames in an order it did not ask for |
| Real-time bridge (`ertw_server/src/lib.rs`) | bounded observation queue, action queue, last action, bridge thread | `RemoteAgent::new`, `act`, `serve_one` | 100 ms timeouts race late replies; a timeout inside a frame; stale actions |
| Simulation tick (`ertw_core/src/lib.rs`) | ECS world, pending actions, clock | two ordered chains of systems before and after physics | state read by one system and used by a later one of the same tick |
| Controllers and observations (`agents.rs`) | registered controllers, pending actions, scratch of an observation | `gather_agent_actions`, `build_observation`, `spawn_child`, `retain` | scratch shared by all agents; an answer applied systems later |
| Actuators (`actuation.rs`) | clamp state and joints, cooldowns | `apply_one`, `cleanup_clamp_joints` | joints, endpoints and clamp state disappear in different systems |
| Economy (`components.rs`, `economy.rs`) | reserves, ledgers, death queue | credit, debit, drain, harvest, trap discharge, `run_deaths` | an audit identity over many transactions; death decided early, executed late |
| Fragmentation (`fragmentation.rs`) | stress, fragment queue | damage, transfer to killers, fragmentation | shares computed before they are paid; conservation |
| Lineage (`lineage.rs`, `agents.rs`) | controllers, reproduction state, history | `reproduce_agents`, `record_agent_history` | a controller without an entity, an outcome counted twice or never |
| Snapshots (`snapshot.rs`) | identity allocator | `capture`, `restore`, `ensure_stable_ids` | what is not captured; identities after a restore |
| Chunk streaming (`genesis.rs`) | active chunks | `stream_chunks`, `restore_active_chunks` | nodes that leave their chunk, nodes without one |
| Spatial hash (`spatial_hash.rs`) | cells | `rebuild`, `query_radius` | cell edges, radii that are no multiple of a cell |
| Wire interface (`ertw_interface`), relation tags | none | observation and action tensors, header, `sanitize`, tag chunks | rounding, widths, extreme and non-finite values |
| Fields (`fields.rs`), evaluator | none over time | sampling; `collect_competence`, `rank` | floating point; a total order of metrics |
| Observer (`ertw_render`) | pause flag, step request | gate of the tick | nothing: one run condition |

The world is a single thread that runs the systems of a tick in a fixed order;
controllers are called from it through the `Agent` trait. In lockstep mode the
controller is `LockstepAgent`, which shares the `SessionTransport` with the main
loop and talks to one external agent over TCP, blocking the world while it
waits. In real-time mode the controller is `RemoteAgent`, which exchanges
queues with a bridge thread and never waits. Snapshots, the evaluator and the
observer read the world from outside the tick.

`PROJECT.json` lists every component with its status, and under `hazards` the
places where this code is hard to test, each with the properties that watch it.
What makes each component correct:

- lockstep: a decision applies the agent's answer to this very step, once, and
  nobody else's; events reach the agent in order and each session event once;
- real time: a step applies a recent command of the client or none, and waits
  for nobody;
- economy: every reserve is accounted for, matter and energy are only moved, a
  debt is paid or refused but never overdrawn, and who is depleted dies;
- clamps: a clamp and its joint agree when actors act, and a joint goes before
  its endpoints;
- snapshots: an identity names one body for ever, and a restored world is the
  saved one;
- lineage and streaming: every live agent has a controller of its own, its
  outcome is recorded once, and no terrain is generated twice;
- perception: what a program is shown is the world as it is, and what it sends
  back is harmless whatever it is.

## 2. Modules

### Lockstep

| Module | What it models |
| --- | --- |
| `LockstepNet` | the TCP connections: the listener's backlog, frames in flight in each direction, ends that close, reset or vanish; external, modelled from how the code uses `std::net` |
| `LockstepServer` | the `ertw-lockstep` process: `SessionTransport`, `LockstepAgent` and `main`, one action per socket call and per step of the main loop |
| `LockstepSystem` | the server with a program that drives `LockstepClient` as its README shows, and with programs that connect with other credentials |
| `LockstepTurns` | the abstract contract of docs/PROTOCOL.md: wait for the agent's answer to this step, apply it, hold it without the fabrication edge |
| `MCLockstep` | the instances TLC checks |
| `LockstepProofs` | the inductive invariant and its proof |

State corresponds to code as follows. `stream`, `lifecycleSequence` and
`pendingLifecycle` are the fields of `SessionTransport`; `held`, `remaining` and
`decisionSequence` those of `LockstepAgent`; `previous` is the step whose
physical state is kept in `previous_physical`, so that a delta is a pair of
steps; `cand` is the local variable of `attach` and `accept_resume`; `tick` is
`SimClock::step`; `pc` says which call the thread makes next. `decisions` is a
history of what `act` decided. On the client, `sock`, `known`, `pending` and
`lifecycle` are `_stream`, `metadata`, `_pending_decision` and `lifecycle`;
`shown`, `settled` and `offers` are histories.

`exchange` is the loop through `pc` values `exchange`, `extension` and `await`:
`WriteObservation`, `WriteExtension`, then `AcceptAction`, `RejectFrame`
(`InvalidData`: write both frames again) or `AwaitBreaks`. A broken call takes
`Detach` when `is_disconnect` recognises the error, otherwise `ExchangeFails`,
which is `act` with `unwrap_or_default()`. The order of the events, the moment
the stream is installed and the errors `emit` ignores are those of the code.

Abstractions: a frame is a record of its kind and of the numbers the session
code compares; an action is a continuous command and the fabrication edge; the
world is a step counter that may kill the controlled entity or bear one. Frames
that do not parse are left out, as is the last snapshot file.

### Real-time bridge

| Module | What it models |
| --- | --- |
| `RemoteBridge` | `RemoteAgent`: `act` as the simulation calls it, the two queues, the bridge thread with one action per call that may return, and the connection |
| `RemoteSystem` | the bridge with a client, the properties and the inductive invariant; the client is external, because the repository has none for this mode |
| `FreshCommands` | the abstract contract: a step applies a recent offer or nothing, and waits for nobody |
| `MCRemote` | the instances TLC checks |
| `RemoteProofs` | the proof that the bridge implements `FreshCommands` |

`act` takes two steps (`Offer` is its `try_send`, `Collect` its drain and
decision), because the thread may run between them. `queued` is the bounded
queue of one observation, `actions` the unbounded one, `last` is `last_action`.
In the thread, `bpc` says which call comes next, `held` is the received
observation and `got` the bytes `read_frame` has. `Retain` and `Finish` drop the
`RemoteAgent`. `decided`, `sent` and `debt` are histories.

A frame of 84 bytes is three parts of 28, the size of the payload and half that
of the header, so that a timeout can cut a frame inside its header and before
its payload. After a cut the next header is read from inside the frame: it has
no magic number and the thread ends (`RejectHeader`), or it is incomplete when
the next timeout drops it and the stream is aligned again. A cut within a part
leads to the same two outcomes. Time is left out: a read may time out whenever
the frame is incomplete, since what is missing may not have arrived, and the
simulation may take any number of steps meanwhile. A write times out when the
socket's buffers are full. Frames of other lengths are left out, and the client
writes nothing that is not an answer to an observation.

### Energy and matter

| Module | What it models |
| --- | --- |
| `EnergyLedger` | the transactions of `EnergyLedger` in `components.rs` on one account: credit, exact and available debit, drain, with invalid amounts |
| `EnergyEconomy` | the systems that move energy and matter, tick after tick, in the order of `configure_world` |
| `EnergyBudget` | the abstract promise: matter is constant, energy enters by vents and leaves by dissipation and actuation |
| `MCEnergyEconomy` | the populations TLC starts from |
| `EnergyEconomyProofs`, `EconomySharesProofs` | the proofs |

A node is a record of the components the systems read: `energy` and `ledger` are
`Physical::energy` and `EnergyLedger`, `structure`, `mass` and `yield` the rest
of `Physical` and `Yield`, `stress` is `ImpulseAccum`, `surplus` and
`rest` are `ReproductionState`, `fab` is `FabricateCooldown`, `dead` is
`DeadNode`. `opening` is a history, the reserve the node was spawned with. A
system is a value of `phase` and each turn of its loop an action: `Act` (what
`apply_one` charges, and fabrication), `DrainNode`, `Harvest`, `Discharge`,
`Reproduce`, `Collide`, `Transfer`, `Fragment`, `RunDeaths`; `NextPhase` is the
chain, with what a system does before its loop. A loop over an ECS query, whose
order is Bevy's own, goes in the order of the identifiers; the order in which an
agent harvests its neighbours is open. `fragments` and `deaths` are
`FragmentQueue` and `DeathQueue`; `closed` remembers what despawned nodes gained
and spent. Positions, speeds and fields are inputs (`Rates`, `Thermal`,
`Impulses`, who is near a trap or a shelter).

Numbers are whole units, chosen so that the halves, thirds and weighted shares
of the code come out even: in the model of the sums there is no rounding, in the
program there is that of `f32`. The proofs do not use divisibility.

### Clamps and snapshots

| Module | What it models |
| --- | --- |
| `ClampJoints` | `ClampState`, the joint entities and every system that spawns or despawns an entity, with Bevy's deferred commands |
| `Snapshots` | the identity allocator, `ensure_stable_ids`, `capture` and `restore` over that world |
| `MCSnapshots` | the bodies TLC starts with |
| `SnapshotProofs` | the proofs |

`commands` is the queue of the system that ran last: `ApplyCommand` applies one
command, and the next system runs when the queue is empty. `Cleanup` is
`cleanup_clamp_joints`, `Gather` and `Act` the clamp branch of `apply_one`,
`Economy`, `Fragment`, `RunDeaths` and `StreamChunks` the systems that take
bodies away or add some; which ones is an input, at most `MaxLosses` a system.
`RunDeaths` acts at once, as the exclusive system does. Entities and joints are
numbers that are used again only when nothing refers to them, which stands for
Bevy's generations.

Between two ticks the server may name bodies (`EnsureStableIds`), the embedding
program may name or despawn one (`InsertStableId`, `RemoveEntity`), and a
snapshot may be taken and restored by another process with any subset of the
controllers (`Restore`: an agent without one becomes inert, as in the code). A
snapshot is a function from identities to nodes (`Nodes`), the canonical form
that `capture` sorts into; `stableId` and `next` are the `StableId` components
and `StableIdAllocator`.

### Population and chunks

| Module | What it models |
| --- | --- |
| `Lineage` | `WorldAgents`, `AgentMarker`, `AgentHistory` and `collect_competence` |
| `ChunkStreaming` | `ChunkManager`, `stream_chunks`, `ChunkOrigin`, in one row of chunks |
| `Population` | both, composed in the order of the chain, with `restore` |
| `MCPopulation` | the ground TLC starts with |
| `PopulationProofs` | the proofs |

`marker` is the `AgentMarker` of each live agent, `controllers` and
`nextController` the map and the counter of `WorldAgents`, `active` and
`completed` the two parts of `AgentHistory`; `seen` is a history. `Birth`
registers the child's controller before the parent is charged, as
`reproduce_agents` does. The model keeps the branch of a refused debit, although
the code's constants never take it (a parent has at least 32 units, a child costs
12): it is one more way to a controller without an agent, which the next `retain`
drops (`Gather`). Who is depleted is decided in `Drain` and
executed in `RunDeaths`, with births, movement and fragmentation in between.
`StreamChunks` runs every `Period` ticks. Terrain counts the nodes with each
`ChunkOrigin`, wherever they drifted; `rubble` stands for inert matter without
one.

### Perception

| Module | What it models |
| --- | --- |
| `WireTensor` | the conversions of `ertw_interface`: observation floats, tag chunks, the two-word stamp, `sanitize` |
| `Perception` | the spatial hash, `build_observation` with its scratch, the wire there and back, and the clamp's `nearest_neighbor`, tick by tick |
| `MCPerception` | places, masks, radii and answers |
| `PerceptionProofs` | the proofs |

`cells` is `SpatialHash`, rebuilt once a tick; `scratch` is
`ObservationScratch::views`, shared by all agents; `floats` is what
`to_f32_vec` produced; `pending` is `PendingActions` with the stamp of each
answer. A program's answer is sanitized by the decoder and by the gather system,
as in the code. Numbers are scaled down with their boundaries kept: a tag mask
is four chunks of base `Chunk`, an `f32` is exact below `Exact`, a stamp has two
words of base `Word`, `Root` is the largest length whose square is finite,
`Grain` what an `f32` cannot tell from a turn. Channels that are only copied are
left out of the observation.

Fields are inputs. A probe is the place it starts from, its distance and its
direction, so that the ring is exact for every number of samples: `Circle` is the
number of units in a whole turn, any that quarters and the parts of the ring
divide (`FieldAssumption`). What is read there tells the field and the place, and
`Slope` is any function of both, so a sample that is taken elsewhere, put in the
wrong slot or given another sample's gradient is seen.

## 3. Runs

Bounds are guards of actions, named as constants and marked `bound` where they
cut something off. `MC` modules give the values. State counts are those of a
complete search.

### Lockstep

Two ticks per decision show an action decided and held once; two or
three decisions let a reply of an earlier step meet a later one; four
connections are a first connection, two resumes and a visitor. The bounds are
`MaxConnections`, `MaxVisitors`, `MaxStray`, `MaxBirths`, `Decisions`.

| Run | Instance | Properties | Shows |
| --- | --- | --- | --- |
| `lockstep_orderly` (199 thousand states) | three decisions; only established connections are lost; one visitor, one repeated action; the entity may die | `SessionEventsAlternate`, `KeepsTurns`, `DeltasChain`, `WorldTerminates` | under the losses the code handles, the session implements `LockstepTurns`, event and delta bookkeeping survives resumes, and the process ends |
| `lockstep_faulty` (528 thousand) | two decisions; connections are lost at any point, also without a FIN; frames are cut off | `TypeOK`, `AppliedWasAnswered`, `OnlyCredentialedAttach`, `LifecycleInOrder`, `NoProtocolError`, `IInv` | safety whatever the network does |
| `lockstep_pause` | a reconnection is given up before its resume frame | `PausedUntilAnswered` (violated) | finding 1 |
| `lockstep_resume` | a connection is lost without a FIN | `ResumeAnswered` (violated) | finding 2 |

Deadlock is checked in `lockstep_orderly` and `lockstep_pause`. In the other two
the system really may stop: a process that failed to attach its first agent has
exited, and a server in a read on a silent connection waits for ever.

Fairness: weak fairness of the server process as a whole (its thread runs when
its next call can return) and of the agent program (it keeps reading, answering
and reconnecting, as the client's README shows). Nothing is assumed of losses,
visitors and repeated frames, and a call on a silent connection is not assumed
to return unless bytes it wrote are unacknowledged.

### Real time

| Run | Instance | Properties | Shows |
| --- | --- | --- | --- |
| `remote_contract` (1.02 million) | five steps; answers for the controlled and for another entity, on time, late or never; the entity may die | `TypeOK`, `IInv`, `DebtKept`, `MutedByDebt`, `KeepsFresh`, `NewestWins` | safety whatever the timeouts cut off, and what a timeout costs for the rest of the connection |
| `remote_live` (127 thousand) | three steps; the client may be a step ahead, and a frame need not decode | `NeverWaits`, `ThreadEnds` | "Simulation never waits for a client", and the thread does not outlive its `RemoteAgent` |

Four steps are the fewest in which an action can become too old
(`MAX_ACTION_AGE` is 2) while a newer one is on its way; the fifth lets three
reads time out and the client answer at once afterwards. `Room` bounds the
socket's buffers: one or two observations fill them. `MaxLead` is how far a
client may write ahead of the observation it answers.

Deadlock is checked in both: the system stops only when the steps are done
and the thread has ended. The two liveness properties each assume weak fairness
of one side only. For the simulation (`WorldFairness`) that is the loop of `main`,
which takes no lock the thread holds for long and calls nothing that blocks. For
the thread (`ThreadFairness`) it is its scheduling and its 100 ms timeouts, which
make every read and write return. The client owes nothing.

### Economy

| Run | Instance | Properties | Shows |
| --- | --- | --- | --- |
| `economy_flows` (59 thousand) | seven nodes, one tick without contacts: an agent with a surplus and one that dies unless it is fed, beside a source and a trap or a shelter; an agent on a vent | `TypeOK`, `EveryNodeBalanced`, `OverdrawnAreDead`, `KeepsBudget`, `OnlyDrainOverdraws` | actions, fabrication, drain, harvest, discharge, births and deaths lose track of nothing and leave no overdrawn node alive |
| `economy_kills` (213 thousand) | seven nodes, two ticks with up to two contacts each, idle controllers, structures about to give way, one agent drained to nothing | `SharesFunded`, `KeepsBudget` | repeated hits, mutual kills, chains of kills, a mutation that makes a daughter a trap |

Two contacts are what a mutual kill, a second hit on a broken victim, and a
killer that is itself a victim need; the second tick lets daughters and
half-stressed survivors collide again. Seven nodes are three or four of the
start with a structure, a child and three daughters: where `Ids` are full an
action is cut off, and only there.

### Clamps and snapshots

| Run | Instance | Properties | Shows |
| --- | --- | --- | --- |
| `clamps_restored` (1.55 million) | up to four bodies and two joints, three ticks, one loss per system, one restore, identities the embedding program gives itself | `TypeOK`, `ClampsAgree`, `IdentitiesDistinct`, `EndpointsOutliveJoints`, `IdentitiesNotReused`, `RecapturesTheSame` | clamps, deaths, fragmentation, streaming and despawns from outside leave clamps and joints in agreement when actors act, and identities are unique |
| `clamps_revived` | two ticks, nothing from outside | `RestoresActiveClamps` (violated) | finding 3 |

Three ticks are a clamp, the loss of an end, and the repair. Two agents that can
clamp each other give owners that are targets; the cooldown of two ticks spans a
tick without a clamp. One loss per system still takes several ends in one tick,
because three systems take bodies.

### Population

| Run | Instance | Properties | Shows |
| --- | --- | --- | --- |
| `population_outcomes` (3.23 million) | three agents and controllers over three ticks, chunks looked at in every second one, one restore; seeded or preloaded ground | `TypeOK`, `EveryAgentControlled`, `OutcomesComplete`, `TerrainOnce` | controllers, outcomes and terrain survive births, deaths, drift and a restore with some of the controllers |

A founder with two descendants reaches the third generation, and an agent can
be born, die and be recorded while another is. Streaming happens in the first
and the third tick, so that a chunk can be left and entered again.

### Perception

| Run | Instance | Properties | Shows |
| --- | --- | --- | --- |
| `perception` (650 thousand) | two agents and two other bodies at five places on both sides of cell edges and of the origin, two neighbours shown, four field samples as in `build_observation`, two ticks; radii of one and a half and two cells | `TypeOK`, `ViewFaithful`, `FieldsFaithful`, `SeizesWhatWasShown`, `CommandsSound` | what a program decodes is the world as it is, and what reaches the actuators is finite, within its bands and stamped as the answer to this observation |

Four samples are a centre and a ring of three, which no quarter turn lays out;
agents turn before the second tick. Three bodies around an agent that is shown
two let one be left out; masks have
bits in every chunk; the clock starts at the last reading of one word and at the
one before it saturates; answers are ordinary, out of band, non-finite or so large
that their square overflows.

The `economy`, `clamps`, `population` and `perception` runs stop at the last
tick, and where a bound is reached, so deadlock is not checked there.

### Findings

1. docs/PROTOCOL.md says lockstep "pauses the world at a decision boundary until
   a matching action arrives" and "on transport loss the lockstep world remains
   paused". `accept_resume` returns the error of `read_frame` on a connection
   that ends before its resume frame, and `act` turns it into the default
   action: the world then runs a whole decision unanswered.
2. docs/PROTOCOL.md says a new socket may resume the session. The session's
   socket has no timeout and a resume is accepted only after the old stream is
   found broken, so after a loss without a FIN the resume is never accepted.
3. docs/ARCHITECTURE.md says "ERTW restores world physics, lineage, RNG state,
   and active clamp relationships". A body that dies loses its joints in
   `run_deaths`, but its holder's `ClampState` keeps the target until the next
   `cleanup_clamp_joints`. A snapshot taken in between saves that target, and
   `restore` spawns a joint that the saved world did not have any more.
   `RecapturesTheSame` shows that this is all that differs: the restored world is
   captured as the same snapshot again.

### Observations

Behaviours the models show or that reading the code for them brought up, and
which contradict no stated promise, or none that is precise enough:

- The bridge thread reads at most one reply per observation. When a reply
  arrives after its timeout it is read as the reply to the next observation, and
  the thread is one reply behind from then on (`DebtKept`). After three such
  timeouts every reply it reads is older than `MAX_ACTION_AGE`, so the commands
  of a client that answers everything resolve to no-ops until it leaves an
  observation unanswered or reconnects (`MutedByDebt`).
- "Only the contact impulse that caused structural failure may receive
  consumption transfer" (ARCHITECTURE.md): the whole share goes to the agent of
  the contact at which the structure is found at or below zero, whoever's
  impulses had worn it down before.
- A comment in `nearest_neighbor` says that the hash contains every transform;
  it is rebuilt from the entities with a `Physical` component.
- A finite force whose squared length overflows is scaled to zero, not to one.
- `rem_euclid` of a tiny negative phase may return a whole turn.
- An agent that is born and broken within one tick never reaches the history.
- A comment in `ertw_interface/src/lib.rs` (line 60) calls the field samples radial,
  "evenly spaced from 0..=`sensor_radius`", and README.md speaks of "radial field
  samples". `build_observation` takes one at the agent and the others on a ring
  at the full radius, evenly spaced in angle. docs/PROTOCOL.md describes the code
  ("remaining probes form an egocentric ring at the sensor radius"), and
  `FieldsFaithful` states that; the comment is out of date.
- After a restore the identity allocator starts from the highest identity that
  was saved, so that of a body that died before may be given again
  (`IdentitiesNotReused` is about one process).

## 4. Proofs

The proofs hold for every value of the constants under the named `ASSUME`s of
the modules: bounds are numbers, initial worlds are well formed (ledgers balance,
whoever is below zero is dead), founders are numbered from one, identities the
embedding program gives are identities, rates are numbers, answers are actions,
there is a default command, a connection and a tick per decision, a turn is
counted in units that divide it, and the slope of a field is a vector.

**`LockstepProofs`**: `TypeCorrect`, `DecisionsAnswered`, `CredentialedAttach` and
`InductiveInvariant`, from which the others follow. `AppliedWasAnswered` is not
inductive: the action that a decision takes comes from a queue. `IInv` adds that
every action frame in a queue was offered for the step it names
(`FramesOffered`), that a visitor's connection carries no valid resume and is
never the one `attach` works on (`VisitorsKept`), and that each program counter
holds the connection it uses (`ControlOK`). TLC checks `IInv` in
`lockstep_faulty`. There is a summary lemma for what a server step may do to
queues, connections, decisions and control (`ServerConsumes`, `ServerDecides`,
`ServerLeads`), one lemma per conjunct of `IInv`, and one that puts them together.

Two more results hold for whatever is lost. `EventsArriveInOrder` rests on
`EventsInv`: the numbers of the events in the agent's list, then on its
connection, then in the server's queue increase, and none reaches the
server's counter. `ClientNeverProtests` rests on `FramesInv`, which says what the
agent's connection may still carry: metadata comes first (`MetadataFirst`), an
extension follows the observation of its step and nothing else does (`Pairs`), and
an observation is the last frame exactly while the server is about to write its
extension (`OpenPair`).

Three hold of *orderly* sessions. `Orderly` is a hypothesis about constants
alone: a loss is never silent and strikes only a connection on which the agent
has been shown a decision, as in `lockstep_orderly`. Without it they fail: with a
connection that breaks sooner the agent may lose the event of its attachment,
and that of the detachment is still queued. `UsedInv` says that a connection
that was attached once is never attached again and that no other carries
decisions. `DeltasChainAcrossResumes` and `SessionKeepsTurns` rest on `TurnsInv`:
what the agent was shown follows what was decided last (`ShownOK`), it answers
only that (`OffersOK`), and the extensions on their way are of the last two
decisions, in order (`ExtensionsOK`). `SessionKeepsTurns` then maps each step to a
step of `LockstepTurns` or a stutter. `SessionsAlternate` rests on `OwnInv` (every
connection but the agent's present one is used up or a visitor's, and a present
one that has begun is neither closed nor refused by the server) and on `AltInv`:
the session events that are in the agent's list, on its way or queued alternate,
and so do those that have reached the agent's side. Both are about sets of
numbered events, so that a lost tail of a queue is a lost upper part of a set.

**`RemoteProofs`**: `FreshCommandsOnly` (`Spec => KeepsFresh`, the refinement of
`FreshCommands`), `TypeCorrect`, `InductiveInvariant`. A fresh command is one that
was offered, and what was offered passes through a stream that timeouts cut.
`IInv` therefore says that the parts still to be read are contiguous and continue
what was read, and that a payload is waited for only behind a whole header
(`StreamOK`); that every part comes from a frame the client wrote (`PartsSent`);
and that every action for the controlled entity, queued or remembered, was
offered (`ActionsOffered`). `ReplyIsOneFrame` draws the conclusion: a complete
frame is one frame of the client, never the header of one with the payload of
another. `StepContract` maps each step to a step of `FreshCommands` or a stutter.
TLC checks `IInv` in `remote_contract`.

`DebtIsNeverPaid` and `DebtMutes` rest on `TimingInv`: the observations on their way
are in the order of their steps (`OrderOK`), the observations not answered yet and
the replies not read yet are together what is due (`Balanced`), and a reply is at
least as many observations late as there are replies due (`LateOK`).
`NewestCommandWins` needs `SortedOK`, that frames are in the order of their steps
all the way from the client to the action the controller remembers. A client
that can be two steps ahead breaks it, by answering with an older step after a
newer one, so the theorem has the hypothesis `MaxLead <= 1`; a client that
echoes the steps it was sent has `MaxLead = 0`.

**`EnergyEconomyProofs`**: `EconomyTyped`, `EconomyBalanced`,
`EconomyOverdrawnAreDead`. It begins with the ledger's transactions: each keeps an
account `Sound` (typed, and its reserve equal to its opening plus what the ledger
gained, minus what it spent), an exact debit pays all or nothing, an available one
no more than there is, for every amount including `NonFinite`. The inductive invariant `IInv` is `GoodWorld` (every node
is typed, balanced, and if it is below zero dead or queued for death) with the
facts that the loops' turns refer to nodes that are present and that the death
queue is empty when a tick begins. `OverdrawnAreDead` alone is not inductive: it
speaks of the start of a tick and depends on the queue in the middle. `Voluntary`
summarises what spends and credits do to a node; only the drain is not voluntary,
and it queues what it depletes in the same turn.

**`EconomySharesProofs`**: `OnlyTheDrainOverdraws` and `SharesAreFunded`. The first is
an action property: every system but the drain *spares* every node (it ends at or
above zero, or no lower than before). `SharesFunded` needs to know, in each phase,
what a queue entry is worth: `SharesInv` says that each victim is in the queue
once, that during contacts its reserve covers the share, during transfers every
entry still to be paid is covered, and before fragmentation nobody in the queue is
below zero (`Covered`). It rests on three facts, each a family of lemmas: a victim
is queued only with energy left and a share of half of it; contacts, decay and
deaths move no reserve (`SameReserves`); and a transfer debits only its own
victim, whose entry is the only one.

**`PopulationProofs`**: `AgentsAreControlled`, from `ControlInv` (every registered
number is below the counter, so a new number is new); `HistoryForgetsNobody`, from
`HistoryInv` (a completed agent is not live, was never recorded as active since,
and is in the list once; everyone seen is active or completed); `TerrainIsOnce`,
from `TerrainInv`. `TerrainOnce` itself already says that terrain exists only in
active chunks, which is what makes it inductive. `PopulationTypeCorrect` needs a
count: every live agent holds a controller of its own, so the controllers in use
are no more than those handed out.

**`SnapshotProofs`**: `JointsGoFirst`, from `QueueInv` (a queue either despawns
nothing, or joins nothing and unhooks every joint of a body before despawning it;
each system is shown to queue one or the other); `IdentitiesAreDistinct` and
`IdentitiesAreNew`, from `IdInv` (all published identities are at or below the
allocator's counter). `ClampsHoldTheirJoints` rests on `ClampInv`, which holds in
the middle of a tick too, when clamps and joints disagree: a joint that is queued
to be made is its owner's alone (`JoinsInv`), a clamp that holds a target holds it
by a joint of its own (`HoldsInv`), and after `cleanup_clamp_joints` a joint is
held by its owner or doomed in the queue (`CleanedInv`). `RestoredWorldsRecapture`
shows that `capture` of what `restore` spawns is the snapshot, whatever the
entities are called: both lay the same identities out in the same order.
`SnapshotsTypeCorrect` gathers the types from these.

**`PerceptionProofs`**: `PerceptionTypeCorrect`, `ViewIsFaithful`, `FieldsAreFaithful`,
`SeizesTheShown`, `CommandsAreSound`. The lemmas come first: a stamp and a tag mask
cross the wire as they are for every base of words and chunks (`StampThere`,
`MaskThere`), an observation comes out as it went in for every number of
neighbours and samples (`ObservationThere`), a vector turned and turned back is
itself (`TurnedBack`), and a hash that is up to date finds everybody within any
radius for any cell size (`SensedIsNear`, from `CellsNear`: the radius in cells must
be rounded up). `RingEven` is the arithmetic of a ring that is laid out from the
agent's heading modulo a turn: it begins straight ahead, its neighbours are all
the same part of a turn apart, and so are its last and its first.
`FieldsFaithful` says this of decoded samples and does not use `ProbeOf`, and the
theorem holds for any slope, number of samples and turn. The inductive invariant `IInv` says that while the systems of a
tick run the hash is the one of the places as they are, that an agent that was
visited holds the encoding of a list of the nearest bodies (`Faithful`) and the
stamp of this tick, and that a clamp has seized a nearest body. `Listing` is what
is decoded from it, from which the properties are drawn.

**`FiniteOrders`** has the lemmas both use: a finite set laid out by `SetToSeq` has
each element once, ranks in a finite set are bounded, increasing and injective,
and a finite set of numbers has its largest.

Induction over data is done without an operator parameter: the numbers (or the
sizes of sets) for which a statement fails form a set, and a least element of it
is refuted, as in `FiniteOrders`.

Only model-checked: `KeepsBudget`, which as it stands holds of instances whose
units divide evenly and not of all (the thirds of a node of mass 7 have mass 6;
the code's floating point loses less, but it too); and the liveness properties
`WorldTerminates`, `NeverWaits` and `ThreadEnds`, which are out of the prover's
reach under fairness. Every other property of a passing run is a theorem.

## 5. Plan

Done: the lockstep session and the real-time bridge with their abstract
contracts; the energy ledger, the economy and its budget; clamps, deaths and
snapshots; lineage, history and chunk streaming; perception and the wire.

Proved: every safety property, action property and refinement that a run
checks, but for `KeepsBudget`.

Next, in this order:

1. `KeepsBudget` for the behaviours in which every division is exact: the
   sums over nodes as a recursive function, and one lemma per system that says
   what it moves;
2. an instance of `economy_kills` with three contacts.

## 6. Not modelled

- Fields are Perlin noise and its gradients in floating point; Avian's physics is
  a library. Both are inputs of the models.
- The seeded layout of a chunk, the mutation of a child's tuning, the oscillator
  and the scatter of daughters are numeric; no property depends on them.
- The observation extension, frame lengths, the hello frame and argument parsing
  are formats; writing and hashing snapshot files is I/O.
- The observer's pause and single step are one run condition each; when
  `FixedUpdate` runs is decided by Bevy's time, outside the repository.
- `rank` of the evaluator is a sort by metrics; the random policy has no state.
- A program that connects to a detached lockstep session and stays silent holds
  the server in a read. The liveness runs assume it says something, and the
  hazard is listed.
- Stress is not part of a snapshot, so a restored world forgets damage in
  progress; rubble that drifts into an inactive chunk is not reclaimed. Both
  are listed as hazards; no document promises otherwise.
- Benches, examples, tests and continuous integration drive the code above.
