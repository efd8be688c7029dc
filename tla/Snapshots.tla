------------------------------ MODULE Snapshots -----------------------------
(***************************************************************************)
(* Stable identities and the canonical snapshot, over the bodies and       *)
(* clamps of ClampJoints.  Between two ticks the server names the bodies   *)
(* that have no StableId; a snapshot names everything by these identities; *)
(* another process restores it with the controllers it can supply.         *)
(***************************************************************************)
EXTENDS ClampJoints

CONSTANTS
  MaxId,                \* bound: identities
  ExplicitIds,          \* identities the embedding program gives itself
  MaxRestores           \* bound: restores

ASSUME SnapshotAssumption == 
  {MaxId, MaxRestores} \subseteq Nat /\ ExplicitIds \subseteq 1..MaxId

VARIABLES
  stableId,             \* StableId of each body, NoId for none
  next,                 \* StableIdAllocator
  named,                \* history: identities that this process has published
  restores

vars == <<body, clamp, joint, commands, phase, pending, deaths, ticks,
          stableId, next, named, restores>>

NoId == 0
AllIds == 1..MaxId

Named(ids) == {ids[b] : b \in Bodies} \ {NoId}

-----------------------------------------------------------------------------
(* ensure_stable_ids *)

Unnamed == {b \in Present : stableId[b] = NoId}
Rank(b, bodies) == Cardinality({c \in bodies : c <= b})

\* Slips: the identities that exist are not observed; the allocator starts
\* from them each time.
ObservedNothing == next
ObservedOnly == Max(Named(stableId) \cup {NoId})

Observed == Max(Named(stableId) \cup {next})

Ensured ==
  [b \in Bodies |-> IF b \in Unnamed THEN Observed + Rank(b, Unnamed) ELSE stableId[b]]

-----------------------------------------------------------------------------
(* capture and restore *)

\* The nodes of a snapshot, by identity.
Nodes(ids) ==
  [s \in Named(ids) |->
     LET b == CHOOSE c \in Bodies : ids[c] = s
     IN [kind |-> body[b],
         target |-> IF clamp[b].target \in Present THEN ids[clamp[b].target] ELSE NoId,
         cool |-> clamp[b].cool]]

AgentsOf(nodes) == {s \in DOMAIN nodes : nodes[s].kind = "agent"}

\* The k-th node is restored as entity k.
EntityOf(nodes, s) == IF s \in DOMAIN nodes THEN Rank(s, DOMAIN nodes) ELSE None

\* A slip: a target is looked up while the nodes are being spawned.
ClampingSoFar(nodes) ==
  {s \in AgentsOf(nodes) : nodes[s].target \in DOMAIN nodes /\ nodes[s].target < s}

Clamping(nodes) == {s \in AgentsOf(nodes) : nodes[s].target \in DOMAIN nodes}

JointOf(nodes, s) == IF s \in Clamping(nodes) THEN Rank(s, Clamping(nodes)) ELSE None

RestoredBody(nodes, given) ==
  [b \in Bodies |->
     IF \E s \in DOMAIN nodes : EntityOf(nodes, s) = b
     THEN LET s == CHOOSE r \in DOMAIN nodes : EntityOf(nodes, r) = b
          IN IF nodes[s].kind = "agent" /\ s \notin given THEN "inert" ELSE nodes[s].kind
     ELSE "none"]

RestoredClamp(nodes, given) ==
  [b \in Bodies |->
     IF \E s \in given : EntityOf(nodes, s) = b
     THEN LET s == CHOOSE r \in given : EntityOf(nodes, r) = b
          IN [target |-> IF s \in Clamping(nodes) THEN EntityOf(nodes, nodes[s].target)
                                                  ELSE None,
              joint |-> JointOf(nodes, s),
              cool |-> nodes[s].cool]
     ELSE Open]

RestoredJoint(nodes) ==
  [j \in Joints |->
     IF \E s \in Clamping(nodes) : JointOf(nodes, s) = j
     THEN LET s == CHOOSE r \in Clamping(nodes) : JointOf(nodes, r) = j
          IN [owner |-> EntityOf(nodes, s), target |-> EntityOf(nodes, nodes[s].target)]
     ELSE NoJoint]

RestoredId(nodes) ==
  [b \in Bodies |->
     IF \E s \in DOMAIN nodes : EntityOf(nodes, s) = b
     THEN CHOOSE s \in DOMAIN nodes : EntityOf(nodes, s) = b
     ELSE NoId]

-----------------------------------------------------------------------------
(* Between ticks. *)

EnsureStableIds ==
  /\ Runs("boundary")
  /\ Observed + Cardinality(Unnamed) <= MaxId     \* bound
  /\ stableId' = Ensured
  /\ next' = Observed + Cardinality(Unnamed)
  /\ named' = named \cup Named(Ensured)
  /\ UNCHANGED <<clampVars, restores>>

\* The embedding program names a body itself, with an identity it never used.
InsertStableId(b, s) ==
  /\ Embedded /\ Runs("boundary") /\ b \in Unnamed
  /\ s \notin named \cup Named(stableId)
  /\ stableId' = [stableId EXCEPT ![b] = s]
  /\ UNCHANGED <<clampVars, next, named, restores>>

\* A snapshot is taken and restored by another process, which can supply the
\* controllers "given" of the agents in it.
Restore ==
  /\ Runs("boundary") /\ restores < MaxRestores
  /\ Observed + Cardinality(Unnamed) <= MaxId     \* bound
  /\ LET nodes == Nodes(Ensured)
     IN \E given \in SUBSET AgentsOf(nodes) :
          /\ body' = RestoredBody(nodes, given)
          /\ clamp' = RestoredClamp(nodes, given)
          /\ joint' = RestoredJoint(nodes)
          /\ stableId' = RestoredId(nodes)
          /\ next' = Max(DOMAIN nodes \cup {0})
          /\ named' = DOMAIN nodes
  /\ restores' = restores + 1
  /\ UNCHANGED <<commands, phase, pending, deaths, ticks>>

\* An identity goes with its entity.
IdsFollow ==
  /\ stableId' = [b \in Bodies |-> IF body'[b] = "none" THEN NoId ELSE stableId[b]]
  /\ UNCHANGED <<next, named, restores>>

-----------------------------------------------------------------------------
Init ==
  /\ ClampInit
  /\ stableId = [b \in Bodies |-> NoId]
  /\ next = 0 /\ named = {} /\ restores = 0

Next ==
  \/ Tick /\ IdsFollow
  \/ \E b \in Bodies : RemoveEntity(b) /\ IdsFollow
  \/ EnsureStableIds
  \/ \E b \in Bodies, s \in ExplicitIds : InsertStableId(b, s)
  \/ Restore

Spec == Init /\ [][Next]_vars

-----------------------------------------------------------------------------
TypeOK ==
  /\ ClampTypeOK
  /\ stableId \in [Bodies -> AllIds \cup {NoId}]
  /\ \A b \in Bodies \ Present : stableId[b] = NoId
  /\ next \in 0..MaxId
  /\ named \subseteq AllIds
  /\ restores \in 0..MaxRestores

\* No two bodies answer to one identity, also when the embedding program has
\* named some of them itself and after a restore (ensure_stable_ids; the test
\* allocator_never_reuses_an_explicit_stable_id).
IdentitiesDistinct ==
  \A b, c \in Present : b # c /\ stableId[b] = stableId[c] => stableId[b] = NoId

\* In one process a published identity is never given to a second body, though
\* the first may be gone: lifecycle events that name it stay unambiguous ("Durable public
\* identity used by lifecycle events", components.rs).
IdentitiesNotReused ==
  [][restores' = restores =>
       \A b \in Bodies :
         stableId[b] = NoId /\ stableId'[b] # NoId => stableId'[b] \notin named]_vars

\* A world that is restored with every controller is captured as the snapshot it
\* was restored from, at whatever tick boundary that one was taken and in
\* whatever state the clamps were (capture, restore; the test
\* snapshot_hash_and_restore_are_canonical).
RecapturesTheSame ==
  [][restores' # restores /\ Cardinality(Agents') = Cardinality(Agents)
       => Nodes(stableId)' = Nodes(Ensured)]_vars

\* "ERTW restores world physics, lineage, RNG state, and active clamp
\* relationships" (ARCHITECTURE.md): the joints of a world that is restored with
\* every controller are the joints of the world that was saved.
Joined(ids, joints) ==
  {<<ids[joints[j].owner], ids[joints[j].target]>> :
     j \in {k \in Joints : joints[k] # NoJoint}}

RestoresActiveClamps ==
  [][restores' # restores /\ Cardinality(Agents') = Cardinality(Agents)
       => Joined(stableId', joint') = Joined(Ensured, joint)]_vars
=============================================================================
