--------------------------- MODULE PopulationProofs -------------------------
(***************************************************************************)
(* For any number of agents, controllers, chunks and ticks: every live     *)
(* agent has a controller of its own, no terrain exists twice, and no      *)
(* outcome is forgotten.                                                   *)
(***************************************************************************)
EXTENDS Population, FiniteOrders, SequenceTheorems

(* Terrain. *)

TerrainInv == terrain \in [Chunks -> Nat] /\ TerrainOnce

LEMMA TerrainInit == Init => TerrainInv
<1> SUFFICES ASSUME Init PROVE TerrainInv
  OBVIOUS
<1>1. PICK g \in Grounds : StreamInit(g.seeded, g.preloaded)
  BY DEF Init
<1> QED
  BY <1>1 DEF StreamInit, TerrainInv, TerrainOnce

\* A chunk that is loaded had no terrain; one that is unloaded has none left.
LEMMA StreamKeepsTerrain ==
  ASSUME NEW agents, NEW now, TerrainInv, Stream(agents, now)
  PROVE  TerrainInv'
<1>1. CASE UNCHANGED streamVars
  BY <1>1 DEF streamVars, TerrainInv, TerrainOnce
<1>2. CASE ~ UNCHANGED streamVars
  <2> DEFINE desired == Desired(agents)
  <2>1. /\ terrain' = [c \in Chunks |->
               IF c \in chunks \ desired THEN 0
               ELSE terrain[c] + (IF c \in desired \ chunks THEN 1 ELSE 0)]
        /\ chunks' = desired
    BY <1>2 DEF Stream, Unloaded, Loaded
  <2> HIDE DEF desired
  <2>2. \A c \in Chunks : terrain[c] \in 0..1 /\ (terrain[c] > 0 => c \in chunks)
    BY DEF TerrainInv, TerrainOnce
  <2>3. ASSUME NEW c \in Chunks
        PROVE  terrain'[c] \in 0..1 /\ (terrain'[c] > 0 => c \in chunks')
    BY <2>1, <2>2
  <2> QED
    BY <2>1, <2>2, <2>3 DEF TerrainInv, TerrainOnce
<1> QED
  BY <1>1, <1>2

LEMMA TerrainStep == TerrainInv /\ [Next]_vars => TerrainInv'
<1> SUFFICES ASSUME TerrainInv, [Next]_vars PROVE TerrainInv'
  OBVIOUS
<1>1. CASE UNCHANGED <<chunks, terrain>>
  BY <1>1 DEF TerrainInv, TerrainOnce
<1>2. CASE Fragment
  <2>1. CASE UNCHANGED terrain
    BY <1>2, <2>1 DEF Fragment, TerrainInv, TerrainOnce
  <2>2. CASE ~ UNCHANGED terrain
    <3>1. PICK c \in Chunks : terrain[c] > 0 /\ terrain' = [terrain EXCEPT ![c] = @ - 1]
      BY <1>2, <2>2 DEF Fragment
    <3>2. chunks' = chunks
      BY <1>2 DEF Fragment
    <3> QED
      BY <3>1, <3>2 DEF TerrainInv, TerrainOnce
  <2> QED
    BY <2>1, <2>2
<1>3. CASE StreamChunks
  BY <1>3, StreamKeepsTerrain DEF StreamChunks
<1>4. CASE Restore
  BY <1>4 DEF Restore, RestoredChunks, TerrainInv, TerrainOnce
<1>5. CASE Gather \/ Drain \/ Physics \/ RunDeaths \/ Record \/ \E e \in Entities : Reproduce(e)
  BY <1>5, <1>1 DEF Gather, Drain, Physics, RunDeaths, Record, Reproduce, streamVars
<1>6. CASE UNCHANGED vars
  BY <1>6, <1>1 DEF vars, streamVars
<1> QED
  BY <1>2, <1>3, <1>4, <1>5, <1>6 DEF Next

\* No piece of terrain exists twice, however chunks come and go, terrain breaks
\* and worlds are restored (stream_chunks, ChunkOrigin).
THEOREM TerrainIsOnce == Spec => []TerrainOnce
<1>1. TerrainInv => TerrainOnce
  BY DEF TerrainInv
<1> QED
  BY TerrainInit, TerrainStep, <1>1, PTL DEF Spec

(* Controllers. *)

Marks == [controller : Nat, generation : Nat, lineage : Nat]

ControlInv ==
  /\ marker \in [Entities -> Marks]
  /\ nextController \in Nat \ {0}
  /\ controllers \subseteq 1..(nextController - 1)
  /\ EveryAgentControlled

LEMMA EntitiesFinite == IsFiniteSet(Entities) /\ Entities \subseteq Nat
  BY FS_Interval, LineageAssumption DEF Entities

LEMMA ControlInit == Init => ControlInv
<1> SUFFICES ASSUME Init PROVE ControlInv
  OBVIOUS
<1>1. Founded(Founders)
  BY DEF Init
<1>2. IsFiniteSet(Founders) /\ Cardinality(Founders) \in Nat
  BY EntitiesFinite, PopulationAssumption, FS_Subset, FS_CardinalityType
<1>3. /\ marker = [e \in Entities |-> IF e \in Founders THEN Mark(e, 0, e) ELSE NoMarker]
      /\ controllers = Founders
      /\ nextController = Cardinality(Founders) + 1
  BY <1>1 DEF Founded
<1>4. \A e \in Founders : e # 0
  BY PopulationAssumption DEF Entities
<1>5. marker \in [Entities -> Marks]
  BY <1>3, EntitiesFinite DEF Mark, NoMarker, Marks
<1>6. Live \subseteq Founders
  BY <1>3 DEF Live
<1>7. \A e \in Live : marker[e].controller = e
  BY <1>3, <1>6 DEF Mark, Live
<1>8. EveryAgentControlled
  BY <1>3, <1>6, <1>7 DEF EveryAgentControlled
<1>9. nextController \in Nat \ {0} /\ nextController - 1 = Cardinality(Founders)
  BY <1>2, <1>3
<1> QED
  BY <1>3, <1>5, <1>8, <1>9, PopulationAssumption DEF ControlInv

\* Agents end; nobody else's marker changes.
LEMMA EndedKeepsControl ==
  ASSUME NEW agents, ControlInv, Ended(agents)
  PROVE  ControlInv'
<1>1. /\ marker' = [e \in Entities |-> IF e \in agents THEN NoMarker ELSE marker[e]]
      /\ controllers' = controllers /\ nextController' = nextController
  BY DEF Ended
<1>2. marker' \in [Entities -> Marks]
  BY <1>1 DEF ControlInv, NoMarker, Marks
<1>3. \A e \in Live' : e \in Live /\ marker'[e] = marker[e]
  BY <1>1 DEF Live
<1> QED
  BY <1>1, <1>2, <1>3 DEF ControlInv, EveryAgentControlled

\* The newborn's controller has never been given.
LEMMA BirthKeepsControl ==
  ASSUME NEW parent \in Entities, NEW accepts \in BOOLEAN, NEW funded \in BOOLEAN,
         ControlInv, Birth(parent, accepts, funded)
  PROVE  ControlInv'
<1> DEFINE born == accepts /\ marker[parent].controller \in controllers
           child == Mark(nextController, marker[parent].generation + 1,
                         marker[parent].lineage)
<1>1. CASE ~ born
  <2>1. UNCHANGED <<marker, controllers, nextController>>
    BY <1>1 DEF Birth
  <2> QED
    BY <2>1 DEF ControlInv, EveryAgentControlled, Live
<1>2. CASE born
  <2>1. controllers' = controllers \cup {nextController} /\ nextController' = nextController + 1
    BY <1>2 DEF Birth, Register
  <2>2. nextController' \in Nat \ {0} /\ controllers' \subseteq 1..(nextController' - 1)
    BY <2>1 DEF ControlInv
  <2>3. nextController \notin controllers
    BY DEF ControlInv
  <2>4. CASE ~ funded
    <3>1. marker' = marker
      BY <2>4 DEF Birth
    <3> QED
      BY <2>1, <2>2, <3>1 DEF ControlInv, EveryAgentControlled, Live
  <2>5. CASE funded
    <3>1. marker' = [marker EXCEPT ![NextUnborn] = child]
      BY <1>2, <2>5 DEF Birth, Register
    <3>2. child \in Marks /\ child.controller = nextController
      BY DEF ControlInv, Mark, Marks
    <3> HIDE DEF child, born
    <3>3. marker' \in [Entities -> Marks]
      BY <3>1, <3>2 DEF ControlInv
    <3>4. \A e \in Live' : \/ e = NextUnborn /\ marker'[e].controller = nextController
                           \/ e # NextUnborn /\ e \in Live /\ marker'[e] = marker[e]
      BY <3>1, <3>2 DEF Live, ControlInv
    <3>5. \A e \in Live' : marker'[e].controller \in controllers'
      BY <2>1, <3>4 DEF ControlInv, EveryAgentControlled
    <3>6. ASSUME NEW e \in Live', NEW f \in Live',
                 marker'[e].controller = marker'[f].controller
          PROVE  e = f
      BY <2>3, <3>4, <3>6 DEF ControlInv, EveryAgentControlled
    <3> QED
      BY <2>2, <3>3, <3>5, <3>6 DEF ControlInv, EveryAgentControlled
  <2> QED
    BY <2>4, <2>5
<1> QED
  BY <1>1, <1>2

LEMMA RestoredKeepsControl ==
  ASSUME NEW given \in SUBSET Live, ControlInv, Restored(given)
  PROVE  ControlInv'
<1> DEFINE rank(e) == Cardinality({g \in given : g <= e})
           size == Cardinality(given)
<1>1. given \in SUBSET Nat /\ given \subseteq Entities /\ IsFiniteSet(given)
  BY EntitiesFinite, FS_Subset DEF Live
<1>2. size \in Nat
  BY <1>1, FS_CardinalityType
<1>3. \A e \in given : rank(e) \in 1..size
  BY <1>1, RankBounds
<1>4. \A e, f \in given : rank(e) = rank(f) => e = f
  BY <1>1, RankInjective
<1>5. /\ marker' = [e \in Entities |->
             IF e \in given THEN Mark(rank(e), marker[e].generation, marker[e].lineage)
             ELSE NoMarker]
      /\ controllers' = 1..size /\ nextController' = size + 1
  BY DEF Restored
<1> HIDE DEF rank, size
<1>6. marker' \in [Entities -> Marks]
  <2>1. ASSUME NEW e \in Entities PROVE marker'[e] \in Marks
    <3>1. CASE e \in given
      BY <1>2, <1>3, <1>5, <3>1 DEF ControlInv, Mark, Marks
    <3>2. CASE e \notin given
      BY <1>5, <3>2 DEF NoMarker, Marks
    <3> QED
      BY <3>1, <3>2
  <2> QED
    BY <1>5, <2>1
<1>7. \A e \in Live' : e \in given /\ marker'[e].controller = rank(e)
  BY <1>5 DEF Live, Mark
<1>8. \A e \in Live' : marker'[e].controller \in controllers'
  BY <1>3, <1>5, <1>7
<1>9. ASSUME NEW e \in Live', NEW f \in Live',
             marker'[e].controller = marker'[f].controller
      PROVE  e = f
  <2>1. e \in given /\ f \in given /\ rank(e) = rank(f)
    BY <1>7, <1>9
  <2> QED
    BY <1>4, <2>1
<1>10. EveryAgentControlled'
  BY <1>8, <1>9 DEF EveryAgentControlled
<1> QED
  BY <1>2, <1>5, <1>6, <1>10 DEF ControlInv

LEMMA ControlStep == ControlInv /\ [Next]_vars => ControlInv'
<1> SUFFICES ASSUME ControlInv, [Next]_vars PROVE ControlInv'
  OBVIOUS
<1>1. CASE UNCHANGED <<marker, controllers, nextController>>
  BY <1>1 DEF ControlInv, EveryAgentControlled, Live
<1>2. CASE Gather
  <2>1. controllers' = Retained /\ UNCHANGED <<marker, nextController>>
    BY <1>2 DEF Gather
  <2> QED
    BY <2>1 DEF Retained, ControlInv, EveryAgentControlled, Live
<1>3. ASSUME NEW e \in Entities, Reproduce(e) PROVE ControlInv'
  BY <1>3, BirthKeepsControl DEF Reproduce
<1>4. CASE Fragment
  BY <1>1, <1>4, EndedKeepsControl DEF Fragment, lineageVars
<1>5. CASE RunDeaths
  BY <1>5, EndedKeepsControl DEF RunDeaths
<1>6. CASE Restore
  BY <1>6, RestoredKeepsControl DEF Restore
<1>7. CASE Drain \/ Physics \/ StreamChunks
  BY <1>7, <1>1 DEF Drain, Physics, StreamChunks, lineageVars
<1>8. CASE Record
  BY <1>8, <1>1 DEF Record, RecordHistory
<1>9. CASE UNCHANGED vars
  BY <1>9, <1>1 DEF vars, lineageVars
<1> QED
  BY <1>2, <1>3, <1>4, <1>5, <1>6, <1>7, <1>8, <1>9 DEF Next

\* Every live agent has a controller of its own, whoever is born, ends or is
\* restored in whatever order (gather_observations, reproduce_agents,
\* restore_state).
THEOREM AgentsAreControlled == Spec => []EveryAgentControlled
<1>1. ControlInv => EveryAgentControlled
  BY DEF ControlInv
<1> QED
  BY ControlInit, ControlStep, <1>1, PTL DEF Spec

(* Outcomes. *)

Outcomes == [entity : Entities, generation : Nat, lineage : Nat]

\* A list of outcomes in which no agent appears twice.
Distinct(list) ==
  \A i, j \in 1..Len(list) : list[i].entity = list[j].entity => i = j

\* The agents a list names.
Named(list) == {e \in Entities : \E i \in 1..Len(list) : list[i].entity = e}

HistoryInv ==
  /\ marker \in [Entities -> Marks] /\ active \in [Entities -> Marks]
  /\ completed \in Seq(Outcomes) /\ Distinct(completed)
  /\ seen \subseteq Entities /\ Live \subseteq used
  /\ \A e \in Named(completed) : e \in used /\ e \notin Live /\ active[e] = NoMarker
  /\ \A e \in Entities : active[e] # NoMarker => e \in used
  /\ \A e \in seen : active[e] # NoMarker \/ e \in Named(completed)
  /\ phase = "gather" /\ seen # {} =>
       \A e \in Entities : active[e] # NoMarker <=> e \in Live

\* The outcomes of a set of agents name each of them once.
LEMMA ListedOnce ==
  ASSUME NEW S \in SUBSET Entities, NEW marks \in [Entities -> Marks], NEW list,
         list = [k \in DOMAIN SetToSeq(S) |-> Outcome(SetToSeq(S)[k], marks[SetToSeq(S)[k]])]
  PROVE  list \in Seq(Outcomes) /\ Distinct(list) /\ Named(list) = S
<1> DEFINE n == Cardinality(S)
           order == SetToSeq(S)
<1>1. IsFiniteSet(S)
  BY EntitiesFinite, FS_Subset
<1>2. /\ order \in [1..n -> S] /\ n \in Nat
      /\ \A i, j \in 1..n : order[i] = order[j] => i = j
      /\ \A e \in S : \E i \in 1..n : order[i] = e
  BY <1>1, LaidOutOnce
<1> HIDE DEF n
<1>3. list = [k \in 1..n |-> Outcome(order[k], marks[order[k]])]
  BY <1>2
<1> HIDE DEF order
<1>4. \A k \in 1..n : list[k] \in Outcomes /\ list[k].entity = order[k]
  BY <1>2, <1>3 DEF Outcome, Outcomes, Marks
<1>5. list \in Seq(Outcomes) /\ Len(list) = n
  BY <1>2, <1>3, <1>4
<1>6. Distinct(list)
  BY <1>2, <1>4, <1>5 DEF Distinct
<1>7. ASSUME NEW e \in Named(list) PROVE e \in S
  BY <1>2, <1>4, <1>5 DEF Named
<1>8. ASSUME NEW e \in S PROVE e \in Named(list)
  BY <1>2, <1>4, <1>5 DEF Named
<1> QED
  BY <1>5, <1>6, <1>7, <1>8

\* Lists that name no agent in common are distinct together.
LEMMA JoinedOnce ==
  ASSUME NEW first \in Seq(Outcomes), NEW second \in Seq(Outcomes),
         Distinct(first), Distinct(second), Named(first) \cap Named(second) = {}
  PROVE  /\ first \o second \in Seq(Outcomes) /\ Distinct(first \o second)
         /\ Named(first \o second) = Named(first) \cup Named(second)
<1> DEFINE both == first \o second
           m == Len(first)
           n == Len(second)
<1>1. /\ both \in Seq(Outcomes) /\ Len(both) = m + n
      /\ \A i \in 1..(m + n) : both[i] = IF i <= m THEN first[i] ELSE second[i - m]
  BY ConcatProperties
<1>2. m \in Nat /\ n \in Nat
  OBVIOUS
<1>3. /\ \A i \in 1..m : first[i].entity \in Named(first)
      /\ \A i \in 1..n : second[i].entity \in Named(second)
  <2>1. /\ \A i \in 1..m : first[i] \in Outcomes
        /\ \A i \in 1..n : second[i] \in Outcomes
    OBVIOUS
  <2>2. /\ \A i \in 1..m : first[i].entity \in Entities
        /\ \A i \in 1..n : second[i].entity \in Entities
    BY <2>1 DEF Outcomes
  <2> QED
    BY <2>2 DEF Named
<1>4. /\ \A i, j \in 1..m : first[i].entity = first[j].entity => i = j
      /\ \A i, j \in 1..n : second[i].entity = second[j].entity => i = j
  BY DEF Distinct
<1> HIDE DEF both, m, n
<1>5. ASSUME NEW i \in 1..(m + n)
      PROVE  \/ i \in 1..m /\ both[i] = first[i]
             \/ i - m \in 1..n /\ both[i] = second[i - m]
  BY <1>1, <1>2
<1>6. ASSUME NEW i \in 1..(m + n), NEW j \in 1..(m + n), both[i].entity = both[j].entity
      PROVE  i = j
  <2>1. CASE i \in 1..m /\ both[i] = first[i] /\ j \in 1..m /\ both[j] = first[j]
    BY <1>4, <1>6, <2>1
  <2>2. CASE /\ i - m \in 1..n /\ both[i] = second[i - m]
             /\ j - m \in 1..n /\ both[j] = second[j - m]
    <3>1. i - m = j - m
      BY <1>4, <1>6, <2>2
    <3> QED
      BY <1>2, <3>1
  <2>3. CASE i \in 1..m /\ both[i] = first[i] /\ j - m \in 1..n /\ both[j] = second[j - m]
    BY <1>3, <1>6, <2>3
  <2>4. CASE j \in 1..m /\ both[j] = first[j] /\ i - m \in 1..n /\ both[i] = second[i - m]
    BY <1>3, <1>6, <2>4
  <2> QED
    BY <1>5, <2>1, <2>2, <2>3, <2>4
<1>7. Distinct(both)
  BY <1>1, <1>6 DEF Distinct
<1>8. ASSUME NEW e \in Named(both) PROVE e \in Named(first) \cup Named(second)
  <2>1. PICK i \in 1..(m + n) : both[i].entity = e
    BY <1>1 DEF Named
  <2> QED
    BY <1>3, <1>5, <2>1
<1>9. ASSUME NEW e \in Named(first) PROVE e \in Named(both)
  <2>1. PICK i \in 1..m : first[i].entity = e
    BY DEF Named, m
  <2>2. i \in 1..(m + n) /\ both[i] = first[i]
    BY <1>1, <1>2
  <2> QED
    BY <1>1, <2>1, <2>2 DEF Named
<1>10. ASSUME NEW e \in Named(second) PROVE e \in Named(both)
  <2>1. PICK i \in 1..n : second[i].entity = e
    BY DEF Named, n
  <2>2. /\ i + m \in 1..(m + n) /\ ~ (i + m <= m) /\ (i + m) - m = i
    BY <1>2
  <2>3. both[i + m] = second[i]
    BY <1>1, <2>2
  <2> QED
    BY <1>1, <2>1, <2>2, <2>3 DEF Named
<1> QED
  BY <1>1, <1>7, <1>8, <1>9, <1>10 DEF both

LEMMA HistoryInit == Init => HistoryInv
<1> SUFFICES ASSUME Init PROVE HistoryInv
  OBVIOUS
<1>1. /\ marker = [e \in Entities |-> IF e \in Founders THEN Mark(e, 0, e) ELSE NoMarker]
      /\ used = Founders /\ active = [e \in Entities |-> NoMarker]
      /\ completed = <<>> /\ seen = {}
  BY DEF Init, Founded
<1>2. Named(completed) = {} /\ Distinct(completed) /\ completed \in Seq(Outcomes)
  BY <1>1 DEF Named, Distinct
<1>3. marker \in [Entities -> Marks] /\ active \in [Entities -> Marks]
  BY <1>1, EntitiesFinite DEF Mark, NoMarker, Marks
<1>4. Live \subseteq used
  BY <1>1 DEF Live
<1> QED
  BY <1>1, <1>2, <1>3, <1>4 DEF HistoryInv

\* The history is untouched and agents, if any, end.
LEMMA EndedKeepsHistory ==
  ASSUME HistoryInv, marker' \in [Entities -> Marks], Live' \subseteq Live,
         UNCHANGED <<used, active, completed, seen>>, phase' # "gather"
  PROVE  HistoryInv'
BY DEF HistoryInv, Named, Distinct

\* An agent that is born was in no history.
LEMMA BirthKeepsHistory ==
  ASSUME NEW parent \in Entities, NEW accepts \in BOOLEAN, NEW funded \in BOOLEAN,
         ControlInv, HistoryInv, Birth(parent, accepts, funded), seen' = seen,
         phase' # "gather"
  PROVE  HistoryInv'
<1> DEFINE born == accepts /\ marker[parent].controller \in controllers
           child == Mark(nextController, marker[parent].generation + 1,
                         marker[parent].lineage)
<1>1. UNCHANGED <<active, completed>>
  BY DEF Birth
<1>2. CASE ~ (born /\ funded)
  <2>1. UNCHANGED <<marker, used>>
    BY <1>2 DEF Birth
  <2>2. marker' \in [Entities -> Marks] /\ Live' \subseteq Live
    BY <2>1 DEF HistoryInv, Live
  <2> QED
    BY <1>1, <2>1, <2>2, EndedKeepsHistory
<1>3. CASE born /\ funded
  <2>1. /\ Unborn # {}
        /\ marker' = [marker EXCEPT ![NextUnborn] = child]
        /\ used' = used \cup {NextUnborn}
    BY <1>3 DEF Birth, Register
  <2>2. NextUnborn \in Entities /\ NextUnborn \notin used
    BY <2>1 DEF NextUnborn, Unborn
  <2>3. child \in Marks
    BY DEF ControlInv, Mark, Marks
  <2> HIDE DEF child, born
  <2>4. marker' \in [Entities -> Marks]
    BY <2>1, <2>3 DEF HistoryInv
  <2>5. Live' \subseteq Live \cup {NextUnborn}
    BY <2>1 DEF Live, HistoryInv
  <2>6. Named(completed)' = Named(completed) /\ Distinct(completed)'
    BY <1>1 DEF HistoryInv, Named, Distinct
  <2> QED
    BY <1>1, <2>1, <2>2, <2>4, <2>5, <2>6 DEF HistoryInv
<1> QED
  BY <1>2, <1>3

LEMMA RecordKeepsHistory ==
  ASSUME HistoryInv, Record
  PROVE  HistoryInv'
<1> DEFINE gone == [k \in DOMAIN SetToSeq(Removed) |->
                      Outcome(SetToSeq(Removed)[k], active[SetToSeq(Removed)[k]])]
<1>1. /\ completed' = completed \o gone
      /\ active' = [e \in Entities |-> IF e \in Live THEN marker[e]
                                       ELSE IF e \in Removed THEN NoMarker ELSE active[e]]
      /\ marker' = marker /\ used' = used /\ seen' = seen \cup Live
  BY DEF Record, RecordHistory
<1>2. Removed \in SUBSET Entities /\ active \in [Entities -> Marks]
  BY DEF Removed, HistoryInv
<1>3. gone \in Seq(Outcomes) /\ Distinct(gone) /\ Named(gone) = Removed
  BY <1>2, ListedOnce
<1> HIDE DEF gone
<1>4. Named(completed) \cap Removed = {}
  BY DEF Removed, HistoryInv
<1>5. /\ completed' \in Seq(Outcomes) /\ Distinct(completed')
      /\ Named(completed') = Named(completed) \cup Removed
  BY <1>1, <1>3, <1>4, JoinedOnce DEF HistoryInv
<1>6. Live' = Live /\ \A e \in Live : marker[e] # NoMarker
  BY <1>1 DEF Live
<1>7. active' \in [Entities -> Marks]
  <2>1. NoMarker \in Marks
    BY DEF NoMarker, Marks
  <2> QED
    BY <1>1, <2>1 DEF HistoryInv
<1>8. \A e \in Entities : active'[e] # NoMarker <=> e \in Live
  BY <1>1, <1>6 DEF Removed
<1>9. Named(completed)' = Named(completed') /\ Distinct(completed)' = Distinct(completed')
  BY DEF Named, Distinct
<1>10. \A e \in Named(completed') : e \in used /\ e \notin Live /\ active'[e] = NoMarker
  BY <1>5, <1>8 DEF HistoryInv, Removed, Named
<1>11. \A e \in seen' : active'[e] # NoMarker \/ e \in Named(completed')
  BY <1>1, <1>5, <1>8 DEF HistoryInv, Removed, Live
<1>12. seen' \subseteq Entities
  BY <1>1 DEF HistoryInv, Live
<1> QED
  BY <1>1, <1>5, <1>6, <1>7, <1>8, <1>9, <1>10, <1>11, <1>12 DEF HistoryInv

LEMMA RestoreKeepsHistory ==
  ASSUME HistoryInv, marker' \in [Entities -> Marks], Restore
  PROVE  HistoryInv'
<1>1. PICK given \in SUBSET Live : Restored(given)
  BY DEF Restore
<1>2. /\ active' = [e \in Entities |-> NoMarker] /\ completed' = <<>>
      /\ used' = used /\ seen' = {}
  BY <1>1 DEF Restored, Restore
<1>3. Live' \subseteq given
  BY <1>1 DEF Restored, Live
<1>4. NoMarker \in Marks
  BY DEF NoMarker, Marks
<1>5. Named(completed)' = {} /\ Distinct(completed)' /\ completed' \in Seq(Outcomes)
  BY <1>2 DEF Named, Distinct
<1> QED
  BY <1>2, <1>3, <1>4, <1>5 DEF HistoryInv

LEMMA HistoryStep ==
  ControlInv /\ ControlInv' /\ HistoryInv /\ [Next]_vars => HistoryInv'
<1> SUFFICES ASSUME ControlInv, ControlInv', HistoryInv, [Next]_vars PROVE HistoryInv'
  OBVIOUS
<1>1. marker' \in [Entities -> Marks]
  BY DEF ControlInv
<1>2. CASE Gather \/ Drain \/ Physics \/ StreamChunks
  <2>1. UNCHANGED <<marker, used, active, completed, seen>> /\ phase' # "gather"
    BY <1>2 DEF Gather, Drain, Physics, StreamChunks, lineageVars
  <2>2. Live' \subseteq Live
    BY <2>1 DEF Live
  <2> QED
    BY <1>1, <2>1, <2>2, EndedKeepsHistory
<1>3. CASE Fragment \/ RunDeaths
  <2>1. UNCHANGED <<used, active, completed, seen>> /\ phase' # "gather"
    BY <1>3 DEF Fragment, RunDeaths, Ended, lineageVars
  <2>2. marker' = marker \/ \E gone : Ended(gone)
    BY <1>3 DEF Fragment, RunDeaths, lineageVars
  <2>3. Live' \subseteq Live
    BY <2>2 DEF Ended, Live
  <2> QED
    BY <1>1, <2>1, <2>3, EndedKeepsHistory
<1>4. ASSUME NEW e \in Entities, Reproduce(e) PROVE HistoryInv'
  <2>1. PICK accepts, funded \in BOOLEAN : Birth(e, accepts, funded)
    BY <1>4 DEF Reproduce
  <2>2. seen' = seen /\ phase' # "gather"
    BY <1>4 DEF Reproduce
  <2> QED
    BY <2>1, <2>2, BirthKeepsHistory
<1>5. CASE Record
  BY <1>5, RecordKeepsHistory
<1>6. CASE Restore
  BY <1>1, <1>6, RestoreKeepsHistory
<1>7. CASE UNCHANGED vars
  <2>1. UNCHANGED <<marker, used, active, completed, seen, phase>>
    BY <1>7 DEF vars, lineageVars, controlVars
  <2> QED
    BY <2>1 DEF HistoryInv, Named, Distinct, Live
<1> QED
  BY <1>2, <1>3, <1>4, <1>5, <1>6, <1>7 DEF Next

\* In such a history each agent that was seen is in the evaluator's list once.
LEMMA HistoryIsComplete == HistoryInv => OutcomesComplete
<1> SUFFICES ASSUME HistoryInv, phase = "gather", NEW e \in seen
             PROVE  Cardinality({k \in DOMAIN Competence : Competence[k].entity = e}) = 1
  BY DEF OutcomesComplete
<1> DEFINE living == [k \in DOMAIN SetToSeq(Live) |->
                        Outcome(SetToSeq(Live)[k], marker[SetToSeq(Live)[k]])]
           places == {k \in DOMAIN Competence : Competence[k].entity = e}
<1>1. Live \in SUBSET Entities /\ marker \in [Entities -> Marks]
  BY DEF Live, HistoryInv
<1>2. living \in Seq(Outcomes) /\ Distinct(living) /\ Named(living) = Live
  BY <1>1, ListedOnce
<1>3. Competence = completed \o living
  BY DEF Competence
<1> HIDE DEF living
<1>4. Named(completed) \cap Live = {}
  BY DEF HistoryInv
<1>5. /\ Competence \in Seq(Outcomes) /\ Distinct(Competence)
      /\ Named(Competence) = Named(completed) \cup Live
  BY <1>2, <1>3, <1>4, JoinedOnce DEF HistoryInv
<1>6. e \in Named(Competence)
  BY <1>5 DEF HistoryInv
<1>7. DOMAIN Competence = 1..Len(Competence)
  BY <1>5
<1>8. PICK k \in 1..Len(Competence) : Competence[k].entity = e
  BY <1>6 DEF Named
<1>9. \A j \in 1..Len(Competence) : Competence[j].entity = e => j = k
  BY <1>5, <1>8 DEF Distinct
<1>10. places = {k}
  BY <1>7, <1>8, <1>9
<1> QED
  BY <1>10, FS_Singleton

\* Every agent that was live when a tick ended is in the evaluator's list exactly
\* once, whichever way it ended, through any number of ticks, births and restores
\* (record_agent_history, collect_competence).
THEOREM HistoryForgetsNobody == Spec => []OutcomesComplete
<1>1. Init => ControlInv /\ HistoryInv
  BY ControlInit, HistoryInit
<1>2. ControlInv /\ HistoryInv /\ [Next]_vars => (ControlInv /\ HistoryInv)'
  BY ControlStep, HistoryStep
<1>3. ControlInv /\ HistoryInv => OutcomesComplete
  BY HistoryIsComplete
<1> QED
  BY <1>1, <1>2, <1>3, PTL DEF Spec

(* Types. *)

TypeInv ==
  /\ TypeOK
  /\ phase # "births" => todo = {}
  /\ controllers \subseteq 1..(nextController - 1)

LEMMA MarkersOfLive ==
  ASSUME marker \in [Entities -> Marker \cup {NoMarker}]
  PROVE  /\ NoMarker \notin Marker
         /\ \A e \in Live : e \in Entities /\ marker[e] \in Marker
  BY DEF Live, Marker, NoMarker

LEMMA TypesAtFirst == Init => TypeInv
<1> SUFFICES ASSUME Init PROVE TypeInv
  OBVIOUS
<1>1. PICK g \in Grounds : StreamInit(g.seeded, g.preloaded)
  BY DEF Init
<1>2. /\ Founded(Founders) /\ at = [e \in Entities |-> 0] /\ phase = "gather" /\ todo = {}
      /\ deaths = {} /\ step = 0 /\ seen = {} /\ restores = 0
  BY DEF Init
<1>3. /\ Founders \subseteq Entities /\ Founders = 1..Cardinality(Founders)
      /\ Cardinality(Founders) \in 0..MaxControllers /\ MaxControllers \in Nat
      /\ {MaxTicks, MaxRestores, Width} \subseteq Nat
  <2>1. Cardinality(Founders) \in Nat
    BY EntitiesFinite, PopulationAssumption, FS_Subset, FS_CardinalityType
  <2> QED
    BY <2>1, PopulationAssumption, LineageAssumption, StreamingAssumption
<1>4. /\ marker = [e \in Entities |-> IF e \in Founders THEN Mark(e, 0, e) ELSE NoMarker]
      /\ controllers = Founders /\ nextController = Cardinality(Founders) + 1
      /\ used = Founders /\ active = [e \in Entities |-> NoMarker] /\ completed = <<>>
  BY <1>2 DEF Founded
<1>5. \A e \in Founders : Mark(e, 0, e) \in Marker
  BY <1>3 DEF Mark, Marker
<1>6. LineageTypeOK /\ controllers \subseteq 1..(nextController - 1)
  <2>1. marker \in [Entities -> Marker \cup {NoMarker}]
    BY <1>4, <1>5
  <2>2. Live \subseteq used
    BY <1>4 DEF Live
  <2>3. /\ nextController \in 1..(MaxControllers + 1) /\ nextController - 1 = Cardinality(Founders)
        /\ controllers \subseteq 1..MaxControllers
    BY <1>3, <1>4
  <2> QED
    BY <1>3, <1>4, <2>1, <2>2, <2>3 DEF LineageTypeOK
<1>7. StreamTypeOK
  <2>1. chunks \subseteq Chunks
    BY <1>1, PopulationAssumption DEF StreamInit
  <2> QED
    BY <1>1, <2>1 DEF StreamInit, StreamTypeOK
<1>8. at \in [Entities -> Reachable]
  BY <1>2, <1>3 DEF Reachable
<1> QED
  BY <1>2, <1>3, <1>6, <1>7, <1>8 DEF TypeInv, TypeOK

LEMMA EndedTypes ==
  ASSUME LineageTypeOK, NEW agents, Ended(agents)
  PROVE  /\ LineageTypeOK' /\ Live' \subseteq Live /\ used' = used
         /\ UNCHANGED <<controllers, nextController>>
<1>1. /\ marker' = [e \in Entities |-> IF e \in agents THEN NoMarker ELSE marker[e]]
      /\ UNCHANGED <<controllers, nextController, used, active, completed>>
  BY DEF Ended
<1>2. Live' \subseteq Live
  BY <1>1 DEF Live
<1>3. marker' \in [Entities -> Marker \cup {NoMarker}]
  BY <1>1 DEF LineageTypeOK
<1> QED
  BY <1>1, <1>2, <1>3 DEF LineageTypeOK

LEMMA BirthTypes ==
  ASSUME TypeInv, NEW parent \in Live, NEW accepts \in BOOLEAN, NEW funded \in BOOLEAN,
         Birth(parent, accepts, funded)
  PROVE  /\ LineageTypeOK' /\ Live \subseteq Live' /\ used \subseteq used'
         /\ controllers' \subseteq 1..(nextController' - 1)
<1> DEFINE born == accepts /\ marker[parent].controller \in controllers
           child == Mark(nextController, marker[parent].generation + 1, marker[parent].lineage)
<1>1. /\ LineageTypeOK /\ controllers \subseteq 1..(nextController - 1)
      /\ MaxControllers \in Nat
  BY LineageAssumption DEF TypeInv, TypeOK
<1>2. CASE ~ born
  <2>1. UNCHANGED lineageVars
    BY <1>2 DEF Birth, lineageVars
  <2> QED
    BY <1>1, <2>1 DEF LineageTypeOK, Live, lineageVars
<1>3. CASE born
  <2>1. /\ nextController <= MaxControllers /\ controllers' = controllers \cup {nextController}
        /\ nextController' = nextController + 1 /\ UNCHANGED <<active, completed>>
    BY <1>3 DEF Birth, Register
  <2>2. /\ nextController' \in 1..(MaxControllers + 1)
        /\ controllers' \subseteq 1..(nextController' - 1) /\ controllers' \subseteq 1..MaxControllers
    BY <1>1, <2>1 DEF LineageTypeOK
  <2>3. CASE ~ funded
    <3>1. UNCHANGED <<marker, used>>
      BY <2>3 DEF Birth
    <3> QED
      BY <1>1, <2>1, <2>2, <3>1 DEF LineageTypeOK, Live
  <2>4. CASE funded
    <3>1. /\ Unborn # {} /\ marker' = [marker EXCEPT ![NextUnborn] = child]
          /\ used' = used \cup {NextUnborn}
      BY <1>3, <2>4 DEF Birth, Register
    <3>2. NextUnborn \in Entities
      BY <3>1 DEF NextUnborn, Unborn
    <3>3. child \in Marker /\ child # NoMarker
      <4>1. marker[parent] \in Marker
        BY <1>1, MarkersOfLive DEF LineageTypeOK
      <4>2. nextController \in 1..MaxControllers
        BY <1>1, <2>1 DEF LineageTypeOK
      <4>3. child \in Marker
        BY <4>1, <4>2 DEF Mark, Marker
      <4> QED
        BY <4>3 DEF Marker, NoMarker
    <3> HIDE DEF child
    <3>4. marker' \in [Entities -> Marker \cup {NoMarker}]
      BY <1>1, <3>1, <3>2, <3>3 DEF LineageTypeOK
    <3>5. Live' = Live \cup {NextUnborn}
      BY <1>1, <3>1, <3>2, <3>3 DEF LineageTypeOK, Live
    <3> QED
      BY <1>1, <2>1, <2>2, <3>1, <3>2, <3>4, <3>5 DEF LineageTypeOK
  <2> QED
    BY <2>3, <2>4
<1> QED
  BY <1>2, <1>3

\* What is recorded of agents that ended is typed as their markers were.
LEMMA RecordTypes ==
  ASSUME LineageTypeOK, RecordHistory
  PROVE  LineageTypeOK' /\ UNCHANGED <<marker, controllers, nextController, used>>
<1> DEFINE OutcomeRec == [entity : Entities, generation : Nat, lineage : Entities]
           order == SetToSeq(Removed)
           n == Cardinality(Removed)
           list == [k \in DOMAIN order |-> Outcome(order[k], active[order[k]])]
<1>1. /\ completed' = completed \o list
      /\ active' = [e \in Entities |-> IF e \in Live THEN marker[e]
                                       ELSE IF e \in Removed THEN NoMarker ELSE active[e]]
      /\ UNCHANGED <<marker, controllers, nextController, used>>
  BY DEF RecordHistory
<1>2. \A e \in Removed : e \in Entities /\ active[e] \in Marker
  BY DEF Removed, LineageTypeOK
<1>3. order \in [1..n -> Removed] /\ n \in Nat
  <2>1. Removed \in SUBSET Entities
    BY DEF Removed
  <2> QED
    BY <2>1, EntitiesFinite, FS_Subset, LaidOutOnce
<1> HIDE DEF order, n
<1>4. \A k \in 1..n : Outcome(order[k], active[order[k]]) \in OutcomeRec
  <2>1. \A e \in Removed : Outcome(e, active[e]) \in OutcomeRec
    BY <1>2 DEF Outcome, Marker
  <2> QED
    BY <1>3, <2>1
<1>5. list \in Seq(OutcomeRec)
  BY <1>3, <1>4
<1>6. completed' \in Seq(OutcomeRec)
  <2> HIDE DEF list
  <2> QED
    BY <1>1, <1>5, ConcatProperties DEF LineageTypeOK
<1>7. active' \in [Entities -> Marker \cup {NoMarker}]
  BY <1>1 DEF LineageTypeOK
<1>8. Live' = Live
  BY <1>1 DEF Live
<1> QED
  BY <1>1, <1>6, <1>7, <1>8 DEF LineageTypeOK

\* There are as many numbers for controllers as agents that can be restored.
LEMMA RestoredTypes ==
  ASSUME TypeInv, ControlInv, NEW given \in SUBSET Live, Restored(given)
  PROVE  LineageTypeOK' /\ controllers' \subseteq 1..(nextController' - 1) /\ used' = used
<1> DEFINE rank(e) == Cardinality({g \in given : g <= e})
           size == Cardinality(given)
<1>1. LineageTypeOK /\ MaxControllers \in Nat
  BY LineageAssumption DEF TypeInv, TypeOK
<1>2. given \in SUBSET Nat /\ given \subseteq Entities /\ IsFiniteSet(given)
  BY EntitiesFinite, FS_Subset DEF Live
<1>3. size \in Nat /\ size <= MaxControllers
  <2>1. [e \in given |-> marker[e].controller] \in Injection(given, 1..MaxControllers)
    <3>1. [e \in given |-> marker[e].controller] \in [given -> 1..MaxControllers]
      BY <1>1, MarkersOfLive DEF LineageTypeOK, Marker
    <3>2. \A e, f \in given : marker[e].controller = marker[f].controller => e = f
      BY DEF ControlInv, EveryAgentControlled
    <3> QED
      BY <3>1, <3>2 DEF Injection, IsInjective
  <2>2. IsFiniteSet(1..MaxControllers) /\ Cardinality(1..MaxControllers) = MaxControllers
    <3>1. /\ IsFiniteSet(1..MaxControllers)
          /\ Cardinality(1..MaxControllers) = IF 1 > MaxControllers THEN 0 ELSE MaxControllers - 1 + 1
      BY <1>1, FS_Interval
    <3> QED
      BY <1>1, <3>1
  <2> QED
    BY <1>2, <2>1, <2>2, FS_Injection, FS_CardinalityType
<1>4. \A e \in given : rank(e) \in 1..size
  BY <1>2, RankBounds
<1>5. /\ marker' = [e \in Entities |->
             IF e \in given THEN Mark(rank(e), marker[e].generation, marker[e].lineage)
             ELSE NoMarker]
      /\ controllers' = 1..size /\ nextController' = size + 1 /\ used' = used
      /\ active' = [e \in Entities |-> NoMarker] /\ completed' = <<>>
  BY DEF Restored
<1> HIDE DEF rank, size
<1>6. ASSUME NEW e \in given
      PROVE  Mark(rank(e), marker[e].generation, marker[e].lineage) \in Marker
  <2>1. marker[e] \in Marker
    BY <1>1, MarkersOfLive DEF LineageTypeOK
  <2>2. rank(e) \in 1..MaxControllers
    BY <1>1, <1>3, <1>4
  <2> QED
    BY <2>1, <2>2 DEF Mark, Marker
<1>7. marker' \in [Entities -> Marker \cup {NoMarker}]
  BY <1>5, <1>6
<1>8. Live' \subseteq used
  BY <1>1, <1>5 DEF Live, LineageTypeOK
<1>9. /\ nextController' \in 1..(MaxControllers + 1) /\ controllers' \subseteq 1..MaxControllers
      /\ nextController' - 1 = size
  BY <1>1, <1>3, <1>5
<1> QED
  BY <1>1, <1>5, <1>7, <1>8, <1>9 DEF LineageTypeOK

\* The chunks an agent needs are chunks of the world.
LEMMA StreamTypes ==
  ASSUME StreamTypeOK, TerrainInv', at \in [Entities -> Reachable], NEW agents \in SUBSET Entities,
         NEW now, Stream(agents, now)
  PROVE  StreamTypeOK' /\ at' = at
<1>1. CASE UNCHANGED streamVars
  BY <1>1 DEF streamVars, StreamTypeOK
<1>2. CASE ~ UNCHANGED streamVars
  <2>1. /\ chunks' = Desired(agents) /\ at' = at /\ rubble' \in {Nowhere, rubble}
    BY <1>2 DEF Stream
  <2>2. \A c \in Reachable : Halo(c) \subseteq Chunks
    <3>1. Width \in Nat
      BY StreamingAssumption
    <3>2. ASSUME NEW c \in Reachable PROVE {c - 1, c, c + 1} \subseteq Chunks
      BY <3>1 DEF Reachable, Chunks
    <3> QED
      BY <3>2 DEF Halo
  <2>3. Desired(agents) \subseteq Chunks
    BY <2>2 DEF Desired
  <2> QED
    BY <2>1, <2>3 DEF StreamTypeOK, TerrainInv
<1> QED
  BY <1>1, <1>2

\* What is left behind lies where an agent was.
LEMMA LeftTypes ==
  ASSUME StreamTypeOK, NEW places \in SUBSET Reachable, Left(places)
  PROVE  rubble' \in Reachable \cup {Nowhere}
BY DEF Left, StreamTypeOK

LEMMA TypesStep ==
  TypeInv /\ ControlInv /\ TerrainInv /\ TerrainInv' /\ [Next]_vars => TypeInv'
<1> SUFFICES ASSUME TypeInv, ControlInv, TerrainInv, TerrainInv', [Next]_vars PROVE TypeInv'
  OBVIOUS
<1> DEFINE Phases == {"gather", "drain", "births", "physics", "fragment", "deaths", "stream",
                      "record"}
           AgentsOK == LineageTypeOK /\ controllers \subseteq 1..(nextController - 1)
           PlacesOK == StreamTypeOK /\ at \in [Entities -> Reachable]
           TurnOK == /\ phase \in Phases /\ todo \subseteq Live /\ deaths \subseteq used
                     /\ phase # "births" => todo = {}
           CountsOK == seen \subseteq used /\ step \in 0..MaxTicks /\ restores \in 0..MaxRestores
<1>1. TypeInv <=> AgentsOK /\ PlacesOK /\ TurnOK /\ CountsOK
  BY DEF TypeInv, TypeOK
<1>2. TypeInv' <=> AgentsOK' /\ PlacesOK' /\ TurnOK' /\ CountsOK'
  BY DEF TypeInv, TypeOK
<1>3. /\ {MaxTicks, MaxRestores, Width} \subseteq Nat /\ 0 \in Reachable
      /\ Live \subseteq used /\ Live \subseteq Entities /\ used \subseteq Entities
  BY PopulationAssumption, StreamingAssumption
  DEF Reachable, TypeInv, TypeOK, LineageTypeOK, Live
<1>4. PlacesOK => \A agents \in SUBSET Entities : {at[e] : e \in agents} \subseteq Reachable
  OBVIOUS
<1>5. UNCHANGED lineageVars => AgentsOK' /\ Live' = Live /\ used' = used
  BY <1>1 DEF lineageVars, LineageTypeOK, Live
<1>6. UNCHANGED streamVars => PlacesOK'
  BY <1>1 DEF streamVars, StreamTypeOK
<1>7. Placed => at' \in [Entities -> Reachable]
  BY <1>1, <1>3 DEF Placed
<1>8. UNCHANGED <<chunks, terrain>> /\ rubble' \in Reachable \cup {Nowhere} => StreamTypeOK'
  BY <1>1 DEF StreamTypeOK
<1>9. CASE Gather
  <2>1. /\ controllers' = Retained /\ phase' = "drain" /\ phase = "gather"
        /\ UNCHANGED <<marker, nextController, used, active, completed, streamVars,
                       todo, deaths, step, seen, restores>>
    BY <1>9 DEF Gather, Runs
  <2>2. AgentsOK' /\ Live' = Live
    BY <1>1, <2>1 DEF Retained, LineageTypeOK, Live
  <2> QED
    BY <1>1, <1>2, <1>6, <2>1, <2>2
<1>10. CASE Drain
  <2>1. /\ deaths' \in SUBSET Live /\ todo' = Live
        /\ phase' = IF Live = {} THEN "physics" ELSE "births"
        /\ UNCHANGED <<lineageVars, streamVars, step, seen, restores>>
    BY <1>10 DEF Drain
  <2>2. AgentsOK' /\ Live' = Live /\ used' = used
    BY <1>5, <2>1
  <2> QED
    BY <1>1, <1>2, <1>3, <1>6, <2>1, <2>2
<1>11. ASSUME NEW e \in Entities, Reproduce(e) PROVE TypeInv'
  <2>1. /\ phase = "births" /\ e \in todo
        /\ \E accepts, funded \in BOOLEAN : Birth(e, accepts, funded)
        /\ at' = [f \in Entities |-> IF f \in used' \ used THEN at[e] ELSE at[f]]
        /\ todo' = todo \ {e}
        /\ phase' = IF todo' = {} THEN "physics" ELSE "births"
        /\ UNCHANGED <<chunks, terrain, rubble, deaths, step, seen, restores>>
    BY <1>11 DEF Reproduce, Runs
  <2>2. /\ LineageTypeOK' /\ Live \subseteq Live' /\ used \subseteq used'
        /\ controllers' \subseteq 1..(nextController' - 1)
    BY <1>1, <2>1, BirthTypes
  <2>3. PlacesOK'
    BY <1>1, <1>8, <2>1 DEF StreamTypeOK
  <2> QED
    BY <1>1, <1>2, <2>1, <2>2, <2>3
<1>12. CASE Physics
  <2>1. /\ phase = "physics" /\ phase' = "fragment"
        /\ \/ UNCHANGED <<at, rubble>>
           \/ \E e \in Live, c \in Reachable : at' = [at EXCEPT ![e] = c] /\ UNCHANGED rubble
           \/ rubble' \in Reachable /\ UNCHANGED at
        /\ UNCHANGED <<lineageVars, chunks, terrain, todo, deaths, step, seen, restores>>
    BY <1>12 DEF Physics, Runs
  <2>2. PlacesOK'
    BY <1>1, <1>8, <2>1 DEF StreamTypeOK
  <2>3. AgentsOK' /\ Live' = Live /\ used' = used
    BY <1>5, <2>1
  <2> QED
    BY <1>1, <1>2, <2>1, <2>2, <2>3
<1>13. CASE Fragment
  <2>1. /\ phase = "fragment" /\ phase' = "deaths"
        /\ UNCHANGED <<chunks, todo, deaths, step, seen, restores>>
    BY <1>13 DEF Fragment, Runs
  <2>2. ASSUME NEW victims \in SUBSET Live, Ended(victims), Left({at[e] : e \in victims}), Placed,
               UNCHANGED terrain
        PROVE  AgentsOK' /\ PlacesOK' /\ used' = used
    <3>1. rubble' \in Reachable \cup {Nowhere}
      BY <1>1, <1>3, <1>4, <2>2, LeftTypes
    <3>2. LineageTypeOK' /\ used' = used /\ UNCHANGED <<controllers, nextController>>
      BY <1>1, <2>2, EndedTypes
    <3> QED
      BY <1>1, <1>7, <1>8, <2>1, <2>2, <3>1, <3>2
  <2>3. ASSUME Left(Reachable), UNCHANGED <<lineageVars, at>>
        PROVE  AgentsOK' /\ PlacesOK' /\ used' = used
    <3>1. rubble' \in Reachable \cup {Nowhere}
      BY <1>1, <2>3, LeftTypes
    <3> QED
      BY <1>1, <1>5, <2>1, <2>3, <3>1 DEF StreamTypeOK, TerrainInv
  <2>4. AgentsOK' /\ PlacesOK' /\ used' = used
    BY <1>13, <2>2, <2>3 DEF Fragment
  <2> QED
    BY <1>1, <1>2, <2>1, <2>4
<1>14. CASE RunDeaths
  <2>1. /\ phase = "deaths" /\ phase' = "stream" /\ Ended(deaths)
        /\ Left({at[e] : e \in deaths \cap Live}) /\ deaths' = {} /\ Placed
        /\ UNCHANGED <<chunks, terrain, todo, step, seen, restores>>
    BY <1>14 DEF RunDeaths, Runs
  <2>2. rubble' \in Reachable \cup {Nowhere}
    <3>1. {at[e] : e \in deaths \cap Live} \in SUBSET Reachable
      BY <1>1, <1>3
    <3> QED
      BY <1>1, <2>1, <3>1, LeftTypes
  <2>3. LineageTypeOK' /\ used' = used /\ UNCHANGED <<controllers, nextController>>
    BY <1>1, <2>1, EndedTypes
  <2> QED
    BY <1>1, <1>2, <1>7, <1>8, <2>1, <2>2, <2>3
<1>15. CASE StreamChunks
  <2>1. /\ phase = "stream" /\ phase' = "record" /\ Stream(Live, step)
        /\ UNCHANGED <<lineageVars, todo, deaths, step, seen, restores>>
    BY <1>15 DEF StreamChunks, Runs
  <2>2. StreamTypeOK' /\ at' = at
    BY <1>1, <1>3, <2>1, StreamTypes
  <2>3. AgentsOK' /\ Live' = Live /\ used' = used
    BY <1>5, <2>1
  <2> QED
    BY <1>1, <1>2, <2>1, <2>2, <2>3
<1>16. CASE Record
  <2>1. /\ phase = "record" /\ phase' = "gather" /\ RecordHistory /\ seen' = seen \cup Live
        /\ step' = step + 1 /\ step < MaxTicks
        /\ UNCHANGED <<streamVars, todo, deaths, restores>>
    BY <1>16 DEF Record, Runs
  <2>2. LineageTypeOK' /\ UNCHANGED <<marker, controllers, nextController, used>>
    BY <1>1, <2>1, RecordTypes
  <2>3. CountsOK'
    BY <1>1, <1>3, <2>1, <2>2
  <2> QED
    BY <1>1, <1>2, <1>6, <2>1, <2>2, <2>3
<1>17. CASE Restore
  <2>1. PICK given \in SUBSET Live :
          Restored(given) /\ Left({at[e] : e \in Live \ given}) /\ Placed
    BY <1>17 DEF Restore
  <2>2. /\ phase = "gather" /\ chunks' = chunks /\ seen' = {} /\ restores < MaxRestores
        /\ restores' = restores + 1 /\ UNCHANGED <<terrain, phase, todo, deaths, step>>
    BY <1>17 DEF Restore, Runs, RestoredChunks
  <2>3. rubble' \in Reachable \cup {Nowhere}
    <3>1. {at[e] : e \in Live \ given} \in SUBSET Reachable
      BY <1>1, <1>3
    <3> QED
      BY <1>1, <2>1, <3>1, LeftTypes
  <2>4. LineageTypeOK' /\ controllers' \subseteq 1..(nextController' - 1) /\ used' = used
    BY <2>1, RestoredTypes
  <2>5. CountsOK'
    BY <1>1, <1>3, <2>2
  <2> QED
    BY <1>1, <1>2, <1>7, <1>8, <2>1, <2>2, <2>3, <2>4, <2>5
<1>18. CASE UNCHANGED vars
  <2>1. UNCHANGED lineageVars /\ UNCHANGED streamVars /\ UNCHANGED controlVars
    BY <1>18 DEF vars
  <2>2. AgentsOK' /\ PlacesOK' /\ Live' = Live /\ used' = used
    BY <1>5, <1>6, <2>1
  <2> QED
    BY <1>1, <1>2, <2>1, <2>2 DEF controlVars
<1> QED
  BY <1>9, <1>10, <1>11, <1>12, <1>13, <1>14, <1>15, <1>16, <1>17, <1>18 DEF Next

\* Types of agents, controllers, places and history.
THEOREM PopulationTypeCorrect == Spec => []TypeOK
<1>1. TypeInv => TypeOK
  BY DEF TypeInv
<1> QED
  BY TypesAtFirst, TypesStep, ControlInit, ControlStep, TerrainInit, TerrainStep, <1>1, PTL DEF Spec
=============================================================================
