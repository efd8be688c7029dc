------------------------------- MODULE Lineage ------------------------------
(***************************************************************************)
(* Who controls which agent, and what is remembered of agents that ended:  *)
(* the controllers of WorldAgents, the AgentMarker of each live agent and  *)
(* AgentHistory.  A controller is registered before its agent exists and   *)
(* outlives it until the next gather; the history learns of an agent when  *)
(* a tick ends.  An agent is named by its entity, which no other entity    *)
(* ever gets.                                                              *)
(***************************************************************************)
EXTENDS Naturals, FiniteSetsExt, SequencesExt

CONSTANTS
  MaxAgents,            \* bound: agents that ever exist in one process
  MaxControllers        \* bound: controllers that are ever registered

Entities == 1..MaxAgents

ASSUME LineageAssumption == {MaxAgents, MaxControllers} \subseteq Nat

VARIABLES
  marker,               \* AgentMarker of the live agents
  controllers,          \* WorldAgents
  nextController,
  used,                 \* history: entities that have been agents
  active,               \* AgentHistory: markers of the agents recorded as live
  completed             \* AgentHistory: agents that ended

lineageVars == <<marker, controllers, nextController, used, active, completed>>

NoMarker == [controller |-> 0, generation |-> 0, lineage |-> 0]
Mark(controller, generation, lineage) ==
  [controller |-> controller, generation |-> generation, lineage |-> lineage]

Live == {e \in Entities : marker[e] # NoMarker}
Unborn == Entities \ used
NextUnborn == CHOOSE e \in Unborn : TRUE

\* A slip: a controller gets the number of those that are registered.
RegisterByCount == Cardinality(controllers) + 1

Register == nextController

-----------------------------------------------------------------------------
\* Controllers of agents that ended, or that were never born, are dropped.
Retained == {marker[e].controller : e \in Live} \cap controllers

\* The child's controller is registered before the parent is asked to pay; a
\* parent without a controller, or one that declines, has no child.
Birth(parent, accepts, funded) ==
  LET born == accepts /\ marker[parent].controller \in controllers
      child == Mark(Register, marker[parent].generation + 1, marker[parent].lineage)
  IN /\ born => nextController <= MaxControllers   \* bound
     /\ born /\ funded => Unborn # {}              \* bound
     /\ controllers' = IF born THEN controllers \cup {Register} ELSE controllers
     /\ nextController' = IF born THEN nextController + 1 ELSE nextController
     /\ IF born /\ funded
          THEN /\ marker' = [marker EXCEPT ![NextUnborn] = child]
               /\ used' = used \cup {NextUnborn}
          ELSE UNCHANGED <<marker, used>>
     /\ UNCHANGED <<active, completed>>

\* Fragmentation takes the entity away, death only its marker.
Ended(agents) ==
  /\ marker' = [e \in Entities |-> IF e \in agents THEN NoMarker ELSE marker[e]]
  /\ UNCHANGED <<controllers, nextController, used, active, completed>>

-----------------------------------------------------------------------------
(* record_agent_history *)

Outcome(e, mark) == [entity |-> e, generation |-> mark.generation, lineage |-> mark.lineage]

\* A slip: an agent counts as removed when the record of this tick lacks its
\* controller.
RemovedUncontrolled ==
  {e \in Entities : active[e] # NoMarker /\ active[e].controller \notin controllers}

Removed == {e \in Entities : active[e] # NoMarker /\ e \notin Live}

RecordHistory ==
  LET order == SetToSeq(Removed)
  IN /\ completed' = completed \o [k \in DOMAIN order |-> Outcome(order[k], active[order[k]])]
     /\ active' = [e \in Entities |-> IF e \in Live THEN marker[e]
                                      ELSE IF e \in Removed THEN NoMarker ELSE active[e]]
     /\ UNCHANGED <<marker, controllers, nextController, used>>

\* collect_competence: what the evaluator is given.
Competence == completed \o LET order == SetToSeq(Live)
                           IN [k \in DOMAIN order |-> Outcome(order[k], marker[order[k]])]

-----------------------------------------------------------------------------
\* Founders are registered one after another; each is a lineage of its own.
Founded(founders) ==
  /\ marker = [e \in Entities |-> IF e \in founders THEN Mark(e, 0, e) ELSE NoMarker]
  /\ controllers = founders
  /\ nextController = Cardinality(founders) + 1
  /\ used = founders
  /\ active = [e \in Entities |-> NoMarker]
  /\ completed = <<>>

Restored(given) ==
  LET mark(e) == Mark(Cardinality({g \in given : g <= e}), marker[e].generation,
                      marker[e].lineage)
  IN /\ marker' = [e \in Entities |-> IF e \in given THEN mark(e) ELSE NoMarker]
     /\ controllers' = 1..Cardinality(given)
     /\ nextController' = Cardinality(given) + 1
     /\ active' = [e \in Entities |-> NoMarker]
     /\ completed' = <<>>
     /\ UNCHANGED used

-----------------------------------------------------------------------------
Marker == [controller : 1..MaxControllers, generation : Nat, lineage : Entities]

LineageTypeOK ==
  /\ marker \in [Entities -> Marker \cup {NoMarker}]
  /\ controllers \subseteq 1..MaxControllers
  /\ nextController \in 1..(MaxControllers + 1)
  /\ Live \subseteq used /\ used \subseteq Entities
  /\ active \in [Entities -> Marker \cup {NoMarker}]
  /\ completed \in Seq([entity : Entities, generation : Nat, lineage : Entities])
=============================================================================
