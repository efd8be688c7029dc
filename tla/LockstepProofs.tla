--------------------------- MODULE LockstepProofs ---------------------------
(***************************************************************************)
(* Proofs about the lockstep system, for every number of connections,       *)
(* visitors, strays, decisions and ticks per decision, and for every place  *)
(* a connection may be lost.                                                *)
(***************************************************************************)
EXTENDS LockstepSystem, SequenceTheorems, TLAPS

-----------------------------------------------------------------------------
(* Sequences *)

\* Taking the head of a non-empty queue: the frame and the rest are of the
\* queue's element type.
LEMMA QueueHead ==
    ASSUME NEW S, NEW q \in Seq(S), q # <<>>
    PROVE  Head(q) \in S /\ Tail(q) \in Seq(S)
  BY HeadTailProperties

\* A prefix of a queue is a queue of the same element type.
LEMMA QueuePrefix ==
    ASSUME NEW S, NEW q \in Seq(S), NEW n \in 0..Len(q)
    PROVE  SubSeq(q, 1, n) \in Seq(S)
<1>1. Len(q) \in Nat
  BY LenProperties
<1>2. \A i \in 1..n : q[i] \in S
  BY <1>1, ElementOfSeq
<1>3. QED
  BY <1>1, <1>2, SubSeqProperties

\* Widening the element type of a queue.
LEMMA QueueWiden ==
    ASSUME NEW S, NEW T, S \subseteq T, NEW q \in Seq(S)
    PROVE  q \in Seq(T)
  BY SeqMonotonic

-----------------------------------------------------------------------------
(* Network operations are type correct *)

\* A connect keeps the network well typed, and the new connection is one.
LEMMA OpensType ==
    ASSUME NetTypeOK, NEW q \in Seq(UpFrame), Opens(q)
    PROVE  NetTypeOK' /\ opened + 1 \in Conn
<1>. USE NetAssumption
<1>1. opened + 1 \in Conn
  BY DEF NetTypeOK, Opens, Conn
<1>2. backlog' \in Seq(Conn)
  BY <1>1, AppendProperties DEF NetTypeOK, Opens
<1>3. QED
  BY <1>1, <1>2 DEF NetTypeOK, Opens, Conn

\* An agent's write of a well-formed frame keeps the network well typed.
LEMMA AgentWritesType ==
    ASSUME NetTypeOK, NEW c \in Conn, NEW f \in UpFrame, AgentWrites(c, f)
    PROVE  NetTypeOK'
<1>1. Append(up[c], f) \in Seq(UpFrame)
  BY AppendProperties DEF NetTypeOK
<1>2. QED
  BY <1>1 DEF NetTypeOK, AgentWrites

\* An agent's read keeps the network well typed; what it reads is a server frame.
LEMMA AgentReadsType ==
    ASSUME NetTypeOK, NEW c \in Conn, NEW f, AgentReads(c, f)
    PROVE  NetTypeOK' /\ f \in DownFrame
<1>1. Head(down[c]) \in DownFrame /\ Tail(down[c]) \in Seq(DownFrame)
  BY QueueHead DEF NetTypeOK, AgentReads
<1>2. QED
  BY <1>1 DEF NetTypeOK, AgentReads

\* Losing the agent's end keeps the network well typed.
LEMMA AgentDropsType ==
    ASSUME NetTypeOK, NEW c \in Conn, AgentDrops(c)
    PROVE  NetTypeOK'
<1>1. PICK n \in 0..Len(up[c]) : up' = [up EXCEPT ![c] = SubSeq(@, 1, n)]
  BY DEF AgentDrops
<1>2. SubSeq(up[c], 1, n) \in Seq(UpFrame)
  BY QueuePrefix DEF NetTypeOK
<1>3. up' \in [Conn -> Seq(UpFrame)]
  BY <1>1, <1>2 DEF NetTypeOK
<1>4. down' \in [Conn -> Seq(DownFrame)]
  <2>1. <<>> \in Seq(DownFrame)
    BY EmptySeq
  <2>2. QED
    BY <2>1 DEF NetTypeOK, AgentDrops
<1>5. peer' \in [Conn -> {"unused", "open", "closed", "silent"}]
  BY DEF NetTypeOK, AgentDrops
<1>6. QED
  BY <1>3, <1>4, <1>5 DEF NetTypeOK, AgentDrops

\* accept() returns a connection and keeps the network well typed.
LEMMA AcceptsType ==
    ASSUME NetTypeOK, NEW c, Accepts(c)
    PROVE  NetTypeOK' /\ c \in Conn
<1>1. Head(backlog) \in Conn /\ Tail(backlog) \in Seq(Conn)
  BY QueueHead DEF NetTypeOK, Accepts
<1>2. QED
  BY <1>1 DEF NetTypeOK, Accepts

\* A server write of a well-formed frame keeps the network well typed.
LEMMA WritesType ==
    ASSUME NetTypeOK, NEW c \in Conn, NEW f \in DownFrame, Writes(c, f)
    PROVE  NetTypeOK'
<1>1. Append(down[c], f) \in Seq(DownFrame)
  BY AppendProperties DEF NetTypeOK
<1>2. down' \in [Conn -> Seq(DownFrame)]
  BY <1>1 DEF NetTypeOK, Writes
<1>3. unacked' \in [Conn -> BOOLEAN]
  <2>1. unacked' = [unacked EXCEPT ![c] = unacked[c] \/ peer[c] = "silent"]
    BY DEF Writes
  <2>2. (unacked[c] \/ peer[c] = "silent") \in BOOLEAN
    OBVIOUS
  <2>3. QED
    BY <2>1, <2>2 DEF NetTypeOK
<1>4. QED
  BY <1>2, <1>3 DEF NetTypeOK, Writes

\* A server read keeps the network well typed; what it reads is an agent frame.
LEMMA ReadsType ==
    ASSUME NetTypeOK, NEW c \in Conn, NEW f, Reads(c, f)
    PROVE  NetTypeOK' /\ f \in UpFrame
<1>1. Head(up[c]) \in UpFrame /\ Tail(up[c]) \in Seq(UpFrame)
  BY QueueHead DEF NetTypeOK, Reads
<1>2. QED
  BY <1>1 DEF NetTypeOK, Reads

\* Reading one frame and dropping the connection keeps the network well typed.
LEMMA ReadsAndReleasesType ==
    ASSUME NetTypeOK, NEW c \in Conn, ReadsAndReleases(c)
    PROVE  NetTypeOK'
<1>1. Tail(up[c]) \in Seq(UpFrame)
  BY QueueHead DEF NetTypeOK, ReadsAndReleases
<1>2. QED
  BY <1>1 DEF NetTypeOK, ReadsAndReleases

\* Dropping the server's end, or no connection, keeps the network well typed.
LEMMA ReleasesType ==
    ASSUME NetTypeOK, NEW c \in Conn \cup {NoConn}, Releases(c)
    PROVE  NetTypeOK'
<1>1. CASE c \in Conn
  <2>1. PICK n \in 0..Len(down[c]) : down' = [down EXCEPT ![c] = SubSeq(@, 1, n)]
    BY DEF Releases
  <2>2. SubSeq(down[c], 1, n) \in Seq(DownFrame)
    BY <1>1, QueuePrefix DEF NetTypeOK
  <2>3. QED
    BY <1>1, <2>1, <2>2 DEF NetTypeOK, Releases
<1>2. CASE c = NoConn
  <2>1. c \notin Conn
    BY <1>2, NetAssumption DEF Conn, NoConn
  <2>2. ours' = ours /\ down' = down
    <3>1. PICK n \in 0..Len(down[c]) : down' = [down EXCEPT ![c] = SubSeq(@, 1, n)]
      BY DEF Releases
    <3>2. QED
      BY <2>1, <3>1 DEF NetTypeOK, Releases
  <2>3. QED
    BY <2>2 DEF NetTypeOK, Releases
<1>3. QED
  BY <1>1, <1>2

\* A call that times out keeps the network well typed.
LEMMA TimesOutType ==
    ASSUME NetTypeOK, NEW c \in Conn, TimesOut(c)
    PROVE  NetTypeOK'
  BY DEF NetTypeOK, TimesOut

-----------------------------------------------------------------------------
(* Parts of the server's actions are type correct *)

\* The control state of TypeOK's server part that the parts below change.
TransportTypeOK ==
    /\ stream \in Conn \cup {NoConn}
    /\ cand \in Conn \cup {NoConn}
    /\ lifecycleSequence \in Nat
    /\ pendingLifecycle \in Seq(Event)

AgentTypeOK ==
    /\ held \in Action
    /\ remaining \in 0..(PhysicsTicksPerDecision - 1)
    /\ decisionSequence \in Nat
    /\ previous \in Nat \cup {NoStep}
    /\ since \in Nat \cup {NoStep}
    /\ decisions \in Seq([step : Nat, action : Action])

WorldTypeOK ==
    /\ tick \in Nat
    /\ effect \in Action
    /\ alive \in BOOLEAN
    /\ births \in Nat

\* TypeOK by parts.
LEMMA TypeParts ==
    TypeOK <=> /\ NetTypeOK
               /\ pc \in ServerPC
               /\ TransportTypeOK
               /\ AgentTypeOK
               /\ WorldTypeOK
               /\ ClientTypeOK
  BY DEF TypeOK, ServerTypeOK, TransportTypeOK, AgentTypeOK, WorldTypeOK

\* TypeOK' by parts.
LEMMA TypePartsNext ==
    TypeOK' <=> /\ NetTypeOK'
                /\ pc' \in ServerPC
                /\ TransportTypeOK'
                /\ AgentTypeOK'
                /\ WorldTypeOK'
                /\ ClientTypeOK'
  BY DEF TypeOK, ServerTypeOK, TransportTypeOK, AgentTypeOK, WorldTypeOK

\* A step that leaves SessionTransport alone keeps its fields well typed.
LEMMA TransportUnchanged ==
    ASSUME TransportTypeOK, UNCHANGED transportVars
    PROVE  TransportTypeOK'
  BY DEF TransportTypeOK, transportVars

\* A step that leaves LockstepAgent alone keeps its fields well typed.
LEMMA AgentUnchanged ==
    ASSUME AgentTypeOK, UNCHANGED agentVars
    PROVE  AgentTypeOK'
  BY DEF AgentTypeOK, agentVars

\* A step that leaves the world alone keeps it well typed.
LEMMA WorldUnchanged ==
    ASSUME WorldTypeOK, UNCHANGED worldVars
    PROVE  WorldTypeOK'
  BY DEF WorldTypeOK, worldVars

\* A step that leaves the connections alone keeps them well typed.
LEMMA NetUnchanged ==
    ASSUME NetTypeOK, UNCHANGED netVars
    PROVE  NetTypeOK'
  BY DEF NetTypeOK, netVars

\* A step that leaves the agent program alone keeps it well typed.
LEMMA ClientUnchanged ==
    ASSUME ClientTypeOK, UNCHANGED <<clientVars, visitors>>
    PROVE  ClientTypeOK'
  BY DEF ClientTypeOK, clientVars

\* A world tick keeps the world well typed.
LEMMA EndTickType ==
    ASSUME WorldTypeOK, NEW a \in Action, EndTick(a)
    PROVE  WorldTypeOK' /\ pc' \in ServerPC
  BY DEF WorldTypeOK, EndTick, ServerPC

\* A decision keeps the agent and the world well typed: in particular the action is
\* held for fewer ticks than a decision spans.
LEMMA DecideType ==
    ASSUME AgentTypeOK, WorldTypeOK, NEW a \in Action, Decide(a)
    PROVE  AgentTypeOK' /\ WorldTypeOK' /\ pc' \in ServerPC
<1>1. [step |-> tick, action |-> a] \in [step : Nat, action : Action]
  BY DEF WorldTypeOK
<1>2. decisions' \in Seq([step : Nat, action : Action])
  BY <1>1, AppendProperties DEF AgentTypeOK, Decide
<1>3. AgentTypeOK'
  BY <1>2, ServerAssumption DEF AgentTypeOK, Decide
<1>4. QED
  BY <1>3, EndTickType DEF Decide

\* ActionTensor::default() is an action.
LEMMA DefaultType == DefaultAction \in Action
  BY NetAssumption DEF DefaultAction, Action

\* A failed exchange keeps the agent and the world well typed.
LEMMA ExchangeFailsType ==
    ASSUME AgentTypeOK, WorldTypeOK, ExchangeFails
    PROVE  AgentTypeOK' /\ WorldTypeOK' /\ pc' \in ServerPC
  BY DefaultType, DecideType DEF ExchangeFails

\* The next lifecycle event and its frame are well formed.
LEMMA NextEventType ==
    ASSUME TransportTypeOK, NEW k \in LifecycleKind
    PROVE  NextEvent(k) \in Event /\ LifecycleFrame(NextEvent(k)) \in DownFrame
<1>1. NextEvent(k) \in Event
  BY DEF TransportTypeOK, NextEvent, Event
<1>2. QED
  BY <1>1 DEF LifecycleFrame, DownFrame

\* Emitting an event, queued or written, keeps network and transport well typed.
LEMMA EmitType ==
    ASSUME NetTypeOK, TransportTypeOK, NEW k \in LifecycleKind, Emit(k)
    PROVE  NetTypeOK' /\ TransportTypeOK'
<1>1. NextEvent(k) \in Event /\ LifecycleFrame(NextEvent(k)) \in DownFrame
  BY NextEventType
<1>2. CASE stream = NoConn
  <2>1. pendingLifecycle' \in Seq(Event)
    BY <1>1, <1>2, AppendProperties DEF Emit, TransportTypeOK
  <2>2. UNCHANGED netVars
    BY <1>2 DEF Emit
  <2>3. QED
    BY <2>1, <2>2, NetUnchanged DEF Emit, TransportTypeOK
<1>3. CASE stream # NoConn
  <2>1. stream \in Conn
    BY <1>3 DEF TransportTypeOK
  <2>2. NetTypeOK'
    BY <1>1, <1>3, <2>1, WritesType, TimesOutType DEF Emit
  <2>3. QED
    BY <1>3, <2>2 DEF Emit, TransportTypeOK
<1>4. QED
  BY <1>2, <1>3

\* Detaching keeps the whole process well typed.
LEMMA DetachType ==
    ASSUME NetTypeOK, TransportTypeOK, AgentTypeOK, WorldTypeOK, Detach
    PROVE  /\ NetTypeOK' /\ TransportTypeOK' /\ AgentTypeOK' /\ WorldTypeOK'
           /\ pc' \in ServerPC
<1>1. NetTypeOK'
  BY ReleasesType DEF Detach, TransportTypeOK
<1>2. NextEvent("SessionDetached") \in Event
  BY NextEventType DEF LifecycleKind
<1>3. TransportTypeOK'
  BY <1>2, AppendProperties DEF Detach, TransportTypeOK
<1>4. AgentTypeOK' /\ WorldTypeOK'
  BY AgentUnchanged, WorldUnchanged DEF Detach
<1>5. QED
  BY <1>1, <1>3, <1>4 DEF Detach, ServerPC

\* A failing call on the stream keeps the whole process well typed.
LEMMA StreamBreaksType ==
    ASSUME NetTypeOK, TransportTypeOK, AgentTypeOK, WorldTypeOK, stream # NoConn,
           NEW broken, StreamBreaks(broken)
    PROVE  /\ NetTypeOK' /\ TransportTypeOK' /\ AgentTypeOK' /\ WorldTypeOK'
           /\ pc' \in ServerPC
<1>1. stream \in Conn
  BY DEF TransportTypeOK
<1>2. CASE Detach
  BY <1>2, DetachType
<1>3. CASE TimesOut(stream) /\ ExchangeFails /\ UNCHANGED transportVars
  BY <1>1, <1>3, TimesOutType, ExchangeFailsType, TransportUnchanged
<1>4. QED
  BY <1>2, <1>3 DEF StreamBreaks

\* An error of attach keeps the agent and the world well typed.
LEMMA AttachErrorType ==
    ASSUME AgentTypeOK, WorldTypeOK, AttachError
    PROVE  AgentTypeOK' /\ WorldTypeOK' /\ pc' \in ServerPC
  BY ExchangeFailsType, AgentUnchanged, WorldUnchanged DEF AttachError, ServerPC

\* A failing write of attach keeps the whole process well typed.
LEMMA AttachFailsType ==
    ASSUME NetTypeOK, TransportTypeOK, AgentTypeOK, WorldTypeOK, AttachFails
    PROVE  /\ NetTypeOK' /\ TransportTypeOK' /\ AgentTypeOK' /\ WorldTypeOK'
           /\ pc' \in ServerPC
<1>1. NetTypeOK'
  BY ReleasesType DEF AttachFails, TransportTypeOK
<1>2. <<>> \in Seq(Event)
  BY EmptySeq
<1>3. TransportTypeOK'
  BY <1>2 DEF AttachFails, TransportTypeOK
<1>4. QED
  BY <1>1, <1>3, AttachErrorType DEF AttachFails

-----------------------------------------------------------------------------
(* TypeOK is preserved by every step *)

\* Every step of the server process keeps the network and the process well typed.
LEMMA ServerType ==
    ASSUME TypeOK, ControlOK, Server
    PROVE  /\ NetTypeOK' /\ TransportTypeOK' /\ AgentTypeOK' /\ WorldTypeOK'
           /\ pc' \in ServerPC
<1>. USE TypeParts, TransportUnchanged, AgentUnchanged, WorldUnchanged, NetUnchanged
<1>1. CASE AcceptFirst
  <2>1. PICK c \in Conn : Accepts(c) /\ cand' = c
    BY <1>1 DEF AcceptFirst
  <2>2. NetTypeOK'
    BY <2>1, AcceptsType
  <2>3. QED
    BY <1>1, <2>1, <2>2 DEF AcceptFirst, TransportTypeOK, ServerPC
<1>2. CASE WriteMetadata
  <2>1. CASE AttachFails
    BY <2>1, AttachFailsType
  <2>2. CASE Writes(cand, MetadataFrame) /\ pc' = "drain"
             /\ UNCHANGED <<transportVars, agentVars, worldVars>>
    <3>1. cand \in Conn
      BY <1>2 DEF WriteMetadata, ControlOK, TransportTypeOK
    <3>2. NetTypeOK'
      BY <2>2, <3>1, WritesType DEF MetadataFrame, DownFrame
    <3>3. QED
      BY <2>2, <3>2 DEF ServerPC
  <2>3. QED
    BY <1>2, <2>1, <2>2 DEF WriteMetadata
<1>3. CASE DrainEvent
  <2>1. CASE AttachFails
    BY <2>1, AttachFailsType
  <2>2. CASE ~AttachFails
    <3>1. cand \in Conn
      BY <1>3 DEF DrainEvent, ControlOK, TransportTypeOK
    <3>2. Head(pendingLifecycle) \in Event /\ Tail(pendingLifecycle) \in Seq(Event)
      BY <1>3, QueueHead DEF DrainEvent, TransportTypeOK
    <3>3. LifecycleFrame(Head(pendingLifecycle)) \in DownFrame
      BY <3>2 DEF LifecycleFrame, DownFrame
    <3>4. NetTypeOK'
      BY <1>3, <2>2, <3>1, <3>3, WritesType DEF DrainEvent
    <3>5. QED
      BY <1>3, <2>2, <3>2, <3>4 DEF DrainEvent, TransportTypeOK, ServerPC
  <2>3. QED
    BY <2>1, <2>2
<1>4. CASE Attached
  <2>1. cand \in Conn
    BY <1>4 DEF Attached, ControlOK, TransportTypeOK
  <2>2. LifecycleFrame(NextEvent("SessionAttached")) \in DownFrame
    BY NextEventType DEF LifecycleKind
  <2>3. NetTypeOK'
    BY <1>4, <2>1, <2>2, WritesType, TimesOutType DEF Attached
  <2>4. TransportTypeOK'
    BY <1>4 DEF Attached, TransportTypeOK
  <2>5. AgentTypeOK' /\ WorldTypeOK' /\ pc' \in ServerPC
    BY <1>4, AttachErrorType DEF Attached, ServerPC
  <2>6. QED
    BY <2>3, <2>4, <2>5
<1>5. CASE EmitAlive
  BY <1>5, EmitType DEF EmitAlive, LifecycleKind, ServerPC
<1>6. CASE AcceptResume
  <2>1. PICK c \in Conn : Accepts(c) /\ cand' = c
    BY <1>6 DEF AcceptResume
  <2>2. NetTypeOK'
    BY <2>1, AcceptsType
  <2>3. QED
    BY <1>6, <2>1, <2>2 DEF AcceptResume, TransportTypeOK, ServerPC
<1>7. CASE ReadResume
  <2>1. cand \in Conn
    BY <1>7 DEF ReadResume, ControlOK, TransportTypeOK
  <2>2. NetTypeOK'
    BY <1>7, <2>1, ReadsType DEF ReadResume
  <2>3. QED
    BY <1>7, <2>2 DEF ReadResume, ServerPC
<1>8. CASE RefuseResume
  <2>1. cand \in Conn
    BY <1>8 DEF RefuseResume, ControlOK, TransportTypeOK
  <2>2. NetTypeOK'
    BY <1>8, <2>1, ReadsAndReleasesType DEF RefuseResume
  <2>3. QED
    BY <1>8, <2>2 DEF RefuseResume, TransportTypeOK, ServerPC
<1>9. CASE ResumeBreaks
  <2>1. NetTypeOK'
    BY <1>9, ReleasesType DEF ResumeBreaks, TransportTypeOK
  <2>2. QED
    BY <1>9, <2>1, ExchangeFailsType DEF ResumeBreaks, TransportTypeOK
<1>10. CASE ActHolding
  <2>1. Hold(held) \in Action
    BY DEF Hold, Action, AgentTypeOK
  <2>2. WorldTypeOK' /\ pc' \in ServerPC
    BY <1>10, <2>1, EndTickType DEF ActHolding
  <2>3. AgentTypeOK'
    BY <1>10, ServerAssumption DEF ActHolding, AgentTypeOK
  <2>4. QED
    BY <1>10, <2>2, <2>3 DEF ActHolding
<1>11. CASE ActDeciding
  <2>1. AgentTypeOK'
    BY <1>11 DEF ActDeciding, AgentTypeOK, WorldTypeOK
  <2>2. QED
    BY <1>11, <2>1 DEF ActDeciding, ServerPC
<1>12. CASE WriteObservation
  <2>1. stream \in Conn /\ stream # NoConn
    BY <1>12 DEF WriteObservation, TransportTypeOK
  <2>2. CASE StreamBreaks(WriteBreaks(stream))
    BY <2>1, <2>2, StreamBreaksType
  <2>3. CASE ~StreamBreaks(WriteBreaks(stream))
    <3>1. ObservationFrame(tick) \in DownFrame
      BY DEF ObservationFrame, DownFrame, WorldTypeOK
    <3>2. NetTypeOK'
      BY <1>12, <2>1, <2>3, <3>1, WritesType DEF WriteObservation
    <3>3. QED
      BY <1>12, <2>3, <3>2 DEF WriteObservation, ServerPC
  <2>4. QED
    BY <2>2, <2>3
<1>13. CASE WriteExtension
  <2>1. stream \in Conn /\ stream # NoConn
    BY <1>13 DEF WriteExtension, ControlOK, TransportTypeOK
  <2>2. CASE StreamBreaks(WriteBreaks(stream))
    BY <2>1, <2>2, StreamBreaksType
  <2>3. CASE ~StreamBreaks(WriteBreaks(stream))
    <3>1. ExtensionFrame(tick, decisionSequence, since) \in DownFrame
      BY DEF ExtensionFrame, DownFrame, WorldTypeOK, AgentTypeOK
    <3>2. NetTypeOK'
      BY <1>13, <2>1, <2>3, <3>1, WritesType DEF WriteExtension
    <3>3. QED
      BY <1>13, <2>3, <3>2 DEF WriteExtension, ServerPC
  <2>4. QED
    BY <2>2, <2>3
<1>14. CASE AcceptAction
  <2>. DEFINE f == Head(up[stream])
  <2>1. stream \in Conn
    BY <1>14 DEF AcceptAction, ControlOK, TransportTypeOK
  <2>2. NetTypeOK' /\ f \in UpFrame
    BY <1>14, <2>1, ReadsType DEF AcceptAction
  <2>3. f.action \in Action
    BY <1>14, <2>2 DEF AcceptAction, Matches, UpFrame
  <2>4. AgentTypeOK' /\ WorldTypeOK' /\ pc' \in ServerPC
    BY <1>14, <2>3, DecideType DEF AcceptAction
  <2>5. QED
    BY <1>14, <2>2, <2>4 DEF AcceptAction
<1>15. CASE RejectFrame
  <2>1. stream \in Conn
    BY <1>15 DEF RejectFrame, ControlOK, TransportTypeOK
  <2>2. NetTypeOK'
    BY <1>15, <2>1, ReadsType DEF RejectFrame
  <2>3. QED
    BY <1>15, <2>2 DEF RejectFrame, ServerPC
<1>16. CASE AwaitBreaks
  <2>1. stream # NoConn
    BY <1>16 DEF AwaitBreaks, ControlOK
  <2>2. QED
    BY <1>16, <2>1, StreamBreaksType DEF AwaitBreaks
<1>17. CASE EmitReproduced
  <2>1. WorldTypeOK'
    BY <1>17 DEF EmitReproduced, WorldTypeOK
  <2>2. QED
    BY <1>17, <2>1, EmitType DEF EmitReproduced, LifecycleKind
<1>18. CASE NextTick
  BY <1>18 DEF NextTick, ServerPC
<1>19. CASE EmitDied
  BY <1>19, EmitType DEF EmitDied, LifecycleKind, ServerPC
<1>20. CASE EmitTerminated
  BY <1>20, EmitType DEF EmitTerminated, LifecycleKind, ServerPC
<1>21. CASE Exits
  <2>1. NetTypeOK'
    BY <1>21, ReleasesType DEF Exits
  <2>2. UNCHANGED <<pc, transportVars, agentVars, worldVars>>
    BY <1>21 DEF Exits, serverVars
  <2>3. QED
    BY <2>1, <2>2
<1>22. QED
  BY <1>1, <1>2, <1>3, <1>4, <1>5, <1>6, <1>7, <1>8, <1>9, <1>10, <1>11, <1>12, <1>13, <1>14,
     <1>15, <1>16, <1>17, <1>18, <1>19, <1>20, <1>21 DEF Server

\* Every step of the agent and of the visitors keeps everything well typed.
LEMMA AgentStepType ==
    ASSUME TypeOK, ControlOK, Agent \/ Environment
    PROVE  TypeOK'
<1>. USE TypeParts, TypePartsNext, TransportUnchanged, AgentUnchanged, WorldUnchanged,
         NetUnchanged
<1>1. ASSUME UNCHANGED serverVars, NetTypeOK', ClientTypeOK'
      PROVE  TypeOK'
  BY <1>1 DEF serverVars
<1>2. CASE Connect
  <2>1. <<>> \in Seq(UpFrame)
    BY EmptySeq
  <2>2. NetTypeOK' /\ opened + 1 \in Conn
    BY <1>2, <2>1, OpensType DEF Connect
  <2>3. ClientTypeOK'
    BY <1>2, <2>2 DEF Connect, ClientTypeOK, AgentPC
  <2>4. QED
    BY <1>1, <1>2, <2>2, <2>3 DEF Connect
<1>3. CASE SendResume
  <2>1. sock \in Conn
    BY <1>3 DEF SendResume, ControlOK, ClientTypeOK
  <2>2. ResumeFrame(TRUE) \in UpFrame
    BY DEF ResumeFrame, UpFrame
  <2>3. NetTypeOK'
    BY <1>3, <2>1, <2>2, AgentWritesType DEF SendResume
  <2>4. ClientTypeOK'
    BY <1>3 DEF SendResume, ClientTypeOK, AgentPC
  <2>5. QED
    BY <1>1, <1>3, <2>3, <2>4 DEF SendResume
<1>4. CASE ReceiveMetadata
  <2>. DEFINE f == Head(down[sock])
  <2>1. sock \in Conn
    BY <1>4 DEF ReceiveMetadata, ControlOK, ClientTypeOK
  <2>2. NetTypeOK' /\ f \in DownFrame
    BY <1>4, <2>1, AgentReadsType DEF ReceiveMetadata
  <2>3. ASSUME f.kind = "LIFECYCLE"
        PROVE  Append(lifecycle, f.event) \in Seq(Event)
    BY <2>2, <2>3, AppendProperties DEF DownFrame, ClientTypeOK
  <2>4. ClientTypeOK'
    BY <1>4, <2>3 DEF ReceiveMetadata, StoreLifecycle, ClientTypeOK, AgentPC
  <2>5. QED
    BY <1>1, <1>4, <2>2, <2>4 DEF ReceiveMetadata
<1>5. CASE ReadNext
  <2>. DEFINE f == Head(down[sock])
  <2>1. sock \in Conn
    BY <1>5 DEF ReadNext, ControlOK, ClientTypeOK
  <2>2. NetTypeOK' /\ f \in DownFrame
    BY <1>5, <2>1, AgentReadsType DEF ReadNext
  <2>3. ASSUME f.kind = "LIFECYCLE"
        PROVE  Append(lifecycle, f.event) \in Seq(Event)
    BY <2>2, <2>3, AppendProperties DEF DownFrame, ClientTypeOK
  <2>4. f.kind = "OBSERVATION" => f.step \in Nat
    BY <2>2 DEF DownFrame
  <2>5. ClientTypeOK'
    BY <1>5, <2>3, <2>4 DEF ReadNext, StoreLifecycle, ClientTypeOK, AgentPC
  <2>6. QED
    BY <1>1, <1>5, <2>2, <2>5 DEF ReadNext
<1>6. CASE ReadExtension
  <2>. DEFINE f == Head(down[sock])
  <2>1. sock \in Conn
    BY <1>6 DEF ReadExtension, ControlOK, ClientTypeOK
  <2>2. NetTypeOK' /\ f \in DownFrame
    BY <1>6, <2>1, AgentReadsType DEF ReadExtension
  <2>3. f.kind = "EXTENSION" => f.step \in Nat
    BY <2>2 DEF DownFrame
  <2>4. ClientTypeOK'
    BY <1>6, <2>3 DEF ReadExtension, ClientTypeOK, AgentPC
  <2>5. QED
    BY <1>1, <1>6, <2>2, <2>4 DEF ReadExtension
<1>7. CASE SendAction
  <2>1. PICK a \in Answers : /\ AgentWrites(sock, ActionFrame(pending, a))
                             /\ offers' = offers \cup {[step |-> pending, action |-> a]}
    BY <1>7 DEF SendAction
  <2>2. a \in Action /\ pending \in Nat /\ sock \in Conn
    BY <1>7, ClientAssumption DEF SendAction, ControlOK, ClientTypeOK
  <2>3. ActionFrame(pending, a) \in UpFrame /\ [step |-> pending, action |-> a] \in Offer
    BY <2>2 DEF ActionFrame, UpFrame, Offer
  <2>4. NetTypeOK'
    BY <2>1, <2>2, <2>3, AgentWritesType
  <2>5. ClientTypeOK'
    BY <1>7, <2>1, <2>3 DEF SendAction, ClientTypeOK, AgentPC
  <2>6. QED
    BY <1>1, <1>7, <2>4, <2>5 DEF SendAction
<1>8. CASE FindClosed
  BY <1>1, <1>8 DEF FindClosed, ClientTypeOK, AgentPC
<1>9. CASE GiveUp
  BY <1>1, <1>9 DEF GiveUp, ClientTypeOK, AgentPC
<1>10. CASE SendStray
  <2>1. PICK o \in offers : AgentWrites(sock, ActionFrame(o.step, o.action))
    BY <1>10 DEF SendStray
  <2>2. sock \in Conn /\ o \in Offer
    BY <1>10, <2>1 DEF SendStray, ControlOK, ClientTypeOK
  <2>3. ActionFrame(o.step, o.action) \in UpFrame
    BY <2>2 DEF ActionFrame, UpFrame, Offer
  <2>4. NetTypeOK'
    BY <2>1, <2>2, <2>3, AgentWritesType
  <2>5. ClientTypeOK'
    BY <1>10 DEF SendStray, ClientTypeOK
  <2>6. QED
    BY <1>1, <1>10, <2>4, <2>5 DEF SendStray
<1>11. CASE Lose
  <2>1. sock \in Conn
    BY <1>11 DEF Lose, ClientTypeOK
  <2>2. NetTypeOK'
    BY <1>11, <2>1, AgentDropsType DEF Lose
  <2>3. ClientTypeOK'
    BY <1>11 DEF Lose, ClientTypeOK, AgentPC
  <2>4. QED
    BY <1>1, <1>11, <2>2, <2>3 DEF Lose
<1>12. CASE Visit
  <2>1. PICK f \in {ResumeFrame(FALSE), OtherFrame} : Opens(<<f>>)
    BY <1>12 DEF Visit
  <2>2. f \in UpFrame
    <3>1. ResumeFrame(FALSE) \in UpFrame
      BY DEF ResumeFrame, UpFrame
    <3>2. OtherFrame \in UpFrame
      BY DEF OtherFrame, UpFrame
    <3>3. QED
      BY <3>1, <3>2
  <2>3. NetTypeOK' /\ opened + 1 \in Conn
    <3>1. <<f>> \in Seq(UpFrame)
      BY <2>2
    <3>2. QED
      BY <2>1, <3>1, OpensType
  <2>4. ClientTypeOK'
    BY <1>12, <2>3 DEF Visit, ClientTypeOK, clientVars
  <2>5. QED
    BY <1>1, <1>12, <2>3, <2>4 DEF Visit
<1>13. QED
  BY <1>2, <1>3, <1>4, <1>5, <1>6, <1>7, <1>8, <1>9, <1>10, <1>11, <1>12
     DEF Agent, Environment

-----------------------------------------------------------------------------
(* What a step of the server process does to the state the invariant relates *)

\* The frames a server step can leave on a connection: all, or all but the first.
Consumes == \A c \in Conn : up'[c] = up[c] \/ (up[c] # <<>> /\ up'[c] = Tail(up[c]))

\* The decision a server step can take: none, the default action, or the
\* action of the frame at hand when it answers this step.
Decides ==
    \/ UNCHANGED decisions
    \/ decisions' = Append(decisions, [step |-> tick, action |-> DefaultAction])
    \/ /\ pc = "await"
       /\ up[stream] # <<>>
       /\ Matches(Head(up[stream]))
       /\ decisions' = Append(decisions, [step |-> tick, action |-> Head(up[stream]).action])

\* The connections a server step can come to hold.
Holds ==
    /\ opened' = opened
    /\ backlog' = backlog \/ (backlog # <<>> /\ backlog' = Tail(backlog))
    /\ stream' \in {stream, NoConn} \/ (pc = "drain" /\ stream' = cand)
    /\ cand' \in {cand, NoConn} \/ (backlog # <<>> /\ cand' = Head(backlog))

\* Where a server step can lead.
Leads ==
    /\ pc' # "boot"
    /\ pc' \in {"extension", "await"} => stream' # NoConn
    /\ pc' \in {"metadata", "drain", "resume"} => cand' # NoConn
    /\ pc' \in {"metadata", "drain"} =>
         \/ pc = "boot"
         \/ pc = "resume" /\ cand' = cand /\ up[cand] # <<>> /\ GoodResume(Head(up[cand]))
         \/ pc \in {"metadata", "drain"} /\ cand' = cand

\* A default decision, or none, is one of the decisions of Decides.
LEMMA DecideEffect ==
    ASSUME Decide(DefaultAction) \/ UNCHANGED decisions
    PROVE  Decides
  BY DEF Decide, Decides

\* Every server step reads at most one frame of a connection and comes to hold only
\* what it accepted.
LEMMA ServerConsumes ==
    ASSUME TypeOK, ControlOK, Server
    PROVE  Consumes /\ Holds
<1>. USE DEF Consumes, Holds, NetTypeOK, TypeOK, Reads, ReadsAndReleases, Writes, Releases,
             TimesOut, Accepts, netVars, transportVars, Emit, Detach, StreamBreaks, serverVars
<1>1. CASE AcceptFirst
  BY <1>1 DEF AcceptFirst
<1>2. CASE WriteMetadata
  BY <1>2 DEF WriteMetadata, AttachFails
<1>3. CASE DrainEvent
  BY <1>3 DEF DrainEvent, AttachFails
<1>4. CASE Attached
  BY <1>4 DEF Attached
<1>5. CASE EmitAlive
  BY <1>5 DEF EmitAlive
<1>6. CASE AcceptResume
  BY <1>6 DEF AcceptResume
<1>7. CASE ReadResume
  BY <1>7 DEF ReadResume
<1>8. CASE RefuseResume
  BY <1>8 DEF RefuseResume
<1>9. CASE ResumeBreaks
  BY <1>9 DEF ResumeBreaks
<1>10. CASE ActHolding
  BY <1>10 DEF ActHolding
<1>11. CASE ActDeciding
  BY <1>11 DEF ActDeciding
<1>12. CASE WriteObservation
  BY <1>12 DEF WriteObservation
<1>13. CASE WriteExtension
  BY <1>13 DEF WriteExtension
<1>14. CASE AcceptAction
  BY <1>14 DEF AcceptAction
<1>15. CASE RejectFrame
  BY <1>15 DEF RejectFrame
<1>16. CASE AwaitBreaks
  BY <1>16 DEF AwaitBreaks
<1>17. CASE EmitReproduced
  BY <1>17 DEF EmitReproduced
<1>18. CASE NextTick
  BY <1>18 DEF NextTick
<1>19. CASE EmitDied
  BY <1>19 DEF EmitDied
<1>20. CASE EmitTerminated
  BY <1>20 DEF EmitTerminated
<1>21. CASE Exits
  BY <1>21 DEF Exits
<1>22. QED
  BY <1>1, <1>2, <1>3, <1>4, <1>5, <1>6, <1>7, <1>8, <1>9, <1>10, <1>11, <1>12, <1>13, <1>14,
     <1>15, <1>16, <1>17, <1>18, <1>19, <1>20, <1>21 DEF Server

\* Every decision is the default or the action of a frame that answers this step.
LEMMA ServerDecides ==
    ASSUME Server
    PROVE  Decides
<1>. USE DecideEffect DEF agentVars, StreamBreaks, Detach, ExchangeFails, AttachError, AttachFails
<1>1. CASE AcceptAction
  BY <1>1 DEF AcceptAction, Decide, Decides
<1>2. CASE AcceptFirst \/ AcceptResume \/ ReadResume \/ RefuseResume \/ ActDeciding \/ RejectFrame
  BY <1>2 DEF AcceptFirst, AcceptResume, ReadResume, RefuseResume, ActDeciding, RejectFrame
<1>3. CASE EmitAlive \/ EmitReproduced \/ NextTick \/ EmitDied \/ EmitTerminated
  BY <1>3 DEF EmitAlive, EmitReproduced, NextTick, EmitDied, EmitTerminated
<1>4. CASE ActHolding
  BY <1>4 DEF ActHolding
<1>5. CASE ResumeBreaks
  BY <1>5 DEF ResumeBreaks
<1>6. CASE WriteMetadata \/ DrainEvent \/ Attached
  BY <1>6 DEF WriteMetadata, DrainEvent, Attached
<1>7. CASE WriteObservation \/ WriteExtension \/ AwaitBreaks
  BY <1>7 DEF WriteObservation, WriteExtension, AwaitBreaks
<1>8. CASE Exits
  BY <1>8 DEF Exits, serverVars
<1>9. QED
  BY <1>1, <1>2, <1>3, <1>4, <1>5, <1>6, <1>7, <1>8 DEF Server

\* Every server step leads to a control point whose connection it holds.
LEMMA ServerLeads ==
    ASSUME TypeOK, ControlOK, Server
    PROVE  Leads
<1>. USE DEF Leads, StreamBreaks, Detach, ExchangeFails, Decide, EndTick, AttachError, AttachFails,
             transportVars
<1>1. CASE AcceptFirst
  <2>1. cand' \in Conn /\ pc' = "metadata" /\ pc = "boot"
    BY <1>1, AcceptsType DEF AcceptFirst
  <2>2. QED
    BY <2>1 DEF Conn, NoConn
<1>2. CASE AcceptResume
  <2>1. cand' \in Conn /\ pc' = "resume"
    BY <1>2, AcceptsType DEF AcceptResume
  <2>2. QED
    BY <2>1 DEF Conn, NoConn
<1>3. CASE ReadResume
  BY <1>3 DEF ReadResume, ControlOK
<1>4. CASE WriteMetadata
  BY <1>4 DEF WriteMetadata, ControlOK
<1>5. CASE DrainEvent
  BY <1>5 DEF DrainEvent, ControlOK
<1>6. CASE Attached
  BY <1>6 DEF Attached
<1>7. CASE EmitAlive \/ NextTick \/ EmitDied \/ EmitTerminated \/ EmitReproduced
  BY <1>7 DEF EmitAlive, NextTick, EmitDied, EmitTerminated, EmitReproduced
<1>8. CASE RefuseResume \/ ResumeBreaks \/ ActHolding \/ ActDeciding \/ AcceptAction \/ RejectFrame
  BY <1>8 DEF RefuseResume, ResumeBreaks, ActHolding, ActDeciding, AcceptAction, RejectFrame
<1>9. CASE WriteObservation
  BY <1>9 DEF WriteObservation
<1>10. CASE WriteExtension
  BY <1>10 DEF WriteExtension, ControlOK
<1>11. CASE AwaitBreaks
  BY <1>11 DEF AwaitBreaks
<1>12. CASE Exits
  BY <1>12 DEF Exits, serverVars
<1>13. QED
  BY <1>1, <1>2, <1>3, <1>4, <1>5, <1>6, <1>7, <1>8, <1>9, <1>10, <1>11, <1>12 DEF Server

-----------------------------------------------------------------------------
(* Each part of the inductive invariant is preserved *)

\* What the agent and the visitors do to the connections: they leave the server
\* process alone, open at most the next connection, and drop or write frames.
LEMMA AgentHolds ==
    ASSUME TypeOK, ControlOK, Agent \/ Environment
    PROVE  /\ UNCHANGED serverVars
           /\ \/ UNCHANGED <<opened, backlog>>
              \/ opened' = opened + 1 /\ backlog' = Append(backlog, opened + 1)
  BY DEF Agent, Environment, Connect, SendResume, ReceiveMetadata, ReadNext, ReadExtension,
         SendAction, FindClosed, GiveUp, SendStray, Lose, Visit, Opens, AgentWrites, AgentReads,
         AgentDrops, netVars

\* Every step of the agent and its environment keeps the control part.
LEMMA AgentControl ==
    ASSUME TypeOK, ControlOK, Agent \/ Environment
    PROVE  ControlOK'
<1>. USE DEF TypeOK, NetTypeOK, ServerTypeOK, ClientTypeOK
<1>1. opened \in Nat /\ opened' \in {opened, opened + 1}
  BY AgentHolds DEF NetTypeOK
<1>2. stream' <= opened' /\ cand' <= opened'
  BY <1>1, AgentHolds DEF ControlOK, serverVars, transportVars, Conn, NoConn
<1>3. \A i \in 1..Len(backlog') : backlog'[i] <= opened'
  <2>1. CASE UNCHANGED <<opened, backlog>>
    BY <2>1 DEF ControlOK
  <2>2. CASE opened' = opened + 1 /\ backlog' = Append(backlog, opened + 1)
    <3>1. \A i \in 1..Len(backlog) : backlog[i] \in Conn /\ backlog[i] <= opened
      BY ElementOfSeq DEF ControlOK
    <3>2. \A i \in 1..Len(backlog) : backlog[i] <= opened + 1
      BY <1>1, <3>1 DEF Conn
    <3>3. opened + 1 \in Conn
      BY <2>2, AgentHolds, AgentStepType DEF TypeOK, NetTypeOK, Conn
    <3>4. /\ Len(backlog') = Len(backlog) + 1
          /\ \A i \in 1..Len(backlog) : backlog'[i] = backlog[i]
          /\ backlog'[Len(backlog) + 1] = opened + 1
      BY <2>2, <3>3, AppendProperties
    <3>5. Len(backlog) \in Nat
      BY LenProperties
    <3>6. QED
      BY <1>1, <2>2, <3>2, <3>4, <3>5
  <2>3. QED
    BY <2>1, <2>2, AgentHolds
<1>4. /\ pc' \in {"extension", "await"} => stream' # NoConn
      /\ pc' \in {"metadata", "drain", "resume"} => cand' # NoConn
  BY AgentHolds DEF ControlOK, serverVars, transportVars
<1>5. sock' <= opened'
  <2>1. CASE Connect
    BY <1>1, <2>1 DEF Connect, Opens
  <2>2. CASE ~Connect
    <3>1. sock' \in {sock, NoConn}
      BY <2>2 DEF Agent, Environment, SendResume, ReceiveMetadata, ReadNext, ReadExtension,
         SendAction, FindClosed, GiveUp, SendStray, Lose, Visit, clientVars
    <3>2. sock \in Int /\ sock <= opened
      BY DEF ControlOK, Conn, NoConn
    <3>3. QED
      BY <1>1, <3>1, <3>2 DEF NoConn
  <2>3. QED
    BY <2>1, <2>2
<1>6. /\ cpc' \in {"resume", "metadata", "idle", "extension", "decide"} => sock' # NoConn
      /\ cpc' = "decide" => pending' # NoStep
  <2>1. CASE Connect
    BY <1>1, <2>1 DEF Connect, NoConn
  <2>2. CASE SendResume \/ SendAction \/ SendStray
    BY <2>2 DEF ControlOK, SendResume, SendAction, SendStray
  <2>3. CASE ReceiveMetadata \/ ReadNext
    BY <2>3 DEF ControlOK, ReceiveMetadata, ReadNext, StoreLifecycle
  <2>4. CASE ReadExtension
    <3>. DEFINE f == Head(down[sock])
    <3>1. f \in DownFrame /\ sock \in Conn /\ sock # NoConn
      BY <2>4, AgentReadsType DEF ReadExtension, ControlOK
    <3>2. f.kind = "EXTENSION" => f.step # NoStep
      BY <3>1 DEF DownFrame, NoStep
    <3>3. QED
      BY <2>4, <3>1, <3>2 DEF ReadExtension
  <2>5. CASE FindClosed \/ GiveUp \/ Lose
    BY <2>5 DEF FindClosed, GiveUp, Lose
  <2>6. CASE Visit
    BY <2>6 DEF Visit, ControlOK, clientVars
  <2>7. QED
    BY <2>1, <2>2, <2>3, <2>4, <2>5, <2>6 DEF Agent, Environment
<1>7. QED
  BY <1>2, <1>3, <1>4, <1>5, <1>6 DEF ControlOK

\* Every server step keeps the control part.
LEMMA ServerControl ==
    ASSUME TypeOK, ControlOK, Server, UNCHANGED clientVars
    PROVE  ControlOK'
<1>. USE ServerConsumes, ServerLeads
<1>1. backlog # <<>> => Head(backlog) \in Conn /\ Head(backlog) <= opened
  <2>1. backlog \in Seq(Conn)
    BY DEF TypeOK, NetTypeOK
  <2>2. ASSUME backlog # <<>>
        PROVE  Head(backlog) = backlog[1] /\ 1 \in 1..Len(backlog)
    BY <2>1, <2>2, EmptySeq
  <2>3. QED
    BY <2>1, <2>2, QueueHead DEF ControlOK
<1>2. opened \in Nat
  BY DEF TypeOK, NetTypeOK
<1>3. stream' <= opened' /\ cand' <= opened'
  BY <1>1, <1>2 DEF Holds, ControlOK, NoConn
<1>4. \A i \in 1..Len(backlog') : backlog'[i] <= opened'
  <2>1. CASE backlog' = backlog
    BY <2>1 DEF Holds, ControlOK
  <2>2. CASE backlog # <<>> /\ backlog' = Tail(backlog)
    <3>1. backlog \in Seq(Conn) /\ Len(backlog) \in Nat
      BY LenProperties DEF TypeOK, NetTypeOK
    <3>2. /\ Len(Tail(backlog)) = Len(backlog) - 1
          /\ \A i \in 1..Len(Tail(backlog)) : Tail(backlog)[i] = backlog[i + 1]
      BY <2>2, <3>1, HeadTailProperties
    <3>3. \A i \in 1..Len(Tail(backlog)) : i + 1 \in 1..Len(backlog)
      BY <3>1, <3>2
    <3>4. QED
      BY <2>2, <3>2, <3>3 DEF Holds, ControlOK
  <2>3. QED
    BY <2>1, <2>2 DEF Holds
<1>5. QED
  BY <1>3, <1>4 DEF ControlOK, Leads, Holds, clientVars

\* Offers only accumulate.
LEMMA OffersGrow ==
    ASSUME [Next]_vars
    PROVE  offers \subseteq offers'
  BY DEF Next, ServerStep, Agent, Environment, Finished, Connect, SendResume, ReceiveMetadata,
     ReadNext, ReadExtension, SendAction, FindClosed, GiveUp, SendStray, Lose, Visit, clientVars,
     vars

\* No step puts an action frame on its way that was not offered for its step.
LEMMA FramesStep ==
    ASSUME TypeOK, ControlOK, FramesOffered, [Next]_vars
    PROVE  FramesOffered'
<1>1. OfferedFrame \subseteq OfferedFrame'
  BY OffersGrow DEF OfferedFrame, Offered, OfferedIn
<1>2. \A c \in Conn : up[c] \in Seq(OfferedFrame')
  BY <1>1, QueueWiden DEF FramesOffered
<1>3. SUFFICES ASSUME NEW c \in Conn
               PROVE  up'[c] \in Seq(OfferedFrame')
  BY DEF FramesOffered
<1>4. up \in [Conn -> Seq(UpFrame)]
  BY DEF TypeOK, NetTypeOK
<1>5. CASE UNCHANGED up
  BY <1>2, <1>5
<1>6. CASE ServerStep
  <2>1. up'[c] = up[c] \/ (up[c] # <<>> /\ up'[c] = Tail(up[c]))
    BY <1>6, ServerConsumes DEF ServerStep, Consumes
  <2>2. QED
    BY <1>2, <2>1, QueueHead
<1>7. ASSUME NEW d \in Conn, NEW f \in OfferedFrame', AgentWrites(d, f)
      PROVE  up'[c] \in Seq(OfferedFrame')
  <2>1. Append(up[c], f) \in Seq(OfferedFrame')
    BY <1>2, <1>7, AppendProperties
  <2>2. QED
    BY <1>2, <1>4, <1>7, <2>1 DEF AgentWrites
<1>8. ASSUME NEW q \in Seq(OfferedFrame'), Opens(q)
      PROVE  up'[c] \in Seq(OfferedFrame')
  BY <1>2, <1>4, <1>8 DEF Opens
<1>9. CASE Connect
  <2>1. <<>> \in Seq(OfferedFrame')
    BY EmptySeq
  <2>2. QED
    BY <1>8, <1>9, <2>1 DEF Connect
<1>10. CASE SendResume
  <2>1. ResumeFrame(TRUE) \in OfferedFrame'
    BY DEF ResumeFrame, OfferedFrame, UpFrame
  <2>2. sock \in Conn
    BY <1>10 DEF SendResume, ControlOK, TypeOK, ClientTypeOK
  <2>3. QED
    BY <1>7, <1>10, <2>1, <2>2 DEF SendResume
<1>11. CASE SendAction
  <2>1. PICK a \in Answers : /\ AgentWrites(sock, ActionFrame(pending, a))
                             /\ offers' = offers \cup {[step |-> pending, action |-> a]}
    BY <1>11 DEF SendAction
  <2>2. a \in Action /\ pending \in Nat /\ sock \in Conn
    BY <1>11, ClientAssumption DEF SendAction, ControlOK, TypeOK, ClientTypeOK
  <2>3. ActionFrame(pending, a) \in UpFrame
    BY <2>2 DEF ActionFrame, UpFrame
  <2>4. a \in OfferedIn(offers', pending)
    <3>. DEFINE o == [step |-> pending, action |-> a]
    <3>1. o \in offers' /\ o.step = pending /\ o.action = a
      BY <2>1
    <3>. HIDE DEF o
    <3>2. o \in {x \in offers' : x.step = pending}
      BY <3>1
    <3>3. QED
      BY <3>1, <3>2 DEF OfferedIn
  <2>5. ActionFrame(pending, a) \in OfferedFrame'
    BY <2>3, <2>4 DEF OfferedFrame, ActionFrame, Offered
  <2>6. QED
    BY <1>7, <2>1, <2>2, <2>5
<1>12. CASE SendStray
  <2>1. PICK o \in offers : AgentWrites(sock, ActionFrame(o.step, o.action))
    BY <1>12 DEF SendStray
  <2>2. sock \in Conn /\ o \in Offer /\ offers' = offers
    BY <1>12, <2>1 DEF SendStray, ControlOK, TypeOK, ClientTypeOK
  <2>3. ActionFrame(o.step, o.action) \in UpFrame
    BY <2>2 DEF ActionFrame, UpFrame, Offer
  <2>4. ActionFrame(o.step, o.action) \in OfferedFrame'
    BY <2>1, <2>2, <2>3 DEF OfferedFrame, ActionFrame, Offered, OfferedIn
  <2>5. QED
    BY <1>7, <2>1, <2>2, <2>4
<1>13. CASE Lose
  <2>1. PICK n \in 0..Len(up[sock]) : up' = [up EXCEPT ![sock] = SubSeq(@, 1, n)]
    BY <1>13 DEF Lose, AgentDrops
  <2>2. sock \in Conn
    BY <1>13 DEF Lose, TypeOK, ClientTypeOK
  <2>3. SubSeq(up[sock], 1, n) \in Seq(OfferedFrame')
    BY <1>2, <2>2, QueuePrefix
  <2>4. QED
    BY <1>2, <1>4, <2>1, <2>2, <2>3
<1>14. CASE Visit
  <2>1. PICK f \in {ResumeFrame(FALSE), OtherFrame} : Opens(<<f>>)
    BY <1>14 DEF Visit
  <2>2. ResumeFrame(FALSE) \in OfferedFrame' /\ OtherFrame \in OfferedFrame'
    BY DEF ResumeFrame, OtherFrame, OfferedFrame, UpFrame
  <2>3. <<f>> \in Seq(OfferedFrame')
    <3>. DEFINE S == OfferedFrame'
    <3>1. f \in S
      BY <2>2
    <3>. HIDE DEF S
    <3>2. <<f>> \in Seq(S)
      BY <3>1
    <3>. QED
      BY <3>2 DEF S
  <2>4. QED
    BY <1>8, <2>1, <2>3
<1>15. QED
  BY <1>5, <1>6, <1>9, <1>10, <1>11, <1>12, <1>13, <1>14
     DEF Next, Agent, Environment, Finished, vars, netVars, ReceiveMetadata, ReadNext,
         ReadExtension, AgentReads, FindClosed, GiveUp

\* A decision is the default or was offered: the frame that is accepted was
\* offered for the step it names, and that is the step the world waits at.
LEMMA AppliedStep ==
    ASSUME TypeOK, ControlOK, FramesOffered, AppliedWasAnswered, [Next]_vars
    PROVE  AppliedWasAnswered'
<1>1. \A s : OfferedIn(offers, s) \subseteq OfferedIn(offers', s)
  BY OffersGrow DEF OfferedIn
<1>2. decisions \in Seq([step : Nat, action : Action]) /\ Len(decisions) \in Nat
  BY LenProperties DEF TypeOK, ServerTypeOK
<1>3. CASE UNCHANGED decisions
  BY <1>1, <1>3 DEF AppliedWasAnswered, Offered
<1>4. ASSUME NEW a, a \in Offered(tick) \cup {DefaultAction},
             decisions' = Append(decisions, [step |-> tick, action |-> a])
      PROVE  AppliedWasAnswered'
  <2>1. a \in OfferedIn(offers', tick) \cup {DefaultAction}
    BY <1>1, <1>4 DEF Offered
  <2>2. \A i \in 1..Len(decisions) :
           decisions[i].action \in OfferedIn(offers', decisions[i].step) \cup {DefaultAction}
    BY <1>1 DEF AppliedWasAnswered, Offered
  <2>3. Len(decisions') = Len(decisions) + 1
        /\ (\A i \in 1..Len(decisions) : decisions'[i] = decisions[i])
        /\ decisions'[Len(decisions) + 1] = [step |-> tick, action |-> a]
    BY <1>2, <1>4
  <2>4. \A i \in 1..Len(decisions') : i \in 1..Len(decisions) \/ i = Len(decisions) + 1
    BY <1>2, <2>3
  <2>5. QED
    BY <2>1, <2>2, <2>3, <2>4 DEF AppliedWasAnswered, Offered
<1>5. CASE ServerStep
  <2>1. Decides
    BY <1>5, ServerDecides DEF ServerStep
  <2>2. ASSUME pc = "await", up[stream] # <<>>, Matches(Head(up[stream]))
        PROVE  Head(up[stream]).action \in Offered(tick)
    <3>1. stream \in Conn
      BY <2>2 DEF ControlOK, TypeOK, ServerTypeOK
    <3>2. Head(up[stream]) \in OfferedFrame
      BY <2>2, <3>1, QueueHead DEF FramesOffered
    <3>3. QED
      BY <2>2, <3>2 DEF OfferedFrame, Matches
  <2>3. QED
    BY <1>3, <1>4, <2>1, <2>2 DEF Decides
<1>6. CASE ~ServerStep
  <2>1. UNCHANGED decisions
    BY <1>6, AgentHolds DEF Next, Finished, vars, serverVars, agentVars
  <2>2. QED
    BY <1>3, <2>1
<1>7. QED
  BY <1>5, <1>6

\* A stranger's connection never comes to be the one attach works on: attach is
\* reached from the first connection or from a resume frame that a stranger
\* does not send, and the session's stream is what attach worked on.
LEMMA VisitorsServer ==
    ASSUME TypeOK, ControlOK, VisitorsKept, OnlyCredentialedAttach,
           Server, UNCHANGED <<clientVars, visitors>>
    PROVE  VisitorsKept' /\ OnlyCredentialedAttach'
<1>. USE ServerConsumes, ServerLeads
<1>1. visitors' = visitors /\ sock' = sock /\ opened' = opened
  BY DEF clientVars, Holds
<1>2. NoConn \notin visitors
  BY DEF VisitorsKept, NoConn
<1>3. OnlyCredentialedAttach'
  BY <1>1, <1>2 DEF OnlyCredentialedAttach, VisitorsKept, Holds
<1>4. pc' \in {"metadata", "drain"} => cand' \notin visitors
  <2>1. CASE pc = "boot"
    BY <1>1, <2>1 DEF VisitorsKept
  <2>2. CASE pc = "resume" /\ cand' = cand /\ up[cand] # <<>> /\ GoodResume(Head(up[cand]))
    <3>1. ASSUME cand \in visitors
          PROVE  FALSE
      <4>1. up[cand] \in Seq(StrangerFrame)
        BY <3>1 DEF VisitorsKept
      <4>2. Head(up[cand]) \in StrangerFrame
        BY <2>2, <4>1, QueueHead
      <4>3. QED
        BY <2>2, <4>2 DEF StrangerFrame, GoodResume
    <3>2. QED
      BY <2>2, <3>1
  <2>3. CASE pc \in {"metadata", "drain"} /\ cand' = cand
    BY <2>3 DEF VisitorsKept
  <2>4. QED
    BY <2>1, <2>2, <2>3 DEF Leads
<1>5. ASSUME NEW c \in visitors
      PROVE  up'[c] \in Seq(StrangerFrame)
  <2>1. c \in Conn /\ up[c] \in Seq(StrangerFrame)
    BY <1>5 DEF VisitorsKept, TypeOK, ClientTypeOK
  <2>2. QED
    BY <2>1, QueueHead DEF Consumes
<1>6. pc' # "boot"
  BY DEF Leads
<1>7. QED
  BY <1>1, <1>3, <1>4, <1>5, <1>6 DEF VisitorsKept

\* The agent works on connections of its own, and a new visitor's connection is
\* one that nobody has used yet.
LEMMA VisitorsAgent ==
    ASSUME TypeOK, ControlOK, VisitorsKept, OnlyCredentialedAttach, Agent \/ Environment
    PROVE  VisitorsKept' /\ OnlyCredentialedAttach'
<1>1. UNCHANGED <<pc, stream, cand>>
  BY AgentHolds DEF serverVars, transportVars
<1>2. opened \in Nat /\ opened' \in {opened, opened + 1}
  BY AgentHolds DEF TypeOK, NetTypeOK
<1>3. up \in [Conn -> Seq(UpFrame)] /\ visitors \subseteq Conn
  BY DEF TypeOK, NetTypeOK, ClientTypeOK
<1>4. opened + 1 \notin visitors
  BY <1>2 DEF VisitorsKept
<1>5. ASSUME visitors' = visitors, sock' \notin visitors,
             \A c \in visitors : up'[c] = up[c]
      PROVE  VisitorsKept' /\ OnlyCredentialedAttach'
  BY <1>1, <1>2, <1>5 DEF VisitorsKept, OnlyCredentialedAttach
<1>6. NoConn \notin visitors
  BY DEF VisitorsKept, NoConn
<1>7. CASE Connect
  <2>1. visitors' = visitors /\ sock' = opened + 1
    BY <1>7 DEF Connect
  <2>2. \A c \in visitors : up'[c] = up[c]
    BY <1>3, <1>4, <1>7 DEF Connect, Opens
  <2>3. QED
    BY <1>4, <1>5, <2>1, <2>2
<1>8. CASE SendResume \/ SendAction \/ SendStray \/ Lose
  <2>1. visitors' = visitors /\ sock' \in {sock, NoConn}
    BY <1>8 DEF SendResume, SendAction, SendStray, Lose
  <2>2. \A c \in visitors : up'[c] = up[c]
    BY <1>3, <1>8 DEF VisitorsKept, SendResume, SendAction, SendStray, Lose, AgentWrites, AgentDrops
  <2>3. QED
    BY <1>5, <1>6, <2>1, <2>2 DEF VisitorsKept
<1>9. CASE ReceiveMetadata \/ ReadNext \/ ReadExtension \/ FindClosed \/ GiveUp
  <2>1. visitors' = visitors /\ sock' \in {sock, NoConn} /\ up' = up
    BY <1>9 DEF ReceiveMetadata, ReadNext, ReadExtension, FindClosed, GiveUp, AgentReads, netVars
  <2>2. QED
    BY <1>5, <1>6, <2>1 DEF VisitorsKept
<1>10. CASE Visit
  <2>1. PICK f \in {ResumeFrame(FALSE), OtherFrame} : Opens(<<f>>)
    BY <1>10 DEF Visit
  <2>2. f \in StrangerFrame
    <3>1. ResumeFrame(FALSE) \in StrangerFrame
      BY DEF ResumeFrame, StrangerFrame, UpFrame
    <3>2. OtherFrame \in StrangerFrame
      BY DEF OtherFrame, StrangerFrame, UpFrame
    <3>3. QED
      BY <3>1, <3>2
  <2>3. <<f>> \in Seq(StrangerFrame)
    BY <2>2
  <2>4. /\ visitors' = visitors \cup {opened + 1}
        /\ opened' = opened + 1
        /\ up' = [up EXCEPT ![opened + 1] = <<f>>]
        /\ sock' = sock /\ pc # "boot"
    BY <1>10, <2>1 DEF Visit, Opens, clientVars
  <2>5. \A c \in visitors' : up'[c] \in Seq(StrangerFrame)
    <3>1. opened + 1 \in Conn
      BY <1>2, <2>1, NetAssumption DEF Opens, Conn
    <3>2. up'[opened + 1] = <<f>> /\ \A c \in visitors : up'[c] = up[c]
      BY <1>3, <1>4, <2>4, <3>1
    <3>3. QED
      BY <2>3, <2>4, <3>2 DEF VisitorsKept
  <2>6. visitors' \subseteq 1..opened'
    BY <1>2, <2>4 DEF VisitorsKept
  <2>7. sock # opened + 1 /\ cand # opened + 1 /\ stream # opened + 1
    BY <1>2 DEF ControlOK, NoConn, TypeOK, ServerTypeOK, ClientTypeOK, Conn
  <2>8. QED
    BY <1>1, <2>4, <2>5, <2>6, <2>7 DEF VisitorsKept, OnlyCredentialedAttach
<1>11. QED
  BY <1>7, <1>8, <1>9, <1>10 DEF Agent, Environment

-----------------------------------------------------------------------------
(* The inductive invariant *)

\* The initial states satisfy it.
LEMMA InitIInv == Init => IInv
<1>. SUFFICES ASSUME Init PROVE IInv
  OBVIOUS
<1>1. TypeOK
  <2>1. <<>> \in Seq(UpFrame) /\ <<>> \in Seq(DownFrame) /\ <<>> \in Seq(Conn)
        /\ <<>> \in Seq(Event) /\ <<>> \in Seq([step : Nat, action : Action])
    BY EmptySeq
  <2>2. NetTypeOK
    BY <2>1, NetAssumption DEF Init, NetInit, NetTypeOK, Conn
  <2>3. ServerTypeOK
    BY <2>1, DefaultType, ServerAssumption
       DEF Init, ServerInit, ServerTypeOK, ServerPC, NoConn, NoStep
  <2>4. ClientTypeOK
    BY <2>1 DEF Init, ClientTypeOK, AgentPC, NoConn, NoStep
  <2>5. QED
    BY <2>2, <2>3, <2>4 DEF TypeOK
<1>2. ControlOK
  BY DEF Init, NetInit, ServerInit, ControlOK, NoConn
<1>3. FramesOffered
  <2>1. <<>> \in Seq(OfferedFrame)
    BY EmptySeq
  <2>2. QED
    BY <2>1 DEF Init, NetInit, FramesOffered
<1>4. VisitorsKept
  BY DEF Init, NetInit, ServerInit, VisitorsKept
<1>5. AppliedWasAnswered
  BY DEF Init, ServerInit, AppliedWasAnswered
<1>6. OnlyCredentialedAttach
  BY DEF Init, ServerInit, OnlyCredentialedAttach
<1>7. QED
  BY <1>1, <1>2, <1>3, <1>4, <1>5, <1>6 DEF IInv

\* Every step preserves it.
LEMMA NextIInv == IInv /\ [Next]_vars => IInv'
<1>. SUFFICES ASSUME IInv, [Next]_vars PROVE IInv'
  OBVIOUS
<1>. USE DEF IInv
<1>1. FramesOffered' /\ AppliedWasAnswered'
  BY FramesStep, AppliedStep
<1>2. CASE ServerStep
  <2>1. Server /\ UNCHANGED <<clientVars, visitors>>
    BY <1>2 DEF ServerStep
  <2>2. TypeOK'
    <3>1. ClientTypeOK'
      BY <2>1, ClientUnchanged DEF TypeOK
    <3>2. QED
      BY <2>1, <3>1, ServerType, TypePartsNext
  <2>3. ControlOK'
    BY <2>1, ServerControl
  <2>4. VisitorsKept' /\ OnlyCredentialedAttach'
    BY <2>1, VisitorsServer
  <2>5. QED
    BY <1>1, <2>2, <2>3, <2>4
<1>3. CASE Agent \/ Environment
  BY <1>1, <1>3, AgentStepType, AgentControl, VisitorsAgent
<1>4. CASE UNCHANGED vars
  <2>1. TypeOK'
    BY <1>4 DEF vars, netVars, serverVars, transportVars, agentVars, worldVars, clientVars, TypeOK,
       NetTypeOK, ServerTypeOK, ClientTypeOK
  <2>2. ControlOK' /\ VisitorsKept' /\ OnlyCredentialedAttach'
    BY <1>4 DEF vars, netVars, serverVars, transportVars, clientVars, ControlOK, VisitorsKept,
       OnlyCredentialedAttach
  <2>3. QED
    BY <1>1, <2>1, <2>2
<1>5. QED
  BY <1>2, <1>3, <1>4 DEF Next, Finished

\* The invariant of the whole system: process, network, agent and visitors.
THEOREM InductiveInvariant == Spec => []IInv
  BY InitIInv, NextIInv, PTL DEF Spec

\* The fields of SessionTransport, LockstepAgent, LockstepClient and the
\* connections keep their types; in particular the ticks a decision is still
\* held for stay below physics_ticks_per_decision (act).
THEOREM TypeCorrect == Spec => []TypeOK
<1>1. IInv => TypeOK
  BY DEF IInv
<1>2. QED
  BY <1>1, InductiveInvariant, PTL

\* However connections are lost, resumed or visited, a decision applies an
\* action the agent wrote for exactly that step or the default action of a
\* failed exchange (exchange, act).
THEOREM DecisionsAnswered == Spec => []AppliedWasAnswered
<1>1. IInv => AppliedWasAnswered
  BY DEF IInv
<1>2. QED
  BY <1>1, InductiveInvariant, PTL

\* A connection that did not bring this session's credentials never becomes
\* the session's stream (accept_resume, attach).
THEOREM CredentialedAttach == Spec => []OnlyCredentialedAttach
<1>1. IInv => OnlyCredentialedAttach
  BY DEF IInv
<1>2. QED
  BY <1>1, InductiveInvariant, PTL

-----------------------------------------------------------------------------
(* What a step does to the frames on their way to the agent *)

\* What Head and Tail of a non-empty queue are.
LEMMA HeadAndTail ==
    ASSUME NEW S, NEW q \in Seq(S), q # <<>>
    PROVE  /\ Len(q) \in Nat \ {0}
           /\ Head(q) = q[1] /\ Head(q) \in S
           /\ Tail(q) \in Seq(S) /\ Len(Tail(q)) = Len(q) - 1
           /\ \A i \in 1..(Len(q) - 1) : Tail(q)[i] = q[i + 1]
<1>1. Len(q) \in Nat \ {0}
  BY EmptySeq
<1>2. Head(q) = q[1]
  OBVIOUS
<1>3. QED
  BY <1>1, <1>2, HeadTailProperties

\* What Append adds to a queue.
LEMMA Appended ==
    ASSUME NEW S, NEW q \in Seq(S), NEW e \in S
    PROVE  /\ Len(q) \in Nat
           /\ Append(q, e) \in Seq(S)
           /\ Len(Append(q, e)) = Len(q) + 1
           /\ \A i \in 1..Len(q) : Append(q, e)[i] = q[i]
           /\ Append(q, e)[Len(q) + 1] = e
  BY AppendProperties, LenProperties

\* p is a prefix of q.
Begins(p, q) == Len(p) <= Len(q) /\ \A i \in 1..Len(p) : p[i] = q[i]

\* A prefix cut from a queue is one.
LEMMA PrefixBegins ==
    ASSUME NEW S, NEW q \in Seq(S), NEW n \in 0..Len(q)
    PROVE  Begins(SubSeq(q, 1, n), q)
<1>1. Len(q) \in Nat
  BY LenProperties
<1>2. \A i \in 1..n : q[i] \in S
  BY <1>1, ElementOfSeq
<1>3. Len(SubSeq(q, 1, n)) = n /\ \A i \in 1..n : SubSeq(q, 1, n)[i] = q[i]
  BY <1>1, <1>2, SubSeqProperties
<1>4. QED
  BY <1>1, <1>3 DEF Begins

\* No frame was added to any connection; the ends of some may be lost.
Quiet == \A c \in Conn : Begins(down'[c], down[c])

\* One frame was added to connection c, whose far end is there to read it.
Sent(c, f) ==
    /\ c \in Conn /\ f \in DownFrame
    /\ peer[c] = "open"
    /\ down' = [down EXCEPT ![c] = Append(@, f)]

\* A step that leaves the frames alone is quiet.
LEMMA QuietUnchanged ==
    ASSUME TypeOK, UNCHANGED down
    PROVE  Quiet
<1>1. \A c \in Conn : Len(down[c]) \in Nat
  BY LenProperties DEF TypeOK, NetTypeOK
<1>2. QED
  BY <1>1 DEF Quiet, Begins

\* Closing the server's end is quiet.
LEMMA QuietReleases ==
    ASSUME TypeOK, NEW c \in Conn \cup {NoConn}, Releases(c)
    PROVE  Quiet
<1>1. CASE c \in Conn
  <2>1. PICK n \in 0..Len(down[c]) : down' = [down EXCEPT ![c] = SubSeq(@, 1, n)]
    BY DEF Releases
  <2>2. down \in [Conn -> Seq(DownFrame)]
    BY DEF TypeOK, NetTypeOK
  <2>3. Begins(down'[c], down[c])
    BY <1>1, <2>1, <2>2, PrefixBegins
  <2>4. \A d \in Conn : d # c => down'[d] = down[d] /\ Len(down[d]) \in Nat
    BY <2>1, <2>2, LenProperties
  <2>5. \A d \in Conn : d # c => Begins(down'[d], down[d])
    BY <2>4 DEF Begins
  <2>6. QED
    BY <2>3, <2>5 DEF Quiet
<1>2. CASE c = NoConn
  <2>1. c \notin Conn
    BY <1>2, NetAssumption DEF Conn, NoConn
  <2>2. PICK n \in 0..Len(down[c]) : down' = [down EXCEPT ![c] = SubSeq(@, 1, n)]
    BY DEF Releases
  <2>3. down' = down
    BY <2>1, <2>2 DEF TypeOK, NetTypeOK
  <2>4. QED
    BY <2>3, QuietUnchanged
<1>3. QED
  BY <1>1, <1>2

\* A write either adds its frame or, nobody being there, leaves the frames alone.
LEMMA WritesOrNot ==
    ASSUME TypeOK, NEW c \in Conn, NEW f \in DownFrame, Writes(c, f)
    PROVE  Sent(c, f) \/ Quiet
<1>1. CASE peer[c] = "open"
  BY <1>1 DEF Writes, Sent
<1>2. CASE peer[c] # "open"
  BY <1>2, QuietUnchanged DEF Writes
<1>3. QED
  BY <1>1, <1>2

\* The queue of events while nothing is sent: an event joins it, or is lost
\* on a broken connection, or the queue is dropped, or a frame taken from it
\* went to a silent peer.
QueueQuiet ==
    \/ lifecycleSequence' = lifecycleSequence /\ pendingLifecycle' \in {pendingLifecycle, <<>>}
    \/ /\ lifecycleSequence' = lifecycleSequence
       /\ pendingLifecycle # <<>>
       /\ pendingLifecycle' = Tail(pendingLifecycle)
    \/ lifecycleSequence' = lifecycleSequence + 1 /\ pendingLifecycle' = pendingLifecycle
    \/ /\ lifecycleSequence' = lifecycleSequence + 1
       /\ \E k \in LifecycleKind : pendingLifecycle' = Append(pendingLifecycle, NextEvent(k))

\* The queue of events when frame f is sent: an event that is sent is the
\* queue's first, or a new one while none is queued.
QueueSends(f) ==
    \/ f.kind # "LIFECYCLE" /\ UNCHANGED <<lifecycleSequence, pendingLifecycle>>
    \/ /\ f.kind = "LIFECYCLE"
       /\ pendingLifecycle # <<>>
       /\ f.event = Head(pendingLifecycle)
       /\ pendingLifecycle' = Tail(pendingLifecycle)
       /\ lifecycleSequence' = lifecycleSequence
    \/ /\ f.kind = "LIFECYCLE"
       /\ pendingLifecycle = <<>> /\ pendingLifecycle' = <<>>
       /\ f.event.sequence = lifecycleSequence + 1
       /\ lifecycleSequence' = lifecycleSequence + 1

\* Events wait in the queue only while no connection is attached.
QueuedDetached == stream # NoConn => pendingLifecycle = <<>>

\* Emitting an event queues it, sends it, or loses it.
LEMMA EmitQueue ==
    ASSUME TypeOK, QueuedDetached, NEW k \in LifecycleKind, Emit(k)
    PROVE  (Quiet /\ QueueQuiet) \/ \E c, f : Sent(c, f) /\ QueueSends(f) /\ c = stream
<1>1. CASE stream = NoConn
  <2>1. QueueQuiet /\ UNCHANGED down
    BY <1>1 DEF Emit, QueueQuiet, netVars
  <2>2. QED
    BY <2>1, QuietUnchanged
<1>2. CASE stream # NoConn
  <2>1. stream \in Conn /\ NextEvent(k) \in Event /\ LifecycleFrame(NextEvent(k)) \in DownFrame
    BY <1>2, NextEventType, TypeParts DEF TypeOK, ServerTypeOK
  <2>2. QueueQuiet
    BY <1>2 DEF Emit, QueueQuiet
  <2>3. CASE Writes(stream, LifecycleFrame(NextEvent(k)))
    <3>1. QueueSends(LifecycleFrame(NextEvent(k)))
      BY <1>2 DEF QueueSends, QueuedDetached, Emit, LifecycleFrame, NextEvent
    <3>2. QED
      BY <2>1, <2>2, <2>3, <3>1, WritesOrNot
  <2>4. CASE TimesOut(stream)
    BY <2>2, <2>4, QuietUnchanged DEF TimesOut
  <2>5. QED
    BY <1>2, <2>3, <2>4 DEF Emit
<1>3. QED
  BY <1>1, <1>2

\* A failing call on the stream sends nothing; it may queue SessionDetached.
LEMMA StreamBreaksQueue ==
    ASSUME TypeOK, NEW broken, StreamBreaks(broken)
    PROVE  Quiet /\ QueueQuiet
<1>1. CASE Detach
  <2>1. Quiet
    BY <1>1, QuietReleases DEF Detach, TypeOK, ServerTypeOK
  <2>2. "SessionDetached" \in LifecycleKind
    BY DEF LifecycleKind
  <2>3. QED
    BY <1>1, <2>1, <2>2 DEF Detach, QueueQuiet
<1>2. CASE TimesOut(stream) /\ UNCHANGED transportVars
  BY <1>2, QuietUnchanged DEF TimesOut, transportVars, QueueQuiet
<1>3. QED
  BY <1>1, <1>2 DEF StreamBreaks

\* A failing write of attach sends nothing; it may drop the queue.
LEMMA AttachFailsQueue ==
    ASSUME TypeOK, AttachFails
    PROVE  Quiet /\ QueueQuiet
<1>1. Quiet
  BY QuietReleases DEF AttachFails, TypeOK, ServerTypeOK
<1>2. QED
  BY <1>1 DEF AttachFails, QueueQuiet

\* What any server step does to the frames and to the queue of events.
LEMMA ServerQueue ==
    ASSUME TypeOK, ControlOK, QueuedDetached, Server
    PROVE  (Quiet /\ QueueQuiet)
           \/ \E c, f : Sent(c, f) /\ QueueSends(f) /\ c \in {stream, cand}
<1>. USE DEF QueueQuiet
<1>0. stream \in Conn \cup {NoConn} /\ cand \in Conn \cup {NoConn}
  BY DEF TypeOK, ServerTypeOK
<1>1. CASE AcceptFirst \/ AcceptResume
  BY <1>1, QuietUnchanged DEF AcceptFirst, AcceptResume, Accepts
<1>2. CASE WriteMetadata
  <2>1. CASE AttachFails
    BY <2>1, AttachFailsQueue
  <2>2. CASE Writes(cand, MetadataFrame) /\ UNCHANGED transportVars
    <3>1. cand \in Conn /\ MetadataFrame \in DownFrame
      BY <1>0, <1>2 DEF WriteMetadata, ControlOK, MetadataFrame, DownFrame
    <3>2. QueueSends(MetadataFrame)
      BY <2>2 DEF QueueSends, MetadataFrame, transportVars
    <3>3. QED
      BY <2>2, <3>1, <3>2, WritesOrNot DEF transportVars
  <2>3. QED
    BY <1>2, <2>1, <2>2 DEF WriteMetadata
<1>3. CASE DrainEvent
  <2>1. CASE AttachFails
    BY <2>1, AttachFailsQueue
  <2>2. CASE /\ Writes(cand, LifecycleFrame(Head(pendingLifecycle)))
             /\ pendingLifecycle' = Tail(pendingLifecycle)
             /\ UNCHANGED lifecycleSequence
    <3>1. cand \in Conn /\ pendingLifecycle # <<>>
      BY <1>0, <1>3 DEF DrainEvent, ControlOK
    <3>2. Head(pendingLifecycle) \in Event
      BY <3>1, QueueHead DEF TypeOK, ServerTypeOK
    <3>3. LifecycleFrame(Head(pendingLifecycle)) \in DownFrame
      BY <3>2 DEF LifecycleFrame, DownFrame
    <3>4. QueueSends(LifecycleFrame(Head(pendingLifecycle)))
      BY <2>2, <3>1 DEF QueueSends, LifecycleFrame
    <3>5. QED
      BY <2>2, <3>1, <3>3, <3>4, WritesOrNot
  <2>3. QED
    BY <1>3, <2>1, <2>2 DEF DrainEvent
<1>4. CASE Attached
  <2>1. cand \in Conn /\ pendingLifecycle = <<>> /\ pendingLifecycle' = <<>>
        /\ lifecycleSequence' = lifecycleSequence + 1
    BY <1>0, <1>4 DEF Attached, ControlOK
  <2>2. CASE Writes(cand, LifecycleFrame(NextEvent("SessionAttached")))
    <3>1. LifecycleFrame(NextEvent("SessionAttached")) \in DownFrame
      BY NextEventType, TypeParts DEF LifecycleKind
    <3>2. QueueSends(LifecycleFrame(NextEvent("SessionAttached")))
      BY <2>1 DEF QueueSends, LifecycleFrame, NextEvent
    <3>3. QED
      BY <2>1, <2>2, <3>1, <3>2, WritesOrNot
  <2>3. CASE UNCHANGED netVars \/ TimesOut(cand)
    BY <2>1, <2>3, QuietUnchanged DEF netVars, TimesOut
  <2>4. QED
    BY <1>4, <2>2, <2>3 DEF Attached
<1>5. CASE EmitAlive \/ EmitReproduced \/ EmitDied \/ EmitTerminated
  <2>1. PICK k \in LifecycleKind : Emit(k)
    BY <1>5 DEF EmitAlive, EmitReproduced, EmitDied, EmitTerminated, LifecycleKind
  <2>2. QED
    BY <2>1, EmitQueue
<1>6. CASE ReadResume \/ RefuseResume
  BY <1>6, QuietUnchanged DEF ReadResume, RefuseResume, Reads, ReadsAndReleases, transportVars
<1>7. CASE ResumeBreaks
  BY <1>0, <1>7, QuietReleases DEF ResumeBreaks
<1>8. CASE ActHolding \/ ActDeciding \/ NextTick
  BY <1>8, QuietUnchanged DEF ActHolding, ActDeciding, NextTick, netVars, transportVars
<1>9. CASE WriteObservation
  <2>1. CASE \E b : StreamBreaks(b)
    BY <2>1, StreamBreaksQueue
  <2>2. CASE Writes(stream, ObservationFrame(tick)) /\ UNCHANGED transportVars
    <3>1. stream \in Conn /\ ObservationFrame(tick) \in DownFrame
      BY <1>0, <1>9 DEF WriteObservation, ObservationFrame, DownFrame, TypeOK, ServerTypeOK
    <3>2. QueueSends(ObservationFrame(tick))
      BY <2>2 DEF QueueSends, ObservationFrame, transportVars
    <3>3. QED
      BY <2>2, <3>1, <3>2, WritesOrNot DEF transportVars
  <2>3. QED
    BY <1>9, <2>1, <2>2 DEF WriteObservation
<1>10. CASE WriteExtension
  <2>1. CASE \E b : StreamBreaks(b)
    BY <2>1, StreamBreaksQueue
  <2>2. CASE /\ Writes(stream, ExtensionFrame(tick, decisionSequence, since))
             /\ UNCHANGED transportVars
    <3>1. stream \in Conn /\ ExtensionFrame(tick, decisionSequence, since) \in DownFrame
      BY <1>0, <1>10 DEF WriteExtension, ControlOK, ExtensionFrame, DownFrame, TypeOK, ServerTypeOK
    <3>2. QueueSends(ExtensionFrame(tick, decisionSequence, since))
      BY <2>2 DEF QueueSends, ExtensionFrame, transportVars
    <3>3. QED
      BY <2>2, <3>1, <3>2, WritesOrNot DEF transportVars
  <2>3. QED
    BY <1>10, <2>1, <2>2 DEF WriteExtension
<1>11. CASE AcceptAction \/ RejectFrame
  BY <1>11, QuietUnchanged DEF AcceptAction, RejectFrame, Reads, transportVars
<1>12. CASE AwaitBreaks
  BY <1>12, StreamBreaksQueue DEF AwaitBreaks
<1>13. CASE Exits
  BY <1>13, QuietReleases DEF Exits, serverVars, transportVars
<1>14. QED
  BY <1>1, <1>2, <1>3, <1>4, <1>5, <1>6, <1>7, <1>8, <1>9, <1>10, <1>11, <1>12, <1>13 DEF Server

-----------------------------------------------------------------------------
(* LifecycleInOrder: the order of the events an agent has and may still get *)

IsEvent(f) == f.kind = "LIFECYCLE"

\* The queue is in order, and so are the events on each connection.
QueuesRise ==
    /\ \A i, j \in 1..Len(pendingLifecycle) :
         i < j => pendingLifecycle[i].sequence < pendingLifecycle[j].sequence
    /\ \A c \in Conn : \A i, j \in 1..Len(down[c]) :
         i < j /\ IsEvent(down[c][i]) /\ IsEvent(down[c][j])
         => down[c][i].event.sequence < down[c][j].event.sequence

\* An event that left the server process precedes what the process may still
\* send: the events in the queue and the next one.
Past(e) ==
    /\ e.sequence <= lifecycleSequence
    /\ \A k \in 1..Len(pendingLifecycle) : e.sequence < pendingLifecycle[k].sequence

EventsPast ==
    /\ \A k \in 1..Len(pendingLifecycle) : pendingLifecycle[k].sequence <= lifecycleSequence
    /\ \A i \in 1..Len(lifecycle) : Past(lifecycle[i])
    /\ \A c \in Conn : \A i \in 1..Len(down[c]) : IsEvent(down[c][i]) => Past(down[c][i].event)

\* What the agent has stored precedes what is on its way to it.
StoredFirst ==
    sock # NoConn =>
      \A i \in 1..Len(lifecycle), j \in 1..Len(down[sock]) :
        IsEvent(down[sock][j]) => lifecycle[i].sequence < down[sock][j].event.sequence

\* The inductive invariant behind LifecycleInOrder.
EventsInv ==
    /\ LifecycleInOrder
    /\ QueuesRise
    /\ EventsPast
    /\ StoredFirst
    /\ \A c \in Conn : c > opened => down[c] = <<>>
    /\ QueuedDetached

\* Events wait only while no connection is attached: kept by every server step.
LEMMA QueuedStep ==
    ASSUME TypeOK, QueuedDetached, Server
    PROVE  QueuedDetached'
<1>. USE DEF QueuedDetached, StreamBreaks, Detach, AttachFails, Emit, transportVars, serverVars
<1>1. CASE AcceptFirst \/ AcceptResume \/ ReadResume \/ RefuseResume \/ ResumeBreaks
  BY <1>1 DEF AcceptFirst, AcceptResume, ReadResume, RefuseResume, ResumeBreaks
<1>2. CASE WriteMetadata \/ DrainEvent \/ Attached
  BY <1>2 DEF WriteMetadata, DrainEvent, Attached
<1>3. CASE EmitAlive \/ EmitReproduced \/ EmitDied \/ EmitTerminated \/ NextTick \/ Exits
  BY <1>3 DEF EmitAlive, EmitReproduced, EmitDied, EmitTerminated, NextTick, Exits
<1>4. CASE ActHolding \/ ActDeciding \/ AcceptAction \/ RejectFrame
  BY <1>4 DEF ActHolding, ActDeciding, AcceptAction, RejectFrame
<1>5. CASE WriteObservation \/ WriteExtension \/ AwaitBreaks
  BY <1>5 DEF WriteObservation, WriteExtension, AwaitBreaks
<1>6. QED
  BY <1>1, <1>2, <1>3, <1>4, <1>5 DEF Server

\* What becomes of the queue in a server step: every event in it was there
\* before or is the newest of all, it stays in order, and no sequence number is
\* given twice.
QueueKeeps ==
    /\ lifecycleSequence' \in {lifecycleSequence, lifecycleSequence + 1}
    /\ \A i, j \in 1..Len(pendingLifecycle') :
         i < j => pendingLifecycle'[i].sequence < pendingLifecycle'[j].sequence
    /\ \A k \in 1..Len(pendingLifecycle') :
         \/ \E j \in 1..Len(pendingLifecycle) : pendingLifecycle'[k] = pendingLifecycle[j]
         \/ /\ pendingLifecycle'[k].sequence = lifecycleSequence + 1
            /\ lifecycleSequence' = lifecycleSequence + 1

\* A dropped queue, or the rest of the queue, is in order and holds nothing new.
LEMMA QueueTail ==
    ASSUME TypeOK, EventsInv, lifecycleSequence' \in {lifecycleSequence, lifecycleSequence + 1},
           \/ pendingLifecycle' \in {pendingLifecycle, <<>>}
           \/ pendingLifecycle # <<>> /\ pendingLifecycle' = Tail(pendingLifecycle)
    PROVE  QueueKeeps
<1>1. pendingLifecycle \in Seq(Event)
  BY DEF TypeOK, ServerTypeOK
<1>2. CASE pendingLifecycle' = pendingLifecycle
  BY <1>2 DEF QueueKeeps, EventsInv, QueuesRise
<1>3. CASE pendingLifecycle' = <<>>
  BY <1>3 DEF QueueKeeps
<1>4. CASE pendingLifecycle # <<>> /\ pendingLifecycle' = Tail(pendingLifecycle)
  <2>1. /\ Len(pendingLifecycle) \in Nat \ {0}
        /\ Len(pendingLifecycle') = Len(pendingLifecycle) - 1
        /\ \A i \in 1..(Len(pendingLifecycle) - 1) :
             pendingLifecycle'[i] = pendingLifecycle[i + 1]
    BY <1>1, <1>4, HeadAndTail
  <2>2. \A i, j \in 1..Len(pendingLifecycle') :
          i < j => /\ i + 1 \in 1..Len(pendingLifecycle) /\ j + 1 \in 1..Len(pendingLifecycle)
                   /\ i + 1 < j + 1
    BY <2>1
  <2>3. \A k \in 1..Len(pendingLifecycle') : k + 1 \in 1..Len(pendingLifecycle)
    BY <2>1
  <2>4. QED
    BY <2>1, <2>2, <2>3 DEF QueueKeeps, EventsInv, QueuesRise
<1>5. QED
  BY <1>2, <1>3, <1>4

\* The queue with one new event is in order.
LEMMA QueueAppend ==
    ASSUME TypeOK, EventsInv, lifecycleSequence' = lifecycleSequence + 1,
           NEW k \in LifecycleKind, pendingLifecycle' = Append(pendingLifecycle, NextEvent(k))
    PROVE  QueueKeeps
<1>. DEFINE n == Len(pendingLifecycle)
<1>1. pendingLifecycle \in Seq(Event) /\ NextEvent(k) \in Event /\ lifecycleSequence \in Nat
  BY NextEventType, TypeParts DEF TypeOK, ServerTypeOK
<1>2. /\ n \in Nat /\ Len(pendingLifecycle') = n + 1
      /\ \A i \in 1..n : pendingLifecycle'[i] = pendingLifecycle[i]
      /\ pendingLifecycle'[n + 1] = NextEvent(k)
  BY <1>1, Appended
<1>3. pendingLifecycle'[n + 1].sequence = lifecycleSequence + 1
  BY <1>2 DEF NextEvent
<1>4. \A i \in 1..n : pendingLifecycle[i].sequence <= lifecycleSequence
                      /\ pendingLifecycle[i].sequence \in Nat
  <2>1. \A i \in 1..n : pendingLifecycle[i] \in Event
    BY <1>1, <1>2, ElementOfSeq
  <2>2. QED
    BY <2>1 DEF EventsInv, EventsPast, Event
<1>5. \A i \in 1..n : pendingLifecycle'[i].sequence < pendingLifecycle'[n + 1].sequence
  BY <1>1, <1>2, <1>3, <1>4
<1>6. \A i, j \in 1..Len(pendingLifecycle') :
        i < j => i \in 1..n /\ (j \in 1..n \/ j = n + 1)
  BY <1>2
<1>7. \A i, j \in 1..n :
        i < j => pendingLifecycle'[i].sequence < pendingLifecycle'[j].sequence
  BY <1>2 DEF EventsInv, QueuesRise
<1>8. \A i, j \in 1..Len(pendingLifecycle') :
        i < j => pendingLifecycle'[i].sequence < pendingLifecycle'[j].sequence
  BY <1>5, <1>6, <1>7
<1>9. \A i \in 1..Len(pendingLifecycle') : i \in 1..n \/ i = n + 1
  BY <1>2
<1>. HIDE DEF n
<1>10. \A i \in 1..Len(pendingLifecycle') :
        \/ \E j \in 1..Len(pendingLifecycle) : pendingLifecycle'[i] = pendingLifecycle[j]
        \/ pendingLifecycle'[i].sequence = lifecycleSequence + 1
  BY <1>2, <1>3, <1>9 DEF n
<1>11. QED
  BY <1>8, <1>10 DEF QueueKeeps

\* What a server step does to the queue keeps its order.
LEMMA QueueStep ==
    ASSUME TypeOK, EventsInv, QueueQuiet \/ \E f : QueueSends(f)
    PROVE  QueueKeeps
<1>1. CASE \E k \in LifecycleKind : /\ lifecycleSequence' = lifecycleSequence + 1
                                    /\ pendingLifecycle' = Append(pendingLifecycle, NextEvent(k))
  BY <1>1, QueueAppend
<1>2. CASE /\ lifecycleSequence' \in {lifecycleSequence, lifecycleSequence + 1}
           /\ \/ pendingLifecycle' \in {pendingLifecycle, <<>>}
              \/ pendingLifecycle # <<>> /\ pendingLifecycle' = Tail(pendingLifecycle)
  BY <1>2, QueueTail
<1>3. QED
  BY <1>1, <1>2 DEF QueueQuiet, QueueSends

\* An event that is past stays past.
LEMMA PastStays ==
    ASSUME TypeOK, QueueKeeps, NEW e \in Event, Past(e)
    PROVE  /\ e.sequence <= lifecycleSequence'
           /\ \A k \in 1..Len(pendingLifecycle') : e.sequence < pendingLifecycle'[k].sequence
<1>1. e.sequence \in Nat /\ lifecycleSequence \in Nat
  BY DEF Event, TypeOK, ServerTypeOK
<1>2. e.sequence <= lifecycleSequence
  BY DEF Past
<1>3. \A m \in Nat : m \in {lifecycleSequence, lifecycleSequence + 1} => e.sequence <= m
  BY <1>1, <1>2
<1>4. e.sequence <= lifecycleSequence'
  BY <1>1, <1>3 DEF QueueKeeps
<1>5. e.sequence < lifecycleSequence + 1
  BY <1>1, <1>2
<1>6. \A k \in 1..Len(pendingLifecycle) : e.sequence < pendingLifecycle[k].sequence
  BY DEF Past
<1>7. QED
  BY <1>4, <1>5, <1>6 DEF QueueKeeps

\* Every event on a connection, queued or stored is well formed.
LEMMA EventTypes ==
    ASSUME TypeOK
    PROVE  /\ \A c \in Conn : Len(down[c]) \in Nat
           /\ \A c \in Conn : \A i \in 1..Len(down[c]) :
                IsEvent(down[c][i]) => down[c][i].event \in Event
           /\ \A i \in 1..Len(pendingLifecycle) : pendingLifecycle[i] \in Event
           /\ \A i \in 1..Len(lifecycle) : lifecycle[i] \in Event
           /\ Len(lifecycle) \in Nat /\ Len(pendingLifecycle) \in Nat
<1>1. /\ down \in [Conn -> Seq(DownFrame)]
      /\ pendingLifecycle \in Seq(Event) /\ lifecycle \in Seq(Event)
  BY DEF TypeOK, NetTypeOK, ServerTypeOK, ClientTypeOK
<1>2. \A f \in DownFrame : IsEvent(f) => f.event \in Event
  BY DEF DownFrame, IsEvent
<1>3. \A c \in Conn : \A i \in 1..Len(down[c]) : down[c][i] \in DownFrame
  BY <1>1, ElementOfSeq
<1>4. QED
  BY <1>1, <1>2, <1>3, ElementOfSeq, LenProperties

\* An event that is sent comes after every past event and before everything
\* that is still to be sent.
LEMMA SentEvent ==
    ASSUME TypeOK, EventsInv, NEW f \in DownFrame, IsEvent(f), QueueSends(f)
    PROVE  /\ \A e \in Event : Past(e) => e.sequence < f.event.sequence
           /\ f.event.sequence <= lifecycleSequence'
           /\ \A k \in 1..Len(pendingLifecycle') :
                f.event.sequence < pendingLifecycle'[k].sequence
<1>0. /\ pendingLifecycle \in Seq(Event) /\ lifecycleSequence \in Nat
      /\ f.event \in Event
  BY DEF TypeOK, ServerTypeOK, DownFrame, IsEvent
<1>1. CASE /\ pendingLifecycle # <<>>
           /\ f.event = Head(pendingLifecycle)
           /\ pendingLifecycle' = Tail(pendingLifecycle)
           /\ lifecycleSequence' = lifecycleSequence
  <2>1. /\ Len(pendingLifecycle) \in Nat \ {0}
        /\ f.event = pendingLifecycle[1]
        /\ Len(pendingLifecycle') = Len(pendingLifecycle) - 1
        /\ \A i \in 1..(Len(pendingLifecycle) - 1) :
             pendingLifecycle'[i] = pendingLifecycle[i + 1]
    BY <1>0, <1>1, HeadAndTail
  <2>2. \A k \in 1..Len(pendingLifecycle') : k + 1 \in 1..Len(pendingLifecycle) /\ 1 < k + 1
    BY <2>1
  <2>3. 1 \in 1..Len(pendingLifecycle)
    BY <2>1
  <2>4. \A k \in 1..Len(pendingLifecycle') :
          f.event.sequence < pendingLifecycle'[k].sequence
    BY <2>1, <2>2, <2>3 DEF EventsInv, QueuesRise
  <2>5. f.event.sequence <= lifecycleSequence'
    BY <1>1, <2>1, <2>3 DEF EventsInv, EventsPast
  <2>6. \A e \in Event : Past(e) => e.sequence < f.event.sequence
    BY <2>1, <2>3 DEF Past
  <2>7. QED
    BY <2>4, <2>5, <2>6
<1>2. CASE /\ pendingLifecycle' = <<>>
           /\ f.event.sequence = lifecycleSequence + 1
           /\ lifecycleSequence' = lifecycleSequence + 1
  <2>1. \A e \in Event : Past(e) => e.sequence < f.event.sequence
    BY <1>0, <1>2 DEF Past, Event
  <2>2. f.event.sequence <= lifecycleSequence'
    BY <1>0, <1>2
  <2>3. QED
    BY <1>2, <2>1, <2>2
<1>3. QED
  BY <1>1, <1>2 DEF QueueSends, IsEvent

\* A quiet step keeps what is on each connection.
LEMMA QuietFrames ==
    ASSUME TypeOK, Quiet, NEW c \in Conn, NEW i \in 1..Len(down'[c]),
           Len(down'[c]) \in Nat
    PROVE  i \in 1..Len(down[c]) /\ down'[c][i] = down[c][i]
<1>1. Begins(down'[c], down[c]) /\ Len(down[c]) \in Nat
  BY EventTypes DEF Quiet
<1>2. QED
  BY <1>1 DEF Begins

\* A frame that is sent comes last on its connection; the others stay.
LEMMA SentFrames ==
    ASSUME TypeOK, NEW d, NEW f, Sent(d, f)
    PROVE  /\ \A c \in Conn : c # d => down'[c] = down[c]
           /\ Len(down[d]) \in Nat /\ Len(down'[d]) = Len(down[d]) + 1
           /\ \A i \in 1..Len(down[d]) : down'[d][i] = down[d][i]
           /\ down'[d][Len(down[d]) + 1] = f
           /\ \A i \in 1..Len(down'[d]) : i \in 1..Len(down[d]) \/ i = Len(down[d]) + 1
<1>1. down[d] \in Seq(DownFrame) /\ down' = [down EXCEPT ![d] = Append(down[d], f)]
      /\ down \in [Conn -> Seq(DownFrame)] /\ f \in DownFrame /\ d \in Conn
  BY DEF TypeOK, NetTypeOK, Sent
<1>2. down'[d] = Append(down[d], f)
  BY <1>1
<1>3. /\ Len(down[d]) \in Nat /\ Len(down'[d]) = Len(down[d]) + 1
      /\ \A i \in 1..Len(down[d]) : down'[d][i] = down[d][i]
      /\ down'[d][Len(down[d]) + 1] = f
  BY <1>1, <1>2, Appended
<1>4. \A i \in 1..Len(down'[d]) : i \in 1..Len(down[d]) \/ i = Len(down[d]) + 1
  BY <1>3
<1>5. QED
  BY <1>1, <1>3, <1>4

\* Every server step keeps the order of the events.
LEMMA EventsServer ==
    ASSUME TypeOK, TypeOK', ControlOK, EventsInv, Server, UNCHANGED clientVars
    PROVE  EventsInv'
<1>0. QueuedDetached
  BY DEF EventsInv
<1>1. QueueKeeps
  BY <1>0, ServerQueue, QueueStep
<1>2. lifecycle' = lifecycle /\ sock' = sock /\ opened' = opened
  BY ServerConsumes DEF clientVars, Holds
<1>3. LifecycleInOrder' /\ QueuedDetached'
  BY <1>2, QueuedStep DEF EventsInv, LifecycleInOrder
<1>4. \A e \in Event : Past(e) =>
        /\ e.sequence <= lifecycleSequence'
        /\ \A k \in 1..Len(pendingLifecycle') : e.sequence < pendingLifecycle'[k].sequence
  BY <1>1, PastStays
<1>5. /\ \A i \in 1..Len(lifecycle) : lifecycle[i] \in Event /\ Past(lifecycle[i])
      /\ \A c \in Conn : \A i \in 1..Len(down[c]) :
           IsEvent(down[c][i]) => down[c][i].event \in Event /\ Past(down[c][i].event)
  BY EventTypes DEF EventsInv, EventsPast
<1>6. \A k \in 1..Len(pendingLifecycle') : pendingLifecycle'[k].sequence <= lifecycleSequence'
  <2>1. \A k \in 1..Len(pendingLifecycle) :
          /\ pendingLifecycle[k].sequence \in Nat
          /\ pendingLifecycle[k].sequence <= lifecycleSequence
    BY EventTypes DEF EventsInv, EventsPast, Event
  <2>2. lifecycleSequence \in Nat
    BY DEF TypeOK, ServerTypeOK
  <2>3. \A k \in 1..Len(pendingLifecycle), m \in Nat :
          m \in {lifecycleSequence, lifecycleSequence + 1} => pendingLifecycle[k].sequence <= m
    BY <2>1, <2>2
  <2>4. lifecycleSequence' \in Nat /\ lifecycleSequence' \in {lifecycleSequence, lifecycleSequence + 1}
    BY <1>1, <2>2 DEF QueueKeeps
  <2>5. \A k \in 1..Len(pendingLifecycle) : pendingLifecycle[k].sequence <= lifecycleSequence'
    BY <2>3, <2>4
  <2>6. lifecycleSequence + 1 <= lifecycleSequence + 1
    BY <2>2
  <2>7. QED
    BY <1>1, <2>5, <2>6 DEF QueueKeeps
<1>7. \A i \in 1..Len(lifecycle') : Past(lifecycle[i])'
  BY <1>2, <1>4, <1>5 DEF Past
<1>8. \A c \in Conn : Len(down'[c]) \in Nat
  BY LenProperties DEF TypeOK, NetTypeOK
<1>9. CASE Quiet
  <2>1. \A c \in Conn : \A i \in 1..Len(down'[c]) :
          i \in 1..Len(down[c]) /\ down'[c][i] = down[c][i]
    BY <1>8, <1>9, QuietFrames
  <2>2. QueuesRise'
    BY <1>1, <2>1 DEF QueueKeeps, EventsInv, QueuesRise, IsEvent
  <2>3. EventsPast'
    BY <1>4, <1>5, <1>6, <1>7, <2>1 DEF EventsPast, Past, IsEvent
  <2>4. StoredFirst'
    <3>1. sock \in Conn \cup {NoConn}
      BY DEF TypeOK, ClientTypeOK
    <3>2. QED
      BY <1>2, <2>1, <3>1 DEF EventsInv, StoredFirst, IsEvent
  <2>5. \A c \in Conn : c > opened' => down'[c] = <<>>
    <3>1. SUFFICES ASSUME NEW c \in Conn, c > opened
                   PROVE  down'[c] = <<>>
      BY <1>2
    <3>2. down[c] = <<>> /\ Begins(down'[c], down[c])
      BY <1>9, <3>1 DEF EventsInv, Quiet
    <3>3. Len(down'[c]) = 0
      BY <1>8, <3>2 DEF Begins
    <3>4. down'[c] \in Seq(DownFrame)
      BY DEF TypeOK, NetTypeOK
    <3>5. QED
      BY <3>3, <3>4, EmptySeq
  <2>6. QED
    BY <1>3, <2>2, <2>3, <2>4, <2>5 DEF EventsInv
<1>10. ASSUME NEW d, NEW f, Sent(d, f), QueueSends(f), d \in {stream, cand}
       PROVE  EventsInv'
  <2>. DEFINE n == Len(down[d])
  <2>1. /\ \A c \in Conn : c # d => down'[c] = down[c]
        /\ n \in Nat /\ Len(down'[d]) = n + 1
        /\ \A i \in 1..n : down'[d][i] = down[d][i]
        /\ down'[d][n + 1] = f
        /\ \A i \in 1..Len(down'[d]) : i \in 1..n \/ i = n + 1
    BY <1>10, SentFrames
  <2>2. d \in Conn /\ f \in DownFrame
    BY <1>10 DEF Sent
  <2>3. IsEvent(f) =>
          /\ \A e \in Event : Past(e) => e.sequence < f.event.sequence
          /\ f.event.sequence <= lifecycleSequence'
          /\ \A k \in 1..Len(pendingLifecycle') :
               f.event.sequence < pendingLifecycle'[k].sequence
    BY <1>10, <2>2, SentEvent
  <2>4. QueuesRise'
    <3>1. SUFFICES ASSUME NEW c \in Conn, NEW i \in 1..Len(down'[c]), NEW j \in 1..Len(down'[c]),
                          i < j, IsEvent(down'[c][i]), IsEvent(down'[c][j])
                   PROVE  down'[c][i].event.sequence < down'[c][j].event.sequence
      BY <1>1 DEF QueueKeeps, QueuesRise, IsEvent
    <3>2. CASE c # d
      BY <2>1, <3>1, <3>2 DEF EventsInv, QueuesRise
    <3>3. CASE c = d /\ j \in 1..n
      <4>1. i \in 1..n
        BY <2>1, <3>1, <3>3
      <4>2. QED
        BY <2>1, <3>1, <3>3, <4>1 DEF EventsInv, QueuesRise
    <3>4. CASE c = d /\ j = n + 1
      <4>1. i \in 1..n
        BY <2>1, <3>1, <3>4
      <4>2. down'[c][i] = down[c][i] /\ down'[c][j] = f
        BY <2>1, <3>4, <4>1
      <4>3. QED
        BY <1>5, <2>3, <3>1, <3>4, <4>1, <4>2
    <3>5. QED
      BY <2>1, <3>2, <3>3, <3>4
  <2>5. EventsPast'
    <3>1. SUFFICES ASSUME NEW c \in Conn, NEW i \in 1..Len(down'[c]), IsEvent(down'[c][i])
                   PROVE  /\ down'[c][i].event.sequence <= lifecycleSequence'
                          /\ \A k \in 1..Len(pendingLifecycle') :
                               down'[c][i].event.sequence < pendingLifecycle'[k].sequence
      BY <1>6, <1>7 DEF EventsPast, Past, IsEvent
    <3>2. CASE c # d
      BY <1>4, <1>5, <2>1, <3>1, <3>2
    <3>3. CASE c = d /\ i \in 1..n
      BY <1>4, <1>5, <2>1, <3>1, <3>3
    <3>4. CASE c = d /\ i = n + 1
      BY <2>1, <2>3, <3>1, <3>4
    <3>5. QED
      BY <2>1, <3>2, <3>3, <3>4
  <2>6. StoredFirst'
    <3>1. SUFFICES ASSUME sock # NoConn, NEW i \in 1..Len(lifecycle),
                          NEW j \in 1..Len(down'[sock]), IsEvent(down'[sock][j])
                   PROVE  lifecycle[i].sequence < down'[sock][j].event.sequence
      BY <1>2 DEF StoredFirst, IsEvent
    <3>2. sock \in Conn
      BY <3>1 DEF TypeOK, ClientTypeOK
    <3>3. CASE sock # d
      BY <2>1, <3>1, <3>2, <3>3 DEF EventsInv, StoredFirst
    <3>4. CASE sock = d /\ j \in 1..n
      BY <2>1, <3>1, <3>2, <3>4 DEF EventsInv, StoredFirst
    <3>5. CASE sock = d /\ j = n + 1
      BY <1>5, <2>1, <2>3, <3>1, <3>5
    <3>6. QED
      BY <2>1, <3>3, <3>4, <3>5
  <2>7. \A c \in Conn : c > opened' => down'[c] = <<>>
    <3>1. d <= opened
      BY <1>10 DEF ControlOK
    <3>2. opened \in Nat
      BY DEF TypeOK, NetTypeOK
    <3>3. \A c \in Conn : c > opened => c # d
      BY <2>2, <3>1, <3>2 DEF Conn
    <3>4. QED
      BY <1>2, <2>1, <3>3 DEF EventsInv
  <2>8. QED
    BY <1>3, <2>4, <2>5, <2>6, <2>7 DEF EventsInv
<1>11. QED
  BY <1>0, <1>9, <1>10, ServerQueue

\* The agent program takes the next frame of its connection, and may store the
\* event in it.
Takes ==
    /\ sock \in Conn /\ down[sock] # <<>>
    /\ down' = [down EXCEPT ![sock] = Tail(@)]
    /\ UNCHANGED <<sock, opened>>
    /\ \/ lifecycle' = lifecycle
       \/ /\ IsEvent(Head(down[sock]))
          /\ lifecycle' = Append(lifecycle, Head(down[sock]).event)

\* The agent program leaves its connection, or opens the next one; frames on
\* their way may be lost.
Reconnects ==
    /\ lifecycle' = lifecycle
    /\ \/ down' = down
       \/ sock' = NoConn /\ down' = [down EXCEPT ![sock] = <<>>]
    /\ opened' \in {opened, opened + 1}
    /\ sock' \in {sock, NoConn} \/ (sock' = opened + 1 /\ down' = down)

\* What any step outside the server process does to frames and stored events.
LEMMA AgentQueue ==
    ASSUME TypeOK, ControlOK, Agent \/ Environment
    PROVE  (Takes \/ Reconnects) /\ UNCHANGED serverVars
<1>. USE DEF TypeOK, ClientTypeOK, Takes, Reconnects
<1>1. CASE Connect
  BY <1>1 DEF Connect, Opens
<1>2. CASE SendResume \/ SendAction \/ SendStray
  BY <1>2 DEF SendResume, SendAction, SendStray, AgentWrites
<1>3. CASE ReceiveMetadata
  BY <1>3 DEF ReceiveMetadata, AgentReads, StoreLifecycle, ControlOK, IsEvent
<1>4. CASE ReadNext
  BY <1>4 DEF ReadNext, AgentReads, StoreLifecycle, ControlOK, IsEvent
<1>5. CASE ReadExtension
  BY <1>5 DEF ReadExtension, AgentReads, ControlOK
<1>6. CASE FindClosed \/ GiveUp
  BY <1>6 DEF FindClosed, GiveUp, netVars
<1>7. CASE Lose
  BY <1>7 DEF Lose, AgentDrops
<1>8. CASE Visit
  BY <1>8 DEF Visit, Opens, clientVars
<1>9. QED
  BY <1>1, <1>2, <1>3, <1>4, <1>5, <1>6, <1>7, <1>8 DEF Agent, Environment

\* Taking a frame keeps the order of the events.
LEMMA EventsTake ==
    ASSUME TypeOK, TypeOK', EventsInv, Takes, UNCHANGED serverVars
    PROVE  EventsInv'
<1>. DEFINE q == down[sock]
            n == Len(q)
            m == Len(lifecycle)
<1>1. /\ sock \in Conn /\ q \in Seq(DownFrame) /\ q # <<>>
      /\ down \in [Conn -> Seq(DownFrame)] /\ lifecycle \in Seq(Event)
      /\ m \in Nat
  BY EventTypes DEF Takes, TypeOK, NetTypeOK, ClientTypeOK
<1>2. /\ n \in Nat \ {0} /\ Head(q) = q[1] /\ Head(q) \in DownFrame /\ Len(Tail(q)) = n - 1
      /\ \A i \in 1..(n - 1) : Tail(q)[i] = q[i + 1]
  BY <1>1, HeadAndTail
<1>3. /\ \A c \in Conn : c # sock => down'[c] = down[c]
      /\ down'[sock] = Tail(q)
  BY <1>1 DEF Takes
<1>4. /\ Len(down'[sock]) = n - 1
      /\ \A i \in 1..Len(down'[sock]) :
           i \in Nat /\ i + 1 \in 1..n /\ 1 < i + 1 /\ down'[sock][i] = q[i + 1]
  BY <1>2, <1>3
<1>. HIDE DEF n
<1>5. UNCHANGED <<pendingLifecycle, lifecycleSequence, stream, sock, opened>>
  BY DEF Takes, serverVars, transportVars
<1>6. QueuesRise'
  <2>1. SUFFICES ASSUME NEW c \in Conn, NEW i \in 1..Len(down'[c]), NEW j \in 1..Len(down'[c]),
                        i < j, IsEvent(down'[c][i]), IsEvent(down'[c][j])
                 PROVE  down'[c][i].event.sequence < down'[c][j].event.sequence
    BY <1>5 DEF EventsInv, QueuesRise, IsEvent
  <2>2. CASE c # sock
    BY <1>3, <2>1, <2>2 DEF EventsInv, QueuesRise
  <2>3. CASE c = sock
    <3>1. /\ i + 1 \in 1..n /\ j + 1 \in 1..n /\ i + 1 < j + 1
          /\ down'[c][i] = q[i + 1] /\ down'[c][j] = q[j + 1]
      BY <1>4, <2>1, <2>3
    <3>2. QED
      BY <1>1, <2>1, <3>1 DEF EventsInv, QueuesRise, n
  <2>4. QED
    BY <2>2, <2>3
<1>7. \A c \in Conn : \A i \in 1..Len(down'[c]) :
        IsEvent(down'[c][i]) => Past(down'[c][i].event)
  <2>1. SUFFICES ASSUME NEW c \in Conn, NEW i \in 1..Len(down'[c]), IsEvent(down'[c][i])
                 PROVE  Past(down'[c][i].event)
    OBVIOUS
  <2>2. CASE c # sock
    BY <1>3, <2>1, <2>2 DEF EventsInv, EventsPast
  <2>3. CASE c = sock
    BY <1>1, <1>4, <2>1, <2>3 DEF EventsInv, EventsPast, n
  <2>4. QED
    BY <2>2, <2>3
<1>8. /\ \A c \in Conn : c > opened' => down'[c] = <<>>
      /\ QueuedDetached'
  <2>1. sock <= opened \/ sock > opened
    BY <1>1 DEF Conn, TypeOK, NetTypeOK
  <2>2. ~(sock > opened)
    BY <1>1 DEF EventsInv
  <2>3. \A c \in Conn : c > opened => down'[c] = <<>>
    BY <1>3, <2>2 DEF EventsInv
  <2>4. QED
    BY <1>5, <2>3 DEF EventsInv, QueuedDetached
<1>9. CASE lifecycle' = lifecycle
  <2>1. LifecycleInOrder' /\ EventsPast'
    BY <1>5, <1>7, <1>9 DEF EventsInv, LifecycleInOrder, EventsPast, Past, IsEvent
  <2>2. StoredFirst'
    <3>1. SUFFICES ASSUME sock # NoConn, NEW i \in 1..Len(lifecycle),
                          NEW j \in 1..Len(down'[sock]), IsEvent(down'[sock][j])
                   PROVE  lifecycle[i].sequence < down'[sock][j].event.sequence
      BY <1>5, <1>9 DEF StoredFirst, IsEvent
    <3>2. QED
      BY <1>4, <3>1 DEF EventsInv, StoredFirst, n
  <2>3. QED
    BY <1>6, <1>8, <2>1, <2>2 DEF EventsInv
<1>10. CASE IsEvent(Head(q)) /\ lifecycle' = Append(lifecycle, Head(q).event)
  <2>1. 1 \in 1..n /\ IsEvent(q[1]) /\ q[1].event \in Event
    BY <1>1, <1>2, <1>10, EventTypes DEF n
  <2>2. /\ Len(lifecycle') = m + 1
        /\ \A i \in 1..m : lifecycle'[i] = lifecycle[i]
        /\ lifecycle'[m + 1] = q[1].event
    BY <1>1, <1>2, <1>10, <2>1, Appended
  <2>3. \A i \in 1..Len(lifecycle') : i \in 1..m \/ i = m + 1
    BY <1>1, <2>2
  <2>4. sock # NoConn
    BY <1>1 DEF Conn, NoConn
  <2>5. \A i \in 1..m : lifecycle[i].sequence < q[1].event.sequence
    BY <2>1, <2>4 DEF EventsInv, StoredFirst, n
  <2>6. LifecycleInOrder'
    <3>1. SUFFICES ASSUME NEW i \in 1..Len(lifecycle'), NEW j \in 1..Len(lifecycle'), i < j
                   PROVE  lifecycle'[i].sequence < lifecycle'[j].sequence
      BY DEF LifecycleInOrder
    <3>2. i \in 1..m
      BY <1>1, <2>2, <3>1
    <3>3. CASE j \in 1..m
      BY <2>2, <3>1, <3>2, <3>3 DEF EventsInv, LifecycleInOrder
    <3>4. CASE j = m + 1
      BY <2>2, <2>5, <3>2, <3>4
    <3>5. QED
      BY <2>3, <3>3, <3>4
  <2>7. Past(q[1].event)
    BY <1>1, <2>1 DEF EventsInv, EventsPast, n
  <2>8. \A i \in 1..Len(lifecycle') : Past(lifecycle'[i])
    BY <2>2, <2>3, <2>7 DEF EventsInv, EventsPast
  <2>9. EventsPast'
    BY <1>5, <1>7, <2>8 DEF EventsInv, EventsPast, Past, IsEvent
  <2>10. StoredFirst'
    <3>1. SUFFICES ASSUME NEW i \in 1..Len(lifecycle'),
                          NEW j \in 1..Len(down'[sock]), IsEvent(down'[sock][j])
                   PROVE  lifecycle'[i].sequence < down'[sock][j].event.sequence
      BY <1>5 DEF StoredFirst, IsEvent
    <3>2. j + 1 \in 1..n /\ 1 < j + 1 /\ down'[sock][j] = q[j + 1]
      BY <1>4
    <3>3. CASE i \in 1..m
      BY <2>2, <2>4, <3>1, <3>2, <3>3 DEF EventsInv, StoredFirst, n
    <3>4. CASE i = m + 1
      BY <1>1, <2>1, <2>2, <3>1, <3>2, <3>4 DEF EventsInv, QueuesRise, n
    <3>5. QED
      BY <2>3, <3>3, <3>4
  <2>11. QED
    BY <1>6, <1>8, <2>6, <2>9, <2>10 DEF EventsInv
<1>11. QED
  BY <1>9, <1>10 DEF Takes

\* Leaving a connection or opening one keeps the order of the events.
LEMMA EventsMove ==
    ASSUME TypeOK, TypeOK', EventsInv, Reconnects, UNCHANGED serverVars
    PROVE  EventsInv'
<1>1. UNCHANGED <<pendingLifecycle, lifecycleSequence, stream, lifecycle>>
  BY DEF Reconnects, serverVars, transportVars
<1>2. /\ down \in [Conn -> Seq(DownFrame)] /\ opened \in Nat /\ opened' \in Nat
      /\ sock \in Conn \cup {NoConn}
  BY DEF TypeOK, NetTypeOK, ClientTypeOK
<1>3. \A c \in Conn : down'[c] \in {down[c], <<>>}
  BY <1>2 DEF Reconnects
<1>4. \A c \in Conn : \A i \in 1..Len(down'[c]) : down'[c] = down[c]
  <2>1. \A i \in 1..Len(<<>>) : FALSE
    OBVIOUS
  <2>2. QED
    BY <1>3, <2>1
<1>5. QueuesRise'
  BY <1>1, <1>4 DEF EventsInv, QueuesRise, IsEvent
<1>6. EventsPast'
  BY <1>1, <1>4 DEF EventsInv, EventsPast, Past, IsEvent
<1>7. \A c \in Conn : c > opened' => c > opened
  BY <1>2 DEF Reconnects, Conn
<1>8. \A c \in Conn : c > opened' => down'[c] = <<>>
  BY <1>3, <1>7 DEF EventsInv
<1>9. StoredFirst'
  <2>1. CASE sock' = sock
    BY <1>1, <1>2, <1>4, <2>1 DEF EventsInv, StoredFirst, IsEvent
  <2>2. CASE sock' = NoConn
    BY <2>2 DEF StoredFirst
  <2>3. CASE sock' = opened + 1 /\ down' = down
    <3>1. sock' \in Conn \cup {NoConn}
      BY DEF TypeOK, ClientTypeOK
    <3>2. ASSUME sock' # NoConn
          PROVE  down'[sock'] = <<>>
      BY <1>2, <2>3, <3>1, <3>2 DEF EventsInv
    <3>3. QED
      BY <3>2 DEF StoredFirst
  <2>4. QED
    BY <2>1, <2>2, <2>3 DEF Reconnects
<1>10. QED
  BY <1>1, <1>5, <1>6, <1>8, <1>9 DEF EventsInv, LifecycleInOrder, QueuedDetached

\* The order of the events is kept by every step.
LEMMA NextEvents == IInv /\ IInv' /\ EventsInv /\ [Next]_vars => EventsInv'
<1>. SUFFICES ASSUME IInv, IInv', EventsInv, [Next]_vars PROVE EventsInv'
  OBVIOUS
<1>0. TypeOK /\ TypeOK' /\ ControlOK
  BY DEF IInv
<1>1. CASE ServerStep
  BY <1>0, <1>1, EventsServer DEF ServerStep
<1>2. CASE Agent \/ Environment
  BY <1>0, <1>2, AgentQueue, EventsTake, EventsMove
<1>3. CASE Finished \/ UNCHANGED vars
  BY <1>3 DEF Finished, vars, netVars, serverVars, transportVars, clientVars, EventsInv,
     LifecycleInOrder, QueuesRise, EventsPast, Past, StoredFirst, QueuedDetached, IsEvent
<1>4. QED
  BY <1>1, <1>2, <1>3 DEF Next

LEMMA InitEvents == Init => EventsInv
  BY DEF Init, NetInit, ServerInit, EventsInv, LifecycleInOrder, QueuesRise, EventsPast, Past,
     StoredFirst, QueuedDetached, IsEvent

\* The events an agent stores over all its connections, and those still on
\* their way or queued, keep the order in which they were numbered.
LEMMA EventsInOrder == Spec => []EventsInv
  BY InductiveInvariant, InitEvents, NextEvents, PTL DEF Spec

\* An agent never stores an event twice or out of order, however connections
\* are lost, resumed or refused and whatever is queued while detached
\* (emit_lifecycle, attach).
THEOREM EventsArriveInOrder == Spec => []LifecycleInOrder
<1>1. EventsInv => LifecycleInOrder
  BY DEF EventsInv
<1>2. QED
  BY <1>1, EventsInOrder, PTL

-----------------------------------------------------------------------------
(* NoProtocolError: what an agent finds on its connection *)

\* The i-th frame on its way to the agent.  What stands before the first is
\* the observation whose extension the agent reads next, or, when it reads no
\* extension next, any frame that is not an observation.
Latest(i) ==
    IF i = 0
    THEN IF cpc = "extension" THEN ObservationFrame(pending) ELSE MetadataFrame
    ELSE down[sock][i]

\* An extension follows the observation of its step, and nothing else does.
Pairs ==
    \A i \in 1..Len(down[sock]) :
        IF Latest(i - 1).kind = "OBSERVATION"
        THEN Latest(i).kind = "EXTENSION" /\ Latest(i).step = Latest(i - 1).step
        ELSE Latest(i).kind # "EXTENSION"

\* The last frame is an observation exactly while the server process is about
\* to write its extension.
OpenPair ==
    LET last == Latest(Len(down[sock])) IN
    /\ last.kind = "OBSERVATION" <=> (pc = "extension" /\ stream = sock)
    /\ last.kind = "OBSERVATION" => last.step = tick

\* Metadata comes first on a connection.
Opening == cpc \in {"resume", "metadata"}
Carried(s) == stream = s \/ (cand = s /\ pc = "drain")
MetadataFirst ==
    Opening =>
      /\ down[sock] # <<>> => down[sock][1].kind = "METADATA"
      /\ Running /\ Carried(sock) => down[sock] # <<>>

\* The inductive invariant behind NoProtocolError.
FramesInv ==
    /\ NoProtocolError
    /\ sock # NoConn =>
         /\ peer[sock] = "open"
         /\ Pairs
         /\ Running => OpenPair
         /\ MetadataFirst

\* What a server step that sends nothing to connection s leaves as it was.
Steady(s) ==
    /\ peer'[s] = "open"
    /\ Begins(down'[s], down[s])
    /\ Running' => /\ Running
                   /\ down'[s] = down[s]
                   /\ (pc' = "extension" /\ stream' = s) <=> (pc = "extension" /\ stream = s)
                   /\ pc = "extension" /\ stream = s => tick' = tick
                   /\ Carried(s)' => Carried(s)

\* What a server step that sends frame f to connection s does.
SentTo(s, f) ==
    /\ peer'[s] = "open"
    /\ Running
    /\ f \in DownFrame
    /\ down'[s] = Append(down[s], f)
    /\ tick' = tick
    /\ \/ f.kind = "METADATA" /\ pc = "metadata" /\ pc' = "drain"
       \/ /\ f.kind = "LIFECYCLE" /\ (IsSession(f.event) => cand = s)
          /\ Carried(s) /\ pc # "extension" /\ pc' # "extension"
       \/ /\ f.kind = "OBSERVATION" /\ f.step = tick
          /\ Carried(s) /\ pc # "extension" /\ pc' = "extension" /\ stream = s /\ stream' = s
       \/ /\ f.kind = "EXTENSION" /\ f.step = tick /\ f.since = since
          /\ Carried(s) /\ pc = "extension" /\ stream = s /\ pc' # "extension"

\* A write reaches its connection when somebody is there, and no other.
LEMMA WritesTo ==
    ASSUME TypeOK, NEW s \in Conn, NEW c \in Conn, NEW f, Writes(c, f), peer[s] = "open"
    PROVE  /\ peer'[s] = "open"
           /\ IF c = s THEN down'[s] = Append(down[s], f) ELSE down'[s] = down[s]
  BY DEF Writes, TypeOK, NetTypeOK

\* A connection that somebody reads cannot time out.
LEMMA TimesOutTo ==
    ASSUME TypeOK, NEW s \in Conn, NEW c \in Conn, TimesOut(c), peer[s] = "open"
    PROVE  c # s /\ peer'[s] = "open" /\ down'[s] = down[s]
  BY DEF TimesOut, Expires, TypeOK, NetTypeOK

\* Closing one connection leaves the frames of the others alone.
LEMMA ReleasesTo ==
    ASSUME TypeOK, NEW s \in Conn, NEW c, Releases(c)
    PROVE  peer' = peer /\ (c # s => down'[s] = down[s])
  BY DEF Releases, TypeOK, NetTypeOK

\* Nothing is lost or gained where the frames stay.
LEMMA BeginsSame ==
    ASSUME TypeOK, NEW s \in Conn, down'[s] = down[s]
    PROVE  Begins(down'[s], down[s])
<1>1. Len(down[s]) \in Nat
  BY LenProperties DEF TypeOK, NetTypeOK
<1>2. QED
  BY <1>1 DEF Begins

\* A world tick and a failed exchange do not send.
LEMMA DecideLeads ==
    ASSUME NEW a, Decide(a)
    PROVE  pc' = "report"
  BY DEF Decide, EndTick

\* A failing call on the stream does not concern a connection somebody reads.
LEMMA StreamBreaksTo ==
    ASSUME TypeOK, NEW s \in Conn, peer[s] = "open", stream # NoConn,
           pc \in {"exchange", "extension", "await"},
           StreamBreaks(WriteBreaks(stream)) \/ StreamBreaks(ReadBreaks(stream))
    PROVE  Steady(s)
<1>0. stream \in Conn
  BY DEF TypeOK, ServerTypeOK
<1>1. CASE Detach /\ peer[stream] = "closed"
  <2>1. stream # s /\ peer' = peer /\ down'[s] = down[s]
    BY <1>1, ReleasesTo DEF Detach
  <2>2. s # NoConn
    BY DEF Conn, NoConn
  <2>3. QED
    BY <1>1, <2>1, <2>2, BeginsSame DEF Detach, Steady, Running, Carried
<1>2. CASE TimesOut(stream) /\ ExchangeFails /\ UNCHANGED transportVars
  <2>1. stream # s /\ peer'[s] = "open" /\ down'[s] = down[s]
    BY <1>0, <1>2, TimesOutTo
  <2>2. pc' = "report"
    BY <1>2, DecideLeads DEF ExchangeFails
  <2>3. QED
    BY <1>2, <2>1, <2>2, BeginsSame DEF Steady, Running, Carried, transportVars
<1>3. QED
  BY <1>1, <1>2 DEF StreamBreaks, WriteBreaks, ReadBreaks

\* An error of attach sends nothing and ends with a tick or the process.
LEMMA AttachErrorLeads ==
    ASSUME AttachError
    PROVE  pc' \in {"failed", "report"}
  BY DecideLeads DEF AttachError, ExchangeFails

\* A failing write of attach does not concern a connection somebody reads.
LEMMA AttachFailsTo ==
    ASSUME TypeOK, NEW s \in Conn, peer[s] = "open", pc \in {"metadata", "drain"}, AttachFails
    PROVE  Steady(s)
<1>1. cand # s
  BY DEF AttachFails, WriteBreaks, Expires
<1>2. peer' = peer /\ down'[s] = down[s]
  BY <1>1, ReleasesTo DEF AttachFails
<1>3. pc' \in {"failed", "report"}
  BY AttachErrorLeads DEF AttachFails
<1>4. QED
  BY <1>2, <1>3, BeginsSame DEF AttachFails, Steady, Running, Carried

\* Emitting an event writes it to the stream or leaves the frames alone.
LEMMA EmitTo ==
    ASSUME TypeOK, NEW s \in Conn, peer[s] = "open", NEW k \in LifecycleKind \ SessionEvents,
           Emit(k),
           pc \in {"alive", "report", "terminate"}, pc' # "extension", pc' # "drain",
           tick' = tick
    PROVE  Steady(s) \/ \E f : SentTo(s, f)
<1>1. UNCHANGED <<stream, cand>>
  BY DEF Emit
<1>2. CASE stream = NoConn
  <2>1. peer' = peer /\ down' = down
    BY <1>2 DEF Emit, netVars
  <2>2. QED
    BY <1>1, <2>1, BeginsSame DEF Steady, Running, Carried
<1>3. CASE stream # NoConn
  <2>1. stream \in Conn /\ LifecycleFrame(NextEvent(k)) \in DownFrame
    BY <1>3, NextEventType, TypeParts DEF TypeOK, ServerTypeOK
  <2>2. CASE TimesOut(stream)
    BY <1>1, <2>1, <2>2, TimesOutTo, BeginsSame DEF Steady, Running, Carried
  <2>3. CASE Writes(stream, LifecycleFrame(NextEvent(k))) /\ stream = s
    <3>1. peer'[s] = "open" /\ down'[s] = Append(down[s], LifecycleFrame(NextEvent(k)))
      BY <2>1, <2>3, WritesTo
    <3>2. SentTo(s, LifecycleFrame(NextEvent(k)))
      BY <2>1, <2>3, <3>1 DEF SentTo, LifecycleFrame, NextEvent, IsSession, Running, Carried
    <3>3. QED
      BY <3>2
  <2>4. CASE Writes(stream, LifecycleFrame(NextEvent(k))) /\ stream # s
    <3>1. peer'[s] = "open" /\ down'[s] = down[s]
      BY <2>1, <2>4, WritesTo
    <3>2. QED
      BY <1>1, <2>4, <3>1, BeginsSame DEF Steady, Running, Carried
  <2>5. QED
    BY <1>3, <2>2, <2>3, <2>4 DEF Emit
<1>4. QED
  BY <1>2, <1>3

\* What any server step does to a connection somebody reads.
LEMMA ServerTo ==
    ASSUME TypeOK, ControlOK, NEW s \in Conn, peer[s] = "open", Server
    PROVE  Steady(s) \/ \E f : SentTo(s, f)
<1>0. /\ stream \in Conn \cup {NoConn} /\ cand \in Conn \cup {NoConn} /\ tick \in Nat
      /\ s # NoConn
  BY DEF TypeOK, ServerTypeOK, Conn, NoConn
<1>1. CASE AcceptFirst \/ AcceptResume
  <2>1. peer' = peer /\ down' = down /\ stream' = stream
        /\ pc' \in {"metadata", "resume"} /\ pc \in {"boot", "exchange"}
    BY <1>1 DEF AcceptFirst, AcceptResume, Accepts
  <2>2. QED
    BY <2>1, BeginsSame DEF Steady, Running, Carried
<1>2. CASE WriteMetadata
  <2>1. CASE AttachFails
    BY <1>2, <2>1, AttachFailsTo DEF WriteMetadata
  <2>2. CASE Writes(cand, MetadataFrame) /\ pc' = "drain" /\ UNCHANGED <<transportVars, worldVars>>
    <3>1. cand \in Conn /\ MetadataFrame \in DownFrame
      BY <1>0, <1>2 DEF WriteMetadata, ControlOK, MetadataFrame, DownFrame
    <3>2. CASE cand = s
      <4>1. SentTo(s, MetadataFrame)
        BY <1>2, <2>2, <3>1, <3>2, WritesTo
           DEF WriteMetadata, SentTo, MetadataFrame, Running, worldVars
      <4>2. QED
        BY <4>1
    <3>3. CASE cand # s
      <4>1. peer'[s] = "open" /\ down'[s] = down[s]
        BY <2>2, <3>1, <3>3, WritesTo
      <4>2. QED
        BY <1>2, <2>2, <3>3, <4>1, BeginsSame
           DEF WriteMetadata, Steady, Running, Carried, transportVars
    <3>4. QED
      BY <3>2, <3>3
  <2>3. QED
    BY <1>2, <2>1, <2>2 DEF WriteMetadata
<1>3. CASE DrainEvent
  <2>1. CASE AttachFails
    BY <1>3, <2>1, AttachFailsTo DEF DrainEvent
  <2>2. CASE /\ Writes(cand, LifecycleFrame(Head(pendingLifecycle)))
             /\ UNCHANGED <<pc, stream, cand, worldVars>>
    <3>1. cand \in Conn /\ pendingLifecycle # <<>> /\ pc = "drain"
      BY <1>0, <1>3 DEF DrainEvent, ControlOK
    <3>2. Head(pendingLifecycle) \in Event
      BY <3>1, QueueHead DEF TypeOK, ServerTypeOK
    <3>3. LifecycleFrame(Head(pendingLifecycle)) \in DownFrame
      BY <3>2 DEF LifecycleFrame, DownFrame
    <3>4. CASE cand = s
      <4>1. SentTo(s, LifecycleFrame(Head(pendingLifecycle)))
        BY <2>2, <3>1, <3>3, <3>4, WritesTo
           DEF SentTo, LifecycleFrame, Running, Carried, worldVars
      <4>2. QED
        BY <4>1
    <3>5. CASE cand # s
      <4>1. peer'[s] = "open" /\ down'[s] = down[s]
        BY <2>2, <3>1, <3>5, WritesTo
      <4>2. QED
        BY <2>2, <3>1, <3>5, <4>1, BeginsSame DEF Steady, Running, Carried
    <3>6. QED
      BY <3>4, <3>5
  <2>3. QED
    BY <1>3, <2>1, <2>2 DEF DrainEvent
<1>4. CASE Attached
  <2>1. cand \in Conn /\ pc = "drain" /\ stream' = cand /\ cand' = NoConn
    BY <1>0, <1>4 DEF Attached, ControlOK
  <2>2. CASE /\ Writes(cand, LifecycleFrame(NextEvent("SessionAttached")))
             /\ pc' \in {"alive", "exchange"}
             /\ UNCHANGED worldVars
    <3>1. LifecycleFrame(NextEvent("SessionAttached")) \in DownFrame
      BY NextEventType, TypeParts DEF LifecycleKind
    <3>2. CASE cand = s
      <4>1. SentTo(s, LifecycleFrame(NextEvent("SessionAttached")))
        BY <2>1, <2>2, <3>1, <3>2, WritesTo
           DEF SentTo, LifecycleFrame, Running, Carried, worldVars
      <4>2. QED
        BY <4>1
    <3>3. CASE cand # s
      <4>1. peer'[s] = "open" /\ down'[s] = down[s]
        BY <2>1, <2>2, <3>3, WritesTo
      <4>2. QED
        BY <1>0, <2>1, <2>2, <3>3, <4>1, BeginsSame DEF Steady, Running, Carried
    <3>4. QED
      BY <3>2, <3>3
  <2>3. CASE ((WriteBreaks(cand) /\ UNCHANGED netVars) \/ TimesOut(cand)) /\ AttachError
    <3>1. cand # s /\ peer'[s] = "open" /\ down'[s] = down[s]
      BY <2>1, <2>3, TimesOutTo DEF WriteBreaks, netVars
    <3>2. pc' \in {"failed", "report"}
      BY <2>3, AttachErrorLeads
    <3>3. QED
      BY <1>0, <2>1, <3>1, <3>2, BeginsSame DEF Steady, Running, Carried
  <2>4. QED
    BY <1>4, <2>2, <2>3 DEF Attached
<1>5. CASE EmitAlive \/ EmitReproduced \/ EmitDied \/ EmitTerminated
  <2>1. PICK k \in LifecycleKind \ SessionEvents : Emit(k)
    BY <1>5 DEF EmitAlive, EmitReproduced, EmitDied, EmitTerminated, LifecycleKind, SessionEvents
  <2>2. pc \in {"alive", "report", "terminate"} /\ pc' # "extension" /\ pc' # "drain" /\ tick' = tick
    BY <1>5 DEF EmitAlive, EmitReproduced, EmitDied, EmitTerminated, worldVars
  <2>3. QED
    BY <2>1, <2>2, EmitTo
<1>6. CASE ReadResume \/ RefuseResume
  <2>1. peer' = peer /\ down' = down /\ stream' = stream
        /\ pc' \in {"metadata", "exchange"} /\ pc = "resume"
    BY <1>6 DEF ReadResume, RefuseResume, Reads, ReadsAndReleases, transportVars
  <2>2. QED
    BY <2>1, BeginsSame DEF Steady, Running, Carried
<1>7. CASE ResumeBreaks
  <2>1. cand # s /\ peer' = peer /\ down'[s] = down[s] /\ stream' = stream
    BY <1>7, ReleasesTo DEF ResumeBreaks, ReadBreaks
  <2>2. pc' = "report" /\ pc = "resume"
    BY <1>7, DecideLeads DEF ResumeBreaks, ExchangeFails
  <2>3. QED
    BY <2>1, <2>2, BeginsSame DEF Steady, Running, Carried
<1>8. CASE ActHolding \/ ActDeciding \/ NextTick
  <2>1. peer' = peer /\ down' = down /\ stream' = stream
        /\ pc' \in {"report", "exchange", "tick", "terminate"} /\ pc \in {"tick", "report"}
    BY <1>8 DEF ActHolding, ActDeciding, NextTick, netVars, transportVars, EndTick
  <2>2. QED
    BY <2>1, BeginsSame DEF Steady, Running, Carried
<1>9. CASE WriteObservation
  <2>0. stream \in Conn /\ pc = "exchange" /\ ObservationFrame(tick) \in DownFrame
    BY <1>0, <1>9 DEF WriteObservation, ObservationFrame, DownFrame
  <2>1. CASE StreamBreaks(WriteBreaks(stream))
    BY <1>0, <1>9, <2>0, <2>1, StreamBreaksTo DEF WriteObservation
  <2>2. CASE /\ Writes(stream, ObservationFrame(tick)) /\ pc' = "extension"
             /\ UNCHANGED <<transportVars, worldVars>>
    <3>1. CASE stream = s
      <4>1. SentTo(s, ObservationFrame(tick))
        BY <2>0, <2>2, <3>1, WritesTo
           DEF SentTo, ObservationFrame, Running, Carried, worldVars, transportVars
      <4>2. QED
        BY <4>1
    <3>2. CASE stream # s
      <4>1. peer'[s] = "open" /\ down'[s] = down[s]
        BY <2>0, <2>2, <3>2, WritesTo
      <4>2. QED
        BY <2>0, <2>2, <3>2, <4>1, BeginsSame DEF Steady, Running, Carried, transportVars
    <3>3. QED
      BY <3>1, <3>2
  <2>3. QED
    BY <1>9, <2>1, <2>2 DEF WriteObservation
<1>10. CASE WriteExtension
  <2>0. stream \in Conn /\ pc = "extension"
        /\ ExtensionFrame(tick, decisionSequence, since) \in DownFrame
    BY <1>0, <1>10 DEF WriteExtension, ControlOK, ExtensionFrame, DownFrame, TypeOK, ServerTypeOK
  <2>1. CASE StreamBreaks(WriteBreaks(stream))
    BY <1>0, <2>0, <2>1, StreamBreaksTo DEF ControlOK
  <2>2. CASE /\ Writes(stream, ExtensionFrame(tick, decisionSequence, since)) /\ pc' = "await"
             /\ UNCHANGED <<transportVars, worldVars>>
    <3>1. CASE stream = s
      <4>1. SentTo(s, ExtensionFrame(tick, decisionSequence, since))
        BY <2>0, <2>2, <3>1, WritesTo
           DEF SentTo, ExtensionFrame, Running, Carried, worldVars, transportVars
      <4>2. QED
        BY <4>1
    <3>2. CASE stream # s
      <4>1. peer'[s] = "open" /\ down'[s] = down[s]
        BY <2>0, <2>2, <3>2, WritesTo
      <4>2. QED
        BY <2>0, <2>2, <3>2, <4>1, BeginsSame DEF Steady, Running, Carried, transportVars
    <3>3. QED
      BY <3>1, <3>2
  <2>3. QED
    BY <1>10, <2>1, <2>2 DEF WriteExtension
<1>11. CASE AcceptAction \/ RejectFrame
  <2>1. peer' = peer /\ down' = down /\ UNCHANGED transportVars
        /\ pc' \in {"report", "exchange"} /\ pc = "await"
    BY <1>11, DecideLeads DEF AcceptAction, RejectFrame, Reads
  <2>2. QED
    BY <2>1, BeginsSame DEF Steady, Running, Carried, transportVars
<1>12. CASE AwaitBreaks
  BY <1>0, <1>12, StreamBreaksTo DEF AwaitBreaks, ControlOK
<1>13. CASE Exits
  <2>1. PICK c \in Conn : Releases(c)
    BY <1>13 DEF Exits
  <2>2. PICK n \in 0..Len(down[c]) : down' = [down EXCEPT ![c] = SubSeq(@, 1, n)]
    BY <2>1 DEF Releases
  <2>3. down \in [Conn -> Seq(DownFrame)]
    BY DEF TypeOK, NetTypeOK
  <2>4. Begins(down'[s], down[s])
    <3>1. CASE c = s
      BY <2>2, <2>3, <3>1, PrefixBegins
    <3>2. CASE c # s
      BY <2>2, <2>3, <3>2, BeginsSame
    <3>3. QED
      BY <3>1, <3>2
  <2>5. peer' = peer /\ ~Running'
    BY <1>13, <2>1 DEF Exits, Releases, serverVars, Running
  <2>6. QED
    BY <2>4, <2>5 DEF Steady
<1>14. QED
  BY <1>1, <1>2, <1>3, <1>4, <1>5, <1>6, <1>7, <1>8, <1>9, <1>10, <1>11, <1>12, <1>13 DEF Server

\* A server step keeps the frames an agent finds in their places.
LEMMA FramesServer ==
    ASSUME TypeOK, TypeOK', ControlOK, FramesInv, Server, UNCHANGED clientVars
    PROVE  FramesInv'
<1>1. UNCHANGED <<cpc, sock, pending>>
  BY DEF clientVars
<1>2. NoProtocolError'
  BY <1>1 DEF FramesInv, NoProtocolError
<1>3. CASE sock = NoConn
  BY <1>1, <1>2, <1>3 DEF FramesInv
<1>4. CASE sock # NoConn
  <2>. PICK n \in Nat : n = Len(down[sock])
    BY <1>4, LenProperties DEF TypeOK, NetTypeOK, ClientTypeOK
  <2>0. /\ sock \in Conn /\ peer[sock] = "open" /\ Pairs /\ MetadataFirst
        /\ Running => OpenPair
        /\ down[sock] \in Seq(DownFrame) /\ down'[sock] \in Seq(DownFrame)
        /\ n \in Nat /\ Len(down'[sock]) \in Nat
    BY <1>4, LenProperties DEF FramesInv, TypeOK, NetTypeOK, ClientTypeOK
  <2>1. CASE Steady(sock)
    <3>1. Len(down'[sock]) <= n /\ \A i \in 1..Len(down'[sock]) : down'[sock][i] = down[sock][i]
      BY <2>1 DEF Steady, Begins
    <3>2. \A i \in 0..Len(down'[sock]) : Latest(i)' = Latest(i)
      BY <1>1, <2>0, <3>1 DEF Latest, ObservationFrame, MetadataFrame
    <3>3. Pairs'
      <4>1. SUFFICES ASSUME NEW i \in 1..Len(down'[sock])
                     PROVE  IF Latest(i - 1)'.kind = "OBSERVATION"
                            THEN Latest(i)'.kind = "EXTENSION"
                                 /\ Latest(i)'.step = Latest(i - 1)'.step
                            ELSE Latest(i)'.kind # "EXTENSION"
        BY <1>1 DEF Pairs, Latest, ObservationFrame, MetadataFrame
      <4>2. i \in 1..n /\ i \in 0..Len(down'[sock]) /\ i - 1 \in 0..Len(down'[sock])
        BY <2>0, <3>1
      <4>3. Latest(i)' = Latest(i) /\ Latest(i - 1)' = Latest(i - 1)
        BY <3>2, <4>2
      <4>4. QED
        BY <2>0, <4>2, <4>3 DEF Pairs
    <3>4. Running' => OpenPair'
      <4>1. SUFFICES ASSUME Running' PROVE OpenPair'
        OBVIOUS
      <4>2. /\ down'[sock] = down[sock] /\ Running
            /\ (pc' = "extension" /\ stream' = sock) <=> (pc = "extension" /\ stream = sock)
            /\ pc = "extension" /\ stream = sock => tick' = tick
        BY <2>1, <4>1 DEF Steady
      <4>3. Latest(n)' = Latest(n)
        BY <1>1, <4>2 DEF Latest, ObservationFrame, MetadataFrame
      <4>4. Len(down'[sock']) = n
        BY <1>1, <4>2
      <4>5. /\ Latest(n).kind = "OBSERVATION" <=> (pc = "extension" /\ stream = sock)
            /\ Latest(n).kind = "OBSERVATION" => Latest(n).step = tick
        BY <2>0, <4>2 DEF OpenPair
      <4>6. /\ Latest(n)'.kind = "OBSERVATION" <=> (pc' = "extension" /\ stream' = sock')
            /\ Latest(n)'.kind = "OBSERVATION" => Latest(n)'.step = tick'
        BY <1>1, <4>2, <4>3, <4>5
      <4>7. QED
        BY <4>4, <4>6 DEF OpenPair, Latest
    <3>5. MetadataFirst'
      <4>1. ASSUME down'[sock] # <<>>
            PROVE  down[sock] # <<>> /\ down'[sock][1] = down[sock][1]
        <5>1. Len(down'[sock]) # 0
          BY <2>0, <4>1, EmptySeq
        <5>2. 1 \in 1..Len(down'[sock]) /\ n # 0
          BY <2>0, <3>1, <5>1
        <5>3. QED
          BY <3>1, <5>2, EmptySeq
      <4>2. Running' /\ Carried(sock)' => Running /\ Carried(sock) /\ down'[sock] = down[sock]
        BY <2>1 DEF Steady
      <4>3. QED
        BY <1>1, <2>0, <4>1, <4>2 DEF MetadataFirst, Opening, Carried
    <3>6. QED
      BY <1>1, <1>2, <2>1, <3>3, <3>4, <3>5 DEF FramesInv, Steady
  <2>2. ASSUME NEW f, SentTo(sock, f)
        PROVE  FramesInv'
    <3>1. /\ f \in DownFrame /\ Running /\ OpenPair
          /\ down'[sock] = Append(down[sock], f) /\ tick' = tick
      BY <2>0, <2>2 DEF SentTo
    <3>2. /\ Len(down'[sock]) = n + 1
          /\ \A i \in 1..n : down'[sock][i] = down[sock][i]
          /\ down'[sock][n + 1] = f
          /\ down'[sock] # <<>>
      <4>1. /\ Len(down'[sock]) = n + 1
            /\ \A i \in 1..n : down'[sock][i] = down[sock][i]
            /\ down'[sock][n + 1] = f
        BY <2>0, <3>1, Appended
      <4>2. Len(down'[sock]) # 0
        BY <2>0, <4>1
      <4>3. QED
        BY <4>1, <4>2
    <3>3. \A i \in 0..n : Latest(i)' = Latest(i)
      BY <1>1, <2>0, <3>2 DEF Latest, ObservationFrame, MetadataFrame
    <3>4. Latest(n + 1)' = f
      <4>1. n + 1 # 0
        OBVIOUS
      <4>2. QED
        BY <1>1, <3>2, <4>1 DEF Latest
    <3>5. /\ IF Latest(n).kind = "OBSERVATION"
             THEN f.kind = "EXTENSION" /\ f.step = Latest(n).step
             ELSE f.kind # "EXTENSION"
          /\ f.kind = "OBSERVATION" <=> (pc' = "extension" /\ stream' = sock)
          /\ f.kind = "OBSERVATION" => f.step = tick'
      BY <2>2, <3>1 DEF SentTo, OpenPair
    <3>6. Pairs'
      <4>1. SUFFICES ASSUME NEW i \in 1..Len(down'[sock])
                     PROVE  IF Latest(i - 1)'.kind = "OBSERVATION"
                            THEN Latest(i)'.kind = "EXTENSION"
                                 /\ Latest(i)'.step = Latest(i - 1)'.step
                            ELSE Latest(i)'.kind # "EXTENSION"
        BY <1>1 DEF Pairs, Latest, ObservationFrame, MetadataFrame
      <4>2. CASE i \in 1..n
        <5>1. i \in 0..n /\ i - 1 \in 0..n
          BY <2>0, <4>2
        <5>2. QED
          BY <2>0, <3>3, <4>2, <5>1 DEF Pairs
      <4>3. CASE i = n + 1
        <5>1. i - 1 = n /\ n \in 0..n
          BY <2>0, <4>3
        <5>2. Latest(n)' = Latest(n) /\ Latest(n + 1)' = f
          BY <3>3, <3>4, <5>1
        <5>3. QED
          BY <3>5, <4>3, <5>1, <5>2
      <4>4. QED
        BY <2>0, <3>2, <4>2, <4>3
    <3>7. OpenPair'
      <4>1. PICK m \in Nat : m = n + 1
        OBVIOUS
      <4>2. Len(down'[sock']) = m /\ Latest(m)' = f
        BY <1>1, <3>2, <3>4, <4>1
      <4>3. QED
        BY <1>1, <3>5, <4>2 DEF OpenPair, Latest
    <3>8. MetadataFirst'
      <4>1. SUFFICES ASSUME Opening
                     PROVE  down'[sock][1].kind = "METADATA"
        BY <1>1, <3>2 DEF MetadataFirst, Opening
      <4>2. CASE down[sock] = <<>>
        <5>1. ~Carried(sock)
          BY <2>0, <3>1, <4>1, <4>2 DEF MetadataFirst
        <5>2. f.kind = "METADATA"
          BY <2>2, <5>1 DEF SentTo
        <5>3. n = 0
          BY <4>2
        <5>4. QED
          BY <3>2, <5>2, <5>3
      <4>3. CASE down[sock] # <<>>
        <5>1. 1 \in 1..n
          <6>1. n # 0
            BY <2>0, <4>3, EmptySeq
          <6>2. QED
            BY <2>0, <6>1
        <5>2. QED
          BY <2>0, <3>2, <4>1, <4>3, <5>1 DEF MetadataFirst
      <4>4. QED
        BY <4>2, <4>3
    <3>9. QED
      BY <1>1, <1>2, <2>2, <3>6, <3>7, <3>8 DEF FramesInv, SentTo
  <2>3. QED
    BY <2>0, <2>1, <2>2, ServerTo
<1>5. QED
  BY <1>3, <1>4

\* The agent's taking a frame moves the others up by one.
LEMMA FramesTake ==
    ASSUME TypeOK, FramesInv, sock \in Conn, down[sock] # <<>>,
           down' = [down EXCEPT ![sock] = Tail(@)],
           UNCHANGED <<sock, peer, serverVars>>,
           ~Opening',
           NoProtocolError',
           Latest(0)'.kind = "OBSERVATION" <=> Latest(1).kind = "OBSERVATION",
           Latest(1).kind = "OBSERVATION" => Latest(0)'.step = Latest(1).step
    PROVE  FramesInv'
<1>. PICK n \in Nat : n = Len(down[sock])
  BY LenProperties DEF TypeOK, NetTypeOK
<1>0. /\ sock # NoConn
      /\ down \in [Conn -> Seq(DownFrame)] /\ down[sock] \in Seq(DownFrame)
  BY DEF Conn, NoConn, TypeOK, NetTypeOK
<1>1. /\ n \in Nat \ {0} /\ Len(down'[sock]) = n - 1
      /\ \A i \in 1..(n - 1) : down'[sock][i] = down[sock][i + 1]
  BY <1>0, HeadAndTail
<1>2. \A i \in 1..(n - 1) : Latest(i)' = Latest(i + 1)
  <2>1. \A i \in 1..(n - 1) : i # 0 /\ i + 1 # 0
    BY <1>1
  <2>2. QED
    BY <1>1, <2>1 DEF Latest
<1>3. \A i \in 0..(n - 1) :
        /\ Latest(i)'.kind = "OBSERVATION" <=> Latest(i + 1).kind = "OBSERVATION"
        /\ Latest(i + 1).kind = "OBSERVATION" => Latest(i)'.step = Latest(i + 1).step
  <2>1. \A i \in 0..(n - 1) : i = 0 \/ i \in 1..(n - 1)
    BY <1>1
  <2>2. 0 + 1 = 1
    OBVIOUS
  <2>3. QED
    BY <1>2, <2>1, <2>2
<1>4. Pairs'
  <2>1. SUFFICES ASSUME NEW i \in 1..Len(down'[sock])
                 PROVE  IF Latest(i - 1)'.kind = "OBSERVATION"
                        THEN Latest(i)'.kind = "EXTENSION"
                             /\ Latest(i)'.step = Latest(i - 1)'.step
                        ELSE Latest(i)'.kind # "EXTENSION"
    BY DEF Pairs, Latest, ObservationFrame, MetadataFrame
  <2>2. i \in 1..(n - 1) /\ i - 1 \in 0..(n - 1) /\ i + 1 \in 1..n /\ (i - 1) + 1 = i
        /\ (i + 1) - 1 = i
    BY <1>1
  <2>3. IF Latest(i).kind = "OBSERVATION"
        THEN Latest(i + 1).kind = "EXTENSION" /\ Latest(i + 1).step = Latest(i).step
        ELSE Latest(i + 1).kind # "EXTENSION"
    BY <1>0, <2>2 DEF FramesInv, Pairs
  <2>4. Latest(i)' = Latest(i + 1)
    BY <1>2, <2>2
  <2>5. /\ Latest(i - 1)'.kind = "OBSERVATION" <=> Latest(i).kind = "OBSERVATION"
        /\ Latest(i).kind = "OBSERVATION" => Latest(i - 1)'.step = Latest(i).step
    BY <1>3, <2>2
  <2>6. QED
    BY <2>3, <2>4, <2>5
<1>5. Running' => OpenPair'
  <2>1. UNCHANGED <<pc, stream, tick>>
    BY DEF serverVars, transportVars, worldVars
  <2>2. n - 1 \in 0..(n - 1) /\ (n - 1) + 1 = n /\ n - 1 \in Nat
    BY <1>1
  <2>3. /\ Latest(n - 1)'.kind = "OBSERVATION" <=> Latest(n).kind = "OBSERVATION"
        /\ Latest(n).kind = "OBSERVATION" => Latest(n - 1)'.step = Latest(n).step
    BY <1>3, <2>2
  <2>4. PICK m \in Nat : m = n - 1
    BY <2>2
  <2>5. Running' => Running
    BY <2>1 DEF Running
  <2>6. Running' => /\ Latest(n).kind = "OBSERVATION" <=> (pc = "extension" /\ stream = sock)
                    /\ Latest(n).kind = "OBSERVATION" => Latest(n).step = tick
    BY <1>0, <2>5 DEF FramesInv, OpenPair
  <2>7. Len(down'[sock']) = m
    BY <1>1, <2>4
  <2>8. Running' => /\ Latest(m)'.kind = "OBSERVATION" <=> (pc' = "extension" /\ stream' = sock')
                    /\ Latest(m)'.kind = "OBSERVATION" => Latest(m)'.step = tick'
    BY <2>1, <2>3, <2>4, <2>6
  <2>9. QED
    BY <2>7, <2>8 DEF OpenPair, Latest
<1>6. QED
  BY <1>0, <1>4, <1>5 DEF FramesInv, MetadataFirst

\* A step that leaves the agent's connection, what is on it and what the agent
\* expects keeps the frames in their places.
LEMMA FramesSame ==
    ASSUME FramesInv, UNCHANGED serverVars,
           UNCHANGED sock, down'[sock] = down[sock], peer'[sock] = peer[sock],
           \/ cpc' = cpc
           \/ /\ cpc # "extension" /\ cpc' \notin {"extension", "protocol_error"}
              /\ Opening' => Opening,
           cpc = "extension" => pending' = pending
    PROVE  FramesInv'
<1>1. UNCHANGED <<pc, stream, cand, tick>>
  BY DEF serverVars, transportVars, worldVars
<1>2. \A i : Latest(i)' = Latest(i)
  BY DEF Latest, ObservationFrame, MetadataFrame
<1>3. Pairs => Pairs'
  BY <1>2 DEF Pairs
<1>4. OpenPair => OpenPair'
  BY <1>1, <1>2 DEF OpenPair
<1>5. MetadataFirst => MetadataFirst'
  BY <1>1 DEF MetadataFirst, Opening, Running, Carried
<1>6. QED
  BY <1>1, <1>3, <1>4, <1>5 DEF FramesInv, NoProtocolError, Running

\* Every step of the agent and its environment keeps the frames in their places.
LEMMA FramesAgent ==
    ASSUME TypeOK, ControlOK, EventsInv, FramesInv, Agent \/ Environment
    PROVE  FramesInv'
<1>0. UNCHANGED serverVars
  BY AgentHolds
<1>. USE DEF TypeOK, NetTypeOK, ClientTypeOK
<1>1. CASE Connect
  <2>1. /\ sock' = opened + 1 /\ cpc' \in {"resume", "metadata"} /\ down' = down
        /\ peer' = [peer EXCEPT ![opened + 1] = "open"] /\ opened < MaxConnections
    BY <1>1 DEF Connect, Opens
  <2>2. opened + 1 \in Conn /\ opened + 1 > opened /\ opened \in Nat
    BY <2>1, NetAssumption DEF Conn
  <2>3. down'[sock'] = <<>> /\ peer'[sock'] = "open"
    BY <2>1, <2>2 DEF EventsInv
  <2>4. stream # sock' /\ cand # sock'
    <3>1. stream \in Int /\ cand \in Int /\ stream <= opened /\ cand <= opened
      BY DEF ControlOK, ServerTypeOK, Conn, NoConn
    <3>2. QED
      BY <2>1, <2>2, <3>1
  <2>5. Len(down'[sock']) = 0
    BY <2>3
  <2>6. UNCHANGED <<pc, stream, cand, tick>>
    BY <1>0 DEF serverVars, transportVars, worldVars
  <2>7. Latest(0)'.kind # "OBSERVATION"
    BY <2>1 DEF Latest, MetadataFrame
  <2>8. Pairs' /\ OpenPair'
    BY <2>4, <2>5, <2>6, <2>7 DEF Pairs, OpenPair
  <2>9. MetadataFirst'
    BY <2>3, <2>4, <2>6 DEF MetadataFirst, Carried
  <2>10. QED
    BY <2>1, <2>3, <2>8, <2>9 DEF FramesInv, NoProtocolError
<1>2. CASE SendResume \/ SendAction \/ SendStray
  <2>1. down' = down /\ peer' = peer /\ sock' = sock
    BY <1>2 DEF SendResume, SendAction, SendStray, AgentWrites
  <2>2. \/ cpc = "resume" /\ cpc' = "metadata"
        \/ cpc = "decide" /\ cpc' = "idle"
        \/ cpc = "idle" /\ cpc' = cpc
    BY <1>2 DEF SendResume, SendAction, SendStray
  <2>3. QED
    BY <1>0, <2>1, <2>2, FramesSame DEF Opening
<1>3. ASSUME sock # NoConn, down[sock] # <<>>, AgentReads(sock, Head(down[sock])), sock' = sock
      PROVE  /\ sock \in Conn /\ Head(down[sock]) = Latest(1) /\ Latest(1) \in DownFrame
             /\ Latest(1) = down[sock][1]
             /\ down' = [down EXCEPT ![sock] = Tail(@)] /\ UNCHANGED <<sock, peer>>
             /\ IF Latest(0).kind = "OBSERVATION"
                THEN Latest(1).kind = "EXTENSION" /\ Latest(1).step = Latest(0).step
                ELSE Latest(1).kind # "EXTENSION"
  <2>1. sock \in Conn /\ down[sock] \in Seq(DownFrame)
    BY <1>3
  <2>2. Len(down[sock]) \in Nat \ {0} /\ Head(down[sock]) = down[sock][1]
        /\ Head(down[sock]) \in DownFrame
    BY <1>3, <2>1, HeadAndTail
  <2>3. 1 \in 1..Len(down[sock]) /\ 1 - 1 = 0
    BY <2>2
  <2>4. Pairs
    BY <1>3 DEF FramesInv
  <2>5. IF Latest(0).kind = "OBSERVATION"
        THEN Latest(1).kind = "EXTENSION" /\ Latest(1).step = Latest(0).step
        ELSE Latest(1).kind # "EXTENSION"
    BY <2>3, <2>4 DEF Pairs
  <2>6. Latest(1) = down[sock][1]
    BY DEF Latest
  <2>7. QED
    BY <1>3, <2>1, <2>2, <2>5, <2>6 DEF AgentReads
<1>4. CASE ReceiveMetadata
  <2>1. sock # NoConn /\ down[sock] # <<>> /\ AgentReads(sock, Head(down[sock])) /\ sock' = sock
    BY <1>4 DEF ReceiveMetadata, ControlOK
  <2>2. Latest(1).kind = "METADATA"
    BY <1>3, <1>4, <2>1 DEF ReceiveMetadata, FramesInv, MetadataFirst, Opening
  <2>3. cpc' = "idle"
    BY <1>3, <1>4, <2>1, <2>2 DEF ReceiveMetadata, StoreLifecycle
  <2>4. Latest(0)'.kind = "METADATA"
    BY <2>3 DEF Latest, MetadataFrame
  <2>5. QED
    BY <1>0, <1>3, <2>1, <2>2, <2>3, <2>4, FramesTake DEF Opening, NoProtocolError
<1>5. CASE ReadNext
  <2>1. sock # NoConn /\ down[sock] # <<>> /\ AgentReads(sock, Head(down[sock])) /\ sock' = sock
    BY <1>5 DEF ReadNext, ControlOK
  <2>2. Latest(0).kind = "METADATA"
    BY <1>5 DEF ReadNext, Latest, MetadataFrame
  <2>3. Latest(1).kind # "EXTENSION"
    BY <1>3, <2>1, <2>2
  <2>4. CASE Latest(1).kind = "OBSERVATION"
    <3>1. cpc' = "extension" /\ pending' = Latest(1).step
      BY <1>3, <1>5, <2>1, <2>4 DEF ReadNext, StoreLifecycle
    <3>2. Latest(0)'.kind = "OBSERVATION" /\ Latest(0)'.step = Latest(1).step
      BY <3>1 DEF Latest, ObservationFrame
    <3>3. QED
      BY <1>0, <1>3, <2>1, <2>4, <3>1, <3>2, FramesTake DEF Opening, NoProtocolError
  <2>5. CASE Latest(1).kind # "OBSERVATION"
    <3>1. cpc' = "idle"
      BY <1>3, <1>5, <2>1, <2>3, <2>5 DEF ReadNext, StoreLifecycle
    <3>2. Latest(0)'.kind = "METADATA"
      BY <3>1 DEF Latest, MetadataFrame
    <3>3. QED
      BY <1>0, <1>3, <2>1, <2>5, <3>1, <3>2, FramesTake DEF Opening, NoProtocolError
  <2>6. QED
    BY <2>4, <2>5
<1>6. CASE ReadExtension
  <2>1. sock # NoConn /\ down[sock] # <<>> /\ AgentReads(sock, Head(down[sock])) /\ sock' = sock
    BY <1>6 DEF ReadExtension, ControlOK
  <2>2. Latest(0).kind = "OBSERVATION" /\ Latest(0).step = pending
    BY <1>6 DEF ReadExtension, Latest, ObservationFrame
  <2>3. Latest(1).kind = "EXTENSION" /\ Latest(1).step = pending
    BY <1>3, <2>1, <2>2
  <2>4. cpc' = "decide"
    BY <1>3, <1>6, <2>1, <2>3 DEF ReadExtension
  <2>5. Latest(0)'.kind = "METADATA"
    BY <2>4 DEF Latest, MetadataFrame
  <2>6. QED
    BY <1>0, <1>3, <2>1, <2>3, <2>4, <2>5, FramesTake DEF Opening, NoProtocolError
<1>7. CASE FindClosed \/ Lose
  BY <1>7 DEF FindClosed, Lose, FramesInv, NoProtocolError
<1>8. CASE GiveUp
  <2>1. UNCHANGED <<down, peer, sock>> /\ cpc = "connect" /\ cpc' = "done"
    BY <1>8 DEF GiveUp, netVars
  <2>2. QED
    BY <1>0, <2>1, FramesSame DEF Opening
<1>9. CASE Visit
  <2>1. UNCHANGED <<down, sock, cpc, pending>> /\ peer' = [peer EXCEPT ![opened + 1] = "open"]
    BY <1>9 DEF Visit, Opens, clientVars
  <2>2. CASE sock = NoConn
    BY <2>1, <2>2 DEF FramesInv, NoProtocolError
  <2>3. CASE sock # NoConn
    <3>1. sock \in Conn /\ peer[sock] = "open"
      BY <2>3 DEF FramesInv
    <3>2. peer'[sock] = peer[sock]
      BY <2>1, <3>1
    <3>3. QED
      BY <1>0, <2>1, <3>2, FramesSame
  <2>4. QED
    BY <2>2, <2>3
<1>10. QED
  BY <1>1, <1>2, <1>4, <1>5, <1>6, <1>7, <1>8, <1>9 DEF Agent, Environment

\* Every step keeps the frames in their places.
LEMMA NextFrames ==
    IInv /\ IInv' /\ EventsInv /\ FramesInv /\ [Next]_vars => FramesInv'
<1>. SUFFICES ASSUME IInv, IInv', EventsInv, FramesInv, [Next]_vars PROVE FramesInv'
  OBVIOUS
<1>0. TypeOK /\ TypeOK' /\ ControlOK
  BY DEF IInv
<1>1. CASE ServerStep
  BY <1>0, <1>1, FramesServer DEF ServerStep
<1>2. CASE Agent \/ Environment
  BY <1>0, <1>2, FramesAgent
<1>3. CASE Finished \/ UNCHANGED vars
  <2>1. UNCHANGED vars
    BY <1>3 DEF Finished
  <2>2. QED
    BY <2>1, FramesSame DEF vars, netVars, clientVars
<1>4. QED
  BY <1>1, <1>2, <1>3 DEF Next

LEMMA InitFrames == Init => FramesInv
  BY DEF Init, FramesInv, NoProtocolError

\* What an agent finds on its connection is at every moment what it expects.
LEMMA FramesInPlace == Spec => []FramesInv
  BY InductiveInvariant, EventsInOrder, InitFrames, NextFrames, PTL DEF Spec

\* Whatever is lost, resent, refused or resumed, LockstepClient is never given
\* a frame that makes it raise ProtocolError (attach, exchange, next_decision).
THEOREM ClientNeverProtests == Spec => []NoProtocolError
<1>1. FramesInv => NoProtocolError
  BY DEF FramesInv
<1>2. QED
  BY <1>1, FramesInPlace, PTL

-----------------------------------------------------------------------------
(* Sessions that lose only established connections *)

\* Connections end with a FIN or a RST, and only once an observation has come
\* over them: the losses that run lockstep_orderly takes.
Orderly == SilentLoss = FALSE /\ LossPoints \subseteq {"idle", "extension", "decide"}

\* Connection c has been opened, accepted, and attached or dropped.
Used(c) ==
    /\ c <= opened
    /\ c # cand
    /\ \A i \in 1..Len(backlog) : backlog[i] # c

IsDecision(f) == f.kind \in {"OBSERVATION", "EXTENSION"}

\* No connection is accepted twice; only connections that were attached or
\* dropped are closed by their far end, carry decisions or are settled.
UsedInv ==
    /\ \A i, j \in 1..Len(backlog) : i # j => backlog[i] # backlog[j]
    /\ \A i \in 1..Len(backlog) : backlog[i] # cand
    /\ \A c \in Conn : peer[c] # "silent" /\ (peer[c] = "closed" => Used(c))
    /\ stream # NoConn => Used(stream)
    /\ \A c \in Conn : \A i \in 1..Len(down[c]) : IsDecision(down[c][i]) => Used(c)
    /\ settled /\ sock # NoConn => Used(sock)
    /\ cpc \in {"extension", "decide"} => settled

\* While no end is silent the server process changes no far end.
LEMMA PeersKept ==
    ASSUME TypeOK, ControlOK, \A c \in Conn : peer[c] # "silent", Server
    PROVE  peer' = peer
<1>. USE DEF Reads, ReadsAndReleases, Writes, Releases, Accepts, netVars, transportVars, Emit,
             Detach, StreamBreaks, serverVars
<1>0. /\ stream \in Conn \cup {NoConn} /\ cand \in Conn \cup {NoConn}
      /\ pc \in {"metadata", "drain", "resume"} => cand \in Conn
  BY DEF TypeOK, ServerTypeOK, ControlOK
<1>1. \A c \in Conn : ~TimesOut(c)
  BY DEF TimesOut, Expires
<1>2. CASE AcceptFirst \/ AcceptResume \/ ReadResume \/ RefuseResume \/ ResumeBreaks
  BY <1>2 DEF AcceptFirst, AcceptResume, ReadResume, RefuseResume, ResumeBreaks
<1>3. CASE WriteMetadata \/ DrainEvent
  BY <1>3 DEF WriteMetadata, DrainEvent, AttachFails
<1>4. CASE Attached
  BY <1>0, <1>1, <1>4 DEF Attached
<1>5. CASE EmitAlive \/ EmitReproduced \/ EmitDied \/ EmitTerminated
  <2>1. PICK k : Emit(k)
    BY <1>5 DEF EmitAlive, EmitReproduced, EmitDied, EmitTerminated
  <2>2. QED
    BY <1>0, <1>1, <2>1
<1>6. CASE NextTick \/ Exits \/ ActHolding \/ ActDeciding \/ AcceptAction \/ RejectFrame
  BY <1>6 DEF NextTick, Exits, ActHolding, ActDeciding, AcceptAction, RejectFrame
<1>7. CASE WriteObservation
  BY <1>0, <1>1, <1>7 DEF WriteObservation
<1>8. CASE WriteExtension
  BY <1>0, <1>1, <1>8 DEF WriteExtension, ControlOK
<1>9. CASE AwaitBreaks
  BY <1>0, <1>1, <1>9 DEF AwaitBreaks, ControlOK
<1>10. QED
  BY <1>2, <1>3, <1>4, <1>5, <1>6, <1>7, <1>8, <1>9 DEF Server

\* A connection is attached by leaving the place of the candidate.
LEMMA AttachesCandidate ==
    ASSUME TypeOK, ControlOK, Server
    PROVE  stream' \in {stream, NoConn} \/ (pc = "drain" /\ stream' = cand /\ cand' = NoConn)
<1>. USE DEF StreamBreaks, Detach, AttachFails, Emit, transportVars, serverVars
<1>1. CASE AcceptFirst \/ AcceptResume \/ ReadResume \/ RefuseResume \/ ResumeBreaks
  BY <1>1 DEF AcceptFirst, AcceptResume, ReadResume, RefuseResume, ResumeBreaks
<1>2. CASE WriteMetadata \/ DrainEvent \/ Attached
  BY <1>2 DEF WriteMetadata, DrainEvent, Attached
<1>3. CASE EmitAlive \/ EmitReproduced \/ EmitDied \/ EmitTerminated \/ NextTick \/ Exits
  BY <1>3 DEF EmitAlive, EmitReproduced, EmitDied, EmitTerminated, NextTick, Exits
<1>4. CASE ActHolding \/ ActDeciding \/ AcceptAction \/ RejectFrame
  BY <1>4 DEF ActHolding, ActDeciding, AcceptAction, RejectFrame
<1>5. CASE WriteObservation \/ WriteExtension \/ AwaitBreaks
  BY <1>5 DEF WriteObservation, WriteExtension, AwaitBreaks
<1>6. QED
  BY <1>1, <1>2, <1>3, <1>4, <1>5 DEF Server

\* A server step takes the head of the backlog or nothing, and keeps used
\* connections used.
LEMMA ServerUses ==
    ASSUME TypeOK, ControlOK, UsedInv, Server
    PROVE  /\ UNCHANGED <<peer, opened>>
           /\ \/ UNCHANGED backlog /\ cand' \in {cand, NoConn}
              \/ backlog # <<>> /\ backlog' = Tail(backlog) /\ cand' = Head(backlog)
           /\ \A i, j \in 1..Len(backlog') : i # j => backlog'[i] # backlog'[j]
           /\ \A i \in 1..Len(backlog') : backlog'[i] # cand'
           /\ \A c \in Conn : Used(c) => /\ c <= opened /\ c # cand'
                                         /\ \A i \in 1..Len(backlog') : backlog'[i] # c
           /\ \A c \in Conn : Used(c) => Used(c)'
<1>1. peer' = peer
  BY PeersKept DEF UsedInv
<1>2. /\ opened' = opened
      /\ backlog' = backlog \/ (backlog # <<>> /\ backlog' = Tail(backlog))
      /\ cand' \in {cand, NoConn} \/ (backlog # <<>> /\ cand' = Head(backlog))
  BY ServerConsumes DEF Holds
<1>0. /\ backlog \in Seq(Conn) /\ cand \in Conn \cup {NoConn} /\ stream \in Conn \cup {NoConn}
      /\ NoConn \notin Conn /\ opened \in Nat /\ sock \in Conn \cup {NoConn}
  BY DEF TypeOK, NetTypeOK, ServerTypeOK, ClientTypeOK, Conn, NoConn
<1>3. \A i \in 1..Len(backlog) : backlog[i] \in Conn
  BY <1>0, ElementOfSeq
<1>4. ASSUME backlog # <<>>
      PROVE  /\ Len(backlog) \in Nat \ {0} /\ Head(backlog) = backlog[1]
             /\ Len(Tail(backlog)) = Len(backlog) - 1
             /\ \A i \in 1..(Len(backlog) - 1) : Tail(backlog)[i] = backlog[i + 1]
  BY <1>0, <1>4, HeadAndTail
\* The server process accepts the head of the backlog or nothing.
<1>5. \/ UNCHANGED backlog /\ cand' \in {cand, NoConn}
      \/ backlog # <<>> /\ backlog' = Tail(backlog) /\ cand' = Head(backlog)
  <2>. USE DEF StreamBreaks, Detach, AttachFails, Emit, transportVars, serverVars, Reads,
               ReadsAndReleases, Writes, Releases, TimesOut, Accepts, netVars
  <2>1. CASE AcceptFirst \/ AcceptResume
    BY <2>1 DEF AcceptFirst, AcceptResume
  <2>2. CASE WriteMetadata \/ DrainEvent \/ Attached
    BY <2>2 DEF WriteMetadata, DrainEvent, Attached
  <2>3. CASE EmitAlive \/ EmitReproduced \/ EmitDied \/ EmitTerminated
    BY <2>3 DEF EmitAlive, EmitReproduced, EmitDied, EmitTerminated
  <2>4. CASE NextTick \/ Exits \/ ActHolding \/ ActDeciding \/ AcceptAction \/ RejectFrame
    BY <2>4 DEF NextTick, Exits, ActHolding, ActDeciding, AcceptAction, RejectFrame
  <2>5. CASE WriteObservation \/ WriteExtension \/ AwaitBreaks
    BY <2>5 DEF WriteObservation, WriteExtension, AwaitBreaks
  <2>6. CASE ReadResume \/ RefuseResume \/ ResumeBreaks
    BY <2>6 DEF ReadResume, RefuseResume, ResumeBreaks
  <2>7. QED
    BY <2>1, <2>2, <2>3, <2>4, <2>5, <2>6 DEF Server
<1>6. /\ \A i, j \in 1..Len(backlog') : i # j => backlog'[i] # backlog'[j]
      /\ \A i \in 1..Len(backlog') : backlog'[i] # cand'
      /\ \A c \in Conn : Used(c) => /\ c <= opened /\ c # cand'
                                    /\ \A i \in 1..Len(backlog') : backlog'[i] # c
  <2>1. CASE UNCHANGED backlog /\ cand' \in {cand, NoConn}
    BY <1>0, <1>3, <2>1 DEF UsedInv, Used
  <2>2. CASE backlog # <<>> /\ backlog' = Tail(backlog) /\ cand' = Head(backlog)
    <3>1. \A i \in 1..Len(backlog') :
            i + 1 \in 1..Len(backlog) /\ i + 1 # 1 /\ backlog'[i] = backlog[i + 1]
      BY <1>4, <2>2
    <3>2. \A i, j \in 1..Len(backlog') : i # j => i + 1 # j + 1
      OBVIOUS
    <3>3. 1 \in 1..Len(backlog) /\ cand' = backlog[1]
      BY <1>4, <2>2
    <3>4. \A i, j \in 1..Len(backlog) : i # j => backlog[i] # backlog[j]
      BY DEF UsedInv
    <3>5. \A c \in Conn : Used(c) => c <= opened /\ \A i \in 1..Len(backlog) : backlog[i] # c
      BY DEF Used
    <3>6. \A i, j \in 1..Len(backlog') : i # j => backlog'[i] # backlog'[j]
      BY <3>1, <3>2, <3>4
    <3>7. \A i \in 1..Len(backlog') : backlog'[i] # cand'
      BY <3>1, <3>3, <3>4
    <3>8. \A c \in Conn : Used(c) => /\ c <= opened /\ c # cand'
                                     /\ \A i \in 1..Len(backlog') : backlog'[i] # c
      BY <3>1, <3>3, <3>5
    <3>9. QED
      BY <3>6, <3>7, <3>8
  <2>3. QED
    BY <1>5, <2>1, <2>2
<1>7. \A c \in Conn : Used(c) => Used(c)'
  BY <1>2, <1>6 DEF Used
<1>8. QED
  BY <1>1, <1>2, <1>5, <1>6, <1>7

\* Every server step keeps used connections used.
LEMMA UsedServer ==
    ASSUME TypeOK, TypeOK', ControlOK, EventsInv, UsedInv, Server, UNCHANGED clientVars
    PROVE  UsedInv'
<1>1. UNCHANGED peer
  BY ServerUses
<1>2. UNCHANGED opened
  BY ServerUses
<1>0. /\ backlog \in Seq(Conn) /\ cand \in Conn \cup {NoConn} /\ stream \in Conn \cup {NoConn}
      /\ NoConn \notin Conn /\ sock \in Conn \cup {NoConn}
  BY DEF TypeOK, NetTypeOK, ServerTypeOK, ClientTypeOK, Conn, NoConn
<1>5. \/ UNCHANGED backlog /\ cand' \in {cand, NoConn}
      \/ backlog # <<>> /\ backlog' = Tail(backlog) /\ cand' = Head(backlog)
  BY ServerUses
<1>6. /\ \A i, j \in 1..Len(backlog') : i # j => backlog'[i] # backlog'[j]
      /\ \A i \in 1..Len(backlog') : backlog'[i] # cand'
      /\ \A c \in Conn : Used(c) => /\ c <= opened /\ c # cand'
                                    /\ \A i \in 1..Len(backlog') : backlog'[i] # c
  BY ServerUses
<1>7. \A c \in Conn : Used(c) => Used(c)'
  BY ServerUses
<1>8. stream' # NoConn => Used(stream)'
  <2>1. CASE stream' \in {stream, NoConn}
    <3>1. stream' # NoConn => stream' = stream /\ stream \in Conn /\ Used(stream)
      BY <1>0, <2>1 DEF UsedInv
    <3>2. QED
      BY <1>2, <1>6, <3>1 DEF Used
  <2>2. CASE pc = "drain" /\ stream' = cand /\ cand' = NoConn
    <3>1. cand # NoConn /\ cand <= opened
      BY <2>2 DEF ControlOK
    <3>2. UNCHANGED backlog
      <4>1. backlog # <<>> => Head(backlog) \in Conn
        BY <1>0, HeadAndTail
      <4>2. QED
        BY <1>0, <1>5, <2>2, <4>1
    <3>3. QED
      BY <1>2, <2>2, <3>1, <3>2 DEF Used, UsedInv
  <2>3. QED
    BY <2>1, <2>2, AttachesCandidate
<1>9. \A c \in Conn : \A i \in 1..Len(down'[c]) : IsDecision(down'[c][i]) => Used(c)
  <2>1. SUFFICES ASSUME NEW c \in Conn, NEW i \in 1..Len(down'[c]), IsDecision(down'[c][i])
                 PROVE  Used(c)
    OBVIOUS
  <2>2. /\ Len(down'[c]) \in Nat /\ Len(down[c]) \in Nat
        /\ down[c] \in Seq(DownFrame) /\ down \in [Conn -> Seq(DownFrame)]
    BY LenProperties DEF TypeOK, NetTypeOK
  <2>3. CASE Begins(down'[c], down[c])
    <3>1. i \in 1..Len(down[c]) /\ down'[c][i] = down[c][i]
      BY <2>2, <2>3 DEF Begins
    <3>2. QED
      BY <2>1, <3>1 DEF UsedInv
  <2>4. ASSUME NEW f, SentTo(c, f)
        PROVE  Used(c)
    <3>1. /\ \A k \in 1..Len(down[c]) : down'[c][k] = down[c][k]
          /\ Len(down'[c]) = Len(down[c]) + 1
          /\ down'[c][Len(down[c]) + 1] = f
      BY <2>2, <2>4, Appended DEF SentTo
    <3>2. CASE i \in 1..Len(down[c])
      BY <2>1, <3>1, <3>2 DEF UsedInv
    <3>3. CASE i = Len(down[c]) + 1
      <4>1. stream = c
        BY <2>1, <2>4, <3>1, <3>3 DEF SentTo, IsDecision
      <4>2. QED
        BY <1>0, <4>1 DEF UsedInv
    <3>4. QED
      BY <2>2, <3>1, <3>2, <3>3
  <2>5. CASE peer[c] = "open"
    BY <2>3, <2>4, <2>5, ServerTo DEF Steady
  <2>6. CASE peer[c] # "open"
    <3>1. QueuedDetached
      BY DEF EventsInv
    <3>2. Begins(down'[c], down[c])
      BY <2>2, <2>6, <3>1, ServerQueue, BeginsSame DEF Quiet, Sent
    <3>3. QED
      BY <2>3, <3>2
  <2>7. QED
    BY <2>5, <2>6
<1>10. UNCHANGED <<settled, sock, cpc>>
  BY DEF clientVars
<1>11. settled' /\ sock' # NoConn => Used(sock)'
  <2>1. settled /\ sock # NoConn => Used(sock) /\ sock \in Conn
    BY <1>0 DEF UsedInv
  <2>2. QED
    BY <1>2, <1>6, <1>10, <2>1 DEF Used
<1>12. QED
  BY <1>1, <1>6, <1>7, <1>8, <1>9, <1>10, <1>11 DEF UsedInv, IsDecision

\* The agent and its environment open connections at the end of the backlog and
\* take nothing from it.
LEMMA UsedStays ==
    ASSUME TypeOK, ControlOK, UsedInv, Agent \/ Environment
    PROVE  /\ \A i, j \in 1..Len(backlog') : i # j => backlog'[i] # backlog'[j]
           /\ \A i \in 1..Len(backlog') : backlog'[i] # cand'
           /\ \A c \in Conn : Used(c) => Used(c)'
<1>1. UNCHANGED <<stream, cand>>
  BY AgentHolds DEF serverVars, transportVars
<1>2. /\ opened \in Nat /\ backlog \in Seq(Conn) /\ cand \in Int /\ cand <= opened
      /\ Len(backlog) \in Nat
      /\ \A i \in 1..Len(backlog) : backlog[i] \in Conn /\ backlog[i] <= opened
  <2>1. opened \in Nat /\ backlog \in Seq(Conn) /\ cand \in Int
    BY DEF TypeOK, NetTypeOK, ServerTypeOK, Conn, NoConn
  <2>2. QED
    BY <2>1, ElementOfSeq, LenProperties DEF ControlOK
<1>3. CASE UNCHANGED <<opened, backlog>>
  BY <1>1, <1>3 DEF UsedInv, Used
<1>4. CASE opened' = opened + 1 /\ backlog' = Append(backlog, opened + 1)
  <2>0. PICK n \in Nat : n = Len(backlog)
    BY <1>2
  <2>1. /\ Len(backlog') = n + 1
        /\ \A i \in 1..n : backlog'[i] = backlog[i]
        /\ backlog'[n + 1] = opened + 1
    BY <1>2, <1>4, <2>0, AppendProperties
  <2>2. \A i \in 1..Len(backlog') : i \in 1..n \/ i = n + 1
    BY <2>1
  <2>3. \A i \in 1..n : backlog[i] # opened + 1
    BY <1>2, <2>0 DEF Conn
  <2>4. \A i, j \in 1..n : i # j => backlog[i] # backlog[j]
    BY <2>0 DEF UsedInv
  <2>5. \A i, j \in 1..Len(backlog') : i # j => backlog'[i] # backlog'[j]
    BY <2>1, <2>2, <2>3, <2>4
  <2>6. cand # opened + 1 /\ \A i \in 1..n : backlog[i] # cand
    BY <1>2, <2>0 DEF UsedInv
  <2>7. \A i \in 1..Len(backlog') : backlog'[i] # cand'
    BY <1>1, <2>1, <2>2, <2>6
  <2>8. ASSUME NEW c \in Conn, Used(c)
        PROVE  Used(c)'
    <3>1. c <= opened /\ c # cand /\ \A i \in 1..n : backlog[i] # c
      BY <2>0, <2>8 DEF Used
    <3>2. c # opened + 1 /\ c <= opened + 1
      BY <1>2, <3>1 DEF Conn
    <3>3. \A i \in 1..Len(backlog') : backlog'[i] # c
      BY <2>1, <2>2, <3>1, <3>2
    <3>4. QED
      BY <1>1, <1>4, <3>1, <3>2, <3>3 DEF Used
  <2>9. QED
    BY <2>5, <2>7, <2>8
<1>5. QED
  BY <1>3, <1>4, AgentHolds

\* What arrives on a connection was on its way before: the agent and its
\* environment add no frame.
LEMMA NothingAdded ==
    ASSUME TypeOK, Takes \/ Reconnects,
           NEW c \in Conn, NEW i \in 1..Len(down'[c])
    PROVE  \E j \in 1..Len(down[c]) : down'[c][i] = down[c][j]
<1>0. down \in [Conn -> Seq(DownFrame)] /\ down[c] \in Seq(DownFrame)
  BY DEF TypeOK, NetTypeOK
<1>1. CASE down'[c] = down[c]
  BY <1>1
<1>2. CASE down'[c] = <<>>
  BY <1>2
<1>3. CASE down[c] # <<>> /\ down'[c] = Tail(down[c])
  <2>1. /\ Len(down[c]) \in Nat \ {0} /\ Len(down'[c]) = Len(down[c]) - 1
        /\ \A k \in 1..(Len(down[c]) - 1) : down'[c][k] = down[c][k + 1]
    BY <1>0, <1>3, HeadAndTail
  <2>2. i + 1 \in 1..Len(down[c]) /\ down'[c][i] = down[c][i + 1]
    BY <2>1
  <2>3. QED
    BY <2>2
<1>4. QED
  BY <1>0, <1>1, <1>2, <1>3 DEF Takes, Reconnects

\* Every step of the agent and its environment keeps used connections used.
LEMMA UsedAgent ==
    ASSUME Orderly, TypeOK, TypeOK', ControlOK, UsedInv, Agent \/ Environment
    PROVE  UsedInv'
<1>1. UNCHANGED <<stream, cand>>
  BY AgentHolds DEF serverVars, transportVars
<1>2. /\ \A i, j \in 1..Len(backlog') : i # j => backlog'[i] # backlog'[j]
      /\ \A i \in 1..Len(backlog') : backlog'[i] # cand'
      /\ \A c \in Conn : Used(c) => Used(c)'
  BY UsedStays
<1>3. stream' # NoConn => Used(stream)'
  BY <1>1, <1>2 DEF UsedInv, TypeOK, ServerTypeOK
<1>4. \A c \in Conn : \A i \in 1..Len(down'[c]) : IsDecision(down'[c][i]) => Used(c)'
  <2>1. SUFFICES ASSUME NEW c \in Conn, NEW i \in 1..Len(down'[c]), IsDecision(down'[c][i])
                 PROVE  Used(c)
    BY <1>2
  <2>2. PICK j \in 1..Len(down[c]) : down'[c][i] = down[c][j]
    BY AgentQueue, NothingAdded
  <2>3. QED
    BY <2>1, <2>2 DEF UsedInv
<1>5. ASSUME \A c \in Conn : peer'[c] # "silent" /\ (peer'[c] = "closed" => Used(c)),
             settled' /\ sock' # NoConn => Used(sock'),
             cpc' \in {"extension", "decide"} => settled'
      PROVE  UsedInv'
  <2>1. sock' \in Conn \cup {NoConn}
    BY DEF TypeOK, ClientTypeOK
  <2>2. settled' /\ sock' # NoConn => Used(sock)'
    <3>1. ASSUME settled', sock' # NoConn
          PROVE  Used(sock)'
      <4>1. PICK s \in Conn : s = sock'
        BY <2>1, <3>1
      <4>2. Used(s)'
        BY <1>2, <1>5, <3>1, <4>1
      <4>3. QED
        BY <4>1, <4>2 DEF Used
    <3>2. QED
      BY <3>1
  <2>3. QED
    BY <1>2, <1>3, <1>4, <1>5, <2>2 DEF UsedInv, IsDecision
<1>. USE DEF UsedInv
<1>6. ASSUME UNCHANGED <<peer, sock, settled>>, cpc' \in {"extension", "decide"} => settled
      PROVE  UsedInv'
  BY <1>5, <1>6
<1>7. CASE Connect
  <2>1. peer' = [peer EXCEPT ![opened + 1] = "open"] /\ settled' = FALSE
        /\ cpc' \in {"resume", "metadata"}
    BY <1>7 DEF Connect, Opens
  <2>2. \A c \in Conn : peer'[c] \in {peer[c], "open"}
    BY <2>1 DEF TypeOK, NetTypeOK
  <2>3. QED
    BY <1>5, <2>1, <2>2
<1>8. CASE SendResume \/ SendAction \/ SendStray
  BY <1>6, <1>8 DEF SendResume, SendAction, SendStray, AgentWrites
<1>9. CASE ReceiveMetadata
  BY <1>6, <1>9 DEF ReceiveMetadata, AgentReads, StoreLifecycle
<1>10. CASE ReadNext
  <2>1. sock # NoConn /\ sock \in Conn /\ down[sock] # <<>> /\ down[sock] \in Seq(DownFrame)
        /\ sock' = sock /\ peer' = peer
    BY <1>10 DEF ReadNext, AgentReads, ControlOK, TypeOK, NetTypeOK, ClientTypeOK
  <2>2. CASE Head(down[sock]).kind = "OBSERVATION"
    <3>1. Head(down[sock]) = down[sock][1] /\ 1 \in 1..Len(down[sock])
      BY <2>1, HeadAndTail
    <3>2. Used(sock)
      BY <2>1, <2>2, <3>1 DEF IsDecision
    <3>3. settled' = TRUE
      BY <1>10, <2>2 DEF ReadNext, StoreLifecycle
    <3>4. QED
      BY <1>5, <2>1, <3>2, <3>3
  <2>3. CASE Head(down[sock]).kind # "OBSERVATION"
    BY <1>6, <1>10, <2>1, <2>3 DEF ReadNext, StoreLifecycle
  <2>4. QED
    BY <2>2, <2>3
<1>11. CASE ReadExtension
  BY <1>6, <1>11 DEF ReadExtension, AgentReads
<1>12. CASE FindClosed
  BY <1>5, <1>12 DEF FindClosed, netVars
<1>13. CASE GiveUp
  BY <1>6, <1>13 DEF GiveUp, netVars
<1>14. CASE Lose
  <2>1. /\ (IF cpc = "idle" /\ ~settled THEN "opening" ELSE cpc) \in {"idle", "extension", "decide"}
        /\ sock # NoConn /\ sock' = NoConn /\ cpc' = "connect"
        /\ peer' = [peer EXCEPT ![sock] = "closed"]
    BY <1>14 DEF Lose, AgentDrops, Orderly
  <2>2. settled
    BY <2>1
  <2>3. Used(sock) /\ sock \in Conn
    BY <2>1, <2>2 DEF TypeOK, ClientTypeOK
  <2>4. \A c \in Conn : peer'[c] = peer[c] \/ (c = sock /\ peer'[c] = "closed")
    BY <2>1, <2>3 DEF TypeOK, NetTypeOK
  <2>5. QED
    BY <1>5, <2>1, <2>3, <2>4
<1>15. CASE Visit
  <2>1. peer' = [peer EXCEPT ![opened + 1] = "open"] /\ UNCHANGED <<sock, settled, cpc>>
    BY <1>15 DEF Visit, Opens, clientVars
  <2>2. \A c \in Conn : peer'[c] \in {peer[c], "open"}
    BY <2>1 DEF TypeOK, NetTypeOK
  <2>3. QED
    BY <1>5, <2>1, <2>2
<1>16. QED
  BY <1>7, <1>8, <1>9, <1>10, <1>11, <1>12, <1>13, <1>14, <1>15 DEF Agent, Environment

\* Used connections stay used in every step.
LEMMA NextUsed ==
    Orderly => (IInv /\ IInv' /\ EventsInv /\ UsedInv /\ [Next]_vars => UsedInv')
<1>. SUFFICES ASSUME Orderly, IInv, IInv', EventsInv, UsedInv, [Next]_vars PROVE UsedInv'
  OBVIOUS
<1>0. TypeOK /\ TypeOK' /\ ControlOK
  BY DEF IInv
<1>1. CASE ServerStep
  BY <1>0, <1>1, UsedServer DEF ServerStep
<1>2. CASE Agent \/ Environment
  BY <1>0, <1>2, UsedAgent
<1>3. CASE Finished \/ UNCHANGED vars
  BY <1>3 DEF Finished, vars, netVars, serverVars, transportVars, clientVars, UsedInv, Used,
     IsDecision
<1>4. QED
  BY <1>1, <1>2, <1>3 DEF Next

LEMMA InitUsed == Init => UsedInv
  BY DEF Init, NetInit, ServerInit, UsedInv, Used, Conn, NoConn

\* The connections of an orderly session.
LEMMA UsedConnections == Orderly => (Spec => []UsedInv)
<1>1. SUFFICES ASSUME Orderly PROVE Spec => []UsedInv
  OBVIOUS
<1>2. IInv /\ IInv' /\ EventsInv /\ UsedInv /\ [Next]_vars => UsedInv'
  BY <1>1, NextUsed
<1>3. QED
  BY <1>2, InductiveInvariant, EventsInOrder, InitUsed, PTL DEF Spec

-----------------------------------------------------------------------------
(* The decisions of an orderly session *)

\* A decision has been prepared and its exchange has not returned.
Waiting ==
    \/ pc \in {"exchange", "extension", "await", "resume"}
    \/ pc \in {"metadata", "drain"} /\ ~Booting

\* The step of the last decision that was taken, NoStep before the first.
Decided == IF Waiting THEN since ELSE previous

\* LockstepSession::new ends before the first decision.
BootOK ==
    /\ pc = "boot" => Booting
    /\ pc \in {"exchange", "extension", "await", "resume"} => ~Booting

\* What a server step does to the turns: nothing, or it prepares a decision, or
\* repeats the held action, or takes the agent's answer.
KeepsTurn ==
    /\ UNCHANGED <<tick, previous, since, remaining, held, effect>>
    /\ Waiting' = Waiting
PreparesTurn ==
    /\ ~Waiting /\ Waiting' /\ remaining = 0
    /\ since' = previous /\ previous' = tick
    /\ UNCHANGED <<tick, remaining, held, effect, down>>
RepeatsTurn ==
    /\ ~Waiting /\ ~Waiting' /\ remaining > 0
    /\ effect' = Hold(held) /\ remaining' = remaining - 1 /\ tick' = tick + 1
    /\ UNCHANGED <<previous, since, held, down>>
TakesTurn ==
    /\ Waiting /\ ~Waiting'
    /\ stream \in Conn /\ up[stream] # <<>> /\ Matches(Head(up[stream]))
    /\ held' = Head(up[stream]).action /\ effect' = held'
    /\ remaining' = PhysicsTicksPerDecision - 1 /\ tick' = tick + 1
    /\ UNCHANGED <<previous, since, down>>

\* In an orderly session no exchange fails: every server step is one of these.
LEMMA ServerTurn ==
    ASSUME TypeOK, ControlOK, UsedInv, BootOK, Server
    PROVE  (KeepsTurn \/ PreparesTurn \/ RepeatsTurn \/ TakesTurn) /\ BootOK'
<1>. USE DEF KeepsTurn, Waiting, BootOK, Booting, worldVars, agentVars, transportVars
<1>0. /\ stream \in Conn \cup {NoConn} /\ cand \in Conn \cup {NoConn} /\ decisionSequence \in Nat
      /\ \A c \in Conn : ~TimesOut(c) /\ ~Expires(c)
      /\ pc \in {"metadata", "drain", "resume"} => cand \in Conn
      /\ cand \in Conn => ~WriteBreaks(cand) /\ ~ReadBreaks(cand)
  BY DEF TypeOK, ServerTypeOK, ControlOK, UsedInv, Used, TimesOut, Expires, WriteBreaks, ReadBreaks
<1>1. CASE AcceptFirst \/ AcceptResume
  BY <1>1 DEF AcceptFirst, AcceptResume
<1>2. CASE WriteMetadata \/ DrainEvent
  <2>1. ~AttachFails
    BY <1>0, <1>2 DEF AttachFails, WriteMetadata, DrainEvent
  <2>2. QED
    BY <1>2, <2>1 DEF WriteMetadata, DrainEvent
<1>3. CASE Attached
  BY <1>0, <1>3 DEF Attached
<1>4. CASE EmitAlive \/ EmitReproduced \/ EmitDied \/ EmitTerminated
  BY <1>4 DEF EmitAlive, EmitReproduced, EmitDied, EmitTerminated
<1>5. CASE ReadResume \/ RefuseResume
  BY <1>5 DEF ReadResume, RefuseResume
<1>6. CASE ResumeBreaks
  BY <1>0, <1>6 DEF ResumeBreaks
<1>7. CASE NextTick \/ Exits
  BY <1>7 DEF NextTick, Exits, serverVars
<1>8. CASE ActHolding
  <2>1. RepeatsTurn
    BY <1>8 DEF ActHolding, RepeatsTurn, EndTick, netVars
  <2>2. BootOK'
    BY <1>8 DEF ActHolding, EndTick
  <2>3. QED
    BY <2>1, <2>2
<1>9. CASE ActDeciding
  <2>1. PreparesTurn
    BY <1>9 DEF ActDeciding, PreparesTurn, netVars
  <2>2. BootOK'
    BY <1>0, <1>9 DEF ActDeciding
  <2>3. QED
    BY <2>1, <2>2
<1>10. ASSUME NEW b, StreamBreaks(b), stream # NoConn, pc \in {"exchange", "extension", "await"}
       PROVE  KeepsTurn /\ BootOK'
  BY <1>0, <1>10 DEF StreamBreaks, Detach
<1>11. CASE WriteObservation
  <2>1. CASE StreamBreaks(WriteBreaks(stream))
    BY <1>10, <1>11, <2>1 DEF WriteObservation
  <2>2. CASE pc' = "extension" /\ UNCHANGED <<agentVars, worldVars>>
    BY <1>11, <2>2 DEF WriteObservation
  <2>3. QED
    BY <1>11, <2>1, <2>2 DEF WriteObservation
<1>12. CASE WriteExtension
  <2>1. CASE StreamBreaks(WriteBreaks(stream))
    BY <1>10, <1>12, <2>1 DEF WriteExtension, ControlOK
  <2>2. CASE pc' = "await" /\ UNCHANGED <<agentVars, worldVars>>
    BY <1>12, <2>2 DEF WriteExtension
  <2>3. QED
    BY <1>12, <2>1, <2>2 DEF WriteExtension
<1>13. CASE AcceptAction
  <2>1. TakesTurn
    BY <1>0, <1>13 DEF AcceptAction, TakesTurn, Decide, EndTick, ControlOK, Reads
  <2>2. BootOK'
    BY <1>13 DEF AcceptAction, Decide, EndTick
  <2>3. QED
    BY <2>1, <2>2
<1>14. CASE RejectFrame
  BY <1>14 DEF RejectFrame
<1>15. CASE AwaitBreaks
  BY <1>10, <1>15 DEF AwaitBreaks, ControlOK
<1>16. QED
  BY <1>1, <1>2, <1>3, <1>4, <1>5, <1>6, <1>7, <1>8, <1>9, <1>11, <1>12, <1>13, <1>14, <1>15
     DEF Server

\* What the agent was shown follows what was decided: while a decision waits
\* the agent knows this one or the one before, and otherwise the last.
ShownOK ==
    IF Waiting
    THEN previous = tick /\ since < tick /\ remaining = 0 /\ shown \in {since, tick}
    ELSE previous < tick /\ shown = previous

\* The agent answers what it was shown.
OffersOK ==
    /\ \A o \in offers : o.step <= shown
    /\ cpc = "decide" => pending = shown

\* The extensions on their way are of the last decision or of the one that
\* waits, and come in that order.
ExtensionsOK ==
    sock # NoConn =>
      \A i \in 1..Len(down[sock]) :
        LET f == down[sock][i] IN
        f.kind = "EXTENSION" =>
          /\ shown <= f.step
          /\ f.step = Decided \/ (Waiting /\ f.step = tick /\ f.since = since)
          /\ \A j \in 1..Len(down[sock]) :
               i < j /\ down[sock][j].kind = "EXTENSION" => f.step <= down[sock][j].step

\* The inductive invariant behind DeltasChain and KeepsTurns.
TurnsInv ==
    /\ BootOK
    /\ ShownOK
    /\ OffersOK
    /\ ExtensionsOK

\* Steps are integers.
LEMMA StepTypes ==
    ASSUME TypeOK
    PROVE  /\ tick \in Nat /\ previous \in Int /\ since \in Int /\ shown \in Int /\ Decided \in Int
           /\ \A o \in offers : o.step \in Nat
           /\ \A c \in Conn : \A i \in 1..Len(down[c]) :
                down[c][i].kind = "EXTENSION" => down[c][i].step \in Nat
<1>1. tick \in Nat /\ previous \in Int /\ since \in Int /\ shown \in Int /\ offers \in SUBSET Offer
  BY DEF TypeOK, ServerTypeOK, ClientTypeOK, NoStep
<1>2. \A c \in Conn : \A i \in 1..Len(down[c]) : down[c][i] \in DownFrame
  BY ElementOfSeq DEF TypeOK, NetTypeOK
<1>3. \A f \in DownFrame : f.kind = "EXTENSION" => f.step \in Nat
  BY DEF DownFrame
<1>4. QED
  BY <1>1, <1>2, <1>3 DEF Decided, Offer

\* The answer that is taken was offered for the step it is taken in, so the
\* agent was shown that step.
LEMMA TakenWasShown ==
    ASSUME TypeOK, FramesOffered, TurnsInv, TakesTurn
    PROVE  shown = tick /\ Head(up[stream]).action \in Offered(tick)
<1>1. up[stream] \in Seq(OfferedFrame) /\ up[stream] # <<>> /\ stream \in Conn
  BY DEF FramesOffered, TakesTurn
<1>2. Head(up[stream]) \in OfferedFrame
  BY <1>1, QueueHead
<1>3. Head(up[stream]).action \in Offered(tick)
  BY <1>2 DEF TakesTurn, Matches, OfferedFrame
<1>4. PICK o \in offers : o.step = tick
  BY <1>3 DEF Offered, OfferedIn
<1>5. tick <= shown /\ shown \in {since, tick} /\ since < tick
  BY <1>4 DEF TurnsInv, OffersOK, ShownOK, TakesTurn
<1>6. QED
  BY <1>3, <1>5, StepTypes

\* Every server step keeps the turns of the session.
LEMMA TurnsServer ==
    ASSUME TypeOK, TypeOK', ControlOK, FramesOffered, EventsInv, UsedInv, TurnsInv,
           Server, UNCHANGED clientVars
    PROVE  TurnsInv'
<1>0. UNCHANGED <<shown, offers, cpc, pending, sock>> /\ BootOK'
  BY ServerTurn DEF TurnsInv, clientVars
<1>1. OffersOK'
  BY <1>0 DEF TurnsInv, OffersOK
<1>2. /\ tick \in Nat /\ previous \in Int /\ since \in Int /\ shown \in Int /\ Decided \in Int
      /\ \A c \in Conn : \A i \in 1..Len(down[c]) :
           down[c][i].kind = "EXTENSION" => down[c][i].step \in Nat
  BY StepTypes
<1>3. sock \in Conn \cup {NoConn}
  BY DEF TypeOK, ClientTypeOK
<1>4. ASSUME UNCHANGED down, ShownOK',
             sock # NoConn =>
               \A i \in 1..Len(down[sock]) :
                 LET f == down[sock][i] IN
                 f.kind = "EXTENSION" /\ shown <= f.step
                   /\ (f.step = Decided \/ (Waiting /\ f.step = tick /\ f.since = since))
                 => f.step = Decided'
      PROVE  TurnsInv'
  BY <1>0, <1>1, <1>4 DEF TurnsInv, ExtensionsOK
<1>5. CASE PreparesTurn
  <2>1. ShownOK'
    BY <1>0, <1>2, <1>5 DEF TurnsInv, ShownOK, PreparesTurn
  <2>2. Decided' = Decided /\ ~Waiting
    BY <1>5 DEF PreparesTurn, Decided
  <2>3. QED
    BY <1>4, <1>5, <2>1, <2>2 DEF PreparesTurn
<1>6. CASE RepeatsTurn
  <2>1. ShownOK'
    <3>1. previous < tick /\ shown = previous
      BY <1>6 DEF TurnsInv, ShownOK, RepeatsTurn
    <3>2. previous < tick + 1
      BY <1>2, <3>1
    <3>3. QED
      BY <1>0, <1>6, <3>1, <3>2 DEF ShownOK, RepeatsTurn
  <2>2. Decided' = Decided /\ ~Waiting
    BY <1>6 DEF RepeatsTurn, Decided
  <2>3. QED
    BY <1>4, <1>6, <2>1, <2>2 DEF RepeatsTurn
<1>7. CASE TakesTurn
  <2>1. shown = tick /\ previous = tick /\ since < tick
    BY <1>7, TakenWasShown DEF TurnsInv, ShownOK, TakesTurn
  <2>2. tick < tick + 1
    BY <1>2
  <2>3. ShownOK'
    BY <1>0, <1>7, <2>1, <2>2 DEF ShownOK, TakesTurn
  <2>4. Decided' = tick /\ Decided = since
    BY <1>7, <2>1 DEF TakesTurn, Decided
  <2>5. \A n \in Nat : shown <= n /\ (n = since \/ n = tick) => n = tick
    BY <1>2, <2>1
  <2>6. QED
    BY <1>2, <1>3, <1>4, <1>7, <2>3, <2>4, <2>5 DEF TakesTurn
<1>8. CASE KeepsTurn
  <2>1. ShownOK' /\ Decided' = Decided
    BY <1>0, <1>8 DEF TurnsInv, ShownOK, KeepsTurn, Decided
  <2>2. UNCHANGED <<tick, since>> /\ Waiting' = Waiting
    BY <1>8 DEF KeepsTurn
  <2>3. SUFFICES ASSUME sock # NoConn PROVE ExtensionsOK'
    BY <1>0, <1>1, <2>1 DEF TurnsInv, ExtensionsOK
  <2>4. /\ sock \in Conn /\ Len(down'[sock]) \in Nat /\ Len(down[sock]) \in Nat
        /\ down[sock] \in Seq(DownFrame)
    BY <1>3, <2>3, LenProperties DEF TypeOK, NetTypeOK
  <2>5. CASE Begins(down'[sock], down[sock])
    <3>1. \A i \in 1..Len(down'[sock]) :
            i \in 1..Len(down[sock]) /\ down'[sock][i] = down[sock][i]
      BY <2>4, <2>5 DEF Begins
    <3>2. QED
      BY <1>0, <2>1, <2>2, <2>3, <3>1 DEF TurnsInv, ExtensionsOK
  <2>6. ASSUME NEW f, SentTo(sock, f)
        PROVE  ExtensionsOK'
    <3>. PICK n \in Nat : n = Len(down[sock])
      BY <2>4
    <3>1. /\ \A k \in 1..n : down'[sock][k] = down[sock][k]
          /\ Len(down'[sock]) = n + 1
          /\ down'[sock][n + 1] = f
      BY <2>4, <2>6, Appended DEF SentTo
    <3>2. \A i \in 1..Len(down'[sock]) : i \in 1..n \/ i = n + 1
      BY <3>1
    <3>3. f.kind = "EXTENSION" =>
            /\ f.step = tick /\ f.since = since /\ Waiting
            /\ shown <= tick /\ since < tick /\ Decided = since
      <4>1. ASSUME f.kind = "EXTENSION"
            PROVE  f.step = tick /\ f.since = since /\ pc = "extension"
        BY <2>6, <4>1 DEF SentTo
      <4>2. pc = "extension" => Waiting
        BY DEF Waiting
      <4>3. Waiting => shown <= tick /\ since < tick /\ Decided = since
        BY <1>2 DEF TurnsInv, ShownOK, Decided
      <4>4. QED
        BY <4>1, <4>2, <4>3
    <3>4. \A k \in 1..n : down[sock][k].kind = "EXTENSION" =>
            /\ shown <= down[sock][k].step
            /\ down[sock][k].step = Decided
               \/ (Waiting /\ down[sock][k].step = tick /\ down[sock][k].since = since)
            /\ \A j \in 1..n :
                 k < j /\ down[sock][j].kind = "EXTENSION" => down[sock][k].step <= down[sock][j].step
      BY <2>3 DEF TurnsInv, ExtensionsOK
    <3>5. \A k \in 1..n : down[sock][k].kind = "EXTENSION" /\ Decided = since /\ since < tick
            => down[sock][k].step <= tick
      BY <1>2, <2>4, <3>4
    <3>6. SUFFICES ASSUME NEW i \in 1..Len(down'[sock]), down'[sock][i].kind = "EXTENSION"
                   PROVE  /\ shown <= down'[sock][i].step
                          /\ down'[sock][i].step = Decided
                             \/ (Waiting /\ down'[sock][i].step = tick
                                 /\ down'[sock][i].since = since)
                          /\ \A j \in 1..Len(down'[sock]) :
                               i < j /\ down'[sock][j].kind = "EXTENSION" =>
                                 down'[sock][i].step <= down'[sock][j].step
      BY <1>0, <2>1, <2>2 DEF ExtensionsOK
    <3>7. CASE i \in 1..n
      BY <3>1, <3>2, <3>3, <3>4, <3>5, <3>6, <3>7
    <3>8. CASE i = n + 1
      <4>1. \A j \in 1..Len(down'[sock]) : ~(i < j)
        BY <3>1, <3>8
      <4>2. QED
        BY <3>1, <3>3, <3>6, <3>8, <4>1
    <3>9. QED
      BY <3>2, <3>7, <3>8
  <2>7. CASE peer[sock] = "open"
    BY <2>4, <2>5, <2>6, <2>7, ServerTo DEF Steady
  <2>8. CASE peer[sock] # "open"
    <3>1. QueuedDetached
      BY DEF EventsInv
    <3>2. Begins(down'[sock], down[sock])
      BY <2>4, <2>8, <3>1, ServerQueue, BeginsSame DEF Quiet, Sent, TypeOK, NetTypeOK
    <3>3. QED
      BY <2>5, <3>2
  <2>9. QED
    BY <2>7, <2>8
<1>9. QED
  BY <1>5, <1>6, <1>7, <1>8, ServerTurn DEF TurnsInv

\* What the agent and its environment leave alone in the turns.
LEMMA AgentTurns ==
    ASSUME Agent \/ Environment
    PROVE  /\ UNCHANGED <<pc, tick, previous, since, remaining, held, effect, stream, cand,
                          decisionSequence>>
           /\ Waiting' = Waiting /\ Decided' = Decided
<1>1. UNCHANGED serverVars
  BY DEF Agent, Environment, Connect, SendResume, ReceiveMetadata, ReadNext, ReadExtension,
         SendAction, FindClosed, GiveUp, SendStray, Lose, Visit
<1>2. QED
  BY <1>1 DEF serverVars, transportVars, agentVars, worldVars, Waiting, Booting, Decided

\* The extension the agent reads is of the decision it was last shown, or is
\* taken against it.
LEMMA ReadsChain ==
    ASSUME TypeOK, ControlOK, FramesInv, TurnsInv, ReadExtension
    PROVE  LET f == Head(down[sock]) IN
           /\ f = down[sock][1] /\ f.kind = "EXTENSION" /\ f.step = pending
           /\ shown <= f.step
           /\ f.step = Decided \/ (Waiting /\ f.step = tick /\ f.since = since)
           /\ \A j \in 1..Len(down[sock]) :
                1 < j /\ down[sock][j].kind = "EXTENSION" => f.step <= down[sock][j].step
           /\ f.since = shown \/ f.step = shown
<1>1. sock # NoConn /\ sock \in Conn /\ down[sock] # <<>> /\ down[sock] \in Seq(DownFrame)
  BY DEF ReadExtension, ControlOK, TypeOK, NetTypeOK, ClientTypeOK
<1>2. Head(down[sock]) = down[sock][1] /\ 1 \in 1..Len(down[sock]) /\ 1 - 1 = 0
  BY <1>1, HeadAndTail
<1>3. Latest(0).kind = "OBSERVATION" /\ Latest(0).step = pending /\ Latest(1) = down[sock][1]
  BY DEF ReadExtension, Latest, ObservationFrame
<1>4. down[sock][1].kind = "EXTENSION" /\ down[sock][1].step = pending
  BY <1>1, <1>2, <1>3 DEF FramesInv, Pairs
<1>5. /\ shown <= down[sock][1].step
      /\ down[sock][1].step = Decided
         \/ (Waiting /\ down[sock][1].step = tick /\ down[sock][1].since = since)
      /\ \A j \in 1..Len(down[sock]) :
           1 < j /\ down[sock][j].kind = "EXTENSION" => down[sock][1].step <= down[sock][j].step
  BY <1>1, <1>2, <1>4 DEF TurnsInv, ExtensionsOK
<1>6. down[sock][1].since = shown \/ down[sock][1].step = shown
  <2>1. tick \in Nat /\ previous \in Int /\ since \in Int /\ shown \in Int
        /\ down[sock][1].step \in Nat
    BY <1>1, <1>2, <1>4, StepTypes
  <2>2. CASE Waiting
    <3>1. shown \in {since, tick} /\ since < tick /\ Decided = since
      BY <2>2 DEF TurnsInv, ShownOK, Decided
    <3>2. CASE down[sock][1].step = since
      BY <1>5, <2>1, <3>1, <3>2
    <3>3. CASE down[sock][1].step = tick /\ down[sock][1].since = since
      BY <3>1, <3>3
    <3>4. QED
      BY <1>5, <3>1, <3>2, <3>3
  <2>3. CASE ~Waiting
    BY <1>5, <2>3 DEF TurnsInv, ShownOK, Decided
  <2>4. QED
    BY <2>2, <2>3
<1>7. QED
  BY <1>2, <1>4, <1>5, <1>6

\* Taking a frame other than an extension keeps the order of the extensions.
LEMMA ExtensionsTaken ==
    ASSUME TypeOK, ExtensionsOK, sock \in Conn, down[sock] # <<>>,
           down' = [down EXCEPT ![sock] = Tail(@)], UNCHANGED sock,
           UNCHANGED <<tick, since>>, Waiting' = Waiting, Decided' = Decided,
           \A j \in 1..Len(down[sock]) :
             1 < j /\ down[sock][j].kind = "EXTENSION" /\ shown <= down[sock][j].step
             => shown' <= down[sock][j].step
    PROVE  ExtensionsOK'
<1>1. sock # NoConn /\ down \in [Conn -> Seq(DownFrame)] /\ down[sock] \in Seq(DownFrame)
  BY DEF Conn, NoConn, TypeOK, NetTypeOK
<1>. PICK n \in Nat : n = Len(down[sock])
  BY <1>1, LenProperties
<1>2. /\ Len(down'[sock]) = n - 1
      /\ \A i \in 1..(n - 1) : down'[sock][i] = down[sock][i + 1]
  BY <1>1, HeadAndTail
<1>3. \A i \in 1..Len(down'[sock]) :
        i + 1 \in 1..n /\ 1 < i + 1 /\ down'[sock][i] = down[sock][i + 1]
  BY <1>2
<1>4. \A i, j \in 1..Len(down'[sock]) : i < j => i + 1 < j + 1
  OBVIOUS
<1>5. SUFFICES ASSUME NEW i \in 1..Len(down'[sock]), down'[sock][i].kind = "EXTENSION"
               PROVE  /\ shown' <= down'[sock][i].step
                      /\ down'[sock][i].step = Decided
                         \/ (Waiting /\ down'[sock][i].step = tick
                             /\ down'[sock][i].since = since)
                      /\ \A j \in 1..Len(down'[sock]) :
                           i < j /\ down'[sock][j].kind = "EXTENSION" =>
                             down'[sock][i].step <= down'[sock][j].step
  BY DEF ExtensionsOK
<1>6. i + 1 \in 1..n /\ 1 < i + 1 /\ down'[sock][i] = down[sock][i + 1]
  BY <1>3
<1>7. /\ shown <= down[sock][i + 1].step
      /\ down[sock][i + 1].step = Decided
         \/ (Waiting /\ down[sock][i + 1].step = tick /\ down[sock][i + 1].since = since)
      /\ \A j \in 1..n :
           i + 1 < j /\ down[sock][j].kind = "EXTENSION" =>
             down[sock][i + 1].step <= down[sock][j].step
  BY <1>1, <1>5, <1>6 DEF ExtensionsOK
<1>8. shown' <= down[sock][i + 1].step
  BY <1>5, <1>6, <1>7
<1>9. QED
  BY <1>3, <1>4, <1>6, <1>7, <1>8

\* Every step of the agent and its environment keeps the turns of the session.
LEMMA TurnsAgent ==
    ASSUME TypeOK, ControlOK, EventsInv, FramesInv, TurnsInv, Agent \/ Environment
    PROVE  TurnsInv'
<1>1. /\ UNCHANGED <<pc, tick, previous, since, remaining, decisionSequence>>
      /\ Waiting' = Waiting /\ Decided' = Decided
  BY AgentTurns
<1>2. BootOK'
  BY <1>1 DEF TurnsInv, BootOK, Booting
<1>3. ASSUME shown' = shown
      PROVE  ShownOK'
  BY <1>1, <1>3 DEF TurnsInv, ShownOK
<1>4. ASSUME UNCHANGED <<shown, sock>>, sock # NoConn => down'[sock] = down[sock]
      PROVE  ExtensionsOK'
  BY <1>1, <1>4 DEF TurnsInv, ExtensionsOK
<1>5. CASE Connect
  <2>1. sock' = opened + 1 /\ down' = down /\ UNCHANGED <<shown, offers>> /\ cpc' # "decide"
        /\ opened < MaxConnections
    BY <1>5 DEF Connect, Opens
  <2>2. opened + 1 \in Conn /\ opened + 1 > opened
    BY <2>1, NetAssumption DEF Conn, TypeOK, NetTypeOK
  <2>3. down'[sock'] = <<>>
    BY <2>1, <2>2 DEF EventsInv
  <2>4. ExtensionsOK'
    BY <2>3 DEF ExtensionsOK
  <2>5. OffersOK'
    BY <2>1 DEF TurnsInv, OffersOK
  <2>6. QED
    BY <1>2, <1>3, <2>1, <2>4, <2>5 DEF TurnsInv
<1>6. CASE SendResume \/ SendStray \/ GiveUp \/ Visit
  <2>1. UNCHANGED <<shown, offers, sock, pending, down>> /\ (cpc' = "decide" => cpc = "decide")
    BY <1>6 DEF SendResume, SendStray, GiveUp, Visit, AgentWrites, Opens, clientVars, netVars
  <2>2. OffersOK'
    BY <2>1 DEF TurnsInv, OffersOK
  <2>3. QED
    BY <1>2, <1>3, <1>4, <2>1, <2>2 DEF TurnsInv
<1>7. CASE SendAction
  <2>1. UNCHANGED <<shown, sock, down>> /\ cpc' = "idle" /\ cpc = "decide"
    BY <1>7 DEF SendAction, AgentWrites
  <2>2. PICK a \in Answers : offers' = offers \cup {[step |-> pending, action |-> a]}
    BY <1>7 DEF SendAction
  <2>3. pending = shown /\ shown <= shown
    BY <2>1, StepTypes DEF TurnsInv, OffersOK
  <2>4. OffersOK'
    BY <2>1, <2>2, <2>3 DEF TurnsInv, OffersOK
  <2>5. QED
    BY <1>2, <1>3, <1>4, <2>1, <2>4 DEF TurnsInv
<1>8. CASE ReceiveMetadata \/ ReadNext
  <2>1. /\ sock \in Conn /\ down[sock] # <<>>
        /\ down' = [down EXCEPT ![sock] = Tail(@)] /\ UNCHANGED <<sock, shown, offers>>
    BY <1>8 DEF ReceiveMetadata, ReadNext, AgentReads, ControlOK, TypeOK, ClientTypeOK
  <2>2. cpc' # "decide"
    BY <1>8 DEF ReceiveMetadata, ReadNext, StoreLifecycle
  <2>3. ExtensionsOK'
    BY <1>1, <2>1, ExtensionsTaken DEF TurnsInv
  <2>4. OffersOK'
    BY <2>1, <2>2 DEF TurnsInv, OffersOK
  <2>5. QED
    BY <1>2, <1>3, <2>1, <2>3, <2>4 DEF TurnsInv
<1>9. CASE ReadExtension
  <2>. DEFINE f == Head(down[sock])
  <2>1. /\ f.kind = "EXTENSION" /\ f.step = pending /\ f = down[sock][1]
        /\ shown <= f.step
        /\ f.step = Decided \/ (Waiting /\ f.step = tick /\ f.since = since)
        /\ \A j \in 1..Len(down[sock]) :
             1 < j /\ down[sock][j].kind = "EXTENSION" => f.step <= down[sock][j].step
    BY <1>9, ReadsChain
  <2>2. /\ sock \in Conn /\ down[sock] # <<>>
        /\ down' = [down EXCEPT ![sock] = Tail(@)] /\ UNCHANGED <<sock, offers, pending>>
    BY <1>9 DEF ReadExtension, AgentReads, ControlOK, TypeOK, ClientTypeOK
  <2>3. shown' = f.step /\ cpc' = "decide"
    BY <1>9, <2>1 DEF ReadExtension
  <2>. HIDE DEF f
  <2>4. ExtensionsOK'
    BY <1>1, <2>1, <2>2, <2>3, ExtensionsTaken DEF TurnsInv
  <2>5. ShownOK'
    <3>1. CASE Waiting
      BY <1>1, <2>1, <2>3, <3>1 DEF TurnsInv, ShownOK, Decided
    <3>2. CASE ~Waiting
      BY <1>1, <2>1, <2>3, <3>2 DEF TurnsInv, ShownOK, Decided
    <3>3. QED
      BY <3>1, <3>2
  <2>6. OffersOK'
    <3>1. f.step \in Int /\ shown \in Int /\ \A o \in offers : o.step \in Nat
      BY <2>1, StepTypes DEF Decided
    <3>2. \A o \in offers : o.step <= f.step
      BY <2>1, <3>1 DEF TurnsInv, OffersOK
    <3>3. QED
      BY <2>1, <2>2, <2>3, <3>2 DEF OffersOK
  <2>7. QED
    BY <1>2, <2>4, <2>5, <2>6 DEF TurnsInv
<1>10. CASE FindClosed \/ Lose
  <2>1. sock' = NoConn /\ cpc' = "connect" /\ UNCHANGED <<shown, offers>>
    BY <1>10 DEF FindClosed, Lose
  <2>2. OffersOK' /\ ExtensionsOK'
    BY <2>1 DEF TurnsInv, OffersOK, ExtensionsOK
  <2>3. QED
    BY <1>2, <1>3, <2>1, <2>2 DEF TurnsInv
<1>11. QED
  BY <1>5, <1>6, <1>7, <1>8, <1>9, <1>10 DEF Agent, Environment

\* The turns are kept by every step of an orderly session.
LEMMA NextTurns ==
    /\ IInv /\ IInv' /\ EventsInv /\ FramesInv /\ UsedInv /\ TurnsInv /\ [Next]_vars
    => TurnsInv'
<1>. SUFFICES ASSUME IInv, IInv', EventsInv, FramesInv, UsedInv, TurnsInv, [Next]_vars
              PROVE  TurnsInv'
  OBVIOUS
<1>0. TypeOK /\ TypeOK' /\ ControlOK /\ FramesOffered
  BY DEF IInv
<1>1. CASE ServerStep
  BY <1>0, <1>1, TurnsServer DEF ServerStep
<1>2. CASE Agent \/ Environment
  BY <1>0, <1>2, TurnsAgent
<1>3. CASE Finished \/ UNCHANGED vars
  BY <1>3 DEF Finished, vars, netVars, serverVars, transportVars, agentVars, worldVars, clientVars,
     TurnsInv, BootOK, Booting, ShownOK, OffersOK, ExtensionsOK, Waiting, Decided
<1>4. QED
  BY <1>1, <1>2, <1>3 DEF Next

LEMMA InitTurns == Init => TurnsInv
<1>. SUFFICES ASSUME Init PROVE TurnsInv
  OBVIOUS
<1>1. ~Waiting /\ BootOK
  BY DEF Init, ServerInit, Waiting, BootOK, Booting
<1>2. ShownOK /\ OffersOK /\ ExtensionsOK
  BY <1>1 DEF Init, ServerInit, ShownOK, OffersOK, ExtensionsOK, NoStep, NoConn
<1>3. QED
  BY <1>1, <1>2 DEF TurnsInv

LEMMA TurnsKept == Orderly => (Spec => []TurnsInv)
<1>1. SUFFICES ASSUME Orderly PROVE Spec => []TurnsInv
  OBVIOUS
<1>2. Spec => []UsedInv
  BY <1>1, UsedConnections
<1>3. QED
  BY <1>2, InductiveInvariant, EventsInOrder, FramesInPlace, InitTurns, NextTurns, PTL DEF Spec

\* Physical deltas chain across resumes: as long as only established
\* connections are lost, the delta that comes with a decision is taken against
\* the decision the agent was shown before it (act, exchange).
THEOREM DeltasChainAcrossResumes == Orderly => (Spec => DeltasChain)
<1>1. SUFFICES ASSUME Orderly PROVE Spec => DeltasChain
  OBVIOUS
<1>2. Spec => []TurnsInv
  BY <1>1, TurnsKept
<1>3. /\ IInv /\ FramesInv /\ TurnsInv /\ [Next]_vars
      => [ReadExtension => LET f == Head(down[sock]) IN f.since = shown \/ f.step = shown]_vars
  BY ReadsChain DEF IInv
<1>4. QED
  BY <1>2, <1>3, InductiveInvariant, FramesInPlace, PTL DEF Spec, DeltasChain

-----------------------------------------------------------------------------
(* The refinement of LockstepTurns *)

\* An orderly session starts in the turns' initial state.
LEMMA InitRefines == Init => Turns!TurnsInit
<1>. SUFFICES ASSUME Init PROVE Turns!TurnsInit
  OBVIOUS
<1>1. held \in Action /\ effect = held /\ tick = 0 /\ remaining = 0
  BY DefaultType DEF Init, ServerInit
<1>2. Offered(tick) = {}
  BY DEF Init, Offered, OfferedIn
<1>3. QED
  BY <1>1, <1>2 DEF Turns!TurnsInit

\* Nothing is offered for a step the agent was not shown.
LEMMA NothingOffered ==
    ASSUME TypeOK, TurnsInv, NEW n \in Int, shown < n
    PROVE  Offered(n) = {}
<1>1. \A o \in offers : o.step <= shown /\ o.step \in Int /\ shown \in Int
  BY StepTypes DEF TurnsInv, OffersOK
<1>2. \A o \in offers : o.step # n
  BY <1>1
<1>3. QED
  BY <1>2 DEF Offered, OfferedIn

\* Every server step is a turn or leaves the turns alone.
LEMMA ServerRefines ==
    ASSUME TypeOK, TypeOK', ControlOK, FramesOffered, UsedInv, TurnsInv,
           Server, UNCHANGED clientVars
    PROVE  [Turns!TurnsNext]_(Turns!turnVars)
<1>0. offers' = offers /\ tick \in Int /\ shown \in Int
  BY StepTypes DEF clientVars
<1>1. CASE KeepsTurn \/ PreparesTurn
  BY <1>0, <1>1 DEF KeepsTurn, PreparesTurn, Turns!turnVars, Offered
<1>2. CASE RepeatsTurn
  <2>1. previous < tick /\ shown = previous
    BY <1>2 DEF TurnsInv, ShownOK, RepeatsTurn
  <2>2. tick + 1 \in Int /\ shown < tick /\ shown < tick + 1
    BY <1>0, <2>1
  <2>3. Offered(tick) = {} /\ Offered(tick + 1) = {}
    BY <1>0, <2>2, NothingOffered
  <2>4. Offered(tick)' = {}
    BY <1>0, <1>2, <2>3 DEF RepeatsTurn, Offered
  <2>5. Turns!Repeat
    BY <1>2, <2>3, <2>4 DEF RepeatsTurn, Turns!Repeat, Hold
  <2>6. QED
    BY <2>5 DEF Turns!TurnsNext
<1>3. CASE TakesTurn
  <2>1. shown = tick /\ Head(up[stream]).action \in Offered(tick)
    BY <1>3, TakenWasShown
  <2>2. remaining = 0
    BY <1>3 DEF TurnsInv, ShownOK, TakesTurn
  <2>3. tick + 1 \in Int /\ shown < tick + 1
    BY <1>0, <2>1
  <2>4. Offered(tick + 1) = {}
    BY <2>3, NothingOffered
  <2>5. Offered(tick)' = {}
    BY <1>0, <1>3, <2>4 DEF TakesTurn, Offered
  <2>6. Turns!Take
    BY <1>3, <2>1, <2>2, <2>5 DEF TakesTurn, Turns!Take
  <2>7. QED
    BY <2>6 DEF Turns!TurnsNext
<1>4. QED
  BY <1>1, <1>2, <1>3, ServerTurn DEF TurnsInv

\* Every step of the agent and its environment answers or leaves the turns alone.
LEMMA AgentRefines ==
    ASSUME TypeOK, TurnsInv, Agent \/ Environment
    PROVE  [Turns!TurnsNext]_(Turns!turnVars)
<1>1. UNCHANGED <<tick, held, remaining, effect>>
  BY AgentTurns
<1>2. CASE offers' = offers
  BY <1>1, <1>2 DEF Turns!turnVars, Offered
<1>3. CASE SendAction
  <2>1. PICK a \in Answers : offers' = offers \cup {[step |-> pending, action |-> a]}
    BY <1>3 DEF SendAction
  <2>2. a \in Action
    BY ClientAssumption
  <2>3. pending = shown
    BY <1>3 DEF SendAction, TurnsInv, OffersOK
  <2>4. CASE pending = tick
    <3>1. remaining = 0
      BY <2>3, <2>4, StepTypes DEF TurnsInv, ShownOK
    <3>2. Offered(tick)' = Offered(tick) \cup {a}
      <4>1. Offered(tick)' = {o.action : o \in {x \in offers' : x.step = tick}}
        BY <1>1 DEF Offered, OfferedIn
      <4>2. DEFINE new == [step |-> pending, action |-> a]
      <4>3. new.step = tick /\ new.action = a /\ offers' = offers \cup {new}
        BY <2>1, <2>4
      <4>. HIDE DEF new
      <4>4. {x \in offers' : x.step = tick} = {x \in offers : x.step = tick} \cup {new}
        BY <4>3
      <4>5. {o.action : o \in {x \in offers : x.step = tick} \cup {new}}
            = {o.action : o \in {x \in offers : x.step = tick}} \cup {a}
        BY <4>3
      <4>6. QED
        BY <4>1, <4>4, <4>5 DEF Offered, OfferedIn
    <3>3. Turns!Answer
      BY <1>1, <2>2, <3>1, <3>2 DEF Turns!Answer
    <3>4. QED
      BY <3>3 DEF Turns!TurnsNext
  <2>5. CASE pending # tick
    <3>1. Offered(tick)' = Offered(tick)
      BY <1>1, <2>1, <2>5 DEF Offered, OfferedIn
    <3>2. QED
      BY <1>1, <3>1 DEF Turns!turnVars
  <2>6. QED
    BY <2>4, <2>5
<1>4. offers' = offers \/ SendAction
  BY DEF Agent, Environment, Connect, SendResume, ReceiveMetadata, ReadNext, ReadExtension,
         FindClosed, GiveUp, SendStray, Lose, Visit, clientVars
<1>5. QED
  BY <1>2, <1>3, <1>4

\* As long as only established connections are lost, the session implements the
\* turn-taking of LockstepTurns: the world waits at each boundary for the
\* answer to this very step, applies it, and repeats it without the fabrication
\* edge until the next boundary (act, exchange).
THEOREM SessionKeepsTurns == Orderly => (Spec => KeepsTurns)
<1>1. SUFFICES ASSUME Orderly PROVE Spec => KeepsTurns
  OBVIOUS
<1>2. Spec => []UsedInv /\ []TurnsInv
  BY <1>1, UsedConnections, TurnsKept
<1>3. IInv /\ IInv' /\ UsedInv /\ TurnsInv /\ [Next]_vars => [Turns!TurnsNext]_(Turns!turnVars)
  <2>. SUFFICES ASSUME IInv, IInv', UsedInv, TurnsInv, [Next]_vars
                PROVE  [Turns!TurnsNext]_(Turns!turnVars)
    OBVIOUS
  <2>0. TypeOK /\ TypeOK' /\ ControlOK /\ FramesOffered
    BY DEF IInv
  <2>1. CASE ServerStep
    BY <2>0, <2>1, ServerRefines DEF ServerStep
  <2>2. CASE Agent \/ Environment
    BY <2>0, <2>2, AgentRefines
  <2>3. CASE Finished \/ UNCHANGED vars
    BY <2>3 DEF Finished, vars, serverVars, agentVars, worldVars, clientVars, Turns!turnVars,
       Offered
  <2>4. QED
    BY <2>1, <2>2, <2>3 DEF Next
<1>4. QED
  BY <1>2, <1>3, InitRefines, InductiveInvariant, PTL DEF Spec, KeepsTurns, Turns!TurnsSpec

-----------------------------------------------------------------------------
(* SessionEventsAlternate: which session events reach the agent *)

\* In a set of session events: the one before e is an attachment, and the last
\* of all is one.
AttachedBefore(events, e) ==
    \E d \in events :
        /\ d.kind = "SessionAttached" /\ d.sequence < e.sequence
        /\ \A x \in events : x.sequence <= d.sequence \/ e.sequence <= x.sequence

EndsAttached(events) ==
    \E d \in events : /\ d.kind = "SessionAttached"
                      /\ \A x \in events : x.sequence <= d.sequence

Alternates(events) ==
    \A e \in events : e.kind = "SessionDetached" <=> AttachedBefore(events, e)

SessionEvent == {e \in Event : IsSession(e)}

\* The newest of all events that attaches a detached session, or detaches an
\* attached one, keeps the alternation.
LEMMA AlternatesNext ==
    ASSUME NEW events \in SUBSET SessionEvent, NEW e \in SessionEvent,
           \A x \in events : x.sequence < e.sequence,
           Alternates(events),
           e.kind = "SessionDetached" <=> EndsAttached(events)
    PROVE  /\ Alternates(events \cup {e})
           /\ EndsAttached(events \cup {e}) <=> e.kind = "SessionAttached"
<1>. DEFINE all == events \cup {e}
<1>1. \A x \in all : x.sequence \in Nat
  BY DEF SessionEvent, Event
<1>2. AttachedBefore(all, e) <=> EndsAttached(events)
  <2>1. ASSUME NEW d \in all, d.kind = "SessionAttached", d.sequence < e.sequence,
               \A x \in all : x.sequence <= d.sequence \/ e.sequence <= x.sequence
        PROVE  EndsAttached(events)
    <3>1. d \in events
      BY <1>1, <2>1
    <3>2. \A x \in events : x.sequence <= d.sequence
      BY <1>1, <2>1
    <3>3. QED
      BY <2>1, <3>1, <3>2 DEF EndsAttached
  <2>2. ASSUME NEW d \in events, d.kind = "SessionAttached",
               \A x \in events : x.sequence <= d.sequence
        PROVE  AttachedBefore(all, e)
    <3>1. \A x \in all : x.sequence <= d.sequence \/ e.sequence <= x.sequence
      BY <1>1, <2>2
    <3>2. QED
      BY <2>2, <3>1 DEF AttachedBefore
  <2>3. QED
    BY <2>1, <2>2 DEF AttachedBefore, EndsAttached
<1>3. ASSUME NEW y \in events
      PROVE  AttachedBefore(all, y) <=> AttachedBefore(events, y)
  <2>1. y.sequence < e.sequence
    OBVIOUS
  <2>2. ASSUME NEW d \in all, d.kind = "SessionAttached", d.sequence < y.sequence,
               \A x \in all : x.sequence <= d.sequence \/ y.sequence <= x.sequence
        PROVE  AttachedBefore(events, y)
    <3>1. d \in events
      BY <1>1, <2>1, <2>2
    <3>2. QED
      BY <2>2, <3>1 DEF AttachedBefore
  <2>3. ASSUME NEW d \in events, d.kind = "SessionAttached", d.sequence < y.sequence,
               \A x \in events : x.sequence <= d.sequence \/ y.sequence <= x.sequence
        PROVE  AttachedBefore(all, y)
    <3>1. y.sequence <= e.sequence
      BY <1>1, <2>1
    <3>2. QED
      BY <2>3, <3>1 DEF AttachedBefore
  <2>4. QED
    BY <2>2, <2>3 DEF AttachedBefore
<1>4. e.kind \in SessionEvents
  BY DEF SessionEvent, IsSession
<1>5. Alternates(all)
  BY <1>2, <1>3 DEF Alternates
<1>6. EndsAttached(all) <=> e.kind = "SessionAttached"
  <2>1. \A x \in all : x.sequence <= e.sequence
    BY <1>1
  <2>2. ASSUME NEW d \in all, \A x \in all : x.sequence <= d.sequence
        PROVE  d = e
    <3>1. e.sequence <= d.sequence
      BY <2>2
    <3>2. QED
      BY <1>1, <3>1
  <2>3. QED
    BY <2>1, <2>2 DEF EndsAttached
<1>7. QED
  BY <1>5, <1>6

\* What comes before anything of an alternating set that is kept alternates.
LEMMA AlternatesDown ==
    ASSUME NEW events \in SUBSET SessionEvent, NEW kept \in SUBSET events,
           \A x \in events, y \in kept : x.sequence <= y.sequence => x \in kept,
           Alternates(events)
    PROVE  Alternates(kept)
<1>1. \A x \in events : x.sequence \in Nat
  BY DEF SessionEvent, Event
<1>2. ASSUME NEW y \in kept
      PROVE  AttachedBefore(kept, y) <=> AttachedBefore(events, y)
  <2>1. ASSUME NEW d \in kept, d.kind = "SessionAttached", d.sequence < y.sequence,
               \A x \in kept : x.sequence <= d.sequence \/ y.sequence <= x.sequence
        PROVE  AttachedBefore(events, y)
    <3>1. \A x \in events : x.sequence <= d.sequence \/ y.sequence <= x.sequence
      BY <1>1, <2>1
    <3>2. QED
      BY <2>1, <3>1 DEF AttachedBefore
  <2>2. ASSUME NEW d \in events, d.kind = "SessionAttached", d.sequence < y.sequence,
               \A x \in events : x.sequence <= d.sequence \/ y.sequence <= x.sequence
        PROVE  AttachedBefore(kept, y)
    <3>1. d \in kept
      BY <1>1, <2>2
    <3>2. QED
      BY <2>2, <3>1 DEF AttachedBefore
  <2>3. QED
    BY <2>1, <2>2 DEF AttachedBefore
<1>3. QED
  BY <1>2 DEF Alternates

\* e is in a list of events; e arrives with a queue of frames.
Lists(events, e) == \E k \in 1..Len(events) : events[k] = e
Carries(frames, e) == \E k \in 1..Len(frames) : IsEvent(frames[k]) /\ frames[k].event = e

Stored(e) == Lists(lifecycle, e)
Arriving(e) == sock # NoConn /\ Carries(down[sock], e)
Queued(e) == Lists(pendingLifecycle, e)

\* The session events the agent has or will find on its connection, and those
\* it may still get.
Reached == {e \in SessionEvent : Stored(e) \/ Arriving(e)}
Sessions == {e \in SessionEvent : Stored(e) \/ Arriving(e) \/ Queued(e)}

\* The inductive invariant behind SessionEventsAlternate.
AltInv ==
    /\ Alternates(Reached)
    /\ Running => /\ Alternates(Sessions)
                  /\ EndsAttached(Sessions) <=> stream # NoConn

\* Alternation is what the agent sees in the list it keeps.
LEMMA StoredAlternate ==
    ASSUME TypeOK, EventsInv, Alternates(Reached)
    PROVE  SessionEventsAlternate
<1>1. \A i \in 1..Len(lifecycle) : lifecycle[i] \in Event /\ lifecycle[i].sequence \in Nat
  <2>1. lifecycle \in Seq(Event)
    BY DEF TypeOK, ClientTypeOK
  <2>2. \A i \in 1..Len(lifecycle) : lifecycle[i] \in Event
    BY <2>1, ElementOfSeq
  <2>3. \A e \in Event : e.sequence \in Nat
    BY DEF Event
  <2>4. QED
    BY <2>2, <2>3
<1>2. Len(lifecycle) \in Nat
  BY LenProperties DEF TypeOK, ClientTypeOK
<1>3. \A i, j \in 1..Len(lifecycle) :
        lifecycle[i].sequence < lifecycle[j].sequence <=> i < j
  <2>1. \A i, j \in 1..Len(lifecycle) : i < j \/ i = j \/ j < i
    BY <1>2
  <2>2. QED
    BY <1>1, <1>2, <2>1 DEF EventsInv, LifecycleInOrder
<1>4. \A i \in 1..Len(lifecycle) : IsSession(lifecycle[i]) => lifecycle[i] \in Reached
  BY <1>1 DEF Reached, Stored, Lists, SessionEvent
<1>5. \A e \in Reached, i \in 1..Len(lifecycle) :
        e.sequence <= lifecycle[i].sequence => \E j \in 1..i : lifecycle[j] = e
  <2>1. SUFFICES ASSUME NEW e \in Reached, NEW i \in 1..Len(lifecycle),
                        e.sequence <= lifecycle[i].sequence
                 PROVE  \E j \in 1..i : lifecycle[j] = e
    OBVIOUS
  <2>2. e.sequence \in Nat
    BY DEF Reached, SessionEvent, Event
  <2>3. ~Arriving(e)
    <3>1. Arriving(e) => lifecycle[i].sequence < e.sequence
      BY DEF Arriving, Carries, EventsInv, StoredFirst
    <3>2. QED
      BY <1>1, <2>1, <2>2, <3>1
  <2>4. PICK j \in 1..Len(lifecycle) : lifecycle[j] = e
    BY <2>3 DEF Reached, Stored, Lists
  <2>5. ~(i < j)
    BY <1>1, <1>3, <2>1, <2>2, <2>4
  <2>6. j \in 1..i
    BY <1>2, <2>5
  <2>7. QED
    BY <2>4, <2>6
<1>6. SUFFICES ASSUME NEW j \in 1..Len(lifecycle), IsSession(lifecycle[j])
               PROVE  lifecycle[j].kind = "SessionDetached" <=>
                        \E i \in 1..(j - 1) :
                           /\ lifecycle[i].kind = "SessionAttached"
                           /\ \A k \in (i + 1)..(j - 1) : ~IsSession(lifecycle[k])
  BY DEF SessionEventsAlternate
<1>7. lifecycle[j].kind = "SessionDetached" <=> AttachedBefore(Reached, lifecycle[j])
  BY <1>4, <1>6 DEF Alternates
<1>8. ASSUME NEW d \in Reached, d.kind = "SessionAttached", d.sequence < lifecycle[j].sequence,
             \A x \in Reached : x.sequence <= d.sequence \/ lifecycle[j].sequence <= x.sequence
      PROVE  \E i \in 1..(j - 1) :
               /\ lifecycle[i].kind = "SessionAttached"
               /\ \A k \in (i + 1)..(j - 1) : ~IsSession(lifecycle[k])
  <2>1. d.sequence \in Nat
    BY DEF Reached, SessionEvent, Event
  <2>2. PICK i \in 1..j : lifecycle[i] = d
    BY <1>1, <1>5, <1>8, <2>1
  <2>3. i \in 1..Len(lifecycle) /\ i < j
    BY <1>1, <1>2, <1>3, <1>8, <2>2
  <2>4. ASSUME NEW k \in (i + 1)..(j - 1), IsSession(lifecycle[k])
        PROVE  FALSE
    <3>1. k \in 1..Len(lifecycle) /\ i < k /\ k < j
      BY <1>2, <2>3
    <3>2. lifecycle[i].sequence < lifecycle[k].sequence /\ lifecycle[k].sequence < lifecycle[j].sequence
      BY <1>3, <2>3, <3>1
    <3>3. lifecycle[k] \in Reached
      BY <1>4, <2>4, <3>1
    <3>4. QED
      BY <1>1, <1>8, <2>2, <2>3, <3>1, <3>2, <3>3
  <2>5. i \in 1..(j - 1)
    BY <2>3
  <2>6. QED
    BY <1>8, <2>2, <2>4, <2>5
<1>9. ASSUME NEW i \in 1..(j - 1), lifecycle[i].kind = "SessionAttached",
             \A k \in (i + 1)..(j - 1) : ~IsSession(lifecycle[k])
      PROVE  AttachedBefore(Reached, lifecycle[j])
  <2>1. i \in 1..Len(lifecycle) /\ i < j
    BY <1>2
  <2>2. lifecycle[i] \in Reached /\ lifecycle[i].sequence < lifecycle[j].sequence
    BY <1>3, <1>4, <1>9, <2>1 DEF IsSession, SessionEvents
  <2>3. ASSUME NEW x \in Reached, ~(x.sequence <= lifecycle[i].sequence),
               ~(lifecycle[j].sequence <= x.sequence)
        PROVE  FALSE
    <3>1. x.sequence \in Nat /\ IsSession(x)
      BY DEF Reached, SessionEvent, Event
    <3>2. x.sequence <= lifecycle[j].sequence
      BY <1>1, <2>3, <3>1
    <3>3. PICK k \in 1..j : lifecycle[k] = x
      BY <1>5, <3>2
    <3>4. k \in 1..Len(lifecycle)
      BY <1>2
    <3>5. i < k /\ k < j
      BY <1>1, <1>3, <2>1, <2>3, <3>1, <3>3, <3>4
    <3>6. k \in (i + 1)..(j - 1)
      BY <2>1, <3>4, <3>5
    <3>7. QED
      BY <1>9, <3>1, <3>3, <3>6
  <2>4. \A x \in Reached : x.sequence <= lifecycle[i].sequence \/ lifecycle[j].sequence <= x.sequence
    BY <2>3
  <2>5. QED
    BY <1>9, <2>2, <2>4 DEF AttachedBefore
<1>10. QED
  BY <1>7, <1>8, <1>9 DEF AttachedBefore

-----------------------------------------------------------------------------
(* What each step does to the session events *)

\* What Append and Tail do to what is in a list or a queue.
LEMMA ListsAppend ==
    ASSUME NEW S, NEW q \in Seq(S), NEW x \in S, NEW e
    PROVE  Lists(Append(q, x), e) <=> Lists(q, e) \/ e = x
<1>0. PICK n \in Nat : n = Len(q)
  BY LenProperties
<1>1. /\ Len(Append(q, x)) = n + 1
      /\ \A i \in 1..n : Append(q, x)[i] = q[i]
      /\ Append(q, x)[n + 1] = x
  BY <1>0, Appended
<1>2. \A i \in 1..(n + 1) : i \in 1..n \/ i = n + 1
  OBVIOUS
<1>3. n + 1 \in 1..(n + 1) /\ \A i \in 1..n : i \in 1..(n + 1)
  OBVIOUS
<1>4. QED
  BY <1>0, <1>1, <1>2, <1>3 DEF Lists

LEMMA CarriesAppend ==
    ASSUME NEW S, NEW q \in Seq(S), NEW f \in S, NEW e
    PROVE  Carries(Append(q, f), e) <=> Carries(q, e) \/ (IsEvent(f) /\ e = f.event)
<1>0. PICK n \in Nat : n = Len(q)
  BY LenProperties
<1>1. /\ Len(Append(q, f)) = n + 1
      /\ \A i \in 1..n : Append(q, f)[i] = q[i]
      /\ Append(q, f)[n + 1] = f
  BY <1>0, Appended
<1>2. \A i \in 1..(n + 1) : i \in 1..n \/ i = n + 1
  OBVIOUS
<1>3. n + 1 \in 1..(n + 1) /\ \A i \in 1..n : i \in 1..(n + 1)
  OBVIOUS
<1>4. ASSUME Carries(Append(q, f), e)
      PROVE  Carries(q, e) \/ (IsEvent(f) /\ e = f.event)
  <2>1. PICK i \in 1..(n + 1) : IsEvent(Append(q, f)[i]) /\ Append(q, f)[i].event = e
    BY <1>1, <1>4 DEF Carries
  <2>2. CASE i \in 1..n
    BY <1>0, <1>1, <2>1, <2>2 DEF Carries
  <2>3. CASE i = n + 1
    BY <1>1, <2>1, <2>3
  <2>4. QED
    BY <1>2, <2>2, <2>3
<1>5. ASSUME Carries(q, e)
      PROVE  Carries(Append(q, f), e)
  BY <1>0, <1>1, <1>3, <1>5 DEF Carries
<1>6. ASSUME IsEvent(f) /\ e = f.event
      PROVE  Carries(Append(q, f), e)
  BY <1>1, <1>3, <1>6 DEF Carries
<1>7. QED
  BY <1>4, <1>5, <1>6

LEMMA ListsTail ==
    ASSUME NEW S, NEW q \in Seq(S), q # <<>>, NEW e
    PROVE  Lists(q, e) <=> Lists(Tail(q), e) \/ e = Head(q)
<1>0. PICK n \in Nat \ {0} : n = Len(q)
  BY HeadAndTail
<1>1. /\ Len(Tail(q)) = n - 1 /\ Head(q) = q[1]
      /\ \A i \in 1..(n - 1) : Tail(q)[i] = q[i + 1]
  BY <1>0, HeadAndTail
<1>2. \A i \in 1..n : i = 1 \/ (i - 1 \in 1..(n - 1) /\ (i - 1) + 1 = i)
  OBVIOUS
<1>3. 1 \in 1..n /\ \A i \in 1..(n - 1) : i + 1 \in 1..n
  OBVIOUS
<1>4. ASSUME Lists(q, e), e # Head(q)
      PROVE  Lists(Tail(q), e)
  <2>1. PICK i \in 1..n : q[i] = e
    BY <1>0, <1>4 DEF Lists
  <2>2. i - 1 \in 1..(n - 1) /\ Tail(q)[i - 1] = e
    BY <1>1, <1>2, <1>4, <2>1
  <2>3. QED
    BY <1>1, <2>2 DEF Lists
<1>5. ASSUME Lists(Tail(q), e)
      PROVE  Lists(q, e)
  BY <1>0, <1>1, <1>3, <1>5 DEF Lists
<1>6. Lists(q, Head(q))
  BY <1>0, <1>1, <1>3 DEF Lists
<1>7. QED
  BY <1>4, <1>5, <1>6

LEMMA CarriesTail ==
    ASSUME NEW S, NEW q \in Seq(S), q # <<>>, NEW e
    PROVE  Carries(q, e) <=> Carries(Tail(q), e) \/ (IsEvent(Head(q)) /\ e = Head(q).event)
<1>0. PICK n \in Nat \ {0} : n = Len(q)
  BY HeadAndTail
<1>1. /\ Len(Tail(q)) = n - 1 /\ Head(q) = q[1]
      /\ \A i \in 1..(n - 1) : Tail(q)[i] = q[i + 1]
  BY <1>0, HeadAndTail
<1>2. \A i \in 1..n : i = 1 \/ (i - 1 \in 1..(n - 1) /\ (i - 1) + 1 = i)
  OBVIOUS
<1>3. 1 \in 1..n /\ \A i \in 1..(n - 1) : i + 1 \in 1..n
  OBVIOUS
<1>4. ASSUME Carries(q, e), ~(IsEvent(Head(q)) /\ e = Head(q).event)
      PROVE  Carries(Tail(q), e)
  <2>1. PICK i \in 1..n : IsEvent(q[i]) /\ q[i].event = e
    BY <1>0, <1>4 DEF Carries
  <2>2. i - 1 \in 1..(n - 1) /\ IsEvent(Tail(q)[i - 1]) /\ Tail(q)[i - 1].event = e
    BY <1>1, <1>2, <1>4, <2>1
  <2>3. QED
    BY <1>1, <2>2 DEF Carries
<1>5. ASSUME Carries(Tail(q), e)
      PROVE  Carries(q, e)
  BY <1>0, <1>1, <1>3, <1>5 DEF Carries
<1>6. ASSUME IsEvent(Head(q)) /\ e = Head(q).event
      PROVE  Carries(q, e)
  BY <1>0, <1>1, <1>3, <1>6 DEF Carries
<1>7. QED
  BY <1>4, <1>5, <1>6

\* Where the agent's connection and the queue stay, so do the session events.
LEMMA SessionsStay ==
    ASSUME UNCHANGED <<sock, lifecycle, pendingLifecycle>>,
           sock # NoConn => down'[sock] = down[sock]
    PROVE  Sessions' = Sessions
<1>1. \A e \in SessionEvent : /\ Stored(e)' <=> Stored(e)
                              /\ Arriving(e)' <=> Arriving(e)
                              /\ Queued(e)' <=> Queued(e)
  BY DEF Stored, Arriving, Queued, Lists, Carries, IsEvent
<1>2. QED
  BY <1>1 DEF Sessions

\* An event joins the queue.
LEMMA SessionsQueue ==
    ASSUME TypeOK, NEW x \in Event,
           UNCHANGED <<sock, lifecycle>>, sock # NoConn => down'[sock] = down[sock],
           pendingLifecycle' = Append(pendingLifecycle, x)
    PROVE  Sessions' = IF IsSession(x) THEN Sessions \cup {x} ELSE Sessions
<1>1. pendingLifecycle \in Seq(Event)
  BY DEF TypeOK, ServerTypeOK
<1>2. \A e : Lists(pendingLifecycle', e) <=> Lists(pendingLifecycle, e) \/ e = x
  BY <1>1, ListsAppend
<1>3. \A e \in SessionEvent : /\ Stored(e)' <=> Stored(e)
                              /\ Arriving(e)' <=> Arriving(e)
                              /\ Queued(e)' <=> Queued(e) \/ e = x
  BY <1>2 DEF Stored, Arriving, Queued, Lists, Carries, IsEvent
<1>4. x \in SessionEvent <=> IsSession(x)
  BY DEF SessionEvent
<1>5. QED
  BY <1>3, <1>4 DEF Sessions

\* A frame is sent to the agent.
LEMMA SessionsSend ==
    ASSUME TypeOK, NEW f \in DownFrame, sock # NoConn,
           UNCHANGED <<sock, lifecycle, pendingLifecycle>>,
           down'[sock] = Append(down[sock], f)
    PROVE  Sessions' = IF IsEvent(f) /\ IsSession(f.event) THEN Sessions \cup {f.event} ELSE Sessions
<1>1. down[sock] \in Seq(DownFrame)
  BY DEF TypeOK, ClientTypeOK, NetTypeOK
<1>2. \A e : Carries(down'[sock], e) <=> Carries(down[sock], e) \/ (IsEvent(f) /\ e = f.event)
  BY <1>1, CarriesAppend
<1>3. \A e \in SessionEvent : /\ Stored(e)' <=> Stored(e)
                              /\ Arriving(e)' <=> Arriving(e) \/ (IsEvent(f) /\ e = f.event)
                              /\ Queued(e)' <=> Queued(e)
  BY <1>2 DEF Stored, Arriving, Queued, Lists, Carries, IsEvent
<1>4. IsEvent(f) => f.event \in Event
  BY DEF IsEvent, DownFrame
<1>5. IsEvent(f) => (f.event \in SessionEvent <=> IsSession(f.event))
  BY <1>4 DEF SessionEvent
<1>6. QED
  BY <1>3, <1>5 DEF Sessions

\* The first event of the queue is sent to the agent.
LEMMA SessionsDrain ==
    ASSUME TypeOK, sock # NoConn, pendingLifecycle # <<>>,
           UNCHANGED <<sock, lifecycle>>, pendingLifecycle' = Tail(pendingLifecycle),
           down'[sock] = Append(down[sock], LifecycleFrame(Head(pendingLifecycle)))
    PROVE  Sessions' = Sessions
<1>. DEFINE x == Head(pendingLifecycle)
<1>1. down[sock] \in Seq(DownFrame) /\ pendingLifecycle \in Seq(Event)
  BY DEF TypeOK, ClientTypeOK, NetTypeOK, ServerTypeOK
<1>2. x \in Event
  BY <1>1, QueueHead
<1>3. LifecycleFrame(x) \in DownFrame /\ IsEvent(LifecycleFrame(x)) /\ LifecycleFrame(x).event = x
  BY <1>2 DEF LifecycleFrame, DownFrame, IsEvent
<1>4. \A e : Carries(down'[sock], e) <=> Carries(down[sock], e) \/ e = x
  BY <1>1, <1>3, CarriesAppend
<1>5. \A e : Lists(pendingLifecycle, e) <=> Lists(pendingLifecycle', e) \/ e = x
  BY <1>1, ListsTail
<1>6. \A e \in SessionEvent : /\ Stored(e)' <=> Stored(e)
                              /\ Arriving(e)' <=> Arriving(e) \/ e = x
                              /\ Queued(e) <=> Queued(e)' \/ e = x
  BY <1>4, <1>5 DEF Stored, Arriving, Queued, Lists, Carries, IsEvent
<1>7. QED
  BY <1>6 DEF Sessions

-----------------------------------------------------------------------------
(* The agent's connection is attached before it is offered an observation *)

\* Connection c waits to be attached: nothing was written on it yet.
Unanswered(c) == ~Used(c) /\ ~(cand = c /\ pc = "drain")

\* A session event reaches the agent before any decision of its connection.
SessionFirst ==
    sock # NoConn =>
      \A j \in 1..Len(down[sock]) :
        IsEvent(down[sock][j]) /\ IsSession(down[sock][j].event) =>
          ~settled /\ \A i \in 1..(j - 1) : ~IsDecision(down[sock][i])

\* While an orderly process runs, every connection but the agent's present one
\* is used up or a visitor's, and the present one is neither closed by the
\* server nor refused.
OwnInv ==
    /\ pc \in {"boot", "metadata", "drain", "resume"} => stream = NoConn
    /\ cpc \in {"connect", "done"} => sock = NoConn
    /\ SessionFirst
    /\ Running =>
         /\ \A c \in Conn : c <= opened /\ c \notin visitors /\ c # sock => Used(c)
         /\ sock # NoConn => ours[sock]
         /\ sock # NoConn /\ Unanswered(sock) =>
              /\ Opening
              /\ down[sock] = <<>>
              /\ \A i \in 1..Len(up[sock]) : GoodResume(up[sock][i])

\* What attach works on is the agent's present connection, and it is open.
LEMMA AttachesAgent ==
    ASSUME TypeOK, ControlOK, VisitorsKept, UsedInv, FramesInv, OwnInv, Running,
           pc \in {"metadata", "drain"}
    PROVE  sock \in Conn /\ sock # NoConn /\ cand = sock /\ peer[cand] = "open" /\ ~AttachFails
<1>1. cand \in Conn /\ cand # NoConn /\ cand <= opened /\ cand \notin visitors
  BY DEF TypeOK, ServerTypeOK, ControlOK, VisitorsKept
<1>2. cand = sock
  BY <1>1 DEF OwnInv, Used
<1>3. peer[cand] = "open"
  BY <1>1, <1>2 DEF FramesInv
<1>4. QED
  BY <1>1, <1>2, <1>3 DEF AttachFails, WriteBreaks, Expires

\* While the process runs, a server step leaves the session events as they are,
\* attaches a detached session or detaches an attached one.
LEMMA ServerSessions ==
    ASSUME TypeOK, ControlOK, VisitorsKept, UsedInv, FramesInv, OwnInv, QueuedDetached,
           Running, Server, UNCHANGED clientVars
    PROVE  \/ Sessions' = Sessions /\ (stream' # NoConn <=> stream # NoConn)
           \/ /\ stream = NoConn /\ stream' # NoConn
              /\ Sessions' = Sessions \cup {NextEvent("SessionAttached")}
           \/ /\ stream # NoConn /\ stream' = NoConn
              /\ Sessions' = Sessions \cup {NextEvent("SessionDetached")}
<1>0. /\ stream \in Conn \cup {NoConn} /\ cand \in Conn \cup {NoConn}
      /\ pc \in {"metadata", "drain", "resume"} => cand \in Conn
      /\ pc \in {"extension", "await"} => stream \in Conn
      /\ NoConn \notin Conn
      /\ UNCHANGED <<sock, lifecycle>>
  BY DEF TypeOK, ServerTypeOK, ControlOK, clientVars, Conn, NoConn
<1>1. \A c \in Conn : ~TimesOut(c)
  BY DEF TimesOut, Expires, UsedInv
<1>2. sock # NoConn => sock \in Conn /\ peer[sock] = "open"
  BY DEF TypeOK, ClientTypeOK, FramesInv
<1>3. ASSUME NEW c \in Conn, NEW f, Writes(c, f), sock # NoConn
      PROVE  down'[sock] = IF c = sock THEN Append(down[sock], f) ELSE down[sock]
  BY <1>2, <1>3, WritesTo
<1>4. ASSUME NEW c, Releases(c), c # sock, sock # NoConn
      PROVE  down'[sock] = down[sock]
  BY <1>2, <1>4, ReleasesTo
<1>5. ASSUME UNCHANGED <<stream, pendingLifecycle>>, sock # NoConn => down'[sock] = down[sock]
      PROVE  Sessions' = Sessions /\ (stream' # NoConn <=> stream # NoConn)
  BY <1>0, <1>5, SessionsStay
<1>6. ASSUME UNCHANGED <<stream, pendingLifecycle>>, NEW f \in DownFrame,
             f.kind # "LIFECYCLE" \/ ~IsSession(f.event), NEW c \in Conn, Writes(c, f)
      PROVE  Sessions' = Sessions /\ (stream' # NoConn <=> stream # NoConn)
  <2>1. CASE sock # NoConn /\ c = sock
    BY <1>0, <1>3, <1>6, <2>1, SessionsSend DEF IsEvent
  <2>2. CASE ~(sock # NoConn /\ c = sock)
    BY <1>3, <1>5, <1>6, <2>2
  <2>3. QED
    BY <2>1, <2>2
<1>7. ASSUME StreamBreaks(WriteBreaks(stream)) \/ StreamBreaks(ReadBreaks(stream)),
             stream \in Conn
      PROVE  /\ stream # NoConn /\ stream' = NoConn
             /\ Sessions' = Sessions \cup {NextEvent("SessionDetached")}
  <2>1. Detach /\ peer[stream] = "closed"
    BY <1>1, <1>7 DEF StreamBreaks, WriteBreaks, ReadBreaks
  <2>2. sock # NoConn => down'[sock] = down[sock]
    BY <1>2, <1>4, <2>1 DEF Detach
  <2>3. NextEvent("SessionDetached") \in Event
    BY NextEventType, TypeParts DEF LifecycleKind
  <2>4. IsSession(NextEvent("SessionDetached"))
    BY DEF IsSession, SessionEvents, NextEvent
  <2>5. pendingLifecycle' = Append(pendingLifecycle, NextEvent("SessionDetached"))
    BY <2>1 DEF Detach
  <2>6. Sessions' = Sessions \cup {NextEvent("SessionDetached")}
    BY <1>0, <2>2, <2>3, <2>4, <2>5, SessionsQueue
  <2>7. QED
    BY <1>0, <1>7, <2>1, <2>6 DEF Detach
<1>8. CASE AcceptFirst \/ AcceptResume \/ ReadResume \/ RefuseResume
  BY <1>5, <1>8
     DEF AcceptFirst, AcceptResume, ReadResume, RefuseResume, Accepts, Reads, ReadsAndReleases,
         transportVars
<1>9. CASE ResumeBreaks
  <2>1. peer[cand] = "closed"
    BY <1>9 DEF ResumeBreaks, ReadBreaks
  <2>2. QED
    BY <1>2, <1>4, <1>5, <1>9, <2>1 DEF ResumeBreaks
<1>10. CASE WriteMetadata
  <2>1. Writes(cand, MetadataFrame) /\ UNCHANGED transportVars
    BY <1>10, AttachesAgent DEF WriteMetadata
  <2>2. MetadataFrame \in DownFrame /\ MetadataFrame.kind # "LIFECYCLE" /\ cand \in Conn
    BY <1>0, <1>10 DEF WriteMetadata, MetadataFrame, DownFrame
  <2>3. QED
    BY <1>6, <2>1, <2>2 DEF transportVars
<1>11. CASE DrainEvent
  <2>1. /\ Writes(cand, LifecycleFrame(Head(pendingLifecycle))) /\ UNCHANGED stream
        /\ pendingLifecycle # <<>> /\ pendingLifecycle' = Tail(pendingLifecycle)
        /\ sock # NoConn /\ cand = sock /\ sock \in Conn
    BY <1>11, AttachesAgent DEF DrainEvent
  <2>2. down'[sock] = Append(down[sock], LifecycleFrame(Head(pendingLifecycle)))
    BY <1>3, <2>1
  <2>3. QED
    BY <1>0, <2>1, <2>2, SessionsDrain
<1>12. CASE Attached
  <2>1. /\ sock # NoConn /\ cand = sock /\ sock \in Conn /\ peer[cand] = "open"
        /\ stream = NoConn /\ stream' = cand /\ UNCHANGED pendingLifecycle
    BY <1>12, AttachesAgent DEF Attached, OwnInv
  <2>2. Writes(cand, LifecycleFrame(NextEvent("SessionAttached")))
    BY <1>1, <1>12, <2>1 DEF Attached, WriteBreaks
  <2>3. LifecycleFrame(NextEvent("SessionAttached")) \in DownFrame
    BY NextEventType, TypeParts DEF LifecycleKind
  <2>4. /\ IsEvent(LifecycleFrame(NextEvent("SessionAttached")))
        /\ LifecycleFrame(NextEvent("SessionAttached")).event = NextEvent("SessionAttached")
        /\ IsSession(NextEvent("SessionAttached"))
    BY DEF IsEvent, LifecycleFrame, IsSession, SessionEvents, NextEvent
  <2>5. down'[sock] = Append(down[sock], LifecycleFrame(NextEvent("SessionAttached")))
    BY <1>3, <2>1, <2>2
  <2>6. Sessions' = Sessions \cup {NextEvent("SessionAttached")}
    BY <1>0, <2>1, <2>3, <2>4, <2>5, SessionsSend
  <2>7. QED
    BY <2>1, <2>6
<1>13. CASE EmitAlive \/ EmitReproduced \/ EmitDied \/ EmitTerminated
  <2>1. PICK k \in LifecycleKind \ SessionEvents : Emit(k)
    BY <1>13 DEF EmitAlive, EmitReproduced, EmitDied, EmitTerminated, LifecycleKind, SessionEvents
  <2>2. /\ NextEvent(k) \in Event /\ LifecycleFrame(NextEvent(k)) \in DownFrame
        /\ ~IsSession(NextEvent(k)) /\ LifecycleFrame(NextEvent(k)).event = NextEvent(k)
    BY NextEventType, TypeParts DEF IsSession, NextEvent, LifecycleFrame
  <2>3. CASE stream = NoConn
    <3>1. /\ UNCHANGED <<stream, down>>
          /\ pendingLifecycle' = Append(pendingLifecycle, NextEvent(k))
      BY <2>1, <2>3 DEF Emit, netVars
    <3>2. QED
      BY <1>0, <2>2, <3>1, SessionsQueue
  <2>4. CASE stream # NoConn
    <3>1. Writes(stream, LifecycleFrame(NextEvent(k))) /\ UNCHANGED <<stream, pendingLifecycle>>
      BY <1>0, <1>1, <2>1, <2>4 DEF Emit
    <3>2. QED
      BY <1>0, <1>6, <2>2, <2>4, <3>1
  <2>5. QED
    BY <2>3, <2>4
<1>14. CASE ActHolding \/ ActDeciding \/ NextTick \/ AcceptAction \/ RejectFrame
  BY <1>5, <1>14
     DEF ActHolding, ActDeciding, NextTick, AcceptAction, RejectFrame, Reads, netVars, transportVars
<1>15. CASE WriteObservation
  <2>1. CASE StreamBreaks(WriteBreaks(stream))
    BY <1>0, <1>7, <1>15, <2>1 DEF WriteObservation
  <2>2. CASE Writes(stream, ObservationFrame(tick)) /\ UNCHANGED transportVars
    <3>1. ObservationFrame(tick) \in DownFrame /\ ObservationFrame(tick).kind # "LIFECYCLE"
      BY DEF ObservationFrame, DownFrame, TypeOK, ServerTypeOK
    <3>2. stream \in Conn
      BY <1>0, <1>15 DEF WriteObservation
    <3>3. QED
      BY <1>6, <2>2, <3>1, <3>2 DEF transportVars
  <2>3. QED
    BY <1>15, <2>1, <2>2 DEF WriteObservation
<1>16. CASE WriteExtension
  <2>1. stream \in Conn
    BY <1>0, <1>16 DEF WriteExtension
  <2>2. CASE StreamBreaks(WriteBreaks(stream))
    BY <1>7, <2>1, <2>2
  <2>3. CASE /\ Writes(stream, ExtensionFrame(tick, decisionSequence, since))
             /\ UNCHANGED transportVars
    <3>1. /\ ExtensionFrame(tick, decisionSequence, since) \in DownFrame
          /\ ExtensionFrame(tick, decisionSequence, since).kind # "LIFECYCLE"
      BY DEF ExtensionFrame, DownFrame, TypeOK, ServerTypeOK
    <3>2. QED
      BY <1>6, <2>1, <2>3, <3>1 DEF transportVars
  <2>4. QED
    BY <1>16, <2>2, <2>3 DEF WriteExtension
<1>17. CASE AwaitBreaks
  BY <1>0, <1>7, <1>17 DEF AwaitBreaks
<1>18. CASE Exits
  BY <1>18 DEF Exits, Running
<1>19. QED
  BY <1>8, <1>9, <1>10, <1>11, <1>12, <1>13, <1>14, <1>15, <1>16, <1>17, <1>18 DEF Server

\* The server does not close the connection the agent uses.
LEMMA ServerLetsOpen ==
    ASSUME TypeOK, ControlOK, VisitorsKept, UsedInv, FramesInv, OwnInv, Running, Server,
           sock # NoConn
    PROVE  ours'[sock] = ours[sock]
<1>0. /\ sock \in Conn /\ peer[sock] = "open" /\ ours \in [Conn -> BOOLEAN]
      /\ stream \in Conn \cup {NoConn} /\ cand \in Conn \cup {NoConn}
      /\ pc \in {"metadata", "drain", "resume"} => cand \in Conn
  BY DEF TypeOK, NetTypeOK, ServerTypeOK, ClientTypeOK, FramesInv, ControlOK
<1>1. ASSUME NEW c, Releases(c), c # sock
      PROVE  ours'[sock] = ours[sock]
  BY <1>0, <1>1 DEF Releases
<1>2. CASE AcceptFirst \/ AcceptResume \/ ReadResume
  BY <1>2 DEF AcceptFirst, AcceptResume, ReadResume, Accepts, Reads
<1>3. CASE WriteMetadata \/ DrainEvent
  BY <1>3, AttachesAgent DEF WriteMetadata, DrainEvent, Writes
<1>4. CASE Attached
  BY <1>4 DEF Attached, Writes, TimesOut, netVars
<1>5. CASE EmitAlive \/ EmitReproduced \/ EmitDied \/ EmitTerminated
  <2>1. PICK k : Emit(k)
    BY <1>5 DEF EmitAlive, EmitReproduced, EmitDied, EmitTerminated
  <2>2. QED
    BY <2>1 DEF Emit, Writes, TimesOut, netVars
<1>6. CASE RefuseResume
  <2>1. ReadsAndReleases(cand) /\ up[cand] # <<>> /\ ~GoodResume(Head(up[cand])) /\ pc = "resume"
    BY <1>6 DEF RefuseResume
  <2>2. ASSUME cand = sock
        PROVE  FALSE
    <3>1. Unanswered(sock)
      BY <2>1, <2>2 DEF Unanswered, Used
    <3>2. \A i \in 1..Len(up[sock]) : GoodResume(up[sock][i])
      BY <3>1 DEF OwnInv
    <3>3. up[sock] \in Seq(UpFrame) /\ up[sock] # <<>>
      BY <1>0, <2>1, <2>2 DEF TypeOK, NetTypeOK
    <3>4. 1 \in 1..Len(up[sock]) /\ Head(up[sock]) = up[sock][1]
      BY <3>3, HeadAndTail
    <3>5. QED
      BY <2>1, <2>2, <3>2, <3>4
  <2>3. QED
    BY <1>0, <2>1, <2>2 DEF ReadsAndReleases
<1>7. CASE ResumeBreaks
  <2>1. peer[cand] = "closed" /\ Releases(cand)
    BY <1>7 DEF ResumeBreaks, ReadBreaks
  <2>2. QED
    BY <1>0, <1>1, <2>1
<1>8. CASE ActHolding \/ ActDeciding \/ NextTick \/ AcceptAction \/ RejectFrame
  BY <1>8 DEF ActHolding, ActDeciding, NextTick, AcceptAction, RejectFrame, Reads, netVars
<1>9. ASSUME StreamBreaks(WriteBreaks(stream)) \/ StreamBreaks(ReadBreaks(stream))
      PROVE  ours'[sock] = ours[sock]
  <2>1. CASE Detach /\ peer[stream] = "closed"
    BY <1>0, <1>1, <2>1 DEF Detach
  <2>2. CASE TimesOut(stream)
    BY <2>2 DEF TimesOut
  <2>3. QED
    BY <1>9, <2>1, <2>2 DEF StreamBreaks, WriteBreaks, ReadBreaks
<1>10. CASE WriteObservation \/ WriteExtension \/ AwaitBreaks
  BY <1>9, <1>10 DEF WriteObservation, WriteExtension, AwaitBreaks, Writes
<1>11. CASE Exits
  BY <1>11 DEF Exits, Running
<1>12. QED
  BY <1>2, <1>3, <1>4, <1>5, <1>6, <1>7, <1>8, <1>10, <1>11 DEF Server

\* While attach or accept_resume is at work no connection is attached.
LEMMA ServerDetached ==
    ASSUME OwnInv, Server, pc' \in {"boot", "metadata", "drain", "resume"}
    PROVE  stream' = NoConn
<1>. USE DEF OwnInv, StreamBreaks, Detach, AttachFails, AttachError, ExchangeFails, Decide, EndTick,
             transportVars, serverVars
<1>1. CASE AcceptFirst \/ AcceptResume \/ ReadResume \/ RefuseResume \/ ResumeBreaks
  BY <1>1 DEF AcceptFirst, AcceptResume, ReadResume, RefuseResume, ResumeBreaks
<1>2. CASE WriteMetadata \/ DrainEvent \/ Attached
  BY <1>2 DEF WriteMetadata, DrainEvent, Attached
<1>3. CASE EmitAlive \/ EmitReproduced \/ EmitDied \/ EmitTerminated \/ NextTick \/ Exits
  BY <1>3 DEF EmitAlive, EmitReproduced, EmitDied, EmitTerminated, NextTick, Exits
<1>4. CASE ActHolding \/ ActDeciding \/ AcceptAction \/ RejectFrame
  BY <1>4 DEF ActHolding, ActDeciding, AcceptAction, RejectFrame
<1>5. CASE WriteObservation \/ WriteExtension \/ AwaitBreaks
  BY <1>5 DEF WriteObservation, WriteExtension, AwaitBreaks
<1>6. QED
  BY <1>1, <1>2, <1>3, <1>4, <1>5 DEF Server

\* A process that has ended only closes connections.
LEMMA EndedExits ==
    ASSUME Server, ~Running
    PROVE  Exits
  BY DEF Running, Server, AcceptFirst, WriteMetadata, DrainEvent, Attached, EmitAlive,
     AcceptResume, ReadResume, RefuseResume, ResumeBreaks, ActHolding, ActDeciding,
     WriteObservation, WriteExtension, AcceptAction, RejectFrame, AwaitBreaks, EmitReproduced,
     NextTick, EmitDied, EmitTerminated

\* A process that has ended does not run again.
LEMMA ServerRuns ==
    ASSUME Server, Running'
    PROVE  Running
  BY EndedExits DEF Exits, Running, serverVars

\* Where the server process attaches: from metadata it goes on to the queue of
\* events, and when it leaves the queue the candidate is used.
LEMMA ServerAttaches ==
    ASSUME TypeOK, ControlOK, VisitorsKept, UsedInv, FramesInv, OwnInv, Running, Server
    PROVE  /\ pc = "metadata" => pc' = "drain" /\ cand' = cand
           /\ pc = "drain" => (pc' = "drain" /\ cand' = cand) \/ cand' = NoConn
<1>1. CASE pc = "metadata"
  <2>1. WriteMetadata
    BY <1>1 DEF Server, AcceptFirst, DrainEvent, Attached, EmitAlive, AcceptResume, ReadResume,
       RefuseResume, ResumeBreaks, ActHolding, ActDeciding, WriteObservation, WriteExtension,
       AcceptAction, RejectFrame, AwaitBreaks, EmitReproduced, NextTick, EmitDied,
       EmitTerminated, Exits
  <2>2. QED
    BY <1>1, <2>1, AttachesAgent DEF WriteMetadata, transportVars
<1>2. CASE pc = "drain"
  <2>1. DrainEvent \/ Attached
    BY <1>2 DEF Server, AcceptFirst, WriteMetadata, EmitAlive, AcceptResume, ReadResume,
       RefuseResume, ResumeBreaks, ActHolding, ActDeciding, WriteObservation, WriteExtension,
       AcceptAction, RejectFrame, AwaitBreaks, EmitReproduced, NextTick, EmitDied,
       EmitTerminated, Exits
  <2>2. QED
    BY <1>2, <2>1, AttachesAgent DEF DrainEvent, Attached
<1>3. QED
  BY <1>1, <1>2

\* What a server step adds to the agent's connection keeps session events first.
LEMMA ServerSessionFirst ==
    ASSUME TypeOK, ControlOK, UsedInv, FramesInv, OwnInv, Server, UNCHANGED clientVars
    PROVE  SessionFirst'
<1>1. UNCHANGED <<sock, settled>>
  BY DEF clientVars
<1>2. SUFFICES ASSUME sock # NoConn, NEW j \in 1..Len(down'[sock]),
                      IsEvent(down'[sock][j]), IsSession(down'[sock][j].event)
               PROVE  ~settled /\ \A i \in 1..(j - 1) : ~IsDecision(down'[sock][i])
  BY <1>1 DEF SessionFirst, IsEvent, IsSession, IsDecision
<1>3. sock \in Conn /\ peer[sock] = "open" /\ down[sock] \in Seq(DownFrame)
  BY <1>2 DEF TypeOK, NetTypeOK, ClientTypeOK, FramesInv
<1>4. PICK n \in Nat : n = Len(down[sock])
  BY <1>3, LenProperties
<1>5. \A k \in 1..n : IsEvent(down[sock][k]) /\ IsSession(down[sock][k].event) =>
        ~settled /\ \A i \in 1..(k - 1) : ~IsDecision(down[sock][i])
  BY <1>2, <1>4 DEF OwnInv, SessionFirst
<1>6. CASE Steady(sock)
  <2>1. Len(down'[sock]) <= n /\ \A i \in 1..Len(down'[sock]) : down'[sock][i] = down[sock][i]
    BY <1>4, <1>6 DEF Steady, Begins
  <2>3. j \in 1..n /\ \A i \in 1..(j - 1) : i \in 1..Len(down'[sock])
    BY <1>2, <2>1
  <2>4. QED
    BY <1>2, <1>5, <2>1, <2>3
<1>7. ASSUME NEW f, SentTo(sock, f)
      PROVE  ~settled /\ \A i \in 1..(j - 1) : ~IsDecision(down'[sock][i])
  <2>1. /\ Len(down'[sock]) = n + 1 /\ down'[sock][n + 1] = f
        /\ \A i \in 1..n : down'[sock][i] = down[sock][i]
    BY <1>3, <1>4, <1>7, Appended DEF SentTo
  <2>2. CASE j \in 1..n
    <3>1. \A i \in 1..(j - 1) : i \in 1..n
      BY <2>2
    <3>2. QED
      BY <1>2, <1>5, <2>1, <2>2, <3>1
  <2>3. CASE j = n + 1
    <3>1. cand = sock
      BY <1>2, <1>7, <2>1, <2>3 DEF SentTo, IsEvent
    <3>2. ~Used(sock)
      BY <3>1 DEF Used
    <3>3. ~settled /\ \A i \in 1..n : ~IsDecision(down[sock][i])
      BY <1>2, <1>3, <1>4, <3>2 DEF UsedInv
    <3>4. \A i \in 1..(j - 1) : i \in 1..n
      BY <2>3
    <3>5. QED
      BY <2>1, <3>3, <3>4
  <2>4. QED
    BY <1>2, <1>4, <2>1, <2>2, <2>3
<1>8. QED
  BY <1>3, <1>6, <1>7, ServerTo

\* Every server step keeps the agent's connection the agent's.
LEMMA OwnServer ==
    ASSUME TypeOK, TypeOK', ControlOK, VisitorsKept, UsedInv, FramesInv, OwnInv,
           Server, UNCHANGED clientVars, UNCHANGED visitors
    PROVE  OwnInv'
<1>1. UNCHANGED <<sock, settled, cpc>>
  BY DEF clientVars
<1>2. pc' \in {"boot", "metadata", "drain", "resume"} => stream' = NoConn
  BY ServerDetached
<1>3. cpc' \in {"connect", "done"} => sock' = NoConn
  BY <1>1 DEF OwnInv
<1>4. SessionFirst'
  BY ServerSessionFirst
<1>5. CASE ~Running'
  BY <1>2, <1>3, <1>4, <1>5 DEF OwnInv
<1>6. CASE Running'
  <2>1. Running
    BY <1>6, ServerRuns
  <2>2. \A c \in Conn : c <= opened' /\ c \notin visitors' /\ c # sock' => Used(c)'
    BY <1>1, <2>1, ServerUses DEF OwnInv
  <2>3. sock' # NoConn => ours'[sock']
    BY <1>1, <2>1, ServerLetsOpen DEF OwnInv
  <2>4. ASSUME sock # NoConn, Unanswered(sock)'
        PROVE  /\ Opening' /\ down'[sock] = <<>>
               /\ \A i \in 1..Len(up'[sock]) : GoodResume(up'[sock][i])
    <3>0. /\ sock \in Conn /\ peer[sock] = "open" /\ up[sock] \in Seq(UpFrame)
      BY <2>4 DEF TypeOK, NetTypeOK, ClientTypeOK, FramesInv
    <3>1. ~Used(sock)
      <4>1. Used(sock) => Used(sock)'
        BY <1>1, <3>0, ServerUses DEF Used
      <4>2. QED
        BY <2>4, <4>1 DEF Unanswered
    <3>2. ~(cand = sock /\ pc = "drain")
      <4>1. ASSUME cand = sock, pc = "drain"
            PROVE  FALSE
        <5>1. cand' = NoConn
          BY <1>1, <2>1, <2>4, <4>1, ServerAttaches DEF Unanswered
        <5>2. sock <= opened' /\ sock # cand'
          BY <2>4, <5>1, ServerUses DEF ControlOK
        <5>3. \A i \in 1..Len(backlog') : backlog'[i] # sock
          <6>1. UNCHANGED backlog
            <7>1. cand' # NoConn \/ UNCHANGED backlog
              <8>1. backlog # <<>> => Head(backlog) \in Conn
                BY HeadAndTail DEF TypeOK, NetTypeOK
              <8>2. QED
                BY <8>1, ServerUses DEF Conn, NoConn
            <7>2. QED
              BY <5>1, <7>1
          <6>2. QED
            BY <4>1, <6>1 DEF UsedInv
        <5>4. Used(sock)'
          BY <1>1, <5>2, <5>3 DEF Used
        <5>5. QED
          BY <2>4, <5>4 DEF Unanswered
      <4>2. QED
        BY <4>1
    <3>3. Opening /\ down[sock] = <<>> /\ \A i \in 1..Len(up[sock]) : GoodResume(up[sock][i])
      BY <2>1, <2>4, <3>1, <3>2 DEF OwnInv, Unanswered
    <3>4. \A i \in 1..Len(up'[sock]) : GoodResume(up'[sock][i])
      <4>1. CASE up'[sock] = up[sock]
        BY <3>3, <4>1 DEF GoodResume
      <4>2. CASE up[sock] # <<>> /\ up'[sock] = Tail(up[sock])
        <5>1. PICK n \in Nat \ {0} : n = Len(up[sock])
          BY <3>0, <4>2, HeadAndTail
        <5>2. Len(up'[sock]) = n - 1 /\ \A i \in 1..(n - 1) : up'[sock][i] = up[sock][i + 1]
          BY <3>0, <4>2, <5>1, HeadAndTail
        <5>3. \A i \in 1..(n - 1) : i + 1 \in 1..n
          OBVIOUS
        <5>4. QED
          BY <3>3, <5>1, <5>2, <5>3 DEF GoodResume
      <4>3. QED
        BY <3>0, <4>1, <4>2, ServerConsumes DEF Consumes
    <3>5. down'[sock] = <<>>
      <4>1. ASSUME NEW f, SentTo(sock, f)
            PROVE  FALSE
        <5>1. ~Carried(sock)
          <6>1. stream # sock
            BY <2>4, <3>1 DEF UsedInv
          <6>2. QED
            BY <3>2, <6>1 DEF Carried
        <5>2. pc = "metadata"
          BY <4>1, <5>1 DEF SentTo
        <5>3. pc' = "drain" /\ cand' = cand /\ cand = sock
          BY <2>1, <5>2, ServerAttaches, AttachesAgent
        <5>4. QED
          BY <1>1, <2>4, <5>3 DEF Unanswered
      <4>2. Steady(sock)
        BY <3>0, <4>1, ServerTo
      <4>3. QED
        BY <1>6, <3>3, <4>2 DEF Steady
    <3>6. QED
      BY <1>1, <3>3, <3>4, <3>5 DEF Opening
  <2>5. QED
    BY <1>1, <1>2, <1>3, <1>4, <2>2, <2>3, <2>4 DEF OwnInv, GoodResume, Unanswered, Used
<1>7. QED
  BY <1>5, <1>6

\* Taking a frame keeps session events first.
LEMMA TakeSessionFirst ==
    ASSUME TypeOK, OwnInv, sock \in Conn, down[sock] # <<>>, UNCHANGED sock,
           down' = [down EXCEPT ![sock] = Tail(@)],
           settled' => settled \/ IsDecision(Head(down[sock]))
    PROVE  SessionFirst'
<1>0. down \in [Conn -> Seq(DownFrame)] /\ down[sock] \in Seq(DownFrame) /\ sock # NoConn
  BY DEF TypeOK, NetTypeOK, Conn, NoConn
<1>1. PICK n \in Nat \ {0} : n = Len(down[sock])
  BY <1>0, HeadAndTail
<1>2. /\ Len(down'[sock]) = n - 1 /\ Head(down[sock]) = down[sock][1]
      /\ \A i \in 1..(n - 1) : down'[sock][i] = down[sock][i + 1]
  BY <1>0, <1>1, HeadAndTail
<1>3. \A k \in 1..n : IsEvent(down[sock][k]) /\ IsSession(down[sock][k].event) =>
        ~settled /\ \A i \in 1..(k - 1) : ~IsDecision(down[sock][i])
  BY <1>0, <1>1 DEF OwnInv, SessionFirst
<1>4. SUFFICES ASSUME NEW j \in 1..(n - 1),
                      IsEvent(down'[sock][j]), IsSession(down'[sock][j].event)
               PROVE  ~settled' /\ \A i \in 1..(j - 1) : ~IsDecision(down'[sock][i])
  BY <1>2 DEF SessionFirst, IsEvent, IsSession, IsDecision
<1>5. j + 1 \in 1..n /\ 1 \in 1..((j + 1) - 1)
      /\ \A i \in 1..(j - 1) : i \in 1..(n - 1) /\ i + 1 \in 1..((j + 1) - 1)
  OBVIOUS
<1>6. IsEvent(down[sock][j + 1]) /\ IsSession(down[sock][j + 1].event)
  BY <1>2, <1>4
<1>7. ~settled /\ \A i \in 1..((j + 1) - 1) : ~IsDecision(down[sock][i])
  BY <1>3, <1>5, <1>6
<1>8. QED
  BY <1>2, <1>5, <1>7

\* Every step of the agent and its environment keeps the agent's connection the
\* agent's.
LEMMA OwnAgent ==
    ASSUME Orderly, TypeOK, TypeOK', ControlOK, VisitorsKept, EventsInv, UsedInv, FramesInv,
           OwnInv, Agent \/ Environment
    PROVE  OwnInv'
<1>1. UNCHANGED <<pc, stream, cand>> /\ (Running' <=> Running)
  BY AgentHolds DEF serverVars, transportVars, Running
<1>2. \A c \in Conn : Used(c) => Used(c)'
  BY UsedStays
<1>3. /\ sock \in Conn \cup {NoConn} /\ NoConn \notin Conn
      /\ sock \in Conn => up[sock] \in Seq(UpFrame) /\ down[sock] \in Seq(DownFrame)
      /\ up \in [Conn -> Seq(UpFrame)] /\ ours \in [Conn -> BOOLEAN] /\ opened \in Nat
      /\ sock \in Conn => sock <= opened
  <2>1. up \in [Conn -> Seq(UpFrame)] /\ down \in [Conn -> Seq(DownFrame)]
    BY DEF TypeOK, NetTypeOK
  <2>2. sock \in Conn => up[sock] \in Seq(UpFrame) /\ down[sock] \in Seq(DownFrame)
    BY <2>1
  <2>3. sock \in Conn \cup {NoConn} /\ ours \in [Conn -> BOOLEAN] /\ opened \in Nat
    BY DEF TypeOK, NetTypeOK, ClientTypeOK
  <2>4. NoConn \notin Conn
    BY DEF Conn, NoConn
  <2>5. QED
    BY <2>1, <2>2, <2>3, <2>4 DEF ControlOK
<1>4. pc' \in {"boot", "metadata", "drain", "resume"} => stream' = NoConn
  BY <1>1 DEF OwnInv
\* Steps that open no connection and keep the agent's.
<1>5. ASSUME UNCHANGED <<sock, ours, opened, backlog, visitors>>,
             cpc' \in {"connect", "done"} => cpc \in {"connect", "done"},
             SessionFirst',
             Running /\ sock # NoConn /\ Unanswered(sock) =>
               /\ Opening' /\ down'[sock] = down[sock]
               /\ up'[sock] = up[sock] \/ up'[sock] = Append(up[sock], ResumeFrame(TRUE))
      PROVE  OwnInv'
  <2>1. cpc' \in {"connect", "done"} => sock' = NoConn
    BY <1>5 DEF OwnInv
  <2>2. \A c \in Conn : c <= opened' /\ c \notin visitors' /\ c # sock' => (Running => Used(c)')
    BY <1>2, <1>5 DEF OwnInv
  <2>3. ASSUME Running, sock # NoConn, Unanswered(sock)'
        PROVE  /\ Opening' /\ down'[sock] = <<>>
               /\ \A i \in 1..Len(up'[sock]) : GoodResume(up'[sock][i])
    <3>1. Unanswered(sock)
      BY <1>1, <1>5, <2>3 DEF Unanswered, Used
    <3>2. down[sock] = <<>> /\ \A i \in 1..Len(up[sock]) : GoodResume(up[sock][i])
      BY <2>3, <3>1 DEF OwnInv
    <3>3. CASE up'[sock] = Append(up[sock], ResumeFrame(TRUE))
      <4>0. up[sock] \in Seq(UpFrame)
        BY <1>3, <2>3
      <4>1. PICK n \in Nat : n = Len(up[sock])
        BY <4>0, LenProperties
      <4>2. ResumeFrame(TRUE) \in UpFrame /\ GoodResume(ResumeFrame(TRUE))
        BY DEF ResumeFrame, UpFrame, GoodResume
      <4>3. /\ Len(up'[sock]) = n + 1
            /\ \A i \in 1..n : up'[sock][i] = up[sock][i]
            /\ up'[sock][n + 1] = ResumeFrame(TRUE)
        <5>. DEFINE q == up[sock]
                    f == ResumeFrame(TRUE)
        <5>1. q \in Seq(UpFrame) /\ f \in UpFrame
          BY <4>0, <4>2
        <5>. HIDE DEF q, f
        <5>2. /\ Len(Append(q, f)) = Len(q) + 1
              /\ \A i \in 1..Len(q) : Append(q, f)[i] = q[i]
              /\ Append(q, f)[Len(q) + 1] = f
          BY <5>1, Appended
        <5>3. QED
          BY <3>3, <4>1, <5>2 DEF q, f
      <4>4. \A i \in 1..(n + 1) : i \in 1..n \/ i = n + 1
        OBVIOUS
      <4>5. QED
        BY <1>5, <2>3, <3>1, <3>2, <4>1, <4>2, <4>3, <4>4 DEF GoodResume
    <3>4. CASE up'[sock] = up[sock]
      BY <1>5, <2>3, <3>1, <3>2, <3>4 DEF GoodResume
    <3>5. QED
      BY <1>5, <2>3, <3>1, <3>3, <3>4
  <2>4. Running /\ sock # NoConn => ours[sock]
    BY DEF OwnInv
  <2>5. QED
    BY <1>1, <1>4, <1>5, <2>1, <2>2, <2>3, <2>4 DEF OwnInv, GoodResume, Unanswered, Used, Opening
\* Steps that take the next frame.
<1>6. ASSUME sock # NoConn, down[sock] # <<>>, UNCHANGED <<sock, ours, opened, backlog, visitors>>,
             down' = [down EXCEPT ![sock] = Tail(@)],
             settled' => settled \/ IsDecision(Head(down[sock])),
             cpc' \notin {"connect", "done"}
      PROVE  OwnInv'
  <2>1. SessionFirst'
    BY <1>3, <1>6, TakeSessionFirst
  <2>2. ~(Running /\ Unanswered(sock))
    BY <1>6 DEF OwnInv
  <2>3. QED
    BY <1>5, <1>6, <2>1, <2>2
\* Steps that leave the frames on the agent's connection alone.
<1>7. ASSUME UNCHANGED <<sock, settled>>, sock # NoConn => down'[sock] = down[sock]
      PROVE  SessionFirst'
  BY <1>7 DEF OwnInv, SessionFirst, IsEvent, IsSession, IsDecision
\* Steps after which the agent has no connection.
<1>8. ASSUME sock' = NoConn, cpc' = "connect", UNCHANGED <<opened, visitors>>,
             Running /\ sock # NoConn => Used(sock)
      PROVE  OwnInv'
  <2>1. SessionFirst'
    BY <1>8 DEF SessionFirst
  <2>2. \A c \in Conn : c <= opened /\ c \notin visitors => (Running => Used(c)')
    BY <1>2, <1>3, <1>8 DEF OwnInv
  <2>3. QED
    BY <1>1, <1>4, <1>8, <2>1, <2>2 DEF OwnInv
<1>9. CASE Connect
  <2>1. /\ Running /\ sock' = opened + 1 /\ opened' = opened + 1 /\ UNCHANGED <<down, visitors>>
        /\ ours' = [ours EXCEPT ![opened + 1] = TRUE] /\ up' = [up EXCEPT ![opened + 1] = <<>>]
        /\ cpc' \in {"resume", "metadata"} /\ cpc = "connect" /\ sock' \in Conn
    BY <1>9 DEF Connect, Opens, Conn, TypeOK, NetTypeOK
  <2>2. sock = NoConn
    BY <2>1 DEF OwnInv
  <2>3. down'[sock'] = <<>>
    BY <1>3, <2>1 DEF EventsInv, Conn
  <2>4. SessionFirst'
    BY <2>3 DEF SessionFirst
  <2>5. ours'[sock'] /\ up'[sock'] = <<>>
    BY <1>3, <2>1
  <2>6. \A c \in Conn : c <= opened + 1 /\ c # opened + 1 => c <= opened
    BY <1>3 DEF Conn
  <2>7. \A c \in Conn : c <= opened' /\ c \notin visitors' /\ c # sock' => Used(c)'
    BY <1>2, <1>3, <2>1, <2>2, <2>6 DEF OwnInv
  <2>8. Opening'
    BY <2>1 DEF Opening
  <2>9. QED
    BY <1>4, <2>1, <2>3, <2>4, <2>5, <2>7, <2>8 DEF OwnInv
<1>10. CASE SendResume
  <2>1. /\ UNCHANGED <<sock, settled, ours, opened, backlog, visitors, down>> /\ cpc' = "metadata"
        /\ up' = [up EXCEPT ![sock] = Append(@, ResumeFrame(TRUE))]
    BY <1>10 DEF SendResume, AgentWrites
  <2>2. SessionFirst'
    BY <1>7, <2>1
  <2>3. sock # NoConn => up'[sock] = Append(up[sock], ResumeFrame(TRUE))
    BY <1>3, <2>1
  <2>4. QED
    BY <1>5, <2>1, <2>2, <2>3 DEF Opening
<1>11. CASE SendAction \/ SendStray
  <2>1. /\ UNCHANGED <<sock, settled, ours, opened, backlog, visitors, down>> /\ cpc' = "idle"
        /\ ~Opening
    BY <1>11 DEF SendAction, SendStray, AgentWrites, Opening
  <2>2. SessionFirst'
    BY <1>7, <2>1
  <2>3. ~(Running /\ sock # NoConn /\ Unanswered(sock))
    BY <2>1 DEF OwnInv
  <2>4. QED
    BY <1>5, <2>1, <2>2, <2>3
<1>12. CASE ReceiveMetadata
  <2>1. /\ sock # NoConn /\ down[sock] # <<>> /\ UNCHANGED <<sock, ours, opened, backlog, visitors>>
        /\ down' = [down EXCEPT ![sock] = Tail(@)]
    BY <1>12 DEF ReceiveMetadata, AgentReads, ControlOK
  <2>2. settled' = settled /\ cpc' \notin {"connect", "done"}
    BY <1>12 DEF ReceiveMetadata, StoreLifecycle
  <2>3. QED
    BY <1>6, <2>1, <2>2
<1>13. CASE ReadNext
  <2>1. /\ sock # NoConn /\ down[sock] # <<>> /\ UNCHANGED <<sock, ours, opened, backlog, visitors>>
        /\ down' = [down EXCEPT ![sock] = Tail(@)]
    BY <1>13 DEF ReadNext, AgentReads, ControlOK
  <2>2. settled' => settled \/ IsDecision(Head(down[sock]))
    BY <1>13 DEF ReadNext, StoreLifecycle, IsDecision
  <2>3. cpc' \notin {"connect", "done"}
    BY <1>13 DEF ReadNext, StoreLifecycle
  <2>4. QED
    BY <1>6, <2>1, <2>2, <2>3
<1>14. CASE ReadExtension
  <2>1. /\ sock # NoConn /\ down[sock] # <<>> /\ UNCHANGED <<sock, ours, opened, backlog, visitors>>
        /\ down' = [down EXCEPT ![sock] = Tail(@)]
    BY <1>14 DEF ReadExtension, AgentReads, ControlOK
  <2>2. settled' = settled /\ cpc' \notin {"connect", "done"}
    BY <1>14 DEF ReadExtension
  <2>3. QED
    BY <1>6, <2>1, <2>2
<1>15. CASE FindClosed
  <2>1. ~Running /\ sock' = NoConn /\ cpc' = "connect" /\ UNCHANGED <<opened, visitors>>
    BY <1>15 DEF FindClosed, OwnInv, netVars
  <2>2. QED
    BY <1>8, <2>1
<1>16. CASE GiveUp
  <2>1. /\ sock = NoConn /\ UNCHANGED <<sock, settled, ours, opened, backlog, visitors, down>>
        /\ cpc = "connect"
    BY <1>16 DEF GiveUp, netVars, OwnInv
  <2>2. SessionFirst'
    BY <1>7, <2>1
  <2>3. QED
    BY <1>5, <2>1, <2>2
<1>17. CASE Lose
  <2>1. /\ (IF cpc = "idle" /\ ~settled THEN "opening" ELSE cpc) \in {"idle", "extension", "decide"}
        /\ sock # NoConn /\ sock' = NoConn /\ cpc' = "connect" /\ UNCHANGED <<opened, visitors>>
    BY <1>17 DEF Lose, AgentDrops, Orderly
  <2>2. settled
    BY <2>1 DEF UsedInv
  <2>3. QED
    BY <1>8, <2>1, <2>2 DEF UsedInv
<1>18. CASE Visit
  <2>1. /\ opened' = opened + 1 /\ visitors' = visitors \cup {opened + 1}
        /\ UNCHANGED <<down, sock, settled, cpc>>
        /\ ours' = [ours EXCEPT ![opened + 1] = TRUE]
        /\ backlog' = Append(backlog, opened + 1)
        /\ \E f : up' = [up EXCEPT ![opened + 1] = <<f>>]
    BY <1>18 DEF Visit, Opens, clientVars
  <2>2. SessionFirst'
    BY <1>7, <2>1
  <2>3. \A c \in Conn : c <= opened + 1 /\ c # opened + 1 => c <= opened
    BY <1>3 DEF Conn
  <2>4. \A c \in Conn : c <= opened' /\ c \notin visitors' /\ c # sock' => (Running => Used(c)')
    BY <1>2, <2>1, <2>3 DEF OwnInv
  <2>5. sock # NoConn => sock # opened + 1
    BY <1>3 DEF Conn
  <2>6. sock # NoConn => ours'[sock] = ours[sock] /\ up'[sock] = up[sock]
    BY <1>3, <2>1, <2>5
  <2>7. sock # NoConn /\ Unanswered(sock)' => Unanswered(sock)
    <3>1. ASSUME sock # NoConn, Unanswered(sock)'
          PROVE  Unanswered(sock)
      <4>1. PICK s \in Conn : s = sock
        BY <1>3, <3>1
      <4>2. Used(s) => Used(s)'
        BY <1>2
      <4>3. QED
        BY <1>1, <2>1, <3>1, <4>1, <4>2 DEF Unanswered, Used
    <3>2. QED
      BY <3>1
  <2>8. cpc' \in {"connect", "done"} => sock' = NoConn
    BY <2>1 DEF OwnInv
  <2>9. Running /\ sock # NoConn => ours'[sock]
    BY <2>6 DEF OwnInv
  <2>10. Running /\ sock # NoConn /\ Unanswered(sock)' =>
           /\ Opening' /\ down'[sock] = <<>>
           /\ \A i \in 1..Len(up'[sock]) : GoodResume(up'[sock][i])
    BY <2>1, <2>6, <2>7 DEF OwnInv, Opening, GoodResume
  <2>11. QED
    BY <1>1, <1>4, <2>1, <2>2, <2>4, <2>8, <2>9, <2>10 DEF OwnInv, GoodResume, Unanswered, Used
<1>19. QED
  BY <1>9, <1>10, <1>11, <1>12, <1>13, <1>14, <1>15, <1>16, <1>17, <1>18 DEF Agent, Environment

LEMMA InitOwn == Init => OwnInv
  BY DEF Init, NetInit, ServerInit, OwnInv, SessionFirst, Conn, NoConn

\* The agent's connection stays the agent's in every step.
LEMMA NextOwn ==
    Orderly => (IInv /\ IInv' /\ EventsInv /\ FramesInv /\ UsedInv /\ OwnInv /\ [Next]_vars
                => OwnInv')
<1>. SUFFICES ASSUME Orderly, IInv, IInv', EventsInv, FramesInv, UsedInv, OwnInv, [Next]_vars
              PROVE  OwnInv'
  OBVIOUS
<1>0. TypeOK /\ TypeOK' /\ ControlOK /\ VisitorsKept
  BY DEF IInv
<1>1. CASE ServerStep
  BY <1>0, <1>1, OwnServer DEF ServerStep
<1>2. CASE Agent \/ Environment
  BY <1>0, <1>2, OwnAgent
<1>3. CASE Finished \/ UNCHANGED vars
  BY <1>3 DEF Finished, vars, netVars, serverVars, transportVars, clientVars, OwnInv, SessionFirst,
     Unanswered, Used, Running, Opening, GoodResume, IsEvent, IsSession, IsDecision
<1>4. QED
  BY <1>1, <1>2, <1>3 DEF Next

-----------------------------------------------------------------------------
(* Session events reach the agent in turn *)

\* Session events that reached the agent, or its connection, precede the others.
Precede ==
    /\ Reached \in SUBSET Sessions /\ Sessions \in SUBSET SessionEvent
    /\ \A x \in Sessions, y \in Reached : x.sequence <= y.sequence => x \in Reached
    /\ \A x \in Sessions : x.sequence <= lifecycleSequence

LEMMA ReachedFirst == TypeOK /\ EventsInv => Precede
<1>. SUFFICES ASSUME TypeOK, EventsInv PROVE Precede
  OBVIOUS
<1>1. \A x \in SessionEvent : x.sequence \in Nat
  BY DEF SessionEvent, Event
<1>2. \A y \in Reached : Past(y)
  BY DEF Reached, Stored, Arriving, Lists, Carries, EventsInv, EventsPast, TypeOK, ClientTypeOK
<1>3. \A x \in SessionEvent, y \in Reached : Queued(x) => y.sequence < x.sequence
  BY <1>2 DEF Queued, Lists, Past
<1>4. \A x \in SessionEvent : Queued(x) => x.sequence <= lifecycleSequence
  BY DEF Queued, Lists, EventsInv, EventsPast
<1>5. Reached \in SUBSET Sessions /\ Sessions \in SUBSET SessionEvent
      /\ \A x \in Sessions : x \in Reached \/ Queued(x)
  BY DEF Reached, Sessions
<1>6. \A x \in Sessions : x.sequence <= lifecycleSequence
  BY <1>2, <1>4, <1>5 DEF Past
<1>7. ASSUME NEW x \in Sessions, NEW y \in Reached, x.sequence <= y.sequence
      PROVE  x \in Reached
  <2>1. x \in SessionEvent /\ y \in SessionEvent
    BY <1>5
  <2>2. ~Queued(x)
    BY <1>1, <1>3, <1>7, <2>1
  <2>3. QED
    BY <1>5, <2>2
<1>8. QED
  BY <1>5, <1>6, <1>7 DEF Precede

\* The stored session events precede those on their way.
LEMMA StoredBefore ==
    ASSUME TypeOK, EventsInv
    PROVE  \A x \in Reached, y \in {e \in SessionEvent : Stored(e)} :
             x.sequence <= y.sequence => x \in {e \in SessionEvent : Stored(e)}
<1>1. SUFFICES ASSUME NEW x \in Reached, NEW y \in SessionEvent, Stored(y),
                      x.sequence <= y.sequence
               PROVE  Stored(x) /\ x \in SessionEvent
  OBVIOUS
<1>2. x \in SessionEvent /\ x.sequence \in Nat /\ y.sequence \in Nat
  BY DEF Reached, SessionEvent, Event
<1>3. Arriving(x) => y.sequence < x.sequence
  BY <1>1 DEF Stored, Arriving, Lists, Carries, EventsInv, StoredFirst
<1>4. QED
  BY <1>1, <1>2, <1>3 DEF Reached

\* What the agent finds when the end of its queue is lost comes before the rest.
LEMMA ReachedCut ==
    ASSUME TypeOK, EventsInv, UNCHANGED <<sock, lifecycle>>,
           sock # NoConn => Begins(down'[sock], down[sock])
    PROVE  /\ Reached' \in SUBSET Reached
           /\ \A x \in Reached, y \in Reached' : x.sequence <= y.sequence => x \in Reached'
<1>1. sock # NoConn => Len(down[sock]) \in Nat /\ sock \in Conn
  <2>1. down \in [Conn -> Seq(DownFrame)] /\ sock \in Conn \cup {NoConn}
    BY DEF TypeOK, NetTypeOK, ClientTypeOK
  <2>2. sock # NoConn => down[sock] \in Seq(DownFrame)
    BY <2>1
  <2>3. QED
    BY <2>1, <2>2, LenProperties
<1>2. \A e : Stored(e)' <=> Stored(e)
  BY DEF Stored, Lists
<1>3. ASSUME NEW e, Arriving(e)'
      PROVE  Arriving(e)
  <2>1. sock # NoConn /\ Carries(down'[sock], e)
    BY <1>3 DEF Arriving
  <2>2. PICK k \in 1..Len(down'[sock]) : IsEvent(down'[sock][k]) /\ down'[sock][k].event = e
    BY <2>1 DEF Carries
  <2>3. Len(down'[sock]) <= Len(down[sock]) /\ down'[sock][k] = down[sock][k]
    BY <2>1, <2>2 DEF Begins
  <2>4. k \in 1..Len(down[sock])
    BY <1>1, <2>1, <2>2, <2>3
  <2>5. QED
    BY <2>1, <2>2, <2>3, <2>4 DEF Arriving, Carries
<1>4. \A e \in SessionEvent : e \in Reached' <=> Stored(e) \/ Arriving(e)'
  BY <1>2 DEF Reached
<1>5. Reached' \in SUBSET SessionEvent /\ Reached \in SUBSET SessionEvent
  BY DEF Reached
<1>6. Reached' \in SUBSET Reached
  BY <1>3, <1>4, <1>5 DEF Reached
<1>7. ASSUME NEW x \in Reached, NEW y \in Reached', x.sequence <= y.sequence
      PROVE  x \in Reached'
  <2>0. x \in SessionEvent /\ y \in SessionEvent /\ x.sequence \in Nat /\ y.sequence \in Nat
        /\ y \in Reached
    BY <1>5, <1>6 DEF SessionEvent, Event
  <2>1. CASE Stored(x)
    BY <1>4, <2>0, <2>1
  <2>2. CASE Stored(y)
    <3>1. Stored(x)
      BY <1>7, <2>0, <2>2, StoredBefore
    <3>2. QED
      BY <1>4, <2>0, <3>1
  <2>3. CASE ~Stored(x) /\ Arriving(y)'
    <3>1. sock # NoConn /\ Carries(down'[sock], y) /\ Carries(down[sock], x)
      BY <2>3 DEF Reached, Arriving
    <3>2. PICK m \in 1..Len(down'[sock]) : IsEvent(down'[sock][m]) /\ down'[sock][m].event = y
      BY <3>1 DEF Carries
    <3>3. PICK k \in 1..Len(down[sock]) : IsEvent(down[sock][k]) /\ down[sock][k].event = x
      BY <3>1 DEF Carries
    <3>4. Len(down'[sock]) <= Len(down[sock])
          /\ \A i \in 1..Len(down'[sock]) : down'[sock][i] = down[sock][i]
      BY <3>1 DEF Begins
    <3>5. m \in 1..Len(down[sock]) /\ down[sock][m] = down'[sock][m] /\ m \in Nat /\ k \in Nat
      BY <1>1, <3>1, <3>2, <3>3, <3>4
    <3>6. m < k => y.sequence < x.sequence
      BY <1>1, <3>1, <3>2, <3>3, <3>5 DEF EventsInv, QueuesRise
    <3>7. ~(m < k)
      BY <1>7, <2>0, <3>6
    <3>8. k \in 1..Len(down'[sock]) /\ down'[sock][k] = down[sock][k]
      <4>1. k \in 1..m
        BY <3>3, <3>5, <3>7
      <4>2. k \in 1..Len(down'[sock])
        BY <3>2, <4>1
      <4>3. QED
        BY <3>4, <4>2
    <3>9. Arriving(x)'
      BY <3>1, <3>3, <3>8 DEF Arriving, Carries
    <3>10. QED
      BY <1>4, <2>0, <3>9
  <2>4. QED
    BY <1>4, <2>0, <2>1, <2>2, <2>3
<1>8. QED
  BY <1>6, <1>7

\* Every server step keeps the alternation.
LEMMA AltServer ==
    ASSUME TypeOK, TypeOK', ControlOK, VisitorsKept, EventsInv, EventsInv', FramesInv, UsedInv,
           OwnInv, AltInv, Server, UNCHANGED clientVars
    PROVE  AltInv'
<1>1. CASE Running
  <2>0. NextEvent("SessionAttached") \in SessionEvent /\ NextEvent("SessionDetached") \in SessionEvent
        /\ NextEvent("SessionAttached").kind = "SessionAttached"
        /\ NextEvent("SessionDetached").kind = "SessionDetached"
        /\ NextEvent("SessionAttached").sequence = lifecycleSequence + 1
        /\ NextEvent("SessionDetached").sequence = lifecycleSequence + 1
    BY NextEventType, TypeParts DEF SessionEvent, IsSession, SessionEvents, NextEvent, LifecycleKind
  <2>1. /\ Sessions \in SUBSET SessionEvent
        /\ \A x \in Sessions : x.sequence < lifecycleSequence + 1
    <3>1. lifecycleSequence \in Nat /\ \A x \in SessionEvent : x.sequence \in Nat
      BY DEF TypeOK, ServerTypeOK, SessionEvent, Event
    <3>2. QED
      BY <3>1, ReachedFirst DEF Precede
  <2>2. Alternates(Sessions) /\ (EndsAttached(Sessions) <=> stream # NoConn)
    BY <1>1 DEF AltInv
  <2>3. Alternates(Sessions') /\ (EndsAttached(Sessions') <=> stream' # NoConn)
    <3>1. CASE Sessions' = Sessions /\ (stream' # NoConn <=> stream # NoConn)
      BY <2>2, <3>1
    <3>2. CASE /\ stream = NoConn /\ stream' # NoConn
               /\ Sessions' = Sessions \cup {NextEvent("SessionAttached")}
      BY <2>0, <2>1, <2>2, <3>2, AlternatesNext
    <3>3. CASE /\ stream # NoConn /\ stream' = NoConn
               /\ Sessions' = Sessions \cup {NextEvent("SessionDetached")}
      BY <2>0, <2>1, <2>2, <3>3, AlternatesNext
    <3>4. QED
      BY <1>1, <3>1, <3>2, <3>3, ServerSessions DEF EventsInv
  <2>4. /\ Reached' \in SUBSET Sessions' /\ Sessions' \in SUBSET SessionEvent
        /\ \A x \in Sessions', y \in Reached' : x.sequence <= y.sequence => x \in Reached'
    <3>1. (TypeOK /\ EventsInv => Precede)'
      BY ReachedFirst, PTL
    <3>2. QED
      BY <3>1 DEF Precede
  <2>5. Alternates(Reached')
    BY <2>3, <2>4, AlternatesDown
  <2>6. QED
    BY <2>3, <2>5 DEF AltInv
<1>2. CASE ~Running
  <2>1. Exits /\ ~Running'
    BY <1>2, EndedExits DEF Exits, serverVars, Running
  <2>2. Quiet
    BY <2>1, QuietReleases DEF Exits
  <2>3. UNCHANGED <<sock, lifecycle>> /\ (sock # NoConn => Begins(down'[sock], down[sock]))
    BY <2>2 DEF clientVars, Quiet, TypeOK, ClientTypeOK
  <2>4. /\ Reached' \in SUBSET Reached
        /\ \A x \in Reached, y \in Reached' : x.sequence <= y.sequence => x \in Reached'
    BY <2>3, ReachedCut
  <2>5. Reached \in SUBSET SessionEvent
    BY DEF Reached
  <2>6. Alternates(Reached')
    BY <2>4, <2>5, AlternatesDown DEF AltInv
  <2>7. QED
    BY <2>1, <2>6 DEF AltInv
<1>3. QED
  BY <1>1, <1>2

\* Steps that change neither lists nor queues that can hold a session event.
LEMMA ReachedStay ==
    ASSUME UNCHANGED <<sock, lifecycle, pendingLifecycle>>,
           sock # NoConn => down'[sock] = down[sock]
    PROVE  Sessions' = Sessions /\ Reached' = Reached
<1>1. \A e \in SessionEvent : /\ Stored(e)' <=> Stored(e)
                              /\ Arriving(e)' <=> Arriving(e)
                              /\ Queued(e)' <=> Queued(e)
  BY DEF Stored, Arriving, Queued, Lists, Carries, IsEvent
<1>2. QED
  BY <1>1 DEF Sessions, Reached

\* Taking a frame moves its event to the list, or finds none.
LEMMA ReachedTake ==
    ASSUME TypeOK, sock \in Conn, down[sock] # <<>>, UNCHANGED <<sock, pendingLifecycle>>,
           down' = [down EXCEPT ![sock] = Tail(@)],
           IF IsEvent(Head(down[sock]))
           THEN lifecycle' = Append(lifecycle, Head(down[sock]).event)
           ELSE lifecycle' = lifecycle
    PROVE  Sessions' = Sessions /\ Reached' = Reached
<1>. DEFINE f == Head(down[sock])
<1>1. /\ down \in [Conn -> Seq(DownFrame)] /\ down[sock] \in Seq(DownFrame) /\ sock # NoConn
      /\ lifecycle \in Seq(Event)
  BY DEF TypeOK, NetTypeOK, ClientTypeOK, Conn, NoConn
<1>2. \A e : Carries(down[sock], e) <=> Carries(down'[sock], e) \/ (IsEvent(f) /\ e = f.event)
  <2>1. down'[sock] = Tail(down[sock])
    BY <1>1
  <2>2. QED
    BY <1>1, <2>1, CarriesTail
<1>3. IsEvent(f) => f.event \in Event
  BY <1>1, QueueHead DEF IsEvent, DownFrame
<1>4. \A e : Lists(lifecycle', e) <=> Lists(lifecycle, e) \/ (IsEvent(f) /\ e = f.event)
  <2>1. CASE IsEvent(f)
    <3>1. PICK x \in Event : x = f.event
      BY <1>3, <2>1
    <3>2. lifecycle' = Append(lifecycle, x)
      BY <2>1, <3>1
    <3>3. \A e : Lists(Append(lifecycle, x), e) <=> Lists(lifecycle, e) \/ e = x
      BY <1>1, ListsAppend
    <3>4. QED
      BY <2>1, <3>1, <3>2, <3>3
  <2>2. CASE ~IsEvent(f)
    BY <2>2
  <2>3. QED
    BY <2>1, <2>2
<1>. HIDE DEF f
<1>5. \A e \in SessionEvent :
        /\ Stored(e)' <=> Stored(e) \/ (IsEvent(f) /\ e = f.event)
        /\ Arriving(e) <=> Arriving(e)' \/ (IsEvent(f) /\ e = f.event)
        /\ Queued(e)' <=> Queued(e)
  BY <1>1, <1>2, <1>4 DEF Stored, Arriving, Queued, Lists, Carries, IsEvent
<1>6. QED
  BY <1>5 DEF Sessions, Reached

\* A step of the agent or its environment moves session events from its
\* connection to its list, or gives the connection up: then, while the process
\* runs, no session event was on its way.
LEMMA AgentSessions ==
    ASSUME Orderly, TypeOK, ControlOK, EventsInv, UsedInv, FramesInv, NoProtocolError',
           OwnInv, Agent \/ Environment
    PROVE  \/ Sessions' = Sessions /\ Reached' = Reached
           \/ /\ Reached' = {e \in SessionEvent : Stored(e)}
              /\ Running => Sessions' = Sessions
<1>1. UNCHANGED pendingLifecycle
  BY AgentHolds DEF serverVars, transportVars
<1>2. sock \in Conn \cup {NoConn} /\ NoConn \notin Conn
  BY DEF TypeOK, ClientTypeOK, Conn, NoConn
<1>3. CASE Connect
  <2>1. /\ sock' = opened + 1 /\ UNCHANGED <<down, lifecycle>> /\ cpc = "connect" /\ opened' = opened + 1
    BY <1>3 DEF Connect, Opens
  <2>0. sock' \in Conn
    <3>1. opened < MaxConnections
      BY <1>3 DEF Connect, Opens
    <3>2. opened \in 0..MaxConnections
      BY DEF TypeOK, NetTypeOK
    <3>3. QED
      BY <2>1, <3>1, <3>2, NetAssumption DEF Conn
  <2>2. sock = NoConn /\ down'[sock'] = <<>>
    BY <2>0, <2>1 DEF OwnInv, EventsInv, Conn, TypeOK, NetTypeOK
  <2>3. \A e \in SessionEvent : /\ Stored(e)' <=> Stored(e)
                                /\ ~Arriving(e)' /\ ~Arriving(e)
                                /\ Queued(e)' <=> Queued(e)
    BY <1>1, <2>1, <2>2 DEF Stored, Arriving, Queued, Lists, Carries
  <2>4. QED
    BY <2>3 DEF Sessions, Reached
<1>4. CASE SendResume \/ SendAction \/ SendStray
  BY <1>1, <1>4, ReachedStay DEF SendResume, SendAction, SendStray, AgentWrites
<1>5. ASSUME sock # NoConn, down[sock] # <<>>, UNCHANGED sock,
             down' = [down EXCEPT ![sock] = Tail(@)],
             IF IsEvent(Head(down[sock]))
             THEN lifecycle' = Append(lifecycle, Head(down[sock]).event)
             ELSE lifecycle' = lifecycle
      PROVE  Sessions' = Sessions /\ Reached' = Reached
  BY <1>1, <1>2, <1>5, ReachedTake
<1>6. CASE ReceiveMetadata
  <2>1. sock # NoConn /\ down[sock] # <<>> /\ UNCHANGED sock /\ down' = [down EXCEPT ![sock] = Tail(@)]
    BY <1>6 DEF ReceiveMetadata, AgentReads, ControlOK
  <2>2. IF IsEvent(Head(down[sock]))
        THEN lifecycle' = Append(lifecycle, Head(down[sock]).event)
        ELSE lifecycle' = lifecycle
    BY <1>6 DEF ReceiveMetadata, StoreLifecycle, IsEvent, NoProtocolError
  <2>3. QED
    BY <1>5, <2>1, <2>2
<1>7. CASE ReadNext
  <2>1. sock # NoConn /\ down[sock] # <<>> /\ UNCHANGED sock /\ down' = [down EXCEPT ![sock] = Tail(@)]
    BY <1>7 DEF ReadNext, AgentReads, ControlOK
  <2>2. IF IsEvent(Head(down[sock]))
        THEN lifecycle' = Append(lifecycle, Head(down[sock]).event)
        ELSE lifecycle' = lifecycle
    BY <1>7 DEF ReadNext, StoreLifecycle, IsEvent
  <2>3. QED
    BY <1>5, <2>1, <2>2
<1>8. CASE ReadExtension
  <2>1. sock # NoConn /\ down[sock] # <<>> /\ UNCHANGED sock /\ down' = [down EXCEPT ![sock] = Tail(@)]
    BY <1>8 DEF ReadExtension, AgentReads, ControlOK
  <2>2. ~IsEvent(Head(down[sock])) /\ lifecycle' = lifecycle
    BY <1>8 DEF ReadExtension, IsEvent, NoProtocolError
  <2>3. QED
    BY <1>5, <2>1, <2>2
<1>9. CASE GiveUp
  BY <1>1, <1>9, ReachedStay DEF GiveUp, netVars
<1>10. CASE Visit
  BY <1>1, <1>10, ReachedStay DEF Visit, Opens, clientVars
<1>11. ASSUME sock' = NoConn, UNCHANGED lifecycle
       PROVE  /\ \A e \in SessionEvent : /\ Stored(e)' <=> Stored(e)
                                         /\ ~Arriving(e)'
                                         /\ Queued(e)' <=> Queued(e)
              /\ Reached' = {e \in SessionEvent : Stored(e)}
  <2>1. \A e \in SessionEvent : /\ Stored(e)' <=> Stored(e)
                                /\ ~Arriving(e)'
                                /\ Queued(e)' <=> Queued(e)
    BY <1>1, <1>11 DEF Stored, Arriving, Queued, Lists
  <2>2. QED
    BY <2>1 DEF Reached
<1>12. CASE FindClosed
  BY <1>11, <1>12 DEF FindClosed, OwnInv
<1>13. CASE Lose
  <2>1. /\ (IF cpc = "idle" /\ ~settled THEN "opening" ELSE cpc) \in {"idle", "extension", "decide"}
        /\ sock # NoConn /\ sock' = NoConn /\ UNCHANGED lifecycle
    BY <1>13 DEF Lose, Orderly
  <2>2. settled
    BY <2>1 DEF UsedInv
  <2>3. \A e \in SessionEvent : ~Arriving(e)
    BY <2>1, <2>2 DEF OwnInv, SessionFirst, Arriving, Carries, SessionEvent
  <2>4. Sessions' = Sessions
    BY <1>11, <2>1, <2>3 DEF Sessions
  <2>5. QED
    BY <1>11, <2>1, <2>4
<1>14. QED
  BY <1>3, <1>4, <1>6, <1>7, <1>8, <1>9, <1>10, <1>12, <1>13 DEF Agent, Environment

\* Every step of the agent and its environment keeps the alternation.
LEMMA AltAgent ==
    ASSUME Orderly, TypeOK, ControlOK, EventsInv, UsedInv, FramesInv, NoProtocolError',
           OwnInv, AltInv, Agent \/ Environment
    PROVE  AltInv'
<1>1. UNCHANGED stream /\ (Running' <=> Running)
  BY AgentHolds DEF serverVars, transportVars, Running
<1>2. CASE Sessions' = Sessions /\ Reached' = Reached
  BY <1>1, <1>2 DEF AltInv
<1>3. CASE /\ Reached' = {e \in SessionEvent : Stored(e)}
           /\ Running => Sessions' = Sessions
  <2>1. Reached' \in SUBSET Reached /\ Reached \in SUBSET SessionEvent
    BY <1>3 DEF Reached
  <2>2. \A x \in Reached, y \in Reached' : x.sequence <= y.sequence => x \in Reached'
    BY <1>3, StoredBefore
  <2>3. Alternates(Reached')
    BY <2>1, <2>2, AlternatesDown DEF AltInv
  <2>4. QED
    BY <1>1, <1>3, <2>3 DEF AltInv
<1>4. QED
  BY <1>2, <1>3, AgentSessions

LEMMA InitAlt == Init => AltInv
<1>. SUFFICES ASSUME Init PROVE AltInv
  OBVIOUS
<1>1. lifecycle = <<>> /\ pendingLifecycle = <<>> /\ sock = NoConn /\ stream = NoConn
  BY DEF Init, NetInit, ServerInit
<1>2. Sessions = {} /\ Reached = {}
  BY <1>1 DEF Sessions, Reached, Stored, Arriving, Queued, Lists
<1>3. QED
  BY <1>1, <1>2 DEF AltInv, Alternates, EndsAttached

\* Attachment and detachment alternate in every step.
LEMMA NextAlt ==
    Orderly => (/\ IInv /\ IInv' /\ EventsInv /\ EventsInv' /\ FramesInv /\ FramesInv' /\ UsedInv
                /\ OwnInv /\ AltInv /\ [Next]_vars
                => AltInv')
<1>. SUFFICES ASSUME Orderly, IInv, IInv', EventsInv, EventsInv', FramesInv, FramesInv', UsedInv,
                     OwnInv, AltInv, [Next]_vars
              PROVE  AltInv'
  OBVIOUS
<1>0. TypeOK /\ TypeOK' /\ ControlOK /\ VisitorsKept /\ NoProtocolError'
  BY DEF IInv, FramesInv
<1>1. CASE ServerStep
  BY <1>0, <1>1, AltServer DEF ServerStep
<1>2. CASE Agent \/ Environment
  BY <1>0, <1>2, AltAgent
<1>3. CASE Finished \/ UNCHANGED vars
  <2>1. UNCHANGED <<sock, lifecycle, pendingLifecycle, down, stream, pc>>
    BY <1>3 DEF Finished, vars, netVars, serverVars, transportVars, clientVars
  <2>2. Sessions' = Sessions /\ Reached' = Reached
    BY <2>1, ReachedStay
  <2>3. QED
    BY <2>1, <2>2 DEF AltInv, Running
<1>4. QED
  BY <1>1, <1>2, <1>3 DEF Next

\* An agent that loses only established connections stores attachments and
\* detachments in turn, starting with an attachment: none is lost, repeated or
\* out of place, however often it resumes (attach, exchange).
THEOREM SessionsAlternate == Orderly => (Spec => []SessionEventsAlternate)
<1>1. SUFFICES ASSUME Orderly PROVE Spec => []SessionEventsAlternate
  OBVIOUS
<1>2. /\ IInv /\ IInv' /\ EventsInv /\ FramesInv /\ UsedInv /\ OwnInv /\ [Next]_vars
      => OwnInv'
  BY <1>1, NextOwn
<1>3. /\ IInv /\ IInv' /\ EventsInv /\ EventsInv' /\ FramesInv /\ FramesInv' /\ UsedInv
      /\ OwnInv /\ AltInv /\ [Next]_vars
      => AltInv'
  BY <1>1, NextAlt
<1>4. Spec => []UsedInv
  BY <1>1, UsedConnections
<1>5. Spec => [](OwnInv /\ AltInv)
  BY <1>2, <1>3, <1>4, InductiveInvariant, EventsInOrder, FramesInPlace, InitOwn, InitAlt, PTL
     DEF Spec
<1>6. IInv /\ EventsInv /\ AltInv => SessionEventsAlternate
  BY StoredAlternate DEF IInv, AltInv
<1>7. QED
  BY <1>5, <1>6, InductiveInvariant, EventsInOrder, PTL
=============================================================================
