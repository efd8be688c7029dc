--------------------------- MODULE LockstepServer ---------------------------
(***************************************************************************)
(* The `ertw-lockstep` process: the session transport, the agent that sits  *)
(* in the world behind it, and the main loop that steps the world.  All of  *)
(* it is one thread, so the state is a program counter plus the fields of   *)
(* SessionTransport and LockstepAgent; every socket call is a step.         *)
(***************************************************************************)
EXTENDS LockstepNet

CONSTANTS
    PhysicsTicksPerDecision,   \* LockstepConfig::physics_ticks_per_decision
    Decisions,                 \* the binary's `decisions` argument
    MayDie,                    \* TRUE: physics may kill the controlled entity
    MaxBirths                  \* bound: EntityReproduced events the world causes

ASSUME ServerAssumption ==
    /\ PhysicsTicksPerDecision \in Nat \ {0}
    /\ Decisions \in Nat
    /\ MayDie \in BOOLEAN
    /\ MaxBirths \in Nat

TotalTicks == Decisions * PhysicsTicksPerDecision

VARIABLES
    pc,                  \* what the server thread does next
    stream,              \* SessionTransport::stream, NoConn for None
    cand,                \* the accepted connection attach/accept_resume works on
    lifecycleSequence,
    pendingLifecycle,
    held,                \* LockstepAgent::held_action
    remaining,           \* LockstepAgent::remaining_ticks
    decisionSequence,
    previous,            \* step of the observation kept in previous_physical
    since,               \* step the delta of the running decision is taken against
    tick,                \* SimClock::step, the step of the next observation
    effect,              \* the action the last tick applied
    alive,               \* the controlled entity still has its AgentMarker
    births,
    decisions            \* history: step and action of every decision taken

transportVars == <<stream, cand, lifecycleSequence, pendingLifecycle>>
agentVars == <<held, remaining, decisionSequence, previous, since, decisions>>
worldVars == <<tick, effect, alive, births>>
serverVars == <<pc, transportVars, agentVars, worldVars>>

ServerPC == {"boot", "metadata", "drain", "alive", "tick", "exchange", "resume",
             "extension", "await", "report", "terminate", "ended", "failed"}

ServerTypeOK ==
    /\ pc \in ServerPC
    /\ stream \in Conn \cup {NoConn}
    /\ cand \in Conn \cup {NoConn}
    /\ lifecycleSequence \in Nat
    /\ pendingLifecycle \in Seq(Event)
    /\ held \in Action
    /\ remaining \in 0..(PhysicsTicksPerDecision - 1)
    /\ decisionSequence \in Nat
    /\ previous \in Nat \cup {NoStep}
    /\ since \in Nat \cup {NoStep}
    /\ tick \in Nat
    /\ effect \in Action
    /\ alive \in BOOLEAN
    /\ births \in Nat
    /\ decisions \in Seq([step : Nat, action : Action])

ServerInit ==
    /\ pc = "boot"
    /\ stream = NoConn
    /\ cand = NoConn
    /\ lifecycleSequence = 0
    /\ pendingLifecycle = <<>>
    /\ held = DefaultAction
    /\ remaining = 0
    /\ decisionSequence = 0
    /\ previous = NoStep
    /\ since = NoStep
    /\ tick = 0
    /\ effect = DefaultAction
    /\ alive = TRUE
    /\ births = 0
    /\ decisions = <<>>

\* LockstepSession::new runs before the first decision; every later attach runs
\* inside exchange.
Booting == decisionSequence = 0

-----------------------------------------------------------------------------
(* The world tick that LockstepAgent::act's return value feeds *)

EndTick(action) ==
    /\ effect' = action
    /\ tick' = tick + 1
    /\ alive' \in BOOLEAN
    /\ ~MayDie => alive'
    /\ pc' = "report"
    /\ UNCHANGED births

DecideHoldingOneMore(action) ==
    /\ held' = action
    /\ remaining' = PhysicsTicksPerDecision
    /\ decisions' = Append(decisions, [step |-> tick, action |-> action])
    /\ UNCHANGED <<decisionSequence, previous, since>>
    /\ EndTick(action)

\* act() with the exchange's action, or with ActionTensor::default() when the
\* exchange returned an error.
Decide(action) ==
    /\ held' = action
    /\ remaining' = PhysicsTicksPerDecision - 1
    /\ decisions' = Append(decisions, [step |-> tick, action |-> action])
    /\ UNCHANGED <<decisionSequence, previous, since>>
    /\ EndTick(action)

ExchangeFails == Decide(DefaultAction)

-----------------------------------------------------------------------------
(* SessionTransport::emit_lifecycle *)

NextEvent(kind) == [sequence |-> lifecycleSequence + 1, kind |-> kind]

\* LockstepSession::emit: the write's error is ignored, and with it the event.
Emit(kind) ==
    /\ lifecycleSequence' = lifecycleSequence + 1
    /\ \/ /\ stream = NoConn
          /\ pendingLifecycle' = Append(pendingLifecycle, NextEvent(kind))
          /\ UNCHANGED netVars
       \/ /\ stream # NoConn
          /\ Writes(stream, LifecycleFrame(NextEvent(kind))) \/ TimesOut(stream)
          /\ UNCHANGED pendingLifecycle
    /\ UNCHANGED <<stream, cand>>

DetachReusingSequence ==
    /\ Releases(stream)
    /\ stream' = NoConn
    /\ pendingLifecycle' =
         Append(pendingLifecycle, [sequence |-> lifecycleSequence, kind |-> "SessionDetached"])
    /\ pc' = "exchange"
    /\ UNCHANGED <<cand, lifecycleSequence, agentVars, worldVars>>

DetachIntoAwait ==
    /\ Releases(stream)
    /\ stream' = NoConn
    /\ lifecycleSequence' = lifecycleSequence + 1
    /\ pendingLifecycle' = Append(pendingLifecycle, NextEvent("SessionDetached"))
    /\ pc' = "await"
    /\ UNCHANGED <<cand, agentVars, worldVars>>

DetachDroppingEvent ==
    /\ Releases(stream)
    /\ stream' = NoConn
    /\ lifecycleSequence' = lifecycleSequence + 1
    /\ pc' = "exchange"
    /\ UNCHANGED <<cand, pendingLifecycle, agentVars, worldVars>>

\* The disconnect arm of exchange: drop the stream, queue SessionDetached.
Detach ==
    /\ Releases(stream)
    /\ stream' = NoConn
    /\ lifecycleSequence' = lifecycleSequence + 1
    /\ pendingLifecycle' = Append(pendingLifecycle, NextEvent("SessionDetached"))
    /\ pc' = "exchange"
    /\ UNCHANGED <<cand, agentVars, worldVars>>

\* A write or read on the attached stream fails: a disconnect detaches, any
\* other error leaves exchange and the stream in place.
StreamBreaks(breaks) ==
    \/ breaks /\ Detach
    \/ TimesOut(stream) /\ ExchangeFails /\ UNCHANGED transportVars

-----------------------------------------------------------------------------
(* attach: metadata, the queued lifecycle events, then SessionAttached *)

\* The error of attach: `?` ends LockstepSession::new and with it the process,
\* or ends exchange.
AttachError ==
    \/ Booting /\ pc' = "failed" /\ UNCHANGED <<agentVars, worldVars>>
    \/ ~Booting /\ ExchangeFails

\* Drain removes what it has not yielded yet when it is dropped on the error.
AttachFails ==
    /\ WriteBreaks(cand) \/ Expires(cand)
    /\ Releases(cand)
    /\ cand' = NoConn
    /\ pendingLifecycle' = IF pc = "drain" THEN <<>> ELSE pendingLifecycle
    /\ UNCHANGED <<stream, lifecycleSequence>>
    /\ AttachError

AcceptFirst ==
    /\ pc = "boot"
    /\ \E c \in Conn : Accepts(c) /\ cand' = c
    /\ pc' = "metadata"
    /\ UNCHANGED <<stream, lifecycleSequence, pendingLifecycle, agentVars, worldVars>>

WriteMetadata ==
    /\ pc = "metadata"
    /\ \/ /\ Writes(cand, MetadataFrame)
          /\ pc' = "drain"
          /\ UNCHANGED <<transportVars, agentVars, worldVars>>
       \/ AttachFails

DrainEvent ==
    /\ pc = "drain"
    /\ pendingLifecycle # <<>>
    /\ \/ /\ Writes(cand, LifecycleFrame(Head(pendingLifecycle)))
          /\ pendingLifecycle' = Tail(pendingLifecycle)
          /\ UNCHANGED <<pc, stream, cand, lifecycleSequence, agentVars, worldVars>>
       \/ AttachFails

\* The stream is installed before SessionAttached is written, so an error of
\* that write leaves it installed.
Attached ==
    /\ pc = "drain"
    /\ pendingLifecycle = <<>>
    /\ stream' = cand
    /\ cand' = NoConn
    /\ lifecycleSequence' = lifecycleSequence + 1
    /\ UNCHANGED pendingLifecycle
    /\ \/ /\ Writes(cand, LifecycleFrame(NextEvent("SessionAttached")))
          /\ pc' = IF Booting THEN "alive" ELSE "exchange"
          /\ UNCHANGED <<agentVars, worldVars>>
       \/ /\ (WriteBreaks(cand) /\ UNCHANGED netVars) \/ TimesOut(cand)
          /\ AttachError

EmitAlive ==
    /\ pc = "alive"
    /\ Emit("EntityAlive")
    /\ pc' = IF TotalTicks = 0 THEN "terminate" ELSE "tick"
    /\ UNCHANGED <<agentVars, worldVars>>

-----------------------------------------------------------------------------
(* accept_resume *)

AcceptResume ==
    /\ pc = "exchange"
    /\ stream = NoConn
    /\ \E c \in Conn : Accepts(c) /\ cand' = c
    /\ pc' = "resume"
    /\ UNCHANGED <<stream, lifecycleSequence, pendingLifecycle, agentVars, worldVars>>

AnyResume(f) == f.kind = "RESUME"
GoodResume(f) == f.kind = "RESUME" /\ f.valid

ReadResume ==
    /\ pc = "resume"
    /\ up[cand] # <<>>
    /\ GoodResume(Head(up[cand]))
    /\ Reads(cand, Head(up[cand]))
    /\ pc' = "metadata"
    /\ UNCHANGED <<transportVars, agentVars, worldVars>>

RefuseAndStay ==
    /\ pc = "resume"
    /\ up[cand] # <<>>
    /\ ~GoodResume(Head(up[cand]))
    /\ Reads(cand, Head(up[cand]))
    /\ UNCHANGED serverVars

\* Another frame kind, or credentials of another session: the connection is
\* dropped and the loop accepts the next one.
RefuseResume ==
    /\ pc = "resume"
    /\ up[cand] # <<>>
    /\ ~GoodResume(Head(up[cand]))
    /\ ReadsAndReleases(cand)
    /\ cand' = NoConn
    /\ pc' = "exchange"
    /\ UNCHANGED <<stream, lifecycleSequence, pendingLifecycle, agentVars, worldVars>>

\* read_frame(..)? : a connection that ends before its resume frame ends the
\* whole exchange.
ResumeBreaks ==
    /\ pc = "resume"
    /\ ReadBreaks(cand)
    /\ Releases(cand)
    /\ cand' = NoConn
    /\ ExchangeFails
    /\ UNCHANGED <<stream, lifecycleSequence, pendingLifecycle>>

-----------------------------------------------------------------------------
(* act and exchange *)

\* remaining_ticks > 0: the held action again, without the fabricate edge.
HoldKeepingPulse(action) == action
Hold(action) == [action EXCEPT !.fabricate = FALSE]

ActHolding ==
    /\ pc = "tick"
    /\ remaining > 0
    /\ remaining' = remaining - 1
    /\ EndTick(Hold(held))
    /\ UNCHANGED <<netVars, transportVars, held, decisionSequence, previous, since, decisions>>

ActDecidingAgainstFirst ==
    /\ pc = "tick"
    /\ remaining = 0
    /\ since' = previous
    /\ previous' = IF previous = NoStep THEN tick ELSE previous
    /\ decisionSequence' = decisionSequence + 1
    /\ pc' = "exchange"
    /\ UNCHANGED <<netVars, transportVars, held, remaining, decisions, worldVars>>

\* The delta and the decision sequence are fixed here, before the exchange.
ActDeciding ==
    /\ pc = "tick"
    /\ remaining = 0
    /\ since' = previous
    /\ previous' = tick
    /\ decisionSequence' = decisionSequence + 1
    /\ pc' = "exchange"
    /\ UNCHANGED <<netVars, transportVars, held, remaining, decisions, worldVars>>

WriteObservation ==
    /\ pc = "exchange"
    /\ stream # NoConn
    /\ \/ /\ Writes(stream, ObservationFrame(tick))
          /\ pc' = "extension"
          /\ UNCHANGED <<transportVars, agentVars, worldVars>>
       \/ StreamBreaks(WriteBreaks(stream))

WriteExtension ==
    /\ pc = "extension"
    /\ \/ /\ Writes(stream, ExtensionFrame(tick, decisionSequence, since))
          /\ pc' = "await"
          /\ UNCHANGED <<transportVars, agentVars, worldVars>>
       \/ StreamBreaks(WriteBreaks(stream))

MatchesAnyStep(f) == f.kind = "ACTION"
Matches(f) == f.kind = "ACTION" /\ f.step = tick

AcceptAction ==
    /\ pc = "await"
    /\ up[stream] # <<>>
    /\ LET f == Head(up[stream]) IN
         /\ Matches(f)
         /\ Reads(stream, f)
         /\ Decide(f.action)
    /\ UNCHANGED transportVars

RejectResendingExtension ==
    /\ pc = "await"
    /\ up[stream] # <<>>
    /\ LET f == Head(up[stream]) IN ~Matches(f) /\ Reads(stream, f)
    /\ pc' = "extension"
    /\ UNCHANGED <<transportVars, agentVars, worldVars>>

\* ErrorKind::InvalidData: the same observation and extension are written again.
RejectFrame ==
    /\ pc = "await"
    /\ up[stream] # <<>>
    /\ LET f == Head(up[stream]) IN ~Matches(f) /\ Reads(stream, f)
    /\ pc' = "exchange"
    /\ UNCHANGED <<transportVars, agentVars, worldVars>>

AwaitBreaks ==
    /\ pc = "await"
    /\ up[stream] = <<>>
    /\ StreamBreaks(ReadBreaks(stream))

-----------------------------------------------------------------------------
(* main: after each tick, and at the end *)

EmitReproduced ==
    /\ pc = "report"
    /\ births < MaxBirths
    /\ births' = births + 1
    /\ Emit("EntityReproduced")
    /\ UNCHANGED <<pc, agentVars, tick, effect, alive>>

NextTick ==
    /\ pc = "report"
    /\ alive
    /\ pc' = IF tick < TotalTicks THEN "tick" ELSE "terminate"
    /\ UNCHANGED <<netVars, transportVars, agentVars, worldVars>>

EmitDied ==
    /\ pc = "report"
    /\ ~alive
    /\ Emit("EntityDied")
    /\ pc' = "terminate"
    /\ UNCHANGED <<agentVars, worldVars>>

EmitTerminated ==
    /\ pc = "terminate"
    /\ Emit("WorldTerminated")
    /\ pc' = "ended"
    /\ UNCHANGED <<agentVars, worldVars>>

\* The process is gone: the kernel closes every connection it still holds.
Exits ==
    /\ pc \in {"ended", "failed"}
    /\ \E c \in Conn : ours[c] /\ Releases(c)
    /\ UNCHANGED serverVars

Server ==
    \/ AcceptFirst \/ WriteMetadata \/ DrainEvent \/ Attached \/ EmitAlive
    \/ AcceptResume \/ ReadResume \/ RefuseResume \/ ResumeBreaks
    \/ ActHolding \/ ActDeciding
    \/ WriteObservation \/ WriteExtension \/ AcceptAction \/ RejectFrame \/ AwaitBreaks
    \/ EmitReproduced \/ NextTick \/ EmitDied \/ EmitTerminated \/ Exits
=============================================================================
