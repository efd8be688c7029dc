--------------------------- MODULE LockstepSystem ---------------------------
(***************************************************************************)
(* The lockstep server with its agent: a program that drives the Python     *)
(* LockstepClient as its README shows (next_decision, send_action, and      *)
(* reconnect after a transport failure), and visitors that connect with     *)
(* another session's credentials or another frame.                          *)
(***************************************************************************)
EXTENDS LockstepServer, FiniteSets

CONSTANTS
    Answers,       \* the actions the agent program chooses from
    LossPoints,    \* where the agent program may be when its connection is lost
    MaxVisitors,   \* bound: connections of other programs
    MaxStray       \* bound: action frames written without a pending decision

AgentPC == {"connect", "resume", "metadata", "idle", "extension", "decide",
            "protocol_error", "done"}

ASSUME ClientAssumption ==
    /\ Answers \subseteq Action
    /\ LossPoints \subseteq AgentPC \cup {"opening"}
    /\ MaxVisitors \in Nat
    /\ MaxStray \in Nat

VARIABLES
    cpc,          \* where the agent program is
    sock,         \* LockstepClient._stream, NoConn for None
    known,        \* LockstepClient.metadata is set: the credentials are known
    pending,      \* step of the observation being answered, NoStep for None
    settled,      \* an observation has arrived over this connection
    shown,        \* step of the last decision next_decision returned
    lifecycle,    \* LockstepClient.lifecycle
    offers,       \* history: every step and action the agent has written
    visitors,     \* connections that other programs opened
    strays

clientVars == <<cpc, sock, known, pending, settled, shown, lifecycle, offers, strays>>
vars == <<netVars, serverVars, clientVars, visitors>>

Offer == [step : Nat, action : Action]

ClientTypeOK ==
    /\ cpc \in AgentPC
    /\ sock \in Conn \cup {NoConn}
    /\ known \in BOOLEAN
    /\ pending \in Nat \cup {NoStep}
    /\ settled \in BOOLEAN
    /\ shown \in Nat \cup {NoStep}
    /\ lifecycle \in Seq(Event)
    /\ offers \in SUBSET Offer
    /\ visitors \in SUBSET Conn
    /\ strays \in Nat

\* Type correctness of the network, the server process and the agent program
\* (the fields of lockstep.rs and of the Python LockstepClient).
TypeOK == NetTypeOK /\ ServerTypeOK /\ ClientTypeOK

Init ==
    /\ NetInit
    /\ ServerInit
    /\ cpc = "connect"
    /\ sock = NoConn
    /\ known = FALSE
    /\ pending = NoStep
    /\ settled = FALSE
    /\ shown = NoStep
    /\ lifecycle = <<>>
    /\ offers = {}
    /\ visitors = {}
    /\ strays = 0

Running == pc \notin {"ended", "failed"}

\* A connection is left for the agent, with one kept for every visitor to come.
Spare == opened - Cardinality(visitors) < MaxConnections - MaxVisitors

-----------------------------------------------------------------------------
(* LockstepClient: connect, reconnect and the metadata that opens a session *)

\* connect() the first time; reconnect() once the credentials are known.
Connect ==
    /\ cpc = "connect"
    /\ Running
    /\ Spare
    /\ Opens(<<>>)
    /\ sock' = opened + 1
    /\ settled' = FALSE
    /\ cpc' = IF known THEN "resume" ELSE "metadata"
    /\ UNCHANGED <<serverVars, known, pending, shown, lifecycle, offers, visitors, strays>>

SendResume ==
    /\ cpc = "resume"
    /\ AgentWrites(sock, ResumeFrame(TRUE))
    /\ cpc' = "metadata"
    /\ UNCHANGED <<serverVars, sock, known, pending, settled, shown, lifecycle, offers,
                   visitors, strays>>

StoreLifecycle(f) ==
    /\ f.kind = "LIFECYCLE"
    /\ lifecycle' = Append(lifecycle, f.event)
    /\ UNCHANGED <<cpc, known, pending, settled>>

ReceiveMetadata ==
    /\ cpc = "metadata"
    /\ down[sock] # <<>>
    /\ LET f == Head(down[sock]) IN
         /\ AgentReads(sock, f)
         /\ \/ /\ f.kind = "METADATA"
               /\ known' = TRUE
               /\ cpc' = "idle"
               /\ UNCHANGED <<lifecycle, pending, settled>>
            \/ StoreLifecycle(f)
            \/ /\ f.kind \notin {"METADATA", "LIFECYCLE"}
               /\ cpc' = "protocol_error"
               /\ UNCHANGED <<known, lifecycle, pending, settled>>
    /\ UNCHANGED <<serverVars, sock, shown, offers, visitors, strays>>

-----------------------------------------------------------------------------
(* next_decision and send_action *)

ReadNext ==
    /\ cpc = "idle"
    /\ down[sock] # <<>>
    /\ LET f == Head(down[sock]) IN
         /\ AgentReads(sock, f)
         /\ \/ StoreLifecycle(f)
            \/ /\ f.kind = "METADATA"
               /\ UNCHANGED <<cpc, known, lifecycle, pending, settled>>
            \/ /\ f.kind = "OBSERVATION"
               /\ pending' = f.step
               /\ settled' = TRUE
               /\ cpc' = "extension"
               /\ UNCHANGED <<known, lifecycle>>
            \/ /\ f.kind = "EXTENSION"
               /\ cpc' = "protocol_error"
               /\ UNCHANGED <<known, lifecycle, pending, settled>>
    /\ UNCHANGED <<serverVars, sock, shown, offers, visitors, strays>>

ReadExtension ==
    /\ cpc = "extension"
    /\ down[sock] # <<>>
    /\ LET f == Head(down[sock]) IN
         /\ AgentReads(sock, f)
         /\ IF f.kind = "EXTENSION" /\ f.step = pending
            THEN cpc' = "decide" /\ shown' = f.step
            ELSE cpc' = "protocol_error" /\ UNCHANGED shown
    /\ UNCHANGED <<serverVars, sock, known, pending, settled, lifecycle, offers, visitors,
                   strays>>

SendAction ==
    /\ cpc = "decide"
    /\ \E a \in Answers :
         /\ AgentWrites(sock, ActionFrame(pending, a))
         /\ offers' = offers \cup {[step |-> pending, action |-> a]}
    /\ pending' = NoStep
    /\ cpc' = "idle"
    /\ UNCHANGED <<serverVars, sock, known, settled, shown, lifecycle, visitors, strays>>

\* A driver other than LockstepClient repeats an action it has already sent.
SendStray ==
    /\ cpc = "idle"
    /\ strays < MaxStray
    /\ \E o \in offers : AgentWrites(sock, ActionFrame(o.step, o.action))
    /\ strays' = strays + 1
    /\ UNCHANGED <<serverVars, cpc, sock, known, pending, settled, shown, lifecycle, offers,
                   visitors>>

-----------------------------------------------------------------------------
(* Transport loss, and the visitors *)

\* The connection is lost, or a socket timeout makes the driver give it up.
\* The last connection is kept, or nobody would be left to resume.  "opening"
\* is next_decision before the first observation over this connection.
Lose ==
    /\ sock # NoConn
    /\ cpc # "protocol_error"
    /\ Spare
    /\ (IF cpc = "idle" /\ ~settled THEN "opening" ELSE cpc) \in LossPoints
    /\ AgentDrops(sock)
    /\ sock' = NoConn
    /\ pending' = NoStep
    /\ cpc' = "connect"
    /\ UNCHANGED <<serverVars, known, settled, shown, lifecycle, offers, visitors, strays>>

\* EOFError on a read, or a failing write: the server's end is closed.
FindClosed ==
    /\ sock # NoConn
    /\ cpc # "protocol_error"
    /\ ~ours[sock]
    /\ down[sock] = <<>> \/ cpc \in {"resume", "decide"}
    /\ sock' = NoConn
    /\ pending' = NoStep
    /\ cpc' = "connect"
    /\ UNCHANGED <<netVars, serverVars, known, settled, shown, lifecycle, offers, visitors,
                   strays>>

\* The process is gone and connections are refused.
GiveUp ==
    /\ cpc = "connect"
    /\ ~Running
    /\ cpc' = "done"
    /\ UNCHANGED <<netVars, serverVars, sock, known, pending, settled, shown, lifecycle, offers,
                   visitors, strays>>

\* Another program connects once the session exists: an agent of an earlier
\* server process on this address, with that session's credentials, or a
\* program that writes some other frame.
Visit ==
    /\ pc # "boot"
    /\ Running
    /\ Cardinality(visitors) < MaxVisitors
    /\ \E f \in {ResumeFrame(FALSE), OtherFrame} : Opens(<<f>>)
    /\ visitors' = visitors \cup {opened + 1}
    /\ UNCHANGED <<serverVars, clientVars>>

ServerStep == Server /\ UNCHANGED <<clientVars, visitors>>

Agent ==
    \/ Connect \/ SendResume \/ ReceiveMetadata \/ ReadNext \/ ReadExtension \/ SendAction
    \/ FindClosed \/ GiveUp

Environment == SendStray \/ Lose \/ Visit

Finished == cpc = "done" /\ (\A c \in Conn : ~ours[c]) /\ UNCHANGED vars

Next ==
    \/ ServerStep
    \/ Agent
    \/ Environment
    \/ Finished

Spec == Init /\ [][Next]_vars

\* The server thread runs while it can, and the agent program keeps reading,
\* answering and reconnecting; losses, strays and visitors need not happen.
FairSpec ==
    /\ Spec
    /\ WF_vars(ServerStep)
    /\ WF_vars(Agent)

-----------------------------------------------------------------------------
(* Properties *)

OfferedIn(given, step) == {o.action : o \in {x \in given : x.step = step}}
Offered(step) == OfferedIn(offers, step)

\* Whatever the connections do, the action a decision applies is one the agent
\* wrote for exactly that step, or the default action of a failed exchange:
\* never another step's answer, never a visitor's frame (exchange, act).
AppliedWasAnswered ==
    \A i \in 1..Len(decisions) :
        decisions[i].action \in Offered(decisions[i].step) \cup {DefaultAction}

\* The world is paused at a decision boundary until a matching action arrives:
\* no decision is taken that the agent did not answer (PROTOCOL.md, exchange).
PausedUntilAnswered ==
    \A i \in 1..Len(decisions) : decisions[i].action \in Offered(decisions[i].step)

\* Only the first connection and connections that brought this session's
\* credentials ever carry the session (accept_resume).
OnlyCredentialedAttach == stream \notin visitors

\* The events an agent stores over all its connections have strictly
\* increasing sequence numbers: nothing is repeated or reordered by queueing
\* events while detached (emit_lifecycle, attach).
LifecycleInOrder ==
    \A i, j \in 1..Len(lifecycle) : i < j => lifecycle[i].sequence < lifecycle[j].sequence

\* Resends, resumes and interleaved events never bring LockstepClient a frame
\* it does not expect (next_decision, _receive_metadata raise ProtocolError).
NoProtocolError == cpc # "protocol_error"

SessionEvents == {"SessionAttached", "SessionDetached"}

IsSession(event) == event.kind \in SessionEvents

\* To an agent that loses only established connections, attachment and
\* detachment alternate, starting with an attachment: what comes next after an
\* attachment is a detachment, and nothing else is (attach, exchange).
SessionEventsAlternate ==
    \A j \in 1..Len(lifecycle) : IsSession(lifecycle[j]) =>
        (lifecycle[j].kind = "SessionDetached" <=>
           \E i \in 1..(j - 1) :
              /\ lifecycle[i].kind = "SessionAttached"
              /\ \A k \in (i + 1)..(j - 1) : ~IsSession(lifecycle[k]))

\* Physical deltas chain across resumes: the delta that comes with a decision
\* is taken against the decision shown before it, or the decision is the one
\* already shown (act fixes previous_physical before the exchange).
DeltasChain ==
    [][ReadExtension => LET f == Head(down[sock]) IN f.since = shown \/ f.step = shown]_vars

Turns == INSTANCE LockstepTurns WITH
    Actions <- Action, Pulse <- LAMBDA a : [a EXCEPT !.fabricate = FALSE],
    TicksPerDecision <- PhysicsTicksPerDecision, step <- tick, answers <- Offered(tick),
    action <- held, left <- remaining, applied <- effect

\* The session implements the turn-taking that PROTOCOL.md promises as long as
\* only established connections are lost.
KeepsTurns == Turns!TurnsSpec

\* Losses of established connections, visitors and repeated frames never stop
\* the world: the process runs its decisions and ends (main).
WorldTerminates == <>(pc = "ended")

\* A resume request of the session's own agent is answered, or the agent gives
\* the connection up, or the process ends (accept_resume, PROTOCOL.md).
ResumeAnswered == (cpc = "metadata" /\ known) ~> (cpc # "metadata" \/ ~Running)

-----------------------------------------------------------------------------
(* The inductive invariant behind AppliedWasAnswered and OnlyCredentialedAttach *)

\* A connection in use has been opened; each program counter holds the
\* connection it works on.
ControlOK ==
    /\ stream <= opened /\ cand <= opened /\ sock <= opened
    /\ \A i \in 1..Len(backlog) : backlog[i] <= opened
    /\ pc \in {"extension", "await"} => stream # NoConn
    /\ pc \in {"metadata", "drain", "resume"} => cand # NoConn
    /\ cpc \in {"resume", "metadata", "idle", "extension", "decide"} => sock # NoConn
    /\ cpc = "decide" => pending # NoStep

\* Every action frame on its way was offered for the step it names.
OfferedFrame == {f \in UpFrame : f.kind = "ACTION" => f.action \in Offered(f.step)}
FramesOffered == \A c \in Conn : up[c] \in Seq(OfferedFrame)

\* Visitors are connections of their own, they never bring this session's
\* credentials, and attach never works on one.
StrangerFrame == {f \in UpFrame : ~(f.kind = "RESUME" /\ f.valid)}
VisitorsKept ==
    /\ visitors \subseteq 1..opened
    /\ pc = "boot" => visitors = {}
    /\ sock \notin visitors
    /\ pc \in {"metadata", "drain"} => cand \notin visitors
    /\ \A c \in visitors : up[c] \in Seq(StrangerFrame)

\* Type correctness, control, frames and visitors together with the two safety
\* properties they support: the invariant that every step of the process, the
\* agent and the network preserves.
IInv ==
    /\ TypeOK
    /\ ControlOK
    /\ FramesOffered
    /\ VisitorsKept
    /\ AppliedWasAnswered
    /\ OnlyCredentialedAttach
=============================================================================
