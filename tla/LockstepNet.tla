---------------------------- MODULE LockstepNet ----------------------------
(***************************************************************************)
(* The TCP connections between an external agent and `ertw-lockstep`, and   *)
(* the frames that travel on them.  A frame is kept to what the session     *)
(* code distinguishes: its kind, the step it answers or shows, the action,  *)
(* the sequence numbers.  Headers, lengths and JSON text are left out.      *)
(***************************************************************************)
EXTENDS Integers, Sequences

CONSTANTS
    Moves,            \* continuous commands an action can carry (force, torque, clamp, ...)
    NoMove,           \* the command of ActionTensor::default()
    MaxConnections,   \* bound: connections ever opened
    SilentLoss        \* TRUE: an end may vanish without a FIN or a RST reaching the server

ASSUME NetAssumption ==
    /\ NoMove \in Moves
    /\ MaxConnections \in Nat \ {0}
    /\ SilentLoss \in BOOLEAN

Conn == 1..MaxConnections
NoConn == 0
NoStep == -1

-----------------------------------------------------------------------------
(* Actions, lifecycle events and frames *)

Action == [move : Moves, fabricate : BOOLEAN]
DefaultAction == [move |-> NoMove, fabricate |-> FALSE]

LifecycleKind == {"EntityAlive", "EntityDied", "EntityReproduced", "EntityReplaced",
                  "WorldTerminated", "SessionAttached", "SessionDetached"}
Event == [sequence : Nat, kind : LifecycleKind]

\* Frames an agent's end writes.  "OTHER" is any well-formed frame that is
\* neither a resume request nor an action.
ActionFrame(step, action) == [kind |-> "ACTION", step |-> step, action |-> action]
ResumeFrame(valid) == [kind |-> "RESUME", valid |-> valid]
OtherFrame == [kind |-> "OTHER"]
UpFrame == [kind : {"ACTION"}, step : Nat, action : Action]
           \cup [kind : {"RESUME"}, valid : BOOLEAN]
           \cup [kind : {"OTHER"}]

\* Frames the server writes.  `since` is the step the physical delta is taken
\* against, NoStep when the extension carries no delta.
MetadataFrame == [kind |-> "METADATA"]
LifecycleFrame(event) == [kind |-> "LIFECYCLE", event |-> event]
ObservationFrame(step) == [kind |-> "OBSERVATION", step |-> step]
ExtensionFrame(step, sequence, since) ==
    [kind |-> "EXTENSION", step |-> step, sequence |-> sequence, since |-> since]
DownFrame == [kind : {"METADATA"}]
             \cup [kind : {"LIFECYCLE"}, event : Event]
             \cup [kind : {"OBSERVATION"}, step : Nat]
             \cup [kind : {"EXTENSION"}, step : Nat, sequence : Nat, since : Nat \cup {NoStep}]

-----------------------------------------------------------------------------
VARIABLES
    peer,     \* agent's end of each connection, as the server's kernel can know it
    ours,     \* the server process still holds its end (in the backlog or accepted)
    unacked,  \* the server has written bytes that a silent peer never acknowledged
    up,       \* frames on their way to the server
    down,     \* frames on their way to the agent
    backlog,  \* connections the listener has not accepted yet
    opened    \* connections opened so far; the next one has number opened + 1

netVars == <<peer, ours, unacked, up, down, backlog, opened>>

NetTypeOK ==
    /\ peer \in [Conn -> {"unused", "open", "closed", "silent"}]
    /\ ours \in [Conn -> BOOLEAN]
    /\ unacked \in [Conn -> BOOLEAN]
    /\ up \in [Conn -> Seq(UpFrame)]
    /\ down \in [Conn -> Seq(DownFrame)]
    /\ backlog \in Seq(Conn)
    /\ opened \in 0..MaxConnections

NetInit ==
    /\ peer = [c \in Conn |-> "unused"]
    /\ ours = [c \in Conn |-> FALSE]
    /\ unacked = [c \in Conn |-> FALSE]
    /\ up = [c \in Conn |-> <<>>]
    /\ down = [c \in Conn |-> <<>>]
    /\ backlog = <<>>
    /\ opened = 0

-----------------------------------------------------------------------------
(* The agent's end *)

\* connect(2) succeeds as soon as the listener's backlog has room; `frames` is
\* what the connecting program writes at once.
Opens(frames) ==
    LET c == opened + 1 IN
    /\ opened < MaxConnections
    /\ opened' = c
    /\ peer' = [peer EXCEPT ![c] = "open"]
    /\ ours' = [ours EXCEPT ![c] = TRUE]
    /\ up' = [up EXCEPT ![c] = frames]
    /\ backlog' = Append(backlog, c)
    /\ UNCHANGED <<unacked, down>>

AgentWrites(c, f) ==
    /\ ours[c]
    /\ up' = [up EXCEPT ![c] = Append(@, f)]
    /\ UNCHANGED <<peer, ours, unacked, down, backlog, opened>>

AgentReads(c, f) ==
    /\ down[c] # <<>>
    /\ f = Head(down[c])
    /\ down' = [down EXCEPT ![c] = Tail(@)]
    /\ UNCHANGED <<peer, ours, unacked, up, backlog, opened>>

\* The agent's end goes away: unread frames are gone, and a suffix of what it
\* had written may never reach the server (a reset discards it).
AgentDrops(c) ==
    /\ \E end \in IF SilentLoss THEN {"closed", "silent"} ELSE {"closed"} :
         peer' = [peer EXCEPT ![c] = end]
    /\ \E n \in 0..Len(up[c]) : up' = [up EXCEPT ![c] = SubSeq(@, 1, n)]
    /\ down' = [down EXCEPT ![c] = <<>>]
    /\ UNCHANGED <<ours, unacked, backlog, opened>>

-----------------------------------------------------------------------------
(* The server's end *)

Accepts(c) ==
    /\ backlog # <<>>
    /\ c = Head(backlog)
    /\ backlog' = Tail(backlog)
    /\ UNCHANGED <<peer, ours, unacked, up, down, opened>>

\* A write that returns Ok: the kernel took the bytes, whoever is at the far end.
Writes(c, f) ==
    /\ down' = IF peer[c] = "open" THEN [down EXCEPT ![c] = Append(@, f)] ELSE down
    /\ unacked' = [unacked EXCEPT ![c] = @ \/ peer[c] = "silent"]
    /\ UNCHANGED <<peer, ours, up, backlog, opened>>

Reads(c, f) ==
    /\ up[c] # <<>>
    /\ f = Head(up[c])
    /\ up' = [up EXCEPT ![c] = Tail(@)]
    /\ UNCHANGED <<peer, ours, unacked, down, backlog, opened>>

\* The server closes its end; the frames it has not read make the close a
\* reset, which may cost the agent a suffix of what was sent to it.
Releases(c) ==
    /\ ours' = [ours EXCEPT ![c] = FALSE]
    /\ \E n \in 0..Len(down[c]) :
         /\ up[c] = <<>> => n = Len(down[c])
         /\ down' = [down EXCEPT ![c] = SubSeq(@, 1, n)]
    /\ UNCHANGED <<peer, unacked, up, backlog, opened>>

\* One frame is read and the connection, on which nothing was ever written, is
\* dropped.
ReadsAndReleases(c) ==
    /\ up[c] # <<>>
    /\ up' = [up EXCEPT ![c] = Tail(@)]
    /\ ours' = [ours EXCEPT ![c] = FALSE]
    /\ UNCHANGED <<peer, unacked, down, backlog, opened>>

\* A call on the connection fails with an error is_disconnect() recognises:
\* BrokenPipe or ConnectionReset on a write, UnexpectedEof on a read.
WriteBreaks(c) == peer[c] = "closed"
ReadBreaks(c) == peer[c] = "closed" /\ up[c] = <<>>

\* Retransmission gives up and the call fails with ErrorKind::TimedOut; later
\* calls then find a closed connection.  Only unacknowledged bytes time out: a
\* silent peer that owes nothing is never noticed.
Expires(c) == peer[c] = "silent" /\ unacked[c]
TimesOut(c) ==
    /\ Expires(c)
    /\ peer' = [peer EXCEPT ![c] = "closed"]
    /\ UNCHANGED <<ours, unacked, up, down, backlog, opened>>
=============================================================================
