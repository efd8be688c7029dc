---------------------------- MODULE RemoteSystem ----------------------------
(***************************************************************************)
(* The real-time bridge with its client: a program that answers each        *)
(* observation it reads, in the order it reads them and whenever it likes,  *)
(* or leaves it unanswered, and that may close the connection.              *)
(***************************************************************************)
EXTENDS RemoteBridge, FiniteSets

CONSTANTS
    Replies,   \* what the client may answer: entity, command, whether it decodes
    MaxLead    \* steps that an answer may be ahead of its observation

ASSUME ReplyAssumption ==
    /\ Replies \subseteq [entity : Entities, command : Commands, decodes : BOOLEAN]
    /\ MaxLead \in Nat

VARIABLE sent    \* history: the frames the client has written

vars == <<bridgeVars, sent>>

\* Type correctness of the RemoteAgent, its thread, the socket and the client.
TypeOK == BridgeTypeOK /\ sent \subseteq Frame

Init == BridgeInit /\ sent = {}

-----------------------------------------------------------------------------
(* The client *)

Reply(r, step) ==
    [entity |-> r.entity, step |-> step, command |-> r.command, decodes |-> r.decodes]

PartOf(frame, i) == [part |-> i, frame |-> frame]

Written(stream, frame) ==
    Append(Append(Append(stream, PartOf(frame, 1)), PartOf(frame, 2)), PartOf(frame, 3))

Writes(frame) ==
    /\ up' = Written(up, frame)
    /\ sent' = sent \cup {frame}

Answer ==
    /\ client = "open" /\ bpc # "gone" /\ down # <<>>
    /\ down' = Tail(down)
    /\ \E r \in Replies, lead \in 0..MaxLead : Writes(Reply(r, Head(down) + lead))
    /\ UNCHANGED <<worldVars, queued, actions, threadVars, client, debt>>

\* An observation that is never answered: no reply to it will be late.
Skip ==
    /\ client = "open" /\ down # <<>>
    /\ down' = Tail(down)
    /\ debt' = debt - 1
    /\ UNCHANGED <<worldVars, queued, actions, threadVars, client, up, sent>>

\* The client closes; what it wrote last may be lost with a reset.
Close ==
    /\ client = "open"
    /\ client' = "closed"
    /\ down' = <<>>
    /\ \E n \in 0..Len(up) : up' = SubSeq(up, 1, n)
    /\ UNCHANGED <<worldVars, queued, actions, threadVars, debt, sent>>

Client == Answer \/ Skip \/ Close

-----------------------------------------------------------------------------
WorldStep == World /\ UNCHANGED sent
ThreadStep == Thread /\ UNCHANGED sent

Finished == wpc = "over" /\ bpc = "gone" /\ UNCHANGED vars

Next == WorldStep \/ ThreadStep \/ Client \/ Finished

Spec == Init /\ [][Next]_vars

\* The simulation takes its steps; the thread and the client owe nothing.
WorldFairness == WF_vars(WorldStep)

\* The thread runs when its next call can return, and its reads and writes
\* time out; the simulation and the client owe nothing.
ThreadFairness == WF_vars(ThreadStep)

-----------------------------------------------------------------------------
(* Properties *)

\* The commands the client has offered to the controlled entity.
Offers == {[step |-> f.step, command |-> f.command] :
             f \in {g \in sent : g.entity = Own /\ g.decodes}}

Contract == INSTANCE FreshCommands WITH
    Offered <- [step : Nat, command : Commands], Nothing <- NoAction, MaxAge <- MaxActionAge,
    step <- tick, offers <- Offers,
    applied <- [step |-> decided.from, command |-> decided.command]

\* Whatever part of a frame a timeout cuts off, whatever is queued, dropped or
\* late, a step applies a command that the client wrote as one frame, for this
\* entity and for one of the last steps, or nothing (RemoteAgent::act, PROTOCOL.md).
KeepsFresh == Contract!CommandsSpec

\* What the simulation may apply: the actions that reached it, and the last one.
Received == {actions[i] : i \in Taken} \cup {last}

\* A step applies the newest command that has reached the RemoteAgent from a
\* client at most one step ahead: a reply that was delayed never displaces a
\* newer one (act drains the whole queue).
NewestWins == [][Collect => \A a \in Received : IsFresh(a) => decided'.from >= a.step]_vars

\* Replies on their way or still to be written by a client that answers.
Owed ==
    Len(down) + Cardinality({i \in 1..Len(up) : up[i].part = 1})
    + (IF HeadRead(got) THEN 1 ELSE 0)

\* A read that timed out leaves one reply too many in the connection, and the
\* thread never catches up with it: only a reply lost in the middle or an
\* observation left unanswered lowers the debt (RemoteAgent::new).
DebtKept ==
    client = "open" /\ bpc # "gone" => Owed = debt + (IF bpc = "read" THEN 1 ELSE 0)

\* A client that answers every observation is muted by MAX_ACTION_AGE + 1 reads
\* that time out, however fast it has become since: every reply is then read
\* that many observations late (read_frame in RemoteAgent::new, act).
MutedByDebt == decided.from # NoStep => decided.debt <= MaxActionAge + MaxLead

\* The simulation takes all its steps whatever the client and the thread do
\* ("Simulation never waits for a client").
NeverWaits == WorldFairness => <>(wpc = "over")

\* The thread ends once its RemoteAgent is dropped, with a silent client too
\* (recv and the 100 ms timeouts of RemoteAgent::new).
ThreadEnds == ThreadFairness => (agent = "dropped" ~> bpc = "gone")

-----------------------------------------------------------------------------
(* The inductive invariant behind KeepsFresh *)

Follows(p, q) ==
    IF p.part = 3 THEN q.part = 1 ELSE q.part = p.part + 1 /\ q.frame = p.frame

Contiguous(parts) == \A i \in 1..(Len(parts) - 1) : Follows(parts[i], parts[i + 1])

\* The stream is never reordered: what is left to read continues what was read.
\* A payload is waited for after a whole header only, and until it closes the
\* client leaves no frame half written.
StreamOK ==
    /\ Contiguous(up)
    /\ Contiguous(got)
    /\ got # <<>> /\ up # <<>> => Follows(got[Len(got)], up[1])
    /\ Len(got) = 2 => got[1].part = 1
    /\ client = "open" => \/ up # <<>> /\ up[Len(up)].part = 3
                          \/ up = <<>> /\ (got = <<>> \/ got[Len(got)].part = 3)

ControlOK ==
    /\ wpc = "collect" => tick < Steps
    /\ bpc = "write" => held # NoStep

\* Every part comes from a frame the client wrote.
PartsSent ==
    /\ \A i \in 1..Len(up) : up[i].frame \in sent
    /\ \A i \in 1..Len(got) : got[i].frame \in sent

\* An action for the controlled entity, received or remembered, was offered; the
\* remembered one is for a step of the past.
ActionsOffered ==
    /\ \A i \in 1..Len(actions) :
         actions[i].entity = Own =>
             [step |-> actions[i].step, command |-> actions[i].command] \in Offers
    /\ last # NoAction => last \in Offers /\ last.step <= tick

\* Types, control, the stream, the parts and the actions together: what every step of
\* the simulation, the thread and the client preserves.
IInv == TypeOK /\ ControlOK /\ StreamOK /\ PartsSent /\ ActionsOffered
=============================================================================
